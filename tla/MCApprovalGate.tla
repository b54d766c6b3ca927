--------------------------- MODULE MCApprovalGate ---------------------------
EXTENDS ApprovalGate, TLC

CONSTANTS a1, a2, d1, d2, e1

TwoRequests == {a1, a2}
TwoDeciders == {d1, d2}
OneResume == {e1}

(* Requests are alike and so are deciders.                                 *)
Alike == Permutations(TwoRequests) \union Permutations(TwoDeciders)
=============================================================================
