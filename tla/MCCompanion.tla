----------------------------- MODULE MCCompanion -----------------------------
(* Three commands or chat turns, one after another or two of them          *)
(* overlapping, a memory and a proposal of the earlier release, one death. *)
EXTENDS Companion, TLC

CONSTANTS c1, c2, c3, o1, q1
MCCalls == {c1, c2, c3}
MCOldItems == {o1}
MCOldProposals == {q1}
Symmetry == Permutations(MCCalls)
=============================================================================
