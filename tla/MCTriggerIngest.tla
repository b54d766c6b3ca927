-------------------------- MODULE MCTriggerIngest --------------------------
(* Instances of TriggerIngest for TLC. *)
EXTENDS TriggerIngest, TLC

CONSTANTS e1, e2, e3, e4, k1, k2, k3

FourEvents == {e1, e2, e3, e4}
ThreeKeys == {k1, k2, k3}

(* Events are alike, and so are keys. *)
Alike == Permutations(FourEvents) \union Permutations(ThreeKeys)
=============================================================================
