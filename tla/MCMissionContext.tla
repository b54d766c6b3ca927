-------------------------- MODULE MCMissionContext --------------------------
EXTENDS MissionContext

CONSTANTS c1, c2, c3, c4

MCBytes == [t \in Contents |-> IF t = "short" THEN 4 ELSE 5]
MCHits == [t \in Contents |-> IF t = "long" THEN 1 ELSE 0]
MCRemembered == {[id |-> 1, text |-> "short", sens |-> "sensitive"]}
MCCommitted == [f \in {1} |-> "short"]
MCDisks == {[f \in Files |-> "short"], [f \in Files |-> IF f = 1 THEN "short" ELSE "long"]}
MCDiets == {[stale |-> "warn", mode |-> "full", notes |-> TRUE, memory |-> TRUE],
            [stale |-> "omit", mode |-> "diff", notes |-> FALSE, memory |-> TRUE]}
MCCallSymmetry == Permutations(Calls)
=============================================================================
