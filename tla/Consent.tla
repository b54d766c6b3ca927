------------------------------ MODULE Consent ------------------------------
(***************************************************************************)
(* What the approval gate promises the person who is asked: a gated action *)
(* waits for a ruling, the ruling is given once and stands, and the action *)
(* is performed only after it was approved, and not again once it has been *)
(* performed and reported as done.  A performance that is reported as a    *)
(* failure is disowned: the action may be tried again.                     *)
(***************************************************************************)
EXTENDS Naturals

CONSTANTS Actions

VARIABLES
  decision,    \* what is on record for each gated action
  performed,   \* how often it has been performed
  disowned     \* how many of these performances were reported as failures

vars == <<decision, performed, disowned>>

Init ==
  /\ decision = [a \in Actions |-> "absent"]
  /\ performed = [a \in Actions |-> 0]
  /\ disowned = [a \in Actions |-> 0]

Ask(a) ==
  /\ decision[a] = "absent"
  /\ decision' = [decision EXCEPT ![a] = "pending"]
  /\ UNCHANGED <<performed, disowned>>

Rule(a) ==
  /\ decision[a] = "pending"
  /\ \E r \in {"approved", "denied"} : decision' = [decision EXCEPT ![a] = r]
  /\ UNCHANGED <<performed, disowned>>

Perform(a) ==
  /\ decision[a] = "approved"
  /\ performed[a] = disowned[a]
  /\ performed' = [performed EXCEPT ![a] = @ + 1]
  /\ \/ UNCHANGED disowned
     \/ disowned' = [disowned EXCEPT ![a] = @ + 1]
  /\ UNCHANGED decision

Next == \E a \in Actions : Ask(a) \/ Rule(a) \/ Perform(a)

Spec == Init /\ [][Next]_vars
=============================================================================
