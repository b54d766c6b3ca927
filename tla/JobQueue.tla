------------------------------ MODULE JobQueue ------------------------------
(***************************************************************************)
(* What the daemon's job queue promises, without its file: submitted jobs  *)
(* wait in arrival order, one of them is claimed at a time, and a job      *)
(* leaves the queue after its handler ended.  A job whose daemon died is   *)
(* withdrawn and comes back at the end of the line; between the two it is  *)
(* nowhere in the queue, and a second crash there loses it.                *)
(***************************************************************************)
EXTENDS Sequences

CONSTANTS Jobs, None

VARIABLES
  waiting,     \* jobs in arrival order
  active,      \* the claimed job, or None
  withdrawn,   \* the interrupted job on its way back, or None
  settled      \* jobs whose handler ended

vars == <<waiting, active, withdrawn, settled>>

Init ==
  /\ waiting = <<>>
  /\ active = None
  /\ withdrawn = None
  /\ settled = {}

Submit(j) ==
  /\ waiting' = Append(waiting, j)
  /\ UNCHANGED <<active, withdrawn, settled>>

Claim ==
  /\ active = None
  /\ withdrawn = None
  /\ waiting # <<>>
  /\ active' = Head(waiting)
  /\ waiting' = Tail(waiting)
  /\ UNCHANGED <<withdrawn, settled>>

Run ==
  /\ active # None
  /\ settled' = settled \union {active}
  /\ UNCHANGED <<waiting, active, withdrawn>>

Retire ==
  /\ active \in settled
  /\ active' = None
  /\ UNCHANGED <<waiting, withdrawn, settled>>

Withdraw ==
  /\ active # None
  /\ withdrawn' = active
  /\ active' = None
  /\ UNCHANGED <<waiting, settled>>

Resubmit ==
  /\ withdrawn # None
  /\ waiting' = Append(waiting, withdrawn)
  /\ withdrawn' = None
  /\ UNCHANGED <<active, settled>>

Lose ==
  /\ withdrawn # None
  /\ withdrawn' = None
  /\ UNCHANGED <<waiting, active, settled>>

Next ==
  \/ \E j \in Jobs : Submit(j)
  \/ Claim \/ Run \/ Retire \/ Withdraw \/ Resubmit \/ Lose

Spec == Init /\ [][Next]_vars
=============================================================================
