------------------------- MODULE MCMissionExecution -------------------------
EXTENDS MissionExecution

CONSTANTS run1, resume1, job1, pause1, boot1, decide1, plan1

SecondNode == {2}

(* The commands a user, the daemon and the cockpit may run at once.        *)
Pairs ==
  {{resume1, decide1}, {resume1, pause1}, {pause1, decide1}, {run1, boot1},
   {resume1, plan1}}
=============================================================================
