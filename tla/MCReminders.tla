---------------------------- MODULE MCReminders ----------------------------
EXTENDS Reminders

CONSTANTS r1, r2, r3, t1, t2
=============================================================================
