---------------------------- MODULE MCDaemonLock ----------------------------
(* Instances of DaemonLock for TLC. *)
EXTENDS DaemonLock

CONSTANTS p1, p2, p3, p4

Four == {p1, p2, p3, p4}
=============================================================================
