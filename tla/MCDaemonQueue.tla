--------------------------- MODULE MCDaemonQueue ---------------------------
(* Instances of DaemonQueue for TLC. *)
EXTENDS DaemonQueue

CONSTANTS c1, c2, c3, t1, t2

ManyCalls == {c1, c2, c3}
Served == {c1, c2}
Timed == {c1}
OneTick == {t1}
TwoTicks == {t1, t2}
=============================================================================
