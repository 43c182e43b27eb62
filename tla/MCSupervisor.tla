---------------------------- MODULE MCSupervisor ----------------------------
(* The instances of Supervisor that TLC checks. *)
EXTENDS Supervisor

CONSTANTS p1, p2, t1, t2

TwoProcs   == {p1, p2}
TwoStops   == {t1, t2}
=============================================================================
