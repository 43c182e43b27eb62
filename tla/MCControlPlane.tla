--------------------------- MODULE MCControlPlane ---------------------------
(* The instances of ControlPlane that TLC checks. *)
EXTENDS ControlPlane, TLC

CONSTANTS d1, d2, p1, p2, p3

OneDaemon  == {d1}
TwoDaemons == {d1, d2}
TwoPids    == {p1, p2}
ThreePids  == {p1, p2, p3}

(* Pids are interchangeable: nothing compares or orders them.  Used only by *)
(* runs without liveness properties.                                        *)
PidSymmetry == Permutations(Pids)
=============================================================================
