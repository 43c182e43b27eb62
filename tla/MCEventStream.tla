--------------------------- MODULE MCEventStream ----------------------------
(* The instance of EventStream that TLC checks. *)
EXTENDS EventStream

CONSTANTS t1, t2, c1, c2

TwoThreads == {t1, t2}
TwoClients == {c1, c2}
=============================================================================
