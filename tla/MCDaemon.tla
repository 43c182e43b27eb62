------------------------------ MODULE MCDaemon ------------------------------
(* The instance of Daemon that TLC checks. *)
EXTENDS Daemon

CONSTANTS u1, h1, p1, p2

OneUser == {u1}
OnePoll == {h1}
TwoPids == {p1, p2}
=============================================================================
