---------------------------- MODULE MCHttpServer ----------------------------
(* The instances of HttpServer that TLC checks. *)
EXTENDS HttpServer

CONSTANTS c1, c2, c3

ThreeClients == {c1, c2, c3}
=============================================================================
