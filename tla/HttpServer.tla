----------------------------- MODULE HttpServer -----------------------------
(***************************************************************************)
(* server_run: one thread accepts a connection, reads from it once, runs   *)
(* the handler, sends a header and a body, and closes.  Its clients and    *)
(* the TCP of the host are external: the queue of connections not yet      *)
(* accepted, requests that arrive in two pieces, clients that leave or do  *)
(* not read, and the listening socket, which a VM forked by ctl_start also *)
(* holds.                                                                  *)
(*                                                                         *)
(* What the handler computes is left out; what matters here is whether it  *)
(* comes back, for a handler that talks to a monitor waits for its answer, *)
(* and whether its answer fits in the buffers of the connection, for send  *)
(* waits until it does.                                                    *)
(***************************************************************************)
EXTENDS Naturals, Sequences

CONSTANTS
  Clients,   \* connections that may exist at a time, one per client
  Backlog,   \* the queue length given to listen
  Whole      \* bound: the pieces a request may arrive in

ASSUME ServerAssumption ==
  /\ Backlog \in Nat \ {0} /\ Whole \in Nat \ {0}
  /\ "nobody" \notin Clients

VARIABLES
  phase,     \* where the loop of server_run is; down once killed
  cur,       \* the client of the accepted connection
  port,      \* who holds the listening socket: daemon, a VM, nobody
  backlog,   \* connections not yet accepted
  conn,      \* each client's connection
  gone,      \* clients that have closed or reset their end
  asked,     \* pieces of each client's request that have arrived
  taken,     \* pieces of the current request that recv returned
  seen       \* what each client has received

vars == <<phase, cur, port, backlog, conn, gone, asked, taken, seen>>

Phases == {"down", "accept", "recv", "handle", "monitor", "header", "body",
           "full", "close"}

TypeOK ==
  /\ phase \in Phases
  /\ cur \in Clients \cup {"nobody"}
  /\ port \in {"daemon", "vm", "nobody"}
  /\ backlog \in Seq(Clients) /\ Len(backlog) <= Backlog
  /\ conn \in [Clients -> {"none", "queued", "current", "closed"}]
  /\ gone \in SUBSET Clients
  /\ asked \in [Clients -> 0..Whole]
  /\ taken \in 0..Whole
  /\ seen \in [Clients -> {"nothing", "header", "answer", "reset"}]

Init ==
  /\ phase = "down" /\ cur = "nobody" /\ port = "nobody" /\ backlog = <<>>
  /\ conn = [c \in Clients |-> "none"] /\ gone = {}
  /\ asked = [c \in Clients |-> 0] /\ taken = 0
  /\ seen = [c \in Clients |-> "nothing"]
-----------------------------------------------------------------------------
(* An accept that fails changes nothing, and is tried again. *)
Accept ==
  /\ phase = "accept" /\ backlog # <<>>
  /\ phase' = "recv" /\ cur' = Head(backlog) /\ backlog' = Tail(backlog)
  /\ conn' = [conn EXCEPT ![Head(backlog)] = "current"]
  /\ taken' = 0
  /\ UNCHANGED <<port, gone, asked, seen>>

(* A seeded bug: one piece more than has arrived is taken. *)
Bug_Arrived == asked[cur] + 1

Arrived == asked[cur]

(* The one recv of a request: what has arrived, or the first 8191 bytes.  *)
(* Of a split or long request only the first piece is ever looked at.     *)
Recv ==
  /\ phase = "recv"
  /\ taken' \in 1..Arrived
  /\ phase' = "handle"
  /\ UNCHANGED <<cur, port, backlog, conn, gone, asked, seen>>

(* A seeded bug: recv's 0 is taken for "try again". *)
Bug_RecvEnds ==
  /\ phase = "recv" /\ cur \in gone
  /\ UNCHANGED vars

(* recv returns 0 or an error: nothing is answered. *)
RecvEnds ==
  /\ phase = "recv" /\ cur \in gone
  /\ phase' = "close"
  /\ UNCHANGED <<cur, port, backlog, conn, gone, asked, taken, seen>>

(* serve: a file, or a handler, which for some routes calls a monitor. *)
Handle ==
  /\ phase = "handle"
  /\ phase' \in {"header", "monitor"}
  /\ UNCHANGED <<cur, port, backlog, conn, gone, asked, taken, seen>>

MonitorAnswers ==
  /\ phase = "monitor"
  /\ phase' = "header"
  /\ UNCHANGED <<cur, port, backlog, conn, gone, asked, taken, seen>>

(* A seeded bug: one send, the header's, is all that response() makes. *)
Bug_AfterHeader == "close"

AfterHeader == "body"

Receives(what) == seen' = IF cur \in gone THEN seen ELSE [seen EXCEPT ![cur] = what]

(* response: the header, then the body unless it is empty.  A body of any  *)
(* length goes into one send, and what does not fit has to wait.  The      *)
(* results of the sends are not looked at.                                 *)
Respond ==
  /\ \/ phase = "header" /\ phase' = AfterHeader /\ Receives("header")
     \/ phase \in {"header", "body"} /\ phase' = "close" /\ Receives("answer")
     \/ phase = "body" /\ phase' = "full" /\ UNCHANGED seen
  /\ UNCHANGED <<cur, port, backlog, conn, gone, asked, taken>>

(* The client has read so much that the rest fits; nobody makes it read. *)
Drained ==
  /\ phase = "full" /\ cur \notin gone
  /\ phase' = "close" /\ Receives("answer")
  /\ UNCHANGED <<cur, port, backlog, conn, gone, asked, taken>>

(* The client has left: the send that waits comes back with an error. *)
SendBreaks ==
  /\ phase = "full" /\ cur \in gone
  /\ phase' = "close"
  /\ UNCHANGED <<cur, port, backlog, conn, gone, asked, taken, seen>>

(* A seeded bug: the connection is never closed. *)
Bug_Closed == conn

Closed == [conn EXCEPT ![cur] = "closed"]

(* Closing a socket with unread bytes resets the connection; the client    *)
(* may lose what it had not read yet.                                      *)
Close ==
  /\ phase = "close"
  /\ phase' = "accept" /\ cur' = "nobody"
  /\ conn' = Closed
  /\ \/ seen' = seen
     \/ asked[cur] > taken /\ seen' = [seen EXCEPT ![cur] = "reset"]
  /\ UNCHANGED <<port, backlog, gone, asked, taken>>

(* The connections in S end without the server's doing. *)
Drop(S) ==
  /\ conn' = [c \in Clients |-> IF c \in S THEN "closed" ELSE conn[c]]
  /\ seen' = [c \in Clients |-> IF c \in S THEN "reset" ELSE seen[c]]

Queued == {c \in Clients : conn[c] = "queued"}

(* The daemon is no more.  A VM that runs keeps the listening socket, and *)
(* with it the backlog.                                                   *)
Dies ==
  /\ phase' = "down" /\ cur' = "nobody" /\ taken' = 0
  /\ \/ port' = "vm" /\ Drop({cur}) /\ UNCHANGED backlog
     \/ port' = "nobody" /\ Drop(Queued \cup {cur}) /\ backlog' = <<>>
  /\ UNCHANGED <<gone, asked>>

(* A send to a client that has left, or to a monitor that has, raises      *)
(* SIGPIPE once the connection is known to be broken; nobody handles or    *)
(* ignores it.                                                             *)
SendKills ==
  /\ \/ phase = "monitor"
     \/ phase \in {"header", "body", "full"} /\ cur \in gone
  /\ Dies

(* Any other signal: the daemon handles none. *)
Killed == phase # "down" /\ Dies

(* The last VM that holds the socket ends; the kernel resets the backlog. *)
VmEnds ==
  /\ port = "vm"
  /\ port' = "nobody" /\ Drop(Queued) /\ backlog' = <<>>
  /\ UNCHANGED <<phase, cur, gone, asked, taken>>

Boot ==
  /\ phase = "down" /\ port = "nobody"
  /\ phase' = "accept" /\ port' = "daemon"
  /\ UNCHANGED <<cur, backlog, conn, gone, asked, taken, seen>>
-----------------------------------------------------------------------------
(* The clients. *)
Pending(c) == conn[c] \in {"queued", "current"}

Connects(c) ==
  /\ conn[c] = "none" /\ port # "nobody" /\ Len(backlog) < Backlog
  /\ conn' = [conn EXCEPT ![c] = "queued"]
  /\ backlog' = Append(backlog, c)
  /\ UNCHANGED <<phase, cur, port, gone, asked, taken, seen>>

Sends(c) ==
  /\ Pending(c) /\ c \notin gone /\ asked[c] < Whole
  /\ asked' = [asked EXCEPT ![c] = @ + 1]
  /\ UNCHANGED <<phase, cur, port, backlog, conn, gone, taken, seen>>

Leaves(c) ==
  /\ Pending(c) /\ c \notin gone
  /\ gone' = gone \cup {c}
  /\ UNCHANGED <<phase, cur, port, backlog, conn, asked, taken, seen>>

(* A closed connection is forgotten; the client may come again. *)
Forgets(c) ==
  /\ conn[c] = "closed"
  /\ conn' = [conn EXCEPT ![c] = "none"]
  /\ gone' = gone \ {c}
  /\ asked' = [asked EXCEPT ![c] = 0]
  /\ seen' = [seen EXCEPT ![c] = "nothing"]
  /\ UNCHANGED <<phase, cur, port, backlog, taken>>
-----------------------------------------------------------------------------
Server ==
  Accept \/ Recv \/ RecvEnds \/ Handle \/ Respond \/ SendBreaks \/ Close

Next ==
  \/ Server \/ MonitorAnswers \/ Drained \/ SendKills \/ Killed \/ VmEnds \/ Boot
  \/ \E c \in Clients : Connects(c) \/ Sends(c) \/ Leaves(c) \/ Forgets(c)

Spec == Init /\ [][Next]_vars

(* The loop goes on whenever it can, and accept does not fail for ever.    *)
(* No client owes a request or a read, no monitor an answer, and nobody    *)
(* restarts a daemon.                                                      *)
FairSpec == Spec /\ WF_vars(Server)
-----------------------------------------------------------------------------
(* The backlog and the accepted connection are exactly the connections of  *)
(* clients that wait, each once, across deaths and inherited sockets.      *)
QueueMatches ==
  /\ Queued = {backlog[i] : i \in 1..Len(backlog)}
  /\ \A i, j \in 1..Len(backlog) : backlog[i] = backlog[j] => i = j
  /\ {c \in Clients : conn[c] = "current"} = {cur} \ {"nobody"}

(* When the loop closes on a client that is still there and has asked for  *)
(* something, that client has a whole answer, never a header alone; it may *)
(* lose it only if part of its request was never read.                     *)
CloseStep ==
  \A c \in Clients :
    /\ conn[c] = "current" /\ conn'[c] = "closed" /\ phase' # "down"
    /\ c \notin gone
    => \/ seen'[c] = "answer"
       \/ seen'[c] = "reset" /\ taken < Whole

AnswerOnClose == [][CloseStep]_vars

(* The client or the monitor the loop waits for. *)
Holds(c) ==
  /\ cur = c
  /\ \/ phase = "recv" /\ asked[c] = 0 /\ c \notin gone
     \/ phase = "monitor"
     \/ phase = "full" /\ c \notin gone

(* No client waits for ever, unless the daemon dies or one connection, the *)
(* same from some point on, holds the loop for ever: by its silence, by    *)
(* that of its monitor, or by not reading an answer that does not fit.     *)
WaitsOnlyBehindSilence ==
  \A c \in Clients :
    Pending(c) ~> \/ ~Pending(c)
                  \/ phase = "down"
                  \/ \E e \in Clients : []Holds(e)
=============================================================================
