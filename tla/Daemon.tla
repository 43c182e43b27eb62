------------------------------- MODULE Daemon -------------------------------
(***************************************************************************)
(* The daemon as its users meet it: the loop of server_run (HttpServer)    *)
(* running the calls of control.c (ControlPlane), over one process table   *)
(* in which every VM also holds the listening socket; and the dashboard's  *)
(* refreshHealth, whose polls are requests of their own and may be         *)
(* rendered in any order.                                                  *)
(*                                                                         *)
(* The loop is stuck in a call until the call returns; a death ends both;  *)
(* what a client finds at the port follows from the process table.         *)
(***************************************************************************)
EXTENDS Naturals, Sequences

CONSTANTS
  Users,      \* clients that start, stop and query
  Polls,      \* connections of the dashboard's health polls
  Backlog,    \* the queue length given to listen
  Pids,       \* the process identifiers the host can assign
  MaxDeaths   \* bound: how many times the daemon is killed

Clients == Users \cup Polls

ASSUME DaemonAssumption ==
  /\ Backlog \in Nat \ {0} /\ "nobody" \notin Clients
  /\ Pids \cap {"none", "absent", "empty"} = {} /\ MaxDeaths \in Nat

qwm == "qwm"

VARIABLES
  stage, held, answer, pidfile,                \* the call, see ControlPlane
  kind, parent, inherited, sigterm, deaths,    \* the host, see ControlPlane
  phase, cur, backlog, taken,                  \* the loop, see HttpServer
  conn, gone, asked, seen,                     \* its clients, see HttpServer
  here,      \* clients that connected to the life of the daemon that is up
  badge      \* stateBadge.textContent of the dashboard

life == <<stage, held, answer, pidfile, kind, parent, inherited, sigterm, deaths>>
loop == <<phase, cur, backlog, taken, conn, gone, asked, seen>>
vars == <<life, loop, here, badge>>

Life == INSTANCE ControlPlane WITH Daemons <- {qwm}, port <- inherited

(* Who has the listening socket. *)
Listener ==
  IF stage[qwm] # "down" THEN "daemon"
  ELSE IF \E p \in Pids : Life!Alive(p) /\ inherited[p] = qwm THEN "vm"
  ELSE "nobody"

(* A request arrives whole: split ones are left to HttpServer. *)
Http == INSTANCE HttpServer WITH port <- Listener, Whole <- 1

Init ==
  /\ Life!Init /\ Http!Init
  /\ here = {} /\ badge = "OFFLINE"
-----------------------------------------------------------------------------
(* A poll is one health request; only users ask for more. *)
Call ==
  /\ phase = "handle" /\ cur \in Users
  /\ \/ Life!Fork(qwm) \/ Life!ForkFails(qwm)
     \/ Life!StopOpensNothing(qwm) \/ Life!StopReads(qwm)
     \/ Life!Continue(qwm)
  /\ phase' = IF stage'[qwm] = "idle" THEN "header" ELSE "handle"
  /\ UNCHANGED <<cur, backlog, taken, conn, gone, asked, seen, here, badge>>

(* Every other request, and the loop around the handlers. *)
OtherCall ==
  /\ stage[qwm] = "idle"
  /\ UNCHANGED <<life, here, badge>>
  /\ Http!Handle
  /\ cur \in Polls => phase' = "header"

(* The loop; the answer to a poll is short, and fits. *)
Loop ==
  /\ UNCHANGED <<life, here, badge>>
  /\ \/ Http!Accept \/ Http!Recv \/ Http!RecvEnds
     \/ Http!MonitorAnswers \/ Http!Respond \/ Http!Drained
     \/ Http!SendBreaks \/ Http!Close
  /\ cur \in Polls => phase' # "full"

Boot ==
  /\ Life!Boot(qwm)
  /\ phase' = "accept"
  /\ UNCHANGED <<cur, backlog, taken, conn, gone, asked, seen, here, badge>>

Die ==
  /\ Life!Die(qwm)
  /\ Http!Dies
  /\ here' = {}
  /\ UNCHANGED badge

(* Nobody but its last holder takes the socket along. *)
ChildExits(p) ==
  /\ Life!ChildExits(p)
  /\ \/ Listener' = Listener /\ UNCHANGED loop
     \/ Http!VmEnds
  /\ UNCHANGED <<here, badge>>

Host(p) ==
  /\ Life!Exec(p) \/ Life!StrangerStarts(p) \/ Life!StrangerExits(p)
  /\ UNCHANGED <<loop, here, badge>>
-----------------------------------------------------------------------------
Connects(c) ==
  /\ UNCHANGED <<life, badge>>
  /\ Http!Connects(c)
  /\ here' = IF Listener = "daemon" THEN here \cup {c} ELSE here

Sends(c) == UNCHANGED <<life, here, badge>> /\ Http!Sends(c)

(* A user may give up, and come again.  The page stays open. *)
Leaves(c) == UNCHANGED <<life, here, badge>> /\ Http!Leaves(c)

Returns(c) ==
  /\ UNCHANGED <<life, badge>>
  /\ Http!Forgets(c)
  /\ here' = here \ {c}

(* refreshHealth, the rest of it once the fetch has settled. *)
Renders(c) ==
  /\ UNCHANGED life
  /\ Http!Forgets(c)
  /\ badge' = IF seen[c] = "answer" THEN "RUNNING" ELSE "OFFLINE"
  /\ here' = here \ {c}

(* A seeded bug: the catch block does not touch the badge. *)
Bug_Refused ==
  /\ Listener = "nobody"
  /\ UNCHANGED vars

(* Where nobody listens a poll fails at once. *)
Refused ==
  /\ Listener = "nobody"
  /\ badge' = "OFFLINE"
  /\ UNCHANGED <<life, loop, here>>
-----------------------------------------------------------------------------
Next ==
  \/ Call \/ OtherCall \/ Loop \/ Boot \/ Die \/ Refused
  \/ \E p \in Pids : ChildExits(p) \/ Host(p)
  \/ \E c \in Clients : Connects(c) \/ Sends(c)
  \/ \E c \in Users : Leaves(c) \/ Returns(c)
  \/ \E c \in Polls : Renders(c)

Spec == Init /\ [][Next]_vars

(* The page polls every five seconds and renders every poll that settles. *)
FairSpec ==
  /\ Spec
  /\ WF_vars(Refused)
  /\ \A c \in Polls : WF_vars(Renders(c))
-----------------------------------------------------------------------------
(* Composed, the loop is still HttpServer and the calls ControlPlane: a    *)
(* handler that takes many steps, a death within it and sockets that       *)
(* children take over are nothing either of them excludes.                 *)
ImplementsParts == Life!Spec /\ Http!Spec

(* A request is carried out only by the daemon its client connected to: of *)
(* what waits when a daemon dies, or comes while only its VMs hold the     *)
(* port, nothing is ever accepted by a later life.                         *)
NoStaleRequest == \A c \in Clients : conn[c] = "current" => c \in here

(* Once the daemon is gone for good and no VM holds its port, the badge    *)
(* ends at OFFLINE, however late older answers are rendered.               *)
PageNotices == <>[](Listener = "nobody") => <>[](badge = "OFFLINE")
=============================================================================
