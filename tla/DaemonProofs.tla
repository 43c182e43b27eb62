---------------------------- MODULE DaemonProofs ----------------------------
(***************************************************************************)
(* Proofs about Daemon for any users, polls, backlog and pids: it          *)
(* implements the modules it is composed of, and with the invariant that   *)
(* HttpServerProofs shows of one of them, no request outlives the daemon   *)
(* it was sent to.                                                         *)
(***************************************************************************)
EXTENDS Daemon, TLAPS

(* The theorems about HttpServer, of the loop of this daemon. *)
Proved == INSTANCE HttpServerProofs WITH port <- Listener, Whole <- 1

(* The daemon is in its loop exactly while it is up. *)
PhaseInv ==
  /\ stage \in [{qwm} -> Life!Stages]
  /\ kind \in [Pids -> Life!Kinds] /\ inherited \in [Pids -> {qwm, "init"}]
  /\ phase = "down" <=> stage[qwm] = "down"

(* Whoever waits for a daemon that is up connected to this one. *)
HereInv ==
  stage[qwm] # "down" =>
    \A c \in Clients : conn[c] \in {"queued", "current"} => c \in here

LEMMA SameLoop ==
  /\ Http!Init <=> Proved!Init
  /\ Http!Next <=> Proved!Next
  /\ Http!vars = Proved!vars
  BY DEF Http!Init, Proved!Init, Http!Next, Proved!Next, Http!vars, Proved!vars,
    Http!Server, Proved!Server, Http!Accept, Proved!Accept,
    Http!Recv, Proved!Recv, Http!Arrived, Proved!Arrived,
    Http!RecvEnds, Proved!RecvEnds, Http!Handle, Proved!Handle,
    Http!Respond, Proved!Respond, Http!AfterHeader, Proved!AfterHeader,
    Http!Drained, Proved!Drained, Http!SendBreaks, Proved!SendBreaks,
    Http!Receives, Proved!Receives, Http!Close, Proved!Close,
    Http!Closed, Proved!Closed, Http!MonitorAnswers, Proved!MonitorAnswers,
    Http!SendKills, Proved!SendKills, Http!Dies, Proved!Dies,
    Http!Drop, Proved!Drop, Http!Queued, Proved!Queued,
    Http!Killed, Proved!Killed, Http!VmEnds, Proved!VmEnds,
    Http!Boot, Proved!Boot, Http!Connects, Proved!Connects,
    Http!Sends, Proved!Sends, Http!Pending, Proved!Pending,
    Http!Leaves, Proved!Leaves, Http!Forgets, Proved!Forgets
-----------------------------------------------------------------------------
(* Every step of the composition is one of ControlPlane, or none. *)
LEMMA LifeStep == [Next]_vars => [Life!Next]_(Life!vars)
<1> SUFFICES ASSUME [Next]_vars PROVE Life!Next \/ UNCHANGED Life!vars
  OBVIOUS
<1> USE DEF Life!Next, Life!vars, life
<1>1. CASE Call
  BY <1>1 DEF Call
<1>2. CASE OtherCall \/ Loop \/ Refused \/ UNCHANGED vars
  BY <1>2 DEF OtherCall, Loop, Refused, vars
<1>3. CASE Boot \/ Die
  BY <1>3 DEF Boot, Die
<1>4. ASSUME NEW p \in Pids, ChildExits(p) \/ Host(p)
      PROVE  Life!Next
  BY <1>4 DEF ChildExits, Host
<1>5. ASSUME NEW c \in Clients,
             Connects(c) \/ Sends(c) \/ Leaves(c) \/ Returns(c) \/ Renders(c)
      PROVE  UNCHANGED Life!vars
  BY <1>5 DEF Connects, Sends, Leaves, Returns, Renders
<1> QED
  BY <1>1, <1>2, <1>3, <1>4, <1>5 DEF Next, Clients

(* A call begins and goes on in a daemon that is up, and leaves it up. *)
LEMMA CallStaysUp ==
  ASSUME PhaseInv, Call
  PROVE  /\ stage[qwm] # "down" /\ stage'[qwm] # "down"
         /\ stage' \in [{qwm} -> Life!Stages]
         /\ kind' \in [Pids -> Life!Kinds] /\ inherited' \in [Pids -> {qwm, "init"}]
<1> USE DEF PhaseInv, Life!hostVars, Life!Return, Life!Stages, Life!Kinds
<1>1. CASE Life!Fork(qwm)
  BY <1>1 DEF Life!Fork, qwm
<1>2. CASE Life!ForkFails(qwm) \/ Life!StopOpensNothing(qwm)
  BY <1>2 DEF Life!ForkFails, Life!StopOpensNothing
<1>3. CASE Life!StopReads(qwm) \/ Life!StopSignals(qwm) \/ Life!StopRemoves(qwm)
  BY <1>3 DEF Life!StopReads, Life!Parses, Life!StopSignals, Life!StopRemoves
<1>4. CASE \/ Life!OpenRecord(qwm) \/ Life!OpenRecordFails(qwm)
           \/ Life!WriteRecord(qwm) \/ Life!RecordLost(qwm)
  BY <1>4 DEF Life!OpenRecord, Life!OpenRecordFails, Life!WriteRecord, Life!RecordLost
<1> QED
  BY <1>1, <1>2, <1>3, <1>4 DEF Call, Life!Continue

(* Every step of the composition is one of HttpServer, or none. *)
LEMMA LoopStep == PhaseInv /\ [Next]_vars => [Http!Next]_(Http!vars)
<1> SUFFICES ASSUME PhaseInv, [Next]_vars PROVE Http!Next \/ UNCHANGED Http!vars
  OBVIOUS
<1> USE DEF Http!vars, loop
<1>1. CASE Call
  <2>1. Listener = "daemon" /\ Listener' = "daemon"
    BY <1>1, CallStaysUp DEF Listener
  <2>2. CASE phase' = "handle"
    BY <1>1, <2>1, <2>2 DEF Call
  <2>3. CASE phase' = "header"
    BY <1>1, <2>1, <2>3 DEF Call, Http!Handle, Http!Server, Http!Next
  <2> QED
    BY <1>1, <2>2, <2>3 DEF Call
<1>2. CASE OtherCall \/ Loop
  BY <1>2 DEF OtherCall, Loop, Http!Next, Http!Server
<1>3. CASE Boot
  <2>1. Listener = "nobody" /\ Listener' = "daemon"
    BY <1>3 DEF Boot, Life!Boot, Life!PortFree, Life!hostVars, Life!Alive,
      Listener, PhaseInv
  <2> QED
    BY <1>3, <2>1 DEF Boot, Life!Boot, PhaseInv, Http!Boot, Http!Next
<1>4. CASE Die
  BY <1>4 DEF Die, Life!Die, PhaseInv, Http!Killed, Http!Next
<1>5. ASSUME NEW p \in Pids, ChildExits(p)
      PROVE  Http!Next \/ UNCHANGED Http!vars
  BY <1>5 DEF ChildExits, Http!Next
<1>6. ASSUME NEW p \in Pids, Host(p) PROVE UNCHANGED Http!vars
  <2>1. stage' = stage /\ inherited' = inherited
    BY <1>6 DEF Host, Life!Exec, Life!StrangerStarts, Life!StrangerExits
  <2>2. \A q \in Pids : Life!Alive(q)' <=> Life!Alive(q)
    BY <1>6 DEF Host, Life!Exec, Life!StrangerStarts, Life!StrangerExits,
      Life!Alive, PhaseInv
  <2>3. Listener' = Listener
    BY <2>1, <2>2 DEF Listener
  <2> QED
    BY <1>6, <2>3 DEF Host
<1>7. ASSUME NEW c \in Clients,
             Connects(c) \/ Sends(c) \/ Leaves(c) \/ Returns(c) \/ Renders(c)
      PROVE  Http!Next
  BY <1>7 DEF Connects, Sends, Leaves, Returns, Renders, Http!Next
<1>8. CASE Refused \/ UNCHANGED vars
  <2>1. Listener' = Listener
    BY <1>8 DEF Refused, vars, life, Listener, Life!Alive
  <2> QED
    BY <1>8, <2>1 DEF Refused, vars
<1> QED
  BY <1>1, <1>2, <1>3, <1>4, <1>5, <1>6, <1>7, <1>8 DEF Next, Clients
-----------------------------------------------------------------------------
LEMMA PhaseStep == PhaseInv /\ [Next]_vars => PhaseInv'
<1> SUFFICES ASSUME PhaseInv, [Next]_vars PROVE PhaseInv'
  OBVIOUS
<1> USE DEF PhaseInv, Life!Stages, Life!Kinds
<1>1. CASE Call
  BY <1>1, CallStaysUp DEF Call
<1>2. CASE OtherCall \/ Loop
  BY <1>2 DEF OtherCall, Loop, life, Http!Handle, Http!Accept, Http!Recv,
    Http!RecvEnds, Http!MonitorAnswers, Http!Respond, Http!AfterHeader,
    Http!Drained, Http!SendBreaks, Http!Close
<1>3. CASE Boot
  BY <1>3 DEF Boot, Life!Boot, Life!hostVars
<1>4. CASE Die
  BY <1>4 DEF Die, Life!Die, Http!Dies
<1>5. ASSUME NEW p \in Pids, ChildExits(p) PROVE PhaseInv'
  <2>1. stage' = stage /\ phase' = phase
    BY <1>5 DEF ChildExits, Life!ChildExits, Http!VmEnds, loop
  <2>2. kind' \in [Pids -> Life!Kinds] /\ inherited' \in [Pids -> {qwm, "init"}]
    BY <1>5 DEF ChildExits, Life!ChildExits, Life!AfterExit
  <2> QED
    BY <2>1, <2>2
<1>6. ASSUME NEW p \in Pids, Host(p) PROVE PhaseInv'
  BY <1>6 DEF Host, Life!Exec, Life!StrangerStarts, Life!StrangerExits, loop
<1>7. ASSUME NEW c \in Clients,
             Connects(c) \/ Sends(c) \/ Leaves(c) \/ Returns(c) \/ Renders(c)
      PROVE  PhaseInv'
  BY <1>7 DEF Connects, Sends, Leaves, Returns, Renders, life, Http!Connects,
    Http!Sends, Http!Leaves, Http!Forgets
<1>8. CASE Refused \/ UNCHANGED vars
  BY <1>8 DEF Refused, vars, life, loop
<1> QED
  BY <1>1, <1>2, <1>3, <1>4, <1>5, <1>6, <1>7, <1>8 DEF Next, Clients

LEMMA HereStep ==
  PhaseInv /\ Proved!IInv /\ HereInv /\ [Next]_vars => HereInv'
<1> SUFFICES ASSUME PhaseInv, Proved!IInv, HereInv, [Next]_vars PROVE HereInv'
  OBVIOUS
<1> USE DEF HereInv
<1>a. conn \in [Clients -> {"none", "queued", "current", "closed"}]
  BY DEF Proved!IInv, Proved!TypeOK
<1>1. CASE Call
  BY <1>1, CallStaysUp DEF Call
<1>2. CASE OtherCall
  BY <1>2 DEF OtherCall, life, Http!Handle
<1>3. CASE Loop
  <2>1. stage' = stage /\ here' = here
    BY <1>3 DEF Loop, life
  <2>2. CASE Http!Accept
    <3>1. Head(backlog) \in Clients /\ conn[Head(backlog)] = "queued"
      BY <2>2 DEF Http!Accept, Proved!IInv, Proved!TypeOK, Proved!QueueMatches,
        Proved!Queued
    <3> QED
      BY <1>a, <2>1, <2>2, <3>1 DEF Http!Accept
  <2>3. CASE Http!Close
    BY <1>a, <2>1, <2>3 DEF Http!Close, Http!Closed
  <2>4. CASE \/ Http!Recv \/ Http!RecvEnds \/ Http!MonitorAnswers
             \/ Http!Respond \/ Http!Drained \/ Http!SendBreaks
    BY <2>1, <2>4 DEF Http!Recv, Http!RecvEnds, Http!MonitorAnswers,
      Http!Respond, Http!Drained, Http!SendBreaks
  <2> QED
    BY <1>3, <2>2, <2>3, <2>4 DEF Loop
<1>4. CASE Boot
  <2>1. Listener = "nobody" /\ phase = "down"
    BY <1>4 DEF Boot, Life!Boot, Life!PortFree, Life!Alive, Listener, PhaseInv
  <2>2. \A c \in Clients : conn[c] \notin {"queued", "current"}
    BY <2>1, DaemonAssumption DEF Proved!IInv, Proved!CurInv, Proved!PortInv,
      Proved!QueueMatches, Proved!Queued
  <2> QED
    BY <1>4, <2>2 DEF Boot
<1>5. CASE Die
  BY <1>5 DEF Die, Life!Die, PhaseInv
<1>6. ASSUME NEW p \in Pids, ChildExits(p) PROVE HereInv'
  BY <1>6 DEF ChildExits, Life!ChildExits, loop, Http!VmEnds, Http!Drop
<1>7. ASSUME NEW p \in Pids, Host(p) PROVE HereInv'
  BY <1>7 DEF Host, Life!Exec, Life!StrangerStarts, Life!StrangerExits, loop
<1>8. ASSUME NEW c \in Clients, Connects(c) PROVE HereInv'
  <2>1. stage[qwm] # "down" => here' = here \cup {c}
    BY <1>8 DEF Connects, Listener
  <2> QED
    BY <1>8, <1>a, <2>1 DEF Connects, life, Http!Connects
<1>9. ASSUME NEW c \in Clients, Returns(c) \/ Renders(c) PROVE HereInv'
  BY <1>9, <1>a DEF Returns, Renders, life, Http!Forgets
<1>10. ASSUME NEW c \in Clients, Sends(c) \/ Leaves(c) PROVE HereInv'
  BY <1>10 DEF Sends, Leaves, life, Http!Sends, Http!Leaves
<1>11. CASE Refused \/ UNCHANGED vars
  BY <1>11 DEF Refused, vars, life, loop
<1> QED
  BY <1>1, <1>2, <1>3, <1>4, <1>5, <1>6, <1>7, <1>8, <1>9, <1>10, <1>11
  DEF Next, Clients
-----------------------------------------------------------------------------
(* Composed, the loop is still HttpServer and the calls ControlPlane, for  *)
(* any users, polls, backlog and pids.                                     *)
THEOREM Composition == Spec => ImplementsParts
<1>1. Init => PhaseInv
  BY DEF Init, Life!Init, Http!Init, PhaseInv, Life!Stages, Life!Kinds
<1>2. Init => Life!Init /\ Http!Init
  BY DEF Init
<1> QED
  BY <1>1, <1>2, PhaseStep, LifeStep, LoopStep, PTL
  DEF Spec, ImplementsParts, Life!Spec, Http!Spec

(* No request is carried out by another life of the daemon than the one    *)
(* its client connected to: what a dead daemon leaves in the backlog, or   *)
(* is queued while only VMs hold the port, is reset before the next boots. *)
THEOREM RequestSafety == Spec => []NoStaleRequest
<1>1. Init => PhaseInv
  BY DEF Init, Life!Init, Http!Init, PhaseInv, Life!Stages, Life!Kinds
<1>2. Init => HereInv
  BY DEF Init, Life!Init, HereInv
<1>0. Proved!ServerAssumption
  BY DaemonAssumption DEF Proved!ServerAssumption
<1>3. Init => Proved!IInv
  <2>1. Proved!Init => Proved!IInv
    BY <1>0, Proved!InitIInv
  <2> QED
    BY <2>1, SameLoop DEF Init
<1>4. PhaseInv /\ Proved!IInv /\ [Next]_vars => Proved!IInv'
  <2>1. Proved!IInv /\ [Proved!Next]_(Proved!vars) => Proved!IInv'
    BY <1>0, Proved!NextIInv
  <2>2. PhaseInv /\ [Next]_vars => Http!Next \/ UNCHANGED Http!vars
    BY LoopStep
  <2>3. Http!Next \/ UNCHANGED Http!vars => [Proved!Next]_(Proved!vars)
    BY SameLoop DEF Http!vars, Proved!vars
  <2> QED
    BY <2>1, <2>2, <2>3
<1>5. PhaseInv /\ Proved!IInv /\ HereInv => NoStaleRequest
  BY DaemonAssumption DEF PhaseInv, Proved!IInv, Proved!CurInv,
    Proved!QueueMatches, HereInv, NoStaleRequest
<1> QED
  BY <1>1, <1>2, <1>3, <1>4, <1>5, PhaseStep, HereStep, PTL DEF Spec
=============================================================================
