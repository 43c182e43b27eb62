------------------------- MODULE ControlPlaneProofs -------------------------
(***************************************************************************)
(* Proofs about ControlPlane for any daemons, any pids and any number of   *)
(* deaths.  One inductive invariant carries all of them; its conjuncts say *)
(* in turn what is known of inherited sockets, of the pid a start holds or *)
(* has answered, and of the record when a single daemon uses it.           *)
(***************************************************************************)
EXTENDS ControlPlane, TLAPS

(* A live child listens on the port of the daemon that forked it; once     *)
(* that daemon is dead, it stays down until the child has ended.           *)
PortInv ==
  \A p \in Pids : Alive(p) =>
    /\ port[p] \in Daemons
    /\ \/ parent[p] = port[p]
       \/ parent[p] = "init" /\ stage[port[p]] = "down"

(* The pid a start holds is that of a child it can still wait for; that of *)
(* a stop is merely a pid.                                                 *)
HeldInv ==
  \A d \in Daemons :
    /\ stage[d] \in {"forked", "opened", "detached"} =>
         held[d] \in Pids /\ Child(held[d]) /\ parent[held[d]] = d
    /\ stage[d] = "read" => held[d] \in Pids

OwnChild(p) == Child(p) /\ parent[p] \in Daemons

(* With one daemon: the record stays as truncated until it is written, a   *)
(* stop works on the record as it still is, and what it is about to remove *)
(* has been signalled.                                                     *)
RecordInv ==
  SingleDaemon => \A d \in Daemons :
    /\ stage[d] = "opened" => pidfile = "empty"
    /\ stage[d] = "read" => held[d] = pidfile
    /\ stage[d] = "remove" /\ pidfile \in Pids /\ Alive(pidfile)
         => pidfile \in sigterm

(* With one daemon that was never killed: the record names a child of it. *)
OwnedInv ==
  SingleDaemon /\ deaths = 0 => (pidfile \in Pids => OwnChild(pidfile))

IInv ==
  TypeOK /\ PortInv /\ HeldInv /\ AnsweredPidStable /\ RecordInv /\ OwnedInv
-----------------------------------------------------------------------------
LEMMA InitIInv == Init => IInv
<1> SUFFICES ASSUME Init PROVE IInv
  OBVIOUS
<1> USE ConstantsAssumption DEF Init
<1>1. TypeOK
  BY DEF TypeOK, Stages, Kinds
<1>2. PortInv
  BY DEF PortInv, Alive
<1>3. HeldInv /\ AnsweredPidStable
  BY DEF HeldInv, AnsweredPidStable
<1>4. RecordInv /\ OwnedInv
  BY DEF RecordInv, OwnedInv
<1> QED
  BY <1>1, <1>2, <1>3, <1>4 DEF IInv
-----------------------------------------------------------------------------
LEMMA NextIInv == IInv /\ [Next]_vars => IInv'
<1> SUFFICES ASSUME IInv, [Next]_vars PROVE IInv'
  OBVIOUS
<1> USE ConstantsAssumption DEF IInv, TypeOK, Alive, Child
<1>1. ASSUME NEW d \in Daemons, Fork(d) PROVE IInv'
  <2> USE <1>1 DEF Fork
  <2>1. TypeOK'
    BY DEF Stages, Kinds
  <2>2. PortInv'
    BY DEF PortInv
  <2>3. HeldInv' /\ AnsweredPidStable'
    BY DEF HeldInv, AnsweredPidStable
  <2>4. RecordInv' /\ OwnedInv'
    BY DEF RecordInv, OwnedInv, OwnChild, HeldInv, SingleDaemon
  <2> QED
    BY <2>1, <2>2, <2>3, <2>4
<1>2. ASSUME NEW d \in Daemons, ForkFails(d) PROVE IInv'
  <2> USE <1>2 DEF ForkFails, Return, hostVars
  <2>1. TypeOK'
    BY DEF Stages, Kinds
  <2>2. PortInv'
    BY DEF PortInv
  <2>3. HeldInv' /\ AnsweredPidStable'
    BY DEF HeldInv, AnsweredPidStable
  <2>4. RecordInv' /\ OwnedInv'
    BY DEF RecordInv, OwnedInv, OwnChild, HeldInv, SingleDaemon
  <2> QED
    BY <2>1, <2>2, <2>3, <2>4
<1>3. ASSUME NEW d \in Daemons, OpenRecord(d) PROVE IInv'
  <2> USE <1>3 DEF OpenRecord, hostVars
  <2>1. TypeOK'
    BY DEF Stages, Kinds
  <2>2. PortInv'
    BY DEF PortInv
  <2>3. HeldInv' /\ AnsweredPidStable'
    BY DEF HeldInv, AnsweredPidStable
  <2>4. RecordInv' /\ OwnedInv'
    BY DEF RecordInv, OwnedInv, OwnChild, HeldInv, SingleDaemon
  <2> QED
    BY <2>1, <2>2, <2>3, <2>4
<1>4. ASSUME NEW d \in Daemons, OpenRecordFails(d) PROVE IInv'
  <2> USE <1>4 DEF OpenRecordFails, Return, hostVars
  <2>1. TypeOK'
    BY DEF Stages, Kinds
  <2>2. PortInv'
    BY DEF PortInv
  <2>3. HeldInv' /\ AnsweredPidStable'
    BY DEF HeldInv, AnsweredPidStable
  <2>4. RecordInv' /\ OwnedInv'
    BY DEF RecordInv, OwnedInv, OwnChild, HeldInv, SingleDaemon
  <2> QED
    BY <2>1, <2>2, <2>3, <2>4
<1>5. ASSUME NEW d \in Daemons, WriteRecord(d) PROVE IInv'
  <2> USE <1>5 DEF WriteRecord, Return, hostVars
  <2>1. TypeOK'
    BY DEF HeldInv, Stages, Kinds
  <2>2. PortInv'
    BY DEF PortInv
  <2>3. HeldInv' /\ AnsweredPidStable'
    BY DEF HeldInv, AnsweredPidStable
  <2>4. RecordInv' /\ OwnedInv'
    BY DEF RecordInv, OwnedInv, OwnChild, HeldInv, SingleDaemon
  <2> QED
    BY <2>1, <2>2, <2>3, <2>4
<1>6. ASSUME NEW d \in Daemons, RecordLost(d) PROVE IInv'
  <2> USE <1>6 DEF RecordLost, Return, hostVars
  <2>1. TypeOK'
    BY DEF Stages, Kinds
  <2>2. PortInv'
    BY DEF PortInv
  <2>3. HeldInv' /\ AnsweredPidStable'
    BY DEF HeldInv, AnsweredPidStable
  <2>4. RecordInv' /\ OwnedInv'
    BY DEF RecordInv, OwnedInv, OwnChild, HeldInv, SingleDaemon
  <2> QED
    BY <2>1, <2>2, <2>3, <2>4
<1>7. ASSUME NEW d \in Daemons, StopOpensNothing(d) PROVE IInv'
  <2> USE <1>7 DEF StopOpensNothing, Return, hostVars
  <2>1. TypeOK'
    BY DEF Stages, Kinds
  <2>2. PortInv'
    BY DEF PortInv
  <2>3. HeldInv' /\ AnsweredPidStable'
    BY DEF HeldInv, AnsweredPidStable
  <2>4. RecordInv' /\ OwnedInv'
    BY DEF RecordInv, OwnedInv, OwnChild, HeldInv, SingleDaemon
  <2> QED
    BY <2>1, <2>2, <2>3, <2>4
<1>8. ASSUME NEW d \in Daemons, StopReads(d) PROVE IInv'
  <2> USE <1>8 DEF StopReads, Parses, hostVars
  <2>1. TypeOK'
    BY DEF Stages, Kinds
  <2>2. PortInv'
    BY DEF PortInv
  <2>3. HeldInv' /\ AnsweredPidStable'
    BY DEF HeldInv, AnsweredPidStable
  <2>4. RecordInv' /\ OwnedInv'
    BY DEF RecordInv, OwnedInv, OwnChild, HeldInv, SingleDaemon
  <2> QED
    BY <2>1, <2>2, <2>3, <2>4
<1>9. ASSUME NEW d \in Daemons, StopSignals(d) PROVE IInv'
  <2> USE <1>9 DEF StopSignals, AfterKill, Running
  <2>1. TypeOK'
    BY DEF HeldInv, Stages, Kinds
  <2>2. PortInv'
    BY DEF PortInv
  <2>3. HeldInv' /\ AnsweredPidStable'
    BY DEF HeldInv, AnsweredPidStable
  <2>4. RecordInv' /\ OwnedInv'
    BY DEF RecordInv, OwnedInv, OwnChild, HeldInv, SingleDaemon
  <2> QED
    BY <2>1, <2>2, <2>3, <2>4
<1>10. ASSUME NEW d \in Daemons, StopRemoves(d) PROVE IInv'
  <2> USE <1>10 DEF StopRemoves, hostVars
  <2>1. TypeOK'
    BY DEF Stages, Kinds
  <2>2. PortInv'
    BY DEF PortInv
  <2>3. HeldInv' /\ AnsweredPidStable'
    BY DEF HeldInv, AnsweredPidStable
  <2>4. RecordInv' /\ OwnedInv'
    BY DEF RecordInv, OwnedInv, OwnChild, HeldInv, SingleDaemon
  <2> QED
    BY <2>1, <2>2, <2>3, <2>4
<1>11. ASSUME NEW d \in Daemons, Boot(d) PROVE IInv'
  <2> USE <1>11 DEF Boot, PortFree, hostVars
  <2>1. TypeOK'
    BY DEF Stages, Kinds
  <2>2. PortInv'
    BY DEF PortInv
  <2>3. HeldInv' /\ AnsweredPidStable'
    BY DEF HeldInv, AnsweredPidStable
  <2>4. RecordInv' /\ OwnedInv'
    BY DEF RecordInv, OwnedInv, OwnChild, HeldInv, SingleDaemon
  <2> QED
    BY <2>1, <2>2, <2>3, <2>4
<1>12. ASSUME NEW d \in Daemons, Die(d) PROVE IInv'
  <2> USE <1>12 DEF Die
  <2>1. TypeOK'
    BY DEF Stages, Kinds
  <2>2. PortInv'
    BY DEF PortInv
  <2>3. HeldInv' /\ AnsweredPidStable'
    BY DEF HeldInv, AnsweredPidStable
  <2>4. RecordInv' /\ OwnedInv'
    BY DEF RecordInv, OwnedInv, OwnChild, HeldInv, SingleDaemon
  <2> QED
    BY <2>1, <2>2, <2>3, <2>4
<1>13. ASSUME NEW p \in Pids, Exec(p) PROVE IInv'
  <2> USE <1>13 DEF Exec
  <2>1. TypeOK'
    BY DEF Stages, Kinds
  <2>2. PortInv'
    BY DEF PortInv
  <2>3. HeldInv' /\ AnsweredPidStable'
    BY DEF HeldInv, AnsweredPidStable
  <2>4. RecordInv' /\ OwnedInv'
    BY DEF RecordInv, OwnedInv, OwnChild, HeldInv, SingleDaemon
  <2> QED
    BY <2>1, <2>2, <2>3, <2>4
<1>14. ASSUME NEW p \in Pids, ChildExits(p) PROVE IInv'
  <2> USE <1>14 DEF ChildExits, AfterExit
  <2>1. TypeOK'
    BY DEF Stages, Kinds
  <2>2. PortInv'
    BY DEF PortInv
  <2>3. HeldInv' /\ AnsweredPidStable'
    BY DEF HeldInv, AnsweredPidStable
  <2>4. RecordInv' /\ OwnedInv'
    BY DEF RecordInv, OwnedInv, OwnChild, HeldInv, SingleDaemon
  <2> QED
    BY <2>1, <2>2, <2>3, <2>4
<1>15. ASSUME NEW p \in Pids, StrangerStarts(p) PROVE IInv'
  <2> USE <1>15 DEF StrangerStarts
  <2>1. TypeOK'
    BY DEF Stages, Kinds
  <2>2. PortInv'
    BY DEF PortInv
  <2>3. HeldInv' /\ AnsweredPidStable'
    BY DEF HeldInv, AnsweredPidStable
  <2>4. RecordInv' /\ OwnedInv'
    BY DEF RecordInv, OwnedInv, OwnChild, HeldInv, SingleDaemon
  <2> QED
    BY <2>1, <2>2, <2>3, <2>4
<1>16. ASSUME NEW p \in Pids, StrangerExits(p) PROVE IInv'
  <2> USE <1>16 DEF StrangerExits
  <2>1. TypeOK'
    BY DEF Stages, Kinds
  <2>2. PortInv'
    BY DEF PortInv
  <2>3. HeldInv' /\ AnsweredPidStable'
    BY DEF HeldInv, AnsweredPidStable
  <2>4. RecordInv' /\ OwnedInv'
    BY DEF RecordInv, OwnedInv, OwnChild, HeldInv, SingleDaemon
  <2> QED
    BY <2>1, <2>2, <2>3, <2>4
<1>17. CASE UNCHANGED vars
  BY <1>17 DEF PortInv, HeldInv, AnsweredPidStable, RecordInv, OwnedInv,
    OwnChild, vars
<1> QED
  BY <1>1, <1>2, <1>3, <1>4, <1>5, <1>6, <1>7, <1>8, <1>9,
    <1>10, <1>11, <1>12, <1>13, <1>14, <1>15, <1>16, <1>17 DEF Next, Continue
-----------------------------------------------------------------------------
THEOREM Invariance == Spec => []IInv
<1> QED
  BY InitIInv, NextIInv, PTL DEF Spec

(* The variables keep their types, the record always names a pid the host  *)
(* can assign, and no daemon is killed more often than MaxDeaths.          *)
THEOREM TypeCorrect == Spec => []TypeOK
<1>1. IInv => TypeOK
  BY DEF IInv
<1> QED
  BY <1>1, Invariance, PTL

(* A daemon that boots finds every VM of its earlier lives ended: listen   *)
(* fails as long as one still holds the inherited socket.                  *)
THEOREM RestartSafety == Spec => []RestartWaitsForVms
<1>1. IInv => RestartWaitsForVms
  BY ConstantsAssumption DEF IInv, PortInv, RestartWaitsForVms
<1> QED
  BY <1>1, Invariance, PTL

(* The pid in a start's answer is that of its child until the daemon dies. *)
THEOREM AnswerSafety == Spec => []AnsweredPidStable
<1>1. IInv => AnsweredPidStable
  BY DEF IInv
<1> QED
  BY <1>1, Invariance, PTL

(* ctl_stop of a lone daemon that was never killed signals only children   *)
(* of that daemon.                                                         *)
THEOREM StopSafety == Spec => []NoStrangerBeforeDeath
<1>1. IInv => NoStrangerBeforeDeath
  BY DEF IInv, HeldInv, RecordInv, OwnedInv, OwnChild, NoStrangerBeforeDeath
<1> QED
  BY <1>1, Invariance, PTL
-----------------------------------------------------------------------------
(* A step that puts a VM out of reach is a truncation, a failed or lost    *)
(* write of the record, or a death.  The invariant matters for remove():   *)
(* what a lone daemon removes names a process it has signalled.            *)
LEMMA LostStep ==
  ASSUME IInv, SingleDaemon, Next, NEW p \in Pids, ~Lost(p), Lost(p)'
  PROVE  \E d \in Daemons : \/ OpenRecord(d) \/ OpenRecordFails(d)
                            \/ RecordLost(d) \/ Die(d)
<1> USE DEF Lost, InReach, Alive
<1>1. ASSUME NEW d \in Daemons, Fork(d) PROVE FALSE
  BY <1>1 DEF IInv, TypeOK, Fork, SingleDaemon
<1>2. ASSUME NEW d \in Daemons,
             ForkFails(d) \/ StopOpensNothing(d)
      PROVE  FALSE
  BY <1>2 DEF IInv, TypeOK, ForkFails, StopOpensNothing, Return, hostVars,
    SingleDaemon
<1>3. ASSUME NEW d \in Daemons, WriteRecord(d) PROVE FALSE
  BY <1>3, ConstantsAssumption DEF IInv, TypeOK, RecordInv, WriteRecord,
    Return, hostVars, SingleDaemon
<1>4. ASSUME NEW d \in Daemons, StopReads(d) PROVE FALSE
  BY <1>4 DEF IInv, TypeOK, StopReads, Parses, hostVars, SingleDaemon
<1>5. ASSUME NEW d \in Daemons, StopSignals(d) PROVE FALSE
  BY <1>5 DEF IInv, TypeOK, StopSignals, AfterKill, Running, SingleDaemon
<1>6. ASSUME NEW d \in Daemons, StopRemoves(d) PROVE FALSE
  BY <1>6 DEF IInv, TypeOK, RecordInv, StopRemoves, hostVars, SingleDaemon
<1>7. ASSUME NEW d \in Daemons, Boot(d) PROVE FALSE
  BY <1>7 DEF IInv, TypeOK, Boot, hostVars, SingleDaemon
<1>8. ASSUME NEW q \in Pids,
             Exec(q) \/ ChildExits(q) \/ StrangerStarts(q) \/ StrangerExits(q)
      PROVE  FALSE
  BY <1>8 DEF IInv, TypeOK, Exec, ChildExits, AfterExit, StrangerStarts,
    StrangerExits
<1> QED
  BY <1>1, <1>2, <1>3, <1>4, <1>5, <1>6, <1>7, <1>8 DEF Next, Continue

(* A lone daemon's VM falls out of reach only by a start or a death: for   *)
(* any number of VMs, stops and restarts.                                  *)
THEOREM ReachSafety == Spec => LostOnlyByStartOrDeath
<1>1. IInv /\ [Next]_vars => [LossStep]_vars
  BY LostStep DEF LossStep
<1> QED
  BY <1>1, Invariance, PTL DEF Spec, LostOnlyByStartOrDeath
-----------------------------------------------------------------------------
(* Only processes that run have a SIGTERM to act on: a new one has none. *)
SignalledInv == \A p \in sigterm : Running(p)

LEMMA NextSignalled ==
  ASSUME IInv, SignalledInv, [Next]_vars PROVE SignalledInv'
<1> USE DEF IInv, TypeOK, SignalledInv, Running
<1>1. ASSUME NEW d \in Daemons,
             \/ Fork(d) \/ ForkFails(d) \/ StopOpensNothing(d) \/ StopReads(d)
             \/ OpenRecord(d) \/ OpenRecordFails(d) \/ WriteRecord(d)
             \/ RecordLost(d) \/ StopSignals(d) \/ StopRemoves(d) \/ Boot(d)
      PROVE  SignalledInv'
  BY <1>1 DEF Fork, ForkFails, StopOpensNothing, StopReads, Parses, OpenRecord,
    OpenRecordFails, WriteRecord, RecordLost, StopSignals, AfterKill, StopRemoves,
    Boot, Return, hostVars
<1>2. ASSUME NEW d \in Daemons, Die(d) PROVE SignalledInv'
  BY <1>2 DEF Die
<1>3. ASSUME NEW q \in Pids,
             Exec(q) \/ ChildExits(q) \/ StrangerStarts(q) \/ StrangerExits(q)
      PROVE  SignalledInv'
  BY <1>3 DEF Exec, ChildExits, StrangerStarts, StrangerExits, Alive
<1>4. CASE UNCHANGED vars
  BY <1>4 DEF vars
<1> QED
  BY <1>1, <1>2, <1>3, <1>4 DEF Next, Continue

LEMMA Signalled == Spec => []SignalledInv
<1>1. Init => SignalledInv
  BY DEF Init, SignalledInv
<1> QED
  BY <1>1, NextSignalled, Invariance, PTL DEF Spec
-----------------------------------------------------------------------------
(* The machines after a step, given what each is after it. *)
LEMMA SameMachines ==
  ASSUME \A p \in Pids : Machine(p)' = Machine(p)
  PROVE  [p \in Pids |-> Machine(p)]' = [p \in Pids |-> Machine(p)]
  OBVIOUS

LEMMA OneMachine ==
  ASSUME NEW m \in Pids, NEW state, Machine(m)' = state,
         \A p \in Pids : p # m => Machine(p)' = Machine(p)
  PROVE  [p \in Pids |-> Machine(p)]' =
           [[p \in Pids |-> Machine(p)] EXCEPT ![m] = state]
  OBVIOUS

LEMMA LauncherStep ==
  ASSUME IInv, SignalledInv, SingleDaemon, Next
  PROVE  Launch!Next \/ UNCHANGED Launch!vars
<1> USE DEF IInv, TypeOK
<1> DEFINE machines == [p \in Pids |-> Machine(p)]
           up == \E d \in Daemons : stage[d] # "down"
           Same == \A p \in Pids : Machine(p)' = Machine(p)
           Only(m, s) == \A p \in Pids :
             Machine(p)' = IF p = m THEN s ELSE Machine(p)
<1>a. ASSUME Same, up' = up PROVE UNCHANGED Launch!vars
  BY <1>a, SameMachines DEF Launch!vars
<1>b. ASSUME NEW d \in Daemons
      PROVE  up <=> stage[d] # "down"
  BY DEF SingleDaemon
<1>1. ASSUME NEW d \in Daemons, Fork(d) PROVE Launch!Next
  <2>1. PICK m \in Pids : kind[m] = "free" /\ held' = [held EXCEPT ![d] = m]
            /\ kind' = [kind EXCEPT ![m] = "forked"]
    BY <1>1 DEF Fork
  <2>2. m \notin sigterm
    BY <2>1 DEF SignalledInv, Running
  <2>3. Machine(m) = "off" /\ Machine(m)' = "on"
    BY <1>1, <2>1, <2>2 DEF Fork, Machine, Alive, Lost, InReach
  <2>4. \A p \in Pids : p # m => Machine(p)' = Machine(p)
    BY <1>1, <2>1 DEF Fork, Machine, Alive, Lost, InReach, SingleDaemon
  <2>5. \A p \in Pids : Machine(p) = "on" => p = pidfile
    BY <1>1 DEF Fork, Machine, Alive, Lost, InReach, SingleDaemon
  <2>6. up /\ up'
    BY <1>1, <1>b DEF Fork
  <2>7. Launch!Start(m)
    BY <2>3, <2>4, <2>5, <2>6, OneMachine DEF Launch!Start, Launch!To
  <2> QED
    BY <2>7 DEF Launch!Next
<1>2. ASSUME NEW d \in Daemons, ForkFails(d) \/ StopOpensNothing(d)
      PROVE  UNCHANGED Launch!vars
  <2>1. Same
    BY <1>2 DEF ForkFails, StopOpensNothing, Return, hostVars, Machine, Alive,
      Lost, InReach, SingleDaemon
  <2>2. up' = up
    BY <1>2 DEF ForkFails, StopOpensNothing, Return, SingleDaemon
  <2> QED
    BY <1>a, <2>1, <2>2
<1>3. ASSUME NEW d \in Daemons,
             OpenRecord(d) \/ OpenRecordFails(d) \/ RecordLost(d)
      PROVE  Launch!Next \/ UNCHANGED Launch!vars
  <2>1. up /\ up'
    BY <1>3, <1>b DEF OpenRecord, OpenRecordFails, RecordLost, Return, Stages
  <2>2. \A p \in Pids :
          \/ Machine(p)' = Machine(p)
          \/ Machine(p) = "on" /\ Machine(p)' = "lost" /\ p \in {pidfile, held[d]}
    BY <1>3, ConstantsAssumption DEF RecordInv, OpenRecord, OpenRecordFails, RecordLost, Return, hostVars,
      Machine, Alive, Lost, InReach, SingleDaemon
  <2>3. \A p, q \in Pids : Machine(p)' # Machine(p) /\ Machine(q)' # Machine(q)
                             => p = q
    BY <1>3, ConstantsAssumption DEF OpenRecord, OpenRecordFails, RecordLost,
      Return, hostVars, Machine, Alive, Lost, InReach, SingleDaemon, RecordInv
  <2>4. CASE Same
    BY <2>1, <2>4, <1>a
  <2>5. ASSUME NEW m \in Pids, Machine(m)' # Machine(m) PROVE Launch!Next
    <3>1. machines[m] = "on" /\ Machine(m)' = "lost"
      BY <2>2, <2>5
    <3>2. Launch!Lose(m)
      BY <3>1, <2>3, <2>5, OneMachine DEF Launch!Lose, Launch!To
    <3> QED
      BY <3>2, <2>1 DEF Launch!Next
  <2> QED
    BY <2>4, <2>5
<1>4. ASSUME NEW d \in Daemons, WriteRecord(d) PROVE UNCHANGED Launch!vars
  <2>1. Same
    BY <1>4, ConstantsAssumption DEF WriteRecord, Return, hostVars, RecordInv,
      Machine, Alive, Lost, InReach, SingleDaemon
  <2>2. up' = up
    BY <1>4 DEF WriteRecord, Return, SingleDaemon
  <2> QED
    BY <1>a, <2>1, <2>2
<1>5. ASSUME NEW d \in Daemons, StopReads(d) PROVE UNCHANGED Launch!vars
  <2>1. Same
    BY <1>5 DEF StopReads, Parses, hostVars, Machine, Alive, Lost, InReach, SingleDaemon
  <2>2. up' = up
    BY <1>5 DEF StopReads, SingleDaemon
  <2> QED
    BY <1>a, <2>1, <2>2
<1>6. ASSUME NEW d \in Daemons, StopSignals(d)
      PROVE  Launch!Next \/ UNCHANGED Launch!vars
  <2>0. PICK m \in Pids : m = held[d]
    BY <1>6 DEF StopSignals, HeldInv
  <2>1. up /\ up'
    BY <1>6, <1>b DEF StopSignals
  <2>2. \A p \in Pids : p # m => Machine(p)' = Machine(p)
    BY <1>6, <2>0 DEF StopSignals, AfterKill, Machine, Alive, Lost, InReach, SingleDaemon
  <2>3. CASE Alive(m) /\ m \notin sigterm
    <3>1. Machine(m) = "on" /\ Machine(m)' = "stopping"
      BY <1>6, <2>0, <2>3 DEF StopSignals, AfterKill, Running, Machine, Alive, Lost, InReach
    <3>2. Launch!Stop(m)
      BY <2>1, <2>2, <3>1, OneMachine DEF Launch!Stop, Launch!To
    <3> QED
      BY <2>1, <3>2 DEF Launch!Next
  <2>4. CASE ~(Alive(m) /\ m \notin sigterm)
    <3>1. Machine(m)' = Machine(m)
      BY <1>6, <2>0, <2>4 DEF StopSignals, AfterKill, Machine, Alive, Lost, InReach
    <3> QED
      <4>1. Same
        BY <2>2, <3>1
      <4> QED
        BY <4>1, <2>1, <1>a
  <2> QED
    BY <2>3, <2>4
<1>7. ASSUME NEW d \in Daemons, StopRemoves(d) PROVE UNCHANGED Launch!vars
  <2>1. Same
    BY <1>7 DEF StopRemoves, hostVars, RecordInv, Machine, Alive, Lost, InReach,
      SingleDaemon
  <2>2. up' = up
    BY <1>7 DEF StopRemoves, SingleDaemon
  <2> QED
    BY <1>a, <2>1, <2>2
<1>8. ASSUME NEW d \in Daemons, Boot(d) PROVE Launch!Next
  <2>1. \A p \in Pids : Machine(p) = "off"
    BY <1>8 DEF Boot, PortFree, PortInv, Machine, Alive, Lost, SingleDaemon
  <2>2. Same
    BY <1>8 DEF Boot, hostVars, Machine, Alive, Lost, InReach, SingleDaemon
  <2>3. ~up /\ up'
    BY <1>8, <1>b DEF Boot
  <2> QED
    BY <2>1, <2>2, <2>3, SameMachines DEF Launch!Boot, Launch!Next
<1>9. ASSUME NEW d \in Daemons, Die(d) PROVE Launch!Next
  <2>1. up /\ ~up'
    BY <1>9, <1>b DEF Die, SingleDaemon
  <2>2. \A p \in Pids :
          \/ Machine(p)' = Machine(p)
          \/ Machine(p) = "on" /\ Machine(p)' = "lost" /\ p = held[d]
    BY <1>9 DEF Die, Machine, Alive, Lost, InReach, SingleDaemon
  <2>3. CASE Same
    BY <2>1, <2>3, SameMachines DEF Launch!Crash, Launch!Next
  <2>4. ASSUME NEW m \in Pids, Machine(m)' # Machine(m) PROVE Launch!Next
    <3>1. Machine(m) = "on" /\ Machine(m)' = "lost"
      BY <2>2, <2>4
    <3>2. Launch!Lose(m)
      BY <3>1, <2>2, <2>4, OneMachine DEF Launch!Lose, Launch!To
    <3> QED
      BY <3>2, <2>1 DEF Launch!Crash, Launch!Next
  <2> QED
    BY <2>3, <2>4
<1>10. ASSUME NEW m \in Pids, ChildExits(m) PROVE Launch!Next
  <2>1. Machine(m) # "off" /\ Machine(m)' = "off"
    BY <1>10 DEF ChildExits, AfterExit, Machine, Alive, Lost
  <2>2. \A p \in Pids : p # m => Machine(p)' = Machine(p)
    BY <1>10 DEF ChildExits, Machine, Alive, Lost, InReach
  <2>3. up' = up
    BY <1>10 DEF ChildExits
  <2>4. Launch!End(m)
    BY <2>1, <2>2, <2>3, OneMachine DEF Launch!End, Launch!To
  <2> QED
    BY <2>4 DEF Launch!Next
<1>11. ASSUME NEW q \in Pids, Exec(q) \/ StrangerStarts(q) \/ StrangerExits(q)
       PROVE  UNCHANGED Launch!vars
  <2>1. Same
    BY <1>11 DEF Exec, StrangerStarts, StrangerExits, Machine, Alive, Lost, InReach
  <2>2. up' = up
    BY <1>11 DEF Exec, StrangerStarts, StrangerExits
  <2> QED
    BY <1>a, <2>1, <2>2
<1> QED
  BY <1>1, <1>2, <1>3, <1>4, <1>5, <1>6, <1>7, <1>8, <1>9, <1>10, <1>11
    DEF Next, Continue

(* A lone daemon, with any pids and any deaths, is a launcher: the steps of *)
(* its calls, of its children and of the host are steps of Launcher or      *)
(* leave its state alone.                                                   *)
THEOREM LauncherRefinement ==
  ASSUME SingleDaemon PROVE Spec => ImplementsLauncher
<1>1. Init => Launch!Init
  BY DEF Init, Launch!Init, Machine, Alive, Lost
<1>2. IInv /\ SignalledInv /\ [Next]_vars => [Launch!Next]_(Launch!vars)
  <2>1. CASE UNCHANGED vars
    BY <2>1 DEF vars, Launch!vars, Machine, Alive, Lost, InReach
  <2>2. CASE Next
    BY <2>2, LauncherStep
  <2> QED
    BY <2>1, <2>2
<1> QED
  BY <1>1, <1>2, Invariance, Signalled, PTL
    DEF Spec, ImplementsLauncher, Launch!Spec
=============================================================================
