-------------------------- MODULE SupervisorProofs --------------------------
(***************************************************************************)
(* Proofs about Supervisor for any number of starts and stops.             *)
(***************************************************************************)
EXTENDS Supervisor, TLAPS

(* Only a start that has registered its process has put it in the entry,   *)
(* and only from there can a stop have it: no start registers twice.       *)
RegisteredInv ==
  /\ entry # "none" => start[entry] \in {"registered", "done"}
  /\ \A t \in Stops : taken[t] # "none" =>
       start[taken[t]] \in {"registered", "done"}

(* A stop at work has a process; one that has killed it finds it ended.    *)
StopInv ==
  \A t \in Stops :
    /\ stop[t] \in {"taken", "killed"} => taken[t] # "none"
    /\ stop[t] = "killed" => proc[taken[t]] = "exited"
    /\ stop[t] = "idle" => taken[t] = "none"

(* A handler runs for a process that has ended, and no start begins for a  *)
(* process that is there already.                                          *)
HandlerInv ==
  \A p \in Procs :
    /\ handler[p] # "armed" => proc[p] = "exited"
    /\ proc[p] # "new" => start[p] \notin {"idle", "checked"}

IInv == TypeOK /\ TakenOnce /\ StopIsOver /\ RegisteredInv /\ StopInv /\ HandlerInv

LEMMA InitIInv == Init => IInv
  BY NoneAssumption DEF Init, IInv, TypeOK, TakenOnce, StopIsOver,
    RegisteredInv, StopInv, HandlerInv

LEMMA NextIInv == IInv /\ [Next]_vars => IInv'
<1> SUFFICES ASSUME IInv, [Next]_vars PROVE IInv'
  OBVIOUS
<1> USE NoneAssumption DEF IInv, TypeOK, Go
<1>1. ASSUME NEW p \in Procs, StartChecks(p) PROVE IInv'
  <2> USE <1>1 DEF StartChecks
  <2>1. TypeOK'
    BY DEF StopInv
  <2>2. TakenOnce' /\ RegisteredInv'
    BY DEF TakenOnce, RegisteredInv, StopInv
  <2>3. StopIsOver' /\ StopInv' /\ HandlerInv'
    BY DEF StopIsOver, StopInv, HandlerInv
  <2> QED
    BY <2>1, <2>2, <2>3
<1>2. ASSUME NEW p \in Procs, StartFails(p) PROVE IInv'
  <2> USE <1>2 DEF StartFails
  <2>1. TypeOK'
    BY DEF StopInv
  <2>2. TakenOnce' /\ RegisteredInv'
    BY DEF TakenOnce, RegisteredInv, StopInv
  <2>3. StopIsOver' /\ StopInv' /\ HandlerInv'
    BY DEF StopIsOver, StopInv, HandlerInv
  <2> QED
    BY <2>1, <2>2, <2>3
<1>3. ASSUME NEW p \in Procs, StartProcess(p) PROVE IInv'
  <2> USE <1>3 DEF StartProcess
  <2>1. TypeOK'
    BY DEF StopInv
  <2>2. TakenOnce' /\ RegisteredInv'
    BY DEF TakenOnce, RegisteredInv, StopInv
  <2>3. StopIsOver' /\ StopInv' /\ HandlerInv'
    BY DEF StopIsOver, StopInv, RegisteredInv, HandlerInv
  <2> QED
    BY <2>1, <2>2, <2>3
<1>4. ASSUME NEW p \in Procs, Registers(p) PROVE IInv'
  <2> USE <1>4 DEF Registers
  <2>1. TypeOK'
    BY DEF StopInv
  <2>2. TakenOnce' /\ RegisteredInv'
    BY DEF TakenOnce, RegisteredInv, StopInv
  <2>3. StopIsOver' /\ StopInv' /\ HandlerInv'
    BY DEF StopIsOver, StopInv, HandlerInv
  <2> QED
    BY <2>1, <2>2, <2>3
<1>5. ASSUME NEW p \in Procs, PublishesRunning(p) PROVE IInv'
  <2> USE <1>5 DEF PublishesRunning
  <2>1. TypeOK'
    BY DEF StopInv
  <2>2. TakenOnce' /\ RegisteredInv'
    BY DEF TakenOnce, RegisteredInv, StopInv
  <2>3. StopIsOver' /\ StopInv' /\ HandlerInv'
    BY DEF StopIsOver, StopInv, HandlerInv
  <2> QED
    BY <2>1, <2>2, <2>3
<1>6. ASSUME NEW p \in Procs, Exits(p) PROVE IInv'
  <2> USE <1>6 DEF Exits
  <2>1. TypeOK'
    BY DEF StopInv
  <2>2. TakenOnce' /\ RegisteredInv'
    BY DEF TakenOnce, RegisteredInv, StopInv
  <2>3. StopIsOver' /\ StopInv' /\ HandlerInv'
    BY DEF StopIsOver, StopInv, HandlerInv
  <2> QED
    BY <2>1, <2>2, <2>3
<1>7. ASSUME NEW p \in Procs, HandlerRemoves(p) PROVE IInv'
  <2> USE <1>7 DEF HandlerRemoves, Due, Removed
  <2>1. TypeOK'
    BY DEF StopInv
  <2>2. TakenOnce' /\ RegisteredInv'
    BY DEF TakenOnce, RegisteredInv, StopInv
  <2>3. StopIsOver' /\ StopInv' /\ HandlerInv'
    BY DEF StopIsOver, StopInv, HandlerInv
  <2> QED
    BY <2>1, <2>2, <2>3
<1>8. ASSUME NEW p \in Procs, HandlerPublishes(p) PROVE IInv'
  <2> USE <1>8 DEF HandlerPublishes
  <2>1. TypeOK'
    BY DEF StopInv
  <2>2. TakenOnce' /\ RegisteredInv'
    BY DEF TakenOnce, RegisteredInv, StopInv
  <2>3. StopIsOver' /\ StopInv' /\ HandlerInv'
    BY DEF StopIsOver, StopInv, HandlerInv
  <2> QED
    BY <2>1, <2>2, <2>3
<1>9. ASSUME NEW t \in Stops, StopTakes(t) PROVE IInv'
  <2> USE <1>9 DEF StopTakes, Removed
  <2>1. TypeOK'
    BY DEF StopInv
  <2>2. TakenOnce' /\ RegisteredInv'
    BY DEF TakenOnce, RegisteredInv, StopInv
  <2>3. StopIsOver' /\ StopInv' /\ HandlerInv'
    BY DEF StopIsOver, StopInv, HandlerInv
  <2> QED
    BY <2>1, <2>2, <2>3
<1>10. ASSUME NEW t \in Stops, StopKills(t) PROVE IInv'
  <2> USE <1>10 DEF StopKills
  <2>1. TypeOK'
    BY DEF StopInv
  <2>2. TakenOnce' /\ RegisteredInv'
    BY DEF TakenOnce, RegisteredInv, StopInv
  <2>3. StopIsOver' /\ StopInv' /\ HandlerInv'
    BY DEF StopIsOver, StopInv, HandlerInv, RegisteredInv
  <2> QED
    BY <2>1, <2>2, <2>3
<1>11. ASSUME NEW t \in Stops, StopReturns(t) PROVE IInv'
  <2> USE <1>11 DEF StopReturns, Over
  <2>1. TypeOK'
    BY DEF StopInv
  <2>2. TakenOnce' /\ RegisteredInv'
    BY DEF TakenOnce, RegisteredInv, StopInv
  <2>3. StopIsOver' /\ StopInv' /\ HandlerInv'
    BY DEF StopIsOver, StopInv, HandlerInv
  <2> QED
    BY <2>1, <2>2, <2>3
<1>12. ASSUME NEW p \in Procs, Raised(p) PROVE IInv'
  <2> USE <1>12 DEF Raised
  <2>1. TypeOK'
    BY DEF StopInv
  <2>2. TakenOnce' /\ RegisteredInv'
    BY DEF TakenOnce, RegisteredInv, StopInv
  <2>3. StopIsOver' /\ StopInv' /\ HandlerInv'
    BY DEF StopIsOver, StopInv, HandlerInv
  <2> QED
    BY <2>1, <2>2, <2>3
<1>13. ASSUME NEW t \in Stops, StopFails(t) PROVE IInv'
  <2> USE <1>13 DEF StopFails
  <2>1. TypeOK'
    BY DEF StopInv
  <2>2. TakenOnce' /\ RegisteredInv'
    BY DEF TakenOnce, RegisteredInv, StopInv
  <2>3. StopIsOver' /\ StopInv' /\ HandlerInv'
    BY DEF StopIsOver, StopInv, HandlerInv
  <2> QED
    BY <2>1, <2>2, <2>3
<1>14. CASE UNCHANGED vars
  BY <1>14 DEF TakenOnce, StopIsOver, RegisteredInv, StopInv, HandlerInv, vars
<1> QED
  BY <1>1, <1>2, <1>3, <1>4, <1>5, <1>6, <1>7, <1>8,
    <1>9, <1>10, <1>11, <1>12, <1>13, <1>14
    DEF Next, Starting, Handling, Stopping
-----------------------------------------------------------------------------
THEOREM Invariance == Spec => []IInv
<1> QED
  BY InitIInv, NextIInv, PTL DEF Spec

THEOREM TypeCorrect == Spec => []TypeOK
<1>1. IInv => TypeOK
  BY DEF IInv
<1> QED
  BY <1>1, Invariance, PTL

(* However many stops race, each process is taken by one of them at most.  *)
THEOREM TakeSafety == Spec => []TakenOnce
<1>1. IInv => TakenOnce
  BY DEF IInv
<1> QED
  BY <1>1, Invariance, PTL

(* A stop that succeeds has seen its process end and its event raised.     *)
THEOREM StopSafety == Spec => []StopIsOver
<1>1. IInv => StopIsOver
  BY DEF IInv
<1> QED
  BY <1>1, Invariance, PTL

(* A live process loses its owner only to another start or handler, or to  *)
(* a stop that fails.                                                      *)
THEOREM OwnerSafety == Spec => LostOnlyToAnother
<1>1. IInv /\ [Next]_vars => [LoseStep]_vars
  <2> SUFFICES ASSUME IInv, Next,
                      NEW p \in Procs, proc[p] = "alive", Owned(p),
                      ~Owned(p)', proc'[p] = "alive"
               PROVE  \/ \E q \in Procs \ {p} : Registers(q) \/ HandlerRemoves(q)
                      \/ \E t \in Stops : taken[t] = p /\ StopFails(t)
    BY DEF LoseStep
  <2> USE NoneAssumption DEF IInv, TypeOK, Owned, Go
  <2>1. ASSUME NEW q \in Procs, Starting(q), ~Registers(q) PROVE FALSE
    BY <2>1 DEF Starting, StartChecks, StartFails, StartProcess,
      PublishesRunning
  <2>2. ASSUME NEW q \in Procs, Registers(q) PROVE q # p
    BY <2>2 DEF Registers
  <2>3. ASSUME NEW q \in Procs, Exits(q) \/ Raised(q) \/ HandlerPublishes(q)
        PROVE  FALSE
    BY <2>3 DEF Exits, Raised, HandlerPublishes
  <2>4. ASSUME NEW q \in Procs, HandlerRemoves(q) PROVE q # p
    BY <2>4 DEF HandlerRemoves, Due, HandlerInv
  <2>5. ASSUME NEW t \in Stops, StopTakes(t) PROVE FALSE
    BY <2>5 DEF StopTakes, Removed, StopInv
  <2>6. ASSUME NEW t \in Stops, StopKills(t) \/ StopReturns(t) PROVE FALSE
    BY <2>6 DEF StopKills, StopReturns, Over, StopInv
  <2>7. ASSUME NEW t \in Stops, StopFails(t) PROVE taken[t] = p
    BY <2>7 DEF StopFails, StopInv
  <2> QED
    BY <2>1, <2>2, <2>3, <2>4, <2>5, <2>6, <2>7 DEF Next, Handling, Stopping
<1> QED
  BY <1>1, Invariance, PTL DEF Spec, LostOnlyToAnother
=============================================================================
