----------------------------- MODULE Supervisor -----------------------------
(***************************************************************************)
(* QemuProcessSupervisor of Program.cs, for one machine: StartAsync,       *)
(* StopAsync and the Exited handler run on any thread, in any number, and  *)
(* share the entry of the machine in the dictionary "processes".  Machines *)
(* do not interact: every entry is keyed by the machine's id.              *)
(*                                                                         *)
(* A start is named after the Process object it makes.  Process is         *)
(* external: it raises Exited once, after the process has ended, on a      *)
(* thread of its choice, and HasExited and WaitForExitAsync let a stop go  *)
(* on when it has been raised, not when its handler is through.            *)
(***************************************************************************)
EXTENDS Naturals

CONSTANTS
  Procs,   \* the Process objects, one for each StartAsync
  Stops    \* the calls of StopAsync

ASSUME NoneAssumption == "none" \notin Procs

VARIABLES
  entry,     \* processes[id], or none
  start,     \* where each StartAsync is
  proc,      \* each process
  handler,   \* where its Exited handler is
  stop,      \* where each StopAsync is
  taken,     \* the process each StopAsync removed, or none
  shown      \* the state last published to subscribers

vars == <<entry, start, proc, handler, stop, taken, shown>>

TypeOK ==
  /\ entry \in Procs \cup {"none"}
  /\ start \in [Procs -> {"idle", "checked", "started", "registered", "done"}]
  /\ proc \in [Procs -> {"new", "alive", "exited"}]
  /\ handler \in [Procs -> {"armed", "raised", "removed", "done"}]
  /\ stop \in [Stops -> {"idle", "taken", "killed", "done", "failed"}]
  /\ taken \in [Stops -> Procs \cup {"none"}]
  /\ shown \in {"nothing", "running", "stopped"}

Init ==
  /\ entry = "none"
  /\ start = [p \in Procs |-> "idle"]
  /\ proc = [p \in Procs |-> "new"]
  /\ handler = [p \in Procs |-> "armed"]
  /\ stop = [t \in Stops |-> "idle"]
  /\ taken = [t \in Stops |-> "none"]
  /\ shown = "nothing"

Go(p, place) == start' = [start EXCEPT ![p] = place]
-----------------------------------------------------------------------------
(* ContainsKey: a machine that has an entry counts as started. *)
StartChecks(p) ==
  /\ start[p] = "idle"
  /\ Go(p, IF entry = "none" THEN "checked" ELSE "done")
  /\ UNCHANGED <<entry, proc, handler, stop, taken, shown>>

StartFails(p) ==
  /\ start[p] = "checked"
  /\ Go(p, "done")
  /\ UNCHANGED <<entry, proc, handler, stop, taken, shown>>

StartProcess(p) ==
  /\ start[p] = "checked"
  /\ Go(p, "started")
  /\ proc' = [proc EXCEPT ![p] = "alive"]
  /\ UNCHANGED <<entry, handler, stop, taken, shown>>

(* processes[id] = process, whatever the entry is by now. *)
Registers(p) ==
  /\ start[p] = "started"
  /\ Go(p, "registered")
  /\ entry' = p
  /\ UNCHANGED <<proc, handler, stop, taken, shown>>

PublishesRunning(p) ==
  /\ start[p] = "registered"
  /\ Go(p, "done")
  /\ shown' = "running"
  /\ UNCHANGED <<entry, proc, handler, stop, taken>>
-----------------------------------------------------------------------------
Exits(p) ==
  /\ proc[p] = "alive"
  /\ proc' = [proc EXCEPT ![p] = "exited"]
  /\ UNCHANGED <<entry, start, handler, stop, taken, shown>>

Raised(p) ==
  /\ proc[p] = "exited" /\ handler[p] = "armed"
  /\ handler' = [handler EXCEPT ![p] = "raised"]
  /\ UNCHANGED <<entry, start, proc, stop, taken, shown>>

(* Seeded bugs: the entry is set to null; it is looked up, not removed;    *)
(* the event of the start is taken for that of the exit.                   *)
Bug_Cleared == "null"
Bug_Kept    == entry
Bug_Due(p)  == proc[p] # "new" /\ handler[p] \in {"armed", "raised"}

(* What TryRemove leaves of the entry. *)
Removed == "none"

Due(p) == handler[p] = "raised"

(* TryRemove by id: the entry goes, whichever process it names. *)
HandlerRemoves(p) ==
  /\ Due(p)
  /\ handler' = [handler EXCEPT ![p] = "removed"]
  /\ entry' = Removed
  /\ UNCHANGED <<start, proc, stop, taken, shown>>

HandlerPublishes(p) ==
  /\ handler[p] = "removed"
  /\ handler' = [handler EXCEPT ![p] = "done"]
  /\ shown' = "stopped"
  /\ UNCHANGED <<entry, start, proc, stop, taken>>
-----------------------------------------------------------------------------
(* TryRemove: without an entry there is nothing to stop. *)
StopTakes(t) ==
  /\ stop[t] = "idle"
  /\ IF entry = "none"
     THEN stop' = [stop EXCEPT ![t] = "done"] /\ UNCHANGED <<entry, taken>>
     ELSE /\ stop' = [stop EXCEPT ![t] = "taken"]
          /\ taken' = [taken EXCEPT ![t] = entry]
          /\ entry' = Removed
  /\ UNCHANGED <<start, proc, handler, shown>>

(* HasExited, or else Kill. *)
StopKills(t) ==
  /\ stop[t] = "taken"
  /\ stop' = [stop EXCEPT ![t] = "killed"]
  /\ proc' = [proc EXCEPT ![taken[t]] = "exited"]
  /\ UNCHANGED <<entry, start, handler, taken, shown>>

(* Kill throws: the stop answers false, and the entry is gone. *)
StopFails(t) ==
  /\ stop[t] = "taken" /\ proc[taken[t]] = "alive"
  /\ stop' = [stop EXCEPT ![t] = "failed"]
  /\ UNCHANGED <<entry, start, proc, handler, taken, shown>>

(* A seeded bug: the exit is not awaited, so that neither is the event.   *)
Bug_Over(t) == stop[t] \in {"taken", "killed"}

Over(t) == stop[t] = "killed" /\ handler[taken[t]] # "armed"

(* WaitForExitAsync and Dispose. *)
StopReturns(t) ==
  /\ Over(t)
  /\ stop' = [stop EXCEPT ![t] = "done"]
  /\ UNCHANGED <<entry, start, proc, handler, taken, shown>>
-----------------------------------------------------------------------------
Starting(p) ==
  StartChecks(p) \/ StartFails(p) \/ StartProcess(p) \/ Registers(p)
    \/ PublishesRunning(p)
Handling(p) == Raised(p) \/ HandlerRemoves(p) \/ HandlerPublishes(p)
Stopping(t) == StopKills(t) \/ StopFails(t) \/ StopReturns(t)

Next ==
  \/ \E p \in Procs : Starting(p) \/ Exits(p) \/ Handling(p)
  \/ \E t \in Stops : StopTakes(t) \/ Stopping(t)

Spec == Init /\ [][Next]_vars

(* Threads of the pool get on with a call or handler that has begun. *)
FairSpec ==
  /\ Spec
  /\ \A p \in Procs : /\ WF_vars(Registers(p) \/ PublishesRunning(p))
                      /\ WF_vars(Handling(p))
  /\ \A t \in Stops : WF_vars(Stopping(t))
-----------------------------------------------------------------------------
(* A process is owned by the entry, by the start that will register it or  *)
(* by the stop that took it.                                               *)
Owned(p) ==
  \/ entry = p
  \/ start[p] = "started"
  \/ \E t \in Stops : taken[t] = p /\ stop[t] \in {"taken", "killed"}

(* No process is taken by two stops, and the entry never names one that a  *)
(* stop has taken: TryRemove hands each process to a single call.          *)
TakenOnce ==
  /\ \A t, u \in Stops : taken[t] = taken[u] /\ taken[t] # "none" => t = u
  /\ \A t \in Stops : taken[t] # "none" => entry # taken[t]

(* A stop that took a process comes back with success only when that       *)
(* process has ended and its Exited event has been raised.                 *)
StopIsOver ==
  \A t \in Stops : stop[t] = "done" /\ taken[t] # "none" =>
    proc[taken[t]] = "exited" /\ handler[taken[t]] # "armed"

(* A live process loses its owner only through another process, or through *)
(* a stop that answers false: another start overwrites its entry, or the   *)
(* late handler of another removes it, by the id they share.               *)
LoseStep ==
  \A p \in Procs :
    proc[p] = "alive" /\ Owned(p) /\ ~Owned(p)' /\ proc'[p] = "alive" =>
      \/ \E q \in Procs \ {p} : Registers(q) \/ HandlerRemoves(q)
      \/ \E t \in Stops : taken[t] = p /\ StopFails(t)

LostOnlyToAnother == [][LoseStep]_vars

(* The entry of a process whose handler is still to run goes away, even    *)
(* when the process ended by itself.  (A process that ends, and is         *)
(* handled, before Registers keeps its entry for good, and every later     *)
(* start finds the machine running.)                                       *)
ExitReconciled ==
  \A p \in Procs :
    (proc[p] = "exited" /\ handler[p] \in {"armed", "raised"} /\ entry = p)
      ~> entry # p
=============================================================================
