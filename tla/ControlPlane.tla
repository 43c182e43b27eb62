---------------------------- MODULE ControlPlane ----------------------------
(***************************************************************************)
(* The VM lifecycle of the daemon's POSIX build: ctl_start, ctl_stop and   *)
(* write_pid of control.c, the start-up and the death of the daemon around *)
(* them, and what they rely on in the host: the process table, SIGTERM,    *)
(* the inheritance of open descriptors and the record /tmp/qwm.pid.        *)
(*                                                                         *)
(* A daemon is single-threaded, so it runs one ctl_ call at a time; what   *)
(* interleaves with the steps of a call are the children it forked, other  *)
(* processes of the host, the signals that kill it (it installs no handler *)
(* and its loop has no exit) and other daemons, which all use the one      *)
(* record.                                                                 *)
(***************************************************************************)
EXTENDS Naturals

CONSTANTS
  Daemons,    \* daemon instances; each has a port of its own (--port)
  Pids,       \* the process identifiers the host can assign
  MaxDeaths   \* bound: how many times daemons are killed in a behaviour

ASSUME ConstantsAssumption ==
  /\ MaxDeaths \in Nat
  /\ Pids \cap {"none", "absent", "empty"} = {}
  /\ "init" \notin Daemons

VARIABLES
  stage,     \* where each daemon is in the call it runs
  held,      \* the local variable pid of that call
  answer,    \* pid in the last answer of a daemon, if it was a start's
  pidfile,   \* /tmp/qwm.pid: absent, empty (truncated), or the pid in it
  kind,      \* what each pid denotes now
  parent,    \* the daemon that would have to wait() for it, or init
  port,      \* the daemon whose listening socket it inherited, or init
  sigterm,   \* processes that have SIGTERM to act on
  deaths     \* how many daemons have been killed so far

vars == <<stage, held, answer, pidfile, kind, parent, port, sigterm, deaths>>
hostVars == <<kind, parent, port, sigterm, deaths>>

Stages == {"down", "idle", "forked", "opened", "detached", "read", "remove"}
Kinds  == {"free", "forked", "vm", "zombie", "foreign"}

TypeOK ==
  /\ stage \in [Daemons -> Stages]
  /\ held \in [Daemons -> Pids \cup {"none"}]
  /\ answer \in [Daemons -> Pids \cup {"none"}]
  /\ pidfile \in Pids \cup {"absent", "empty"}
  /\ kind \in [Pids -> Kinds]
  /\ parent \in [Pids -> Daemons \cup {"init"}]
  /\ port \in [Pids -> Daemons \cup {"init"}]
  /\ sigterm \in SUBSET Pids
  /\ deaths \in 0..MaxDeaths

Alive(p)   == kind[p] \in {"forked", "vm"}
Child(p)   == kind[p] \in {"forked", "vm", "zombie"}
Running(p) == kind[p] \in {"forked", "vm", "foreign"}

Init ==
  /\ stage = [d \in Daemons |-> "down"]
  /\ held = [d \in Daemons |-> "none"]
  /\ answer = [d \in Daemons |-> "none"]
  /\ pidfile = "absent"
  /\ kind = [p \in Pids |-> "free"]
  /\ parent = [p \in Pids |-> "init"]
  /\ port = [p \in Pids |-> "init"]
  /\ sigterm = {}
  /\ deaths = 0
-----------------------------------------------------------------------------
(* The call returns: its answer names pid a, or no pid. *)
Return(d, a) ==
  /\ stage' = [stage EXCEPT ![d] = "idle"]
  /\ held' = [held EXCEPT ![d] = "none"]
  /\ answer' = [answer EXCEPT ![d] = a]

(***************************************************************************)
(* ctl_start.  The child inherits every descriptor of the daemon, the      *)
(* listening socket among them (no socket is opened close-on-exec).        *)
(***************************************************************************)
Fork(d) ==
  /\ stage[d] = "idle"
  /\ \E p \in Pids :
       /\ kind[p] = "free"
       /\ kind' = [kind EXCEPT ![p] = "forked"]
       /\ parent' = [parent EXCEPT ![p] = d]
       /\ port' = [port EXCEPT ![p] = d]
       /\ held' = [held EXCEPT ![d] = p]
  /\ stage' = [stage EXCEPT ![d] = "forked"]
  /\ UNCHANGED <<answer, pidfile, sigterm, deaths>>

ForkFails(d) ==
  /\ stage[d] = "idle"
  /\ Return(d, "none")
  /\ UNCHANGED <<pidfile, hostVars>>

(* fopen(pid_path, "w") of write_pid truncates the record before anything *)
(* is written to it.                                                      *)
OpenRecord(d) ==
  /\ stage[d] = "forked"
  /\ pidfile' = "empty"
  /\ stage' = [stage EXCEPT ![d] = "opened"]
  /\ UNCHANGED <<held, answer, hostVars>>

(* The child is left running and the start is answered as failed. *)
OpenRecordFails(d) ==
  /\ stage[d] = "forked"
  /\ Return(d, "none")
  /\ UNCHANGED <<pidfile, hostVars>>

(* fprintf, fclose and the answer.  The digits overwrite the start of what *)
(* another daemon may have written since the truncation; what is left of   *)
(* its longer text makes the record name any pid.  A record that was       *)
(* removed meanwhile is written where no path leads to it.                 *)
WriteRecord(d) ==
  /\ stage[d] \in {"opened", "detached"}
  /\ pidfile' \in CASE stage[d] = "detached" -> {pidfile}
                     [] pidfile = "empty"     -> {held[d]}
                     [] OTHER                 -> Pids
  /\ Return(d, held[d])
  /\ UNCHANGED hostVars

(* The text is lost: either fprintf reports it (the start is answered as  *)
(* failed) or only fclose does, whose result nobody looks at.             *)
RecordLost(d) ==
  /\ stage[d] \in {"opened", "detached"}
  /\ \E a \in {"none", held[d]} : Return(d, a)
  /\ UNCHANGED <<pidfile, hostVars>>
-----------------------------------------------------------------------------
(***************************************************************************)
(* ctl_stop: read the record, signal, remove the record, answer "stopped". *)
(***************************************************************************)
(* fopen fails, for want of a record or of a descriptor. *)
StopOpensNothing(d) ==
  /\ stage[d] = "idle"
  /\ Return(d, "none")
  /\ UNCHANGED <<pidfile, hostVars>>

(* A seeded bug: the result of fscanf is not looked at. *)
Bug_Parses == TRUE

Parses == pidfile \in Pids

StopReads(d) ==
  /\ stage[d] = "idle"
  /\ pidfile # "absent"
  /\ IF Parses
     THEN /\ stage' = [stage EXCEPT ![d] = "read"]
          /\ held' = [held EXCEPT ![d] = pidfile]
     ELSE /\ stage' = [stage EXCEPT ![d] = "remove"]
          /\ UNCHANGED held
  /\ UNCHANGED <<answer, pidfile, hostVars>>

(* A seeded bug: the record is removed without a signal. *)
Bug_AfterKill(p) == sigterm

(* kill() does nothing to a zombie and fails on a pid that is free. *)
AfterKill(p) == IF Running(p) THEN sigterm \cup {p} ELSE sigterm

StopSignals(d) ==
  /\ stage[d] = "read"
  /\ stage' = [stage EXCEPT ![d] = "remove"]
  /\ sigterm' = AfterKill(held[d])
  /\ UNCHANGED <<held, answer, pidfile, kind, parent, port, deaths>>

(* remove(pid_path); another daemon's open descriptor loses its name. *)
StopRemoves(d) ==
  /\ stage[d] = "remove"
  /\ pidfile' = "absent"
  /\ stage' = [e \in Daemons |->
                 IF e = d THEN "idle"
                 ELSE IF stage[e] = "opened" THEN "detached" ELSE stage[e]]
  /\ held' = [held EXCEPT ![d] = "none"]
  /\ answer' = [answer EXCEPT ![d] = "none"]
  /\ UNCHANGED hostVars
-----------------------------------------------------------------------------
(* A seeded bug: SO_REUSEPORT, so that listen succeeds beside a child. *)
Bug_PortFree(d) == TRUE

(* server_run: qwm_tcp_listen fails while any process, not only a daemon, *)
(* still listens on the port.                                             *)
PortFree(d) == \A p \in Pids : Alive(p) => port[p] # d

Boot(d) ==
  /\ stage[d] = "down"
  /\ PortFree(d)
  /\ stage' = [stage EXCEPT ![d] = "idle"]
  /\ UNCHANGED <<held, answer, pidfile, hostVars>>

(* A signal kills the daemon between any two steps.  Its zombies are      *)
(* reaped by init; its running children live on and keep the descriptors. *)
Die(d) ==
  /\ stage[d] # "down"
  /\ deaths < MaxDeaths
  /\ stage' = [stage EXCEPT ![d] = "down"]
  /\ held' = [held EXCEPT ![d] = "none"]
  /\ answer' = [answer EXCEPT ![d] = "none"]
  /\ kind' = [p \in Pids |-> IF parent[p] = d /\ kind[p] = "zombie"
                             THEN "free" ELSE kind[p]]
  /\ parent' = [p \in Pids |-> IF parent[p] = d THEN "init" ELSE parent[p]]
  /\ deaths' = deaths + 1
  /\ UNCHANGED <<pidfile, port, sigterm>>
-----------------------------------------------------------------------------
(* The child reaches its execvp.                                          *)
Exec(p) ==
  /\ kind[p] = "forked"
  /\ kind' = [kind EXCEPT ![p] = "vm"]
  /\ UNCHANGED <<stage, held, answer, pidfile, parent, port, sigterm, deaths>>

(* A seeded bug: SIGCHLD is ignored, so that children are reaped at once. *)
Bug_AfterExit(p) == "free"

(* Nothing in the daemon calls wait(): a child stays a zombie, and its pid *)
(* assigned, for as long as the daemon that forked it is up.               *)
AfterExit(p) == IF parent[p] \in Daemons THEN "zombie" ELSE "free"

(* A VM ends (guest shutdown, failure, SIGTERM), or argv building or exec *)
(* fails and the child leaves by _exit(127).                              *)
ChildExits(p) ==
  /\ Alive(p)
  /\ kind' = [kind EXCEPT ![p] = AfterExit(p)]
  /\ port' = [port EXCEPT ![p] = "init"]
  /\ sigterm' = sigterm \ {p}
  /\ UNCHANGED <<stage, held, answer, pidfile, parent, deaths>>

(* Any other process of the host may be given a free pid. *)
StrangerStarts(p) ==
  /\ kind[p] = "free"
  /\ kind' = [kind EXCEPT ![p] = "foreign"]
  /\ UNCHANGED <<stage, held, answer, pidfile, parent, port, sigterm, deaths>>

StrangerExits(p) ==
  /\ kind[p] = "foreign"
  /\ kind' = [kind EXCEPT ![p] = "free"]
  /\ sigterm' = sigterm \ {p}
  /\ UNCHANGED <<stage, held, answer, pidfile, parent, port, deaths>>
-----------------------------------------------------------------------------
(* The steps of a call that has begun. *)
Continue(d) ==
  \/ OpenRecord(d) \/ OpenRecordFails(d) \/ WriteRecord(d) \/ RecordLost(d)
  \/ StopSignals(d) \/ StopRemoves(d)

Next ==
  \/ \E d \in Daemons :
       \/ Fork(d) \/ ForkFails(d) \/ StopOpensNothing(d) \/ StopReads(d)
       \/ Continue(d) \/ Boot(d) \/ Die(d)
  \/ \E p \in Pids :
       Exec(p) \/ ChildExits(p) \/ StrangerStarts(p) \/ StrangerExits(p)

Spec == Init /\ [][Next]_vars

(***************************************************************************)
(* A call that has begun goes on, since none of its steps can block, and a *)
(* child acts on the SIGTERM it has.  Nothing obliges anyone to issue a    *)
(* request, to restart a daemon, or a VM to end of its own accord.         *)
(***************************************************************************)
Fairness ==
  /\ \A d \in Daemons : WF_vars(Continue(d))
  /\ \A p \in Pids : WF_vars(p \in sigterm /\ ChildExits(p))

FairSpec == Spec /\ Fairness
-----------------------------------------------------------------------------
(* The control plane can still end p: p is recorded, about to be recorded, *)
(* about to be signalled, or signalled.                                    *)
InReach(p) ==
  \/ pidfile = p
  \/ p \in sigterm
  \/ \E d \in Daemons :
       held[d] = p /\ stage[d] \in {"forked", "opened", "read"}

Lost(p) == Alive(p) /\ ~InReach(p)

SingleDaemon == \A d, e \in Daemons : d = e

(***************************************************************************)
(* A daemon that is up never coexists with a VM forked by an earlier life  *)
(* of it on the same port: the inherited listening socket makes listen     *)
(* fail until the last such VM has ended.  (ctl_stop after a restart can   *)
(* therefore never reach a VM of the life before.)                         *)
(***************************************************************************)
RestartWaitsForVms ==
  \A d \in Daemons : stage[d] # "down" =>
    \A p \in Pids : Alive(p) /\ port[p] = d => parent[p] = d

(***************************************************************************)
(* As long as the one daemon has not been killed, the process ctl_stop is  *)
(* about to signal is one that a ctl_start forked, whatever ran and ended  *)
(* in between: unreaped children keep their pids from being assigned again *)
(* to any other process of the host.                                       *)
(***************************************************************************)
NoStrangerBeforeDeath ==
  SingleDaemon /\ deaths = 0 => \A d \in Daemons : stage[d] = "read" => Child(held[d])

(***************************************************************************)
(* The pid a start was answered with denotes the process that start forked *)
(* for as long as the daemon stays up, even across its exit, other         *)
(* daemons' deaths and their stops.                                        *)
(***************************************************************************)
AnsweredPidStable ==
  \A d \in Daemons : answer[d] # "none" =>
    Child(answer[d]) /\ parent[answer[d]] = d

(***************************************************************************)
(* With one daemon, a VM falls out of the control plane's reach only by a  *)
(* start that truncates its record, by a record that cannot be written, or *)
(* by the death of the daemon; never by a stop, by the ending of another   *)
(* VM or by a restart.                                                     *)
(***************************************************************************)
LossStep ==
  SingleDaemon => \A p \in Pids : ~Lost(p) /\ Lost(p)' =>
    \E d \in Daemons :
      OpenRecord(d) \/ OpenRecordFails(d) \/ RecordLost(d) \/ Die(d)

LostOnlyByStartOrDeath == [][LossStep]_vars

(* A stop that has read the pid of a running child ends that child, unless *)
(* the daemon is killed first.                                             *)
StopTakesEffect ==
  \A d \in Daemons : \A p \in Pids :
    (stage[d] = "read" /\ held[d] = p /\ Alive(p))
      ~> (~Alive(p) \/ stage[d] = "down")

(* What a pid is to those who use the launcher. *)
Machine(p) ==
  CASE ~Alive(p)                -> "off"
    [] Alive(p) /\ p \in sigterm -> "stopping"
    [] Lost(p)                  -> "lost"
    [] OTHER                    -> "on"

Launch == INSTANCE Launcher WITH
  Machines <- Pids,
  up       <- \E d \in Daemons : stage[d] # "down",
  machine  <- [p \in Pids |-> Machine(p)]

(* A lone daemon is a launcher: it stops only a machine it has on, starts  *)
(* one only with at most one on, and never gets hold again of one that is  *)
(* stopping or lost, whatever the record said in between.                  *)
ImplementsLauncher == Launch!Spec
=============================================================================
