------------------------------ MODULE Launcher ------------------------------
(***************************************************************************)
(* What control.c's launcher promises to those who use a lone daemon,      *)
(* without its record, its calls or the process table: a machine that has  *)
(* been started can be stopped until a later start or a death loses it,    *)
(* and what is stopping, or lost, is never touched again.                  *)
(***************************************************************************)
CONSTANT Machines

VARIABLES
  up,        \* whether the daemon runs
  machine    \* each machine: off, on (a stop can end it), stopping, lost

vars == <<up, machine>>

To(m, state) == machine' = [machine EXCEPT ![m] = state]

Init == ~up /\ machine = [m \in Machines |-> "off"]

(* Between calls at most one machine is on; a start adds one. *)
Start(m) ==
  /\ up /\ machine[m] = "off"
  /\ \A k, l \in Machines : machine[k] = "on" /\ machine[l] = "on" => k = l
  /\ To(m, "on") /\ UNCHANGED up

Stop(m) == up /\ machine[m] = "on" /\ To(m, "stopping") /\ UNCHANGED up

Lose(m) == machine[m] = "on" /\ To(m, "lost")

End(m) == machine[m] # "off" /\ To(m, "off") /\ UNCHANGED up

Crash ==
  /\ up /\ ~up'
  /\ \/ UNCHANGED machine
     \/ \E m \in Machines : Lose(m)

(* A daemon comes back only when all machines are off. *)
Boot ==
  /\ ~up /\ \A m \in Machines : machine[m] = "off"
  /\ up' /\ UNCHANGED machine

Next ==
  \/ \E m \in Machines : \/ Start(m) \/ Stop(m) \/ End(m)
                         \/ up /\ Lose(m) /\ UNCHANGED up
  \/ Crash \/ Boot

Spec == Init /\ [][Next]_vars
=============================================================================
