---------------------------- MODULE MCTelemetry ----------------------------
(* The files for which TLC checks Telemetry. *)
EXTENDS Telemetry

Upto(S, n) == UNION {[1..k -> S] : k \in 0..n}

(* Lines of meminfo: with a unit, and without (HugePages_Total: 0). *)
Lines(label, value) ==
  {<<Word(label), Number(value), Word("kB")>>, <<Word(label), Number(value)>>}

MemInfo == Upto(Lines("MemTotal:", 5) \cup Lines("MemAvailable:", 3)
                  \cup Lines("MemAvailable:", 6) \cup Lines("Other:", 1), 3)

(* Lines of status: a name, one number, two, a number with its unit. *)
Status == Upto({<<Word("Name:"), Word("qemu")>>, <<Word("Pid:"), Number(9)>>,
                <<Word("Uid:"), Number(0), Number(0)>>, <<Word("Groups:")>>,
                <<Word("Groups:"), Number(1), Number(2), Number(3)>>,
                <<Word("Mix:"), Number(1), Word("x"), Number(2)>>,
                <<Word("VmRSS:"), Number(7), Word("kB")>>}, 3)

(* Lines of stat, of kernels with seven columns and with ten. *)
Stat == Upto({[head |-> "total", columns |-> 7], [head |-> "total", columns |-> 10],
              [head |-> "core", columns |-> 6], [head |-> "core", columns |-> 10],
              [head |-> "other", columns |-> 10]}, 3)

Plain == [meminfo |-> <<>>, status |-> <<>>, stat |-> <<>>, zone |-> 0]

AllFiles == {[Plain EXCEPT !.meminfo = m, !.zone = 3] : m \in MemInfo}
              \cup {[Plain EXCEPT !.status = s, !.zone = -3] : s \in Status}
              \cup {[Plain EXCEPT !.stat = s] : s \in Stat}
=============================================================================
