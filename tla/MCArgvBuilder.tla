--------------------------- MODULE MCArgvBuilder ---------------------------
(* The configurations for which TLC checks ArgvBuilder. *)
EXTENDS ArgvBuilder

(* What ctl_start passes. *)
Base == [name |-> "vm", architecture |-> "x86_64", acceleration |-> "tcg",
         vcpus |-> 2, memory_mib |-> 2048, machine |-> "NULL", cpu |-> "NULL",
         qmp_socket |-> "NULL", gdb_port |-> 0, gdb_stop |-> FALSE,
         devices |-> <<>>]

(* Each check of the arguments, passed and failed. *)
Checked ==
  {[Base EXCEPT !.name = nm, !.architecture = a, !.acceleration = x,
                !.vcpus = cpus, !.memory_mib = m] :
     nm \in {"vm", "NULL"}, a \in {"x86_64", "vax"}, x \in {"tcg", "xen"},
     cpus \in {0, 1}, m \in {15, 16}}

(* Each option, absent, short and too long. *)
Optioned ==
  {[Base EXCEPT !.machine = m, !.cpu = t, !.qmp_socket = q,
                !.gdb_port = IF g = "none" THEN 0 ELSE 1234,
                !.gdb_stop = g = "stop"] :
     m \in {"NULL", "q35"}, t \in {"NULL", "host", "long"},
     q \in {"NULL", "sock", "long"}, g \in {"none", "run", "stop"}}

Device(k, p) == [kind |-> k, path |-> p, bus |-> "ide", model |-> "NULL",
                 address |-> p]

Kinds == {"disk", "cdrom", "floppy", "sd", "display", "vga", "audio", "serial",
  "network", "usb", "usb-hub", "vfio-pci", "raw-disk", "unknown"}

(* Every kind of device, and two in a row. *)
Equipped ==
  {[Base EXCEPT !.devices = <<Device(k, p)>>] :
     k \in Kinds, p \in {"NULL", "path", "long"}}
  \cup
  {[Base EXCEPT !.devices = <<Device(k, "path"), Device(l, p)>>] :
     k \in Kinds, l \in {"disk", "raw-disk", "unknown"}, p \in {"path", "long"}}

AllConfigs == Checked \cup Optioned \cup Equipped
=============================================================================
