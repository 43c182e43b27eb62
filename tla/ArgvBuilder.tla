---------------------------- MODULE ArgvBuilder ----------------------------
(***************************************************************************)
(* qwm_build_argv of cli_builder.c.  A configuration fixes a sequence of   *)
(* additions; each step is one call of add or addf, which appends one      *)
(* argument to the vector v or fails, for want of room, of memory or, when *)
(* it formats, of buffer.  Arguments are tuples of strings; of a text only *)
(* its origin and whether it exceeds a buffer are kept.                    *)
(***************************************************************************)
EXTENDS Integers, Sequences, SequencesExt

CONSTANTS
  Configs,   \* the configurations qwm_build_argv is called with
  Cap        \* the capacity of v (QWM_MAX_ARGS in ctl_start)

(* qwm_device and qwm_vm_config, without what is only formatted; a text *)
(* is a string, and "NULL" when there is none.                            *)
DeviceType ==
  [kind : STRING, path : STRING, bus : STRING, model : STRING, address : STRING]

ConfigType ==
  [name : STRING, architecture : STRING, acceleration : STRING,
   machine : STRING, cpu : STRING, qmp_socket : STRING,
   vcpus : Int, memory_mib : Int, gdb_port : Int, gdb_stop : BOOLEAN,
   devices : Seq(DeviceType)]

ASSUME CapAssumption == Cap \in Nat
ASSUME ConfigsAssumption == Configs \subseteq ConfigType

Architectures == {"x86_64", "i386", "ppc", "ppc64", "sparc", "sparc64", "mips",
  "mips64", "arm", "aarch64", "m68k", "alpha", "riscv64"}
Accelerators == {"kvm", "whpx", "hvf", "nvmm", "tcg"}

(* The checks of lines 39 to 41. *)
Valid(c) ==
  /\ c.name # "NULL"
  /\ c.architecture \in Architectures
  /\ c.acceleration \in Accelerators
  /\ c.vcpus >= 1 /\ c.memory_mib >= 16
-----------------------------------------------------------------------------
(* An addition: the argument, and whether the text of a formatted one fits *)
(* STACK_BUF.  A text t is "NULL", "long" (too long for it) or anything    *)
(* else.                                                                   *)
Add(arg)     == [arg |-> arg, fits |-> TRUE]
Addf(arg, t) == [arg |-> arg, fits |-> t # "long"]

Flag(f) == Add(<<f>>)
Text(t) == IF t = "NULL" THEN "" ELSE t
Or(t, default) == IF t = "NULL" THEN default ELSE t

bus_raw(b) ==
  CASE b \in {"ide", "floppy"} -> b
    [] b \in {"scsi", "virtio-scsi", "lsi53c895a"} -> "scsi"
    [] OTHER -> "virtio"

Drive(d, if) ==
  <<Flag("-drive"), Addf(<<"file=", Text(d.path), if>>, d.path)>>

(* What a device of each kind adds; an unknown kind adds nothing. *)
DeviceArgs(d) ==
  CASE d.kind = "disk"     -> Drive(d, bus_raw(d.bus))
    [] d.kind = "cdrom"    -> Drive(d, "ide,media=cdrom")
    [] d.kind = "floppy"   -> Drive(d, "floppy")
    [] d.kind = "sd"       -> Drive(d, "sd")
    [] d.kind = "display"  -> <<Flag("-vga"), Add(<<Or(d.model, "std")>>)>>
    [] d.kind = "vga"      -> <<Flag("-vga"), Add(<<Or(d.model, "virtio")>>)>>
    [] d.kind = "audio"    -> <<Flag("-soundhw"), Add(<<Or(d.model, "ac97")>>)>>
    [] d.kind = "serial"   ->
         <<Flag("-serial"), Addf(<<"unix:", Text(d.path)>>, d.path)>>
    [] d.kind = "network"  ->
         <<Flag("-device"),
           Addf(<<Or(d.model, "virtio-net-pci"), "netdev=qwmnet">>, d.model)>>
    [] d.kind = "usb"      -> <<Flag("-device"), Addf(<<"usb-host">>, "ids")>>
    [] d.kind = "usb-hub"  -> <<Flag("-device"), Add(<<"usb-hub">>)>>
    [] d.kind = "vfio-pci" ->
         <<Flag("-device"), Addf(<<"vfio-pci,host=", Text(d.address)>>, d.address)>>
    [] d.kind = "raw-disk" ->
         Drive(d, "none,id=raw0")
           \o <<Flag("-device"), Add(<<"virtio-blk-pci,drive=raw0">>)>>
    [] OTHER -> <<>>

Option(given, args) == IF given THEN args ELSE <<>>

(* A -cpu text that is too long is cut, not refused. *)
CutText(t) == IF t = "long" THEN "cut" ELSE t

Additions(c) ==
  <<Addf(<<"qemu-system-", c.architecture>>, c.architecture),
    Flag("-name"), Add(<<c.name>>),
    Flag("-accel"), Add(<<c.acceleration>>),
    Flag("-smp"), Addf(<<"vcpus">>, "number"),
    Flag("-m"), Addf(<<"memory">>, "number")>>
  \o Option(c.machine # "NULL", <<Flag("-M"), Add(<<c.machine>>)>>)
  \o Option(c.cpu # "NULL", <<Flag("-cpu"), Add(<<CutText(c.cpu)>>)>>)
  \o Option(c.qmp_socket # "NULL",
            <<Flag("-qmp"), Addf(<<"unix:", c.qmp_socket>>, c.qmp_socket)>>)
  \o Option(c.gdb_port > 0 /\ c.gdb_stop, <<Flag("-S")>>)
  \o Option(c.gdb_port > 0, <<Flag("-gdb"), Addf(<<"tcp:">>, "number")>>)
  \o FlattenSeq([i \in 1..Len(c.devices) |-> DeviceArgs(c.devices[i])])
-----------------------------------------------------------------------------
VARIABLES
  config,   \* the argument of the call
  pc,       \* build, then done
  next,     \* the addition to make
  n,        \* the number of arguments in v, or -1 after a failure
  v         \* the arguments stored

buildVars == <<config, pc, next, n, v>>

BuildInit ==
  /\ config \in Configs
  /\ pc = IF Valid(config) THEN "build" ELSE "done"
  /\ n = IF Valid(config) THEN 0 ELSE -1
  /\ next = 1 /\ v = <<>>

(* Seeded bugs: the place of the closing NULL is given away; a failure is   *)
(* forgotten by the next addition.                                         *)
Bug_Room == n >= 0 /\ n < Cap
Bug_Forgets == n + 1 < Cap

(* add refuses when an earlier addition has failed, and keeps one place of *)
(* v for the NULL that ends it.                                            *)
Room == n >= 0 /\ n + 1 < Cap

(* One call of add or addf.  malloc may fail at any of them. *)
AddOne ==
  /\ pc = "build" /\ next <= Len(Additions(config))
  /\ LET a == Additions(config)[next] IN
       \/ a.fits /\ Room /\ n' = n + 1 /\ v' = Append(v, a.arg)
       \/ n' = -1 /\ UNCHANGED v
  /\ next' = next + 1
  /\ UNCHANGED <<config, pc>>

(* The end, or one of the checks of n on the way (after the first argument *)
(* and after each device), which can only find what the end would find.    *)
Return ==
  /\ pc = "build"
  /\ next > Len(Additions(config)) \/ n < 0
  /\ pc' = "done"
  /\ n' = IF n >= Cap THEN -1 ELSE n
  /\ UNCHANGED <<config, next, v>>

BuildNext == AddOne \/ Return

BuildSpec == BuildInit /\ [][BuildNext]_buildVars
-----------------------------------------------------------------------------
(* A call that succeeds has made every addition of the configuration, in   *)
(* order: no failure in the middle is ever covered up by a later success,  *)
(* and no option loses its value.                                          *)
AllOrNothing ==
  pc = "done" /\ n >= 0 =>
    /\ n = Len(Additions(config))
    /\ v = [i \in 1..n |-> Additions(config)[i].arg]

(* v never holds more than Cap - 1 arguments, so that the closing NULL is  *)
(* written inside it.                                                      *)
RoomForNull == Len(v) < Cap \/ v = <<>>
=============================================================================
