------------------------------- MODULE WebUsb -------------------------------
(***************************************************************************)
(* ClientUsbBridge of webusb.js: clicks on "forward" run forwardUrb, which *)
(* awaits the device, then the socket, then polls the device for ever.     *)
(* Every action is what runs between two awaits.  At each of them another  *)
(* click, another selection or reset() may have changed what `this` holds, *)
(* and the code reads `this` anew after each.                              *)
(*                                                                         *)
(* External: the browser's USB and WebSocket, and the server that may or   *)
(* may not accept the socket (the daemon of this repository refuses it).   *)
(***************************************************************************)
EXTENDS Naturals

CONSTANTS
  Devices,    \* what the chooser of requestDevice offers
  Forwards,   \* calls of forwardUrb and their loops that may overlap
  MaxResets   \* bound: calls of reset()

ASSUME BridgeAssumption == MaxResets \in Nat /\ "none" \notin Devices

VARIABLES
  device,     \* this.device
  iface,      \* whether this.interfaceNumber is set
  eps,        \* the device whose endpoints are in this.endpointsIn
  socket,     \* this.socket, 0 for null
  sock,       \* readyState of every socket ever made
  opened, claimed,   \* devices open, and with their interface claimed
  call,       \* each call: the promise it awaits, and of what
  probes,     \* history: <<socket, device>> of each probe sent
  urb,        \* history: <<socket, device>> of the last URB sent
  resets      \* how often reset() was called

vars == <<device, iface, eps, socket, sock, opened, claimed, call, probes, urb,
          resets>>

bridge  == <<device, iface, eps, resets>>
usb     == <<opened, claimed, urb>>
channel == <<socket, sock, probes>>

(* reset() is what makes the next socket a new one. *)
Sockets == 1..(MaxResets + 1)
Maybe   == Devices \cup {"none"}

At(place, d, t, s) == [at |-> place, dev |-> d, target |-> t, on |-> s]
Idle == At("idle", "none", "none", 0)

Calls ==
  [at : {"idle", "opening", "configuring", "claiming", "waiting", "ready", "polling"},
   dev : Maybe, target : Maybe, on : Sockets \cup {0}]

TypeOK ==
  /\ device \in Maybe /\ iface \in BOOLEAN /\ eps \in Maybe
  /\ socket \in Sockets \cup {0}
  /\ sock \in [Sockets -> {"unborn", "connecting", "aborted", "open", "closing",
                           "closed"}]
  /\ opened \in SUBSET Devices /\ claimed \in SUBSET opened
  /\ call \in [Forwards -> Calls]
  /\ probes \in SUBSET (Sockets \X Devices)
  /\ urb \in (Sockets \X Devices) \cup {<<>>}
  /\ resets \in 0..MaxResets

Init ==
  /\ device = "none" /\ iface = FALSE /\ eps = "none"
  /\ socket = 0 /\ sock = [s \in Sockets |-> "unborn"]
  /\ opened = {} /\ claimed = {}
  /\ call = [f \in Forwards |-> Idle]
  /\ probes = {} /\ urb = <<>> /\ resets = 0
-----------------------------------------------------------------------------
(* The promises an event has settled run before any other event. *)
Quiet == \A f \in Forwards : call[f].at # "ready"

Goto(f, place) == call' = [call EXCEPT ![f] = place]

Live(s) == s \in Sockets /\ sock[s] = "open"

(* The loop of beginPolling, up to its next await: both conditions and the *)
(* device of the next transfer are read anew.                              *)
Polls(f) ==
  Goto(f, IF device # "none" /\ Live(socket)
          THEN At("polling", device, "none", 0) ELSE Idle)

(* A seeded bug: one probe per socket. *)
Bug_ToProbe ==
  IF \E d \in Devices : <<socket, d>> \in probes THEN {} ELSE {<<socket, device>>}

(* A probe names the device that is selected when it is sent. *)
ToProbe == {<<socket, device>>}

(* A seeded bug: `this.device?.vendorId`. *)
Bug_Throws == FALSE

Throws == device = "none"

(* The end of forwardUrb on an open socket: probe, and beginPolling on the *)
(* endpoints of e.                                                         *)
Probe(f, e) ==
  IF Throws THEN Goto(f, Idle) /\ UNCHANGED probes
  ELSE /\ probes' = probes \cup ToProbe
       /\ IF e = "none" THEN Goto(f, Idle) ELSE Polls(f)

(* connectForwarding: whatever is not open is waited for. *)
Connect(f, e) ==
  \/ Live(socket) /\ Probe(f, e) /\ UNCHANGED <<socket, sock>>
  \/ /\ ~Live(socket) /\ UNCHANGED probes
     /\ \/ socket # 0 /\ UNCHANGED <<socket, sock>>
        \/ socket = 0 /\ socket' = resets + 1
           /\ sock' = [sock EXCEPT ![resets + 1] = "connecting"]
     /\ Goto(f, At("waiting", "none", "none", socket'))
-----------------------------------------------------------------------------
(* A click on "forward": the first step of forwardUrb, and of claim. *)
Forward(f) ==
  /\ Quiet /\ call[f] = Idle
  /\ \/ /\ ~iface /\ device # "none"
        /\ Goto(f, At("opening", device, "none", 0))
        /\ UNCHANGED channel
     \/ iface /\ Connect(f, eps)
  /\ UNCHANGED <<bridge, usb>>

(* open() resolves: the configuration is that of the device selected now. *)
Opened(f) ==
  /\ Quiet /\ call[f].at = "opening"
  /\ opened' = opened \cup {call[f].dev}
  /\ Goto(f, IF device = "none" THEN Idle
             ELSE At("configuring", device, "none", 0))
  /\ UNCHANGED <<bridge, channel, claimed, urb>>

(* selectConfiguration() resolves; the interface number is set before the *)
(* claim that may fail, and is never unset.                               *)
Configured(f) ==
  /\ Quiet /\ call[f].at = "configuring" /\ call[f].dev \in opened
  /\ iface' = TRUE
  /\ Goto(f, IF device = "none" THEN Idle
             ELSE At("claiming", call[f].dev, device, 0))
  /\ UNCHANGED <<device, eps, resets, channel, usb>>

(* claimInterface() resolves; the endpoints are those of the configuration. *)
Claimed(f) ==
  /\ Quiet /\ call[f].at = "claiming" /\ call[f].target \in opened
  /\ claimed' = claimed \cup {call[f].target}
  /\ eps' = call[f].dev
  /\ Connect(f, eps')
  /\ UNCHANGED <<device, iface, resets, opened, urb>>

Rejects(f) ==
  /\ Quiet /\ call[f].at \in {"opening", "configuring", "claiming"}
  /\ Goto(f, Idle)
  /\ UNCHANGED <<bridge, usb, channel>>

(* The call goes on after 'open'. *)
Resumes(f) ==
  /\ call[f].at = "ready"
  /\ Probe(f, eps)
  /\ UNCHANGED <<bridge, usb, socket, sock>>
-----------------------------------------------------------------------------
(* transferIn() resolves, with data or without; the URB goes to the socket *)
(* of now, which discards it when closed and throws when connecting.       *)
Transfers(f) ==
  /\ Quiet /\ call[f].at = "polling" /\ call[f].dev \in claimed
  /\ urb' \in {urb} \cup (IF Live(socket) THEN {<<socket, call[f].dev>>} ELSE {})
  /\ Polls(f)
  /\ UNCHANGED <<bridge, channel, opened, claimed>>

(* The transfer fails: of a device that was never opened it always does. *)
TransferFails(f) ==
  /\ Quiet /\ call[f].at = "polling"
  /\ Goto(f, Idle)
  /\ UNCHANGED <<bridge, usb, channel>>
-----------------------------------------------------------------------------
Waits(f, s) == call[f].at = "waiting" /\ call[f].on = s

(* A seeded bug: no listener for 'error'. *)
Bug_Rejected(c) == c

(* What 'open' and 'error' make of a call that waits for them. *)
Resolved(c) == At("ready", "none", "none", 0)
Rejected(c) == Idle

SockOpens(s) ==
  /\ Quiet /\ sock[s] = "connecting"
  /\ sock' = [sock EXCEPT ![s] = "open"]
  /\ call' = [f \in Forwards |-> IF Waits(f, s) THEN Resolved(call[f]) ELSE call[f]]
  /\ UNCHANGED <<bridge, usb, socket, probes>>

(* 'error': the connection is refused, the upgrade is answered otherwise,  *)
(* or close() came first.                                                  *)
SockFails(s) ==
  /\ Quiet /\ sock[s] \in {"connecting", "aborted"}
  /\ sock' = [sock EXCEPT ![s] = "closed"]
  /\ call' = [f \in Forwards |-> IF Waits(f, s) THEN Rejected(call[f]) ELSE call[f]]
  /\ UNCHANGED <<bridge, usb, socket, probes>>

(* 'close' of a socket that was open: nobody listens for it. *)
SockCloses(s) ==
  /\ Quiet /\ sock[s] \in {"open", "closing"}
  /\ sock' = [sock EXCEPT ![s] = "closed"]
  /\ UNCHANGED <<bridge, usb, call, socket, probes>>
-----------------------------------------------------------------------------
(* select(): the chooser has been answered. *)
Select(d) ==
  /\ Quiet
  /\ device' = d
  /\ UNCHANGED <<iface, eps, resets, usb, channel, call>>

(* close() of a socket, by the state it is in. *)
AfterClose(state) ==
  CASE state = "connecting" -> "aborted"
    [] state = "open"       -> "closing"
    [] OTHER                -> state

(* reset(), which app.js does not call. *)
Reset ==
  /\ Quiet /\ resets < MaxResets
  /\ device' = "none" /\ socket' = 0
  /\ sock' = [s \in Sockets |-> IF s = socket THEN AfterClose(sock[s]) ELSE sock[s]]
  /\ resets' = resets + 1
  /\ UNCHANGED <<iface, eps, usb, probes, call>>
-----------------------------------------------------------------------------
Settles(s) == SockOpens(s) \/ SockFails(s)

Next ==
  \/ \E f \in Forwards :
       \/ Forward(f) \/ Opened(f) \/ Configured(f) \/ Claimed(f) \/ Rejects(f)
       \/ Resumes(f) \/ Transfers(f) \/ TransferFails(f)
  \/ \E s \in Sockets : Settles(s) \/ SockCloses(s)
  \/ \E d \in Devices : Select(d)
  \/ Reset

Spec == Init /\ [][Next]_vars

(* The browser settles every connection it begins, by a timeout of its own *)
(* if need be, and runs what is ready.  Devices owe nothing.               *)
FairSpec ==
  /\ Spec
  /\ \A s \in Sockets : WF_vars(Settles(s))
  /\ \A f \in Forwards : WF_vars(Resumes(f))
-----------------------------------------------------------------------------
(* A forward that waits for a socket which is still connecting, or was so  *)
(* when reset() closed it, does not wait for ever.  (One that comes when   *)
(* the socket has closed does: connectForwarding keeps the closed socket   *)
(* and waits for an 'open' it will never raise.)                           *)
HangsOnlyOnDeadSocket ==
  \A f \in Forwards : \A s \in Sockets :
    Waits(f, s) /\ sock[s] \in {"connecting", "aborted"} ~> ~Waits(f, s)

(* Whatever selections, clicks and resets overlap, a URB reaches a socket  *)
(* only after a probe that names its device: on that socket or, when the   *)
(* bridge was reset during the transfer, on one before it (until then      *)
(* there is only one).  Overlapping claims of two devices can break this:  *)
(* it holds while one device at most is claimed, whatever was opened.      *)
UrbAfterProbe ==
  (\A d, e \in claimed : d = e) =>
    \/ urb = <<>>
    \/ \E s \in 1..urb[1] : <<s, urb[2]>> \in probes
=============================================================================
