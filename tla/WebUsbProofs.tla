---------------------------- MODULE WebUsbProofs ----------------------------
(***************************************************************************)
(* Proofs about WebUsb for any devices, any number of overlapping forwards *)
(* and any number of resets.                                               *)
(***************************************************************************)
EXTENDS WebUsb, TLAPS

(* The socket of the bridge is the one made since the last reset, and no   *)
(* other connects or is open.                                              *)
SocketInv ==
  /\ socket \in {0, resets + 1}
  /\ \A s \in Sockets : sock[s] \in {"connecting", "open"} => s = socket

(* A call that awaits a device awaits a real one; what 'open' has made     *)
(* ready finds the socket open and still the one of the bridge.            *)
CallInv ==
  \A f \in Forwards :
    /\ call[f].at \in {"opening", "configuring", "claiming", "polling"} =>
         call[f].dev # "none"
    /\ call[f].at = "ready" => Live(socket)

(* A probe of the device on one of the sockets made so far. *)
Probed(d) == \E s \in 1..(resets + 1) : <<s, d>> \in probes

(* A device that is polled without a probe of its own is not the only one  *)
(* to be claimed, if it is ever claimed at all.                            *)
PollInv ==
  \A f \in Forwards : call[f].at = "polling" =>
    \/ Probed(call[f].dev)
    \/ \E d \in claimed : d # call[f].dev

IInv ==
  /\ TypeOK /\ UrbAfterProbe
  /\ SocketInv /\ CallInv /\ PollInv

LEMMA InitIInv == Init => IInv
<1> SUFFICES ASSUME Init PROVE IInv
  OBVIOUS
<1> USE BridgeAssumption DEF Init
<1>1. TypeOK
  <2>1. urb \in (Sockets \X Devices) \cup {<<>>}
    OBVIOUS
  <2>2. call \in [Forwards -> Calls]
    BY DEF Maybe, Calls, Idle, At
  <2>3. /\ device \in Maybe /\ iface \in BOOLEAN /\ eps \in Maybe
        /\ sock \in [Sockets -> {"unborn", "connecting", "aborted", "open",
                                 "closing", "closed"}]
    BY DEF Maybe
  <2>4. socket \in Sockets \cup {0} /\ resets \in 0..MaxResets
    OBVIOUS
  <2>5. /\ opened \in SUBSET Devices /\ claimed \in SUBSET opened
        /\ probes \in SUBSET (Sockets \X Devices)
    BY Zenon
  <2> QED
    BY <2>1, <2>2, <2>3, <2>4, <2>5 DEF TypeOK
<1>2. UrbAfterProbe /\ SocketInv /\ CallInv /\ PollInv
  BY DEF UrbAfterProbe, SocketInv, CallInv, PollInv, Idle, At, Sockets
<1> QED
  BY <1>1, <1>2 DEF IInv

(* The beginning of a loop, or its next turn: it polls what has a probe,   *)
(* or goes on from a device that had one or was not the only one.          *)
LEMMA PollsStep ==
  ASSUME IInv, NEW f \in Forwards, Polls(f), 
         UNCHANGED <<device, resets, socket, sock>>,
         claimed \subseteq claimed', probes \subseteq probes',
         \/ call[f].at = "polling" /\ call[f].dev \in claimed'
         \/ <<socket, device>> \in probes'
  PROVE  call' \in [Forwards -> Calls] /\ CallInv' /\ PollInv'
<1> USE DEF IInv, TypeOK, Polls, Goto, At, Idle
<1>1. call' \in [Forwards -> Calls]
  BY DEF Calls, Maybe
<1>2. CallInv'
  BY <1>1 DEF CallInv, Live
<1>3. PollInv'
  <2> SUFFICES ASSUME NEW g \in Forwards, call'[g].at = "polling"
               PROVE  \/ \E s \in 1..(resets' + 1) : <<s, call'[g].dev>> \in probes'
                      \/ \E d \in claimed' : d # call'[g].dev
    BY DEF PollInv, Probed
  <2>1. CASE g # f
    BY <2>1 DEF PollInv, Probed
  <2>2. CASE g = f
    <3>1. call'[g].dev = device /\ socket = resets + 1 /\ socket \in 1..(resets + 1)
      BY <2>2, BridgeAssumption DEF Live, SocketInv, Sockets
    <3> QED
      BY <2>2, <3>1 DEF PollInv, Probed
  <2> QED
    BY <2>1, <2>2
<1> QED
  BY <1>1, <1>2, <1>3

(* The end of forwardUrb, on the open socket of the bridge. *)
LEMMA ProbeStep ==
  ASSUME IInv, NEW f \in Forwards, NEW e, Probe(f, e), Live(socket),
         UNCHANGED <<device, resets, socket, sock>>, claimed \subseteq claimed'
  PROVE  /\ call' \in [Forwards -> Calls] /\ CallInv' /\ PollInv'
         /\ probes \subseteq probes' /\ probes' \in SUBSET (Sockets \X Devices)
<1> USE DEF IInv, TypeOK
<1>1. probes \subseteq probes' /\ probes' \in SUBSET (Sockets \X Devices)
  BY DEF Probe, Throws, ToProbe, Live, Maybe
<1>2. ASSUME call' = [call EXCEPT ![f] = Idle]
      PROVE  call' \in [Forwards -> Calls] /\ CallInv' /\ PollInv'
  <2>1. call' \in [Forwards -> Calls]
    BY <1>2 DEF Calls, Maybe, Idle, At
  <2>2. CallInv'
    BY <1>2, <2>1 DEF CallInv, Idle, At, Live
  <2>3. PollInv'
    BY <1>1, <1>2, <2>1 DEF PollInv, Probed, Idle, At
  <2> QED
    BY <2>1, <2>2, <2>3
<1>3. CASE Throws \/ e = "none"
  BY <1>1, <1>2, <1>3 DEF Probe, Goto
<1>4. CASE ~Throws /\ e # "none"
  <2>1. Polls(f) /\ <<socket, device>> \in probes'
    BY <1>4 DEF Probe, ToProbe
  <2> QED
    BY <1>1, <2>1, PollsStep
<1> QED
  BY <1>3, <1>4

(* A call that does not come to poll keeps the invariant of those that do. *)
LEMMA OtherStep ==
  ASSUME IInv, NEW f \in Forwards, NEW place \in Calls, Goto(f, place),
         place.at # "polling", UNCHANGED resets,
         claimed \subseteq claimed', probes \subseteq probes'
  PROVE  call' \in [Forwards -> Calls] /\ PollInv'
  BY DEF IInv, TypeOK, Goto, PollInv, Probed

(* A call that goes on to await something else, or ends. *)
LEMMA GotoStep ==
  ASSUME IInv, NEW f \in Forwards,
         NEW at \in {"idle", "opening", "configuring", "claiming"},
         NEW d \in Maybe, NEW t \in Maybe, at # "idle" => d # "none",
         Goto(f, At(at, d, t, 0)),
         UNCHANGED <<socket, sock, resets, probes>>, claimed \subseteq claimed'
  PROVE  call' \in [Forwards -> Calls] /\ CallInv' /\ PollInv' /\ SocketInv'
<1> DEFINE place == At(at, d, t, 0)
<1>1. place \in Calls /\ place.at = at /\ place.dev = d
  BY DEF At, Calls
<1>2. call' \in [Forwards -> Calls] /\ PollInv'
  BY <1>1, OtherStep
<1>3. CallInv'
  BY <1>1, <1>2 DEF IInv, TypeOK, CallInv, Goto, Live
<1> QED
  BY <1>2, <1>3 DEF IInv, SocketInv

LEMMA ConnectStep ==
  ASSUME IInv, NEW f \in Forwards, NEW e, Connect(f, e), Quiet,
         UNCHANGED <<device, resets>>, claimed \subseteq claimed'
  PROVE  /\ call' \in [Forwards -> Calls] /\ CallInv' /\ PollInv' /\ SocketInv'
         /\ probes \subseteq probes' /\ probes' \in SUBSET (Sockets \X Devices)
         /\ socket' \in Sockets \cup {0}
         /\ sock' \in [Sockets -> {"unborn", "connecting", "aborted", "open",
                                   "closing", "closed"}]
<1>1. CASE Live(socket) /\ Probe(f, e) /\ UNCHANGED <<socket, sock>>
  <2>1. SocketInv'
    BY <1>1 DEF SocketInv, IInv
  <2> QED
    BY <1>1, <2>1, ProbeStep DEF IInv, TypeOK
<1>2. CASE ~Live(socket) /\ UNCHANGED probes
  <2> DEFINE place == At("waiting", "none", "none", socket')
  <2>1. /\ socket' \in Sockets \cup {0} /\ SocketInv'
        /\ sock' \in [Sockets -> {"unborn", "connecting", "aborted", "open",
                                  "closing", "closed"}]
    BY <1>2, BridgeAssumption DEF Connect, IInv, TypeOK, SocketInv, Sockets
  <2>2. Goto(f, place)
    BY <1>2 DEF Connect
  <2>3. place \in Calls /\ place.at = "waiting"
    BY <2>1 DEF At, Calls, Maybe
  <2>4. call' \in [Forwards -> Calls] /\ PollInv'
    BY <1>2, <2>2, <2>3, OtherStep
  <2>5. CallInv'
    BY <2>2, <2>3, <2>4 DEF CallInv, Goto, Quiet, IInv, TypeOK
  <2> QED
    BY <1>2, <2>1, <2>4, <2>5 DEF IInv, TypeOK
<1> QED
  BY <1>1, <1>2 DEF Connect

(* Claims and probes are only added. *)
LEMMA UrbStep ==
  ASSUME IInv, claimed \subseteq claimed', probes \subseteq probes', urb' = urb
  PROVE  UrbAfterProbe'
  BY DEF IInv, UrbAfterProbe

LEMMA NextIInv == IInv /\ [Next]_vars => IInv'
<1> SUFFICES ASSUME IInv, [Next]_vars PROVE IInv'
  OBVIOUS
<1> USE DEF IInv, TypeOK, bridge, usb, channel
<1>1. ASSUME NEW f \in Forwards, Forward(f) PROVE IInv'
  <2> USE <1>1 DEF Forward
  <2>1. UrbAfterProbe'
    BY UrbStep, ConnectStep
  <2>2. CASE ~iface /\ device # "none" /\ Goto(f, At("opening", device, "none", 0))
             /\ UNCHANGED channel
    BY <2>1, <2>2, GotoStep DEF Maybe
  <2>3. CASE iface /\ Connect(f, eps)
    BY <2>1, <2>3, ConnectStep
  <2> QED
    BY <2>2, <2>3
<1>2. ASSUME NEW f \in Forwards, Opened(f) PROVE IInv'
  <2> USE <1>2 DEF Opened
  <2>1. call[f].dev \in Devices
    BY DEF CallInv, Calls, Maybe
  <2>2. opened' \in SUBSET Devices
    BY <2>1
  <2>3. UrbAfterProbe'
    BY <2>2, UrbStep
  <2>4. PICK d \in Maybe :
          \/ d # "none" /\ Goto(f, At("configuring", d, "none", 0))
          \/ Goto(f, At("idle", "none", "none", 0))
    BY DEF Idle
  <2>5. /\ call' \in [Forwards -> Calls] /\ CallInv' /\ PollInv' /\ SocketInv'
    BY <2>4, GotoStep DEF Maybe
  <2> QED
    BY <2>2, <2>3, <2>5
<1>3. ASSUME NEW f \in Forwards, Configured(f) PROVE IInv'
  <2> USE <1>3 DEF Configured
  <2>1. UrbAfterProbe'
    BY UrbStep
  <2>2. call[f].dev \in Devices
    BY DEF CallInv, Calls, Maybe
  <2>3. \/ Goto(f, At("claiming", call[f].dev, device, 0))
        \/ Goto(f, At("idle", "none", "none", 0))
    BY DEF Idle
  <2>4. /\ call' \in [Forwards -> Calls] /\ CallInv' /\ PollInv' /\ SocketInv'
    BY <2>2, <2>3, BridgeAssumption, GotoStep DEF Maybe
  <2> QED
    BY <2>1, <2>4
<1>4. ASSUME NEW f \in Forwards, Claimed(f) PROVE IInv'
  <2> USE <1>4 DEF Claimed
  <2>1. claimed' \in SUBSET opened' /\ claimed \subseteq claimed' /\ eps' \in Maybe
    BY DEF Calls
  <2>2. Connect(f, call[f].dev)
    OBVIOUS
  <2>3. /\ call' \in [Forwards -> Calls] /\ CallInv' /\ PollInv' /\ SocketInv'
        /\ probes \subseteq probes' /\ probes' \in SUBSET (Sockets \X Devices)
        /\ socket' \in Sockets \cup {0}
        /\ sock' \in [Sockets -> {"unborn", "connecting", "aborted", "open",
                                  "closing", "closed"}]
    BY <2>1, <2>2, ConnectStep
  <2>4. UrbAfterProbe'
    BY <2>3, UrbStep
  <2> QED
    BY <2>1, <2>3, <2>4
<1>5. ASSUME NEW f \in Forwards, Rejects(f) \/ TransferFails(f) PROVE IInv'
  <2> USE <1>5 DEF Rejects, TransferFails, Idle
  <2>1. UrbAfterProbe'
    BY UrbStep
  <2>2. /\ call' \in [Forwards -> Calls] /\ CallInv' /\ PollInv' /\ SocketInv'
    BY GotoStep DEF Maybe
  <2> QED
    BY <2>1, <2>2
<1>6. ASSUME NEW f \in Forwards, Resumes(f) PROVE IInv'
  <2> USE <1>6 DEF Resumes
  <2>1. Live(socket)
    BY DEF CallInv
  <2>2. /\ call' \in [Forwards -> Calls] /\ CallInv' /\ PollInv'
        /\ probes \subseteq probes' /\ probes' \in SUBSET (Sockets \X Devices)
    BY <2>1, ProbeStep
  <2>3. UrbAfterProbe' /\ SocketInv'
    BY <2>2, UrbStep DEF SocketInv
  <2> QED
    BY <2>2, <2>3
<1>7. ASSUME NEW f \in Forwards, Transfers(f) PROVE IInv'
  <2> USE <1>7 DEF Transfers
  <2>1. call' \in [Forwards -> Calls] /\ CallInv' /\ PollInv'
    BY PollsStep
  <2>2. CASE urb' = urb
    BY <2>1, <2>2, UrbStep DEF SocketInv
  <2>3. CASE Live(socket) /\ urb' = <<socket, call[f].dev>>
    <3>1. urb' \in Sockets \X Devices
      BY <2>3 DEF Live
    <3>2. UrbAfterProbe'
      <4> SUFFICES ASSUME \A d, e \in claimed : d = e
                   PROVE  \E s \in 1..socket : <<s, call[f].dev>> \in probes
        BY <2>3 DEF UrbAfterProbe
      <4>1. socket = resets + 1
        BY <2>3, BridgeAssumption DEF SocketInv, Live, Sockets
      <4>2. \A d \in claimed : d = call[f].dev
        OBVIOUS
      <4> QED
        BY <4>1, <4>2 DEF PollInv, Probed
    <3> QED
      BY <2>1, <3>1, <3>2 DEF SocketInv
  <2> QED
    BY <2>2, <2>3
<1>8. ASSUME NEW s \in Sockets, SockOpens(s) PROVE IInv'
  <2> USE <1>8 DEF SockOpens, Resolved, At
  <2>1. UrbAfterProbe' /\ SocketInv'
    BY UrbStep DEF SocketInv
  <2>2. call' \in [Forwards -> Calls]
    BY DEF Calls, Maybe
  <2>3. \A f \in Forwards : call'[f] = call[f] \/ call'[f].at = "ready"
    OBVIOUS
  <2>4. CallInv'
    BY <2>2, <2>3 DEF CallInv, SocketInv, Live, Quiet
  <2>5. PollInv'
    BY <2>3 DEF PollInv, Probed
  <2> QED
    BY <2>1, <2>2, <2>4, <2>5
<1>9. ASSUME NEW s \in Sockets, SockFails(s) \/ SockCloses(s) PROVE IInv'
  <2> USE <1>9 DEF SockFails, SockCloses, Rejected, Idle, At
  <2>1. UrbAfterProbe' /\ SocketInv'
    BY UrbStep DEF SocketInv
  <2>2. call' \in [Forwards -> Calls]
    BY DEF Calls, Maybe
  <2>3. \A f \in Forwards : call'[f] = call[f] \/ call'[f].at = "idle"
    OBVIOUS
  <2>4. CallInv'
    BY <2>2, <2>3 DEF CallInv, Quiet
  <2>5. PollInv'
    BY <2>3 DEF PollInv, Probed
  <2> QED
    BY <2>1, <2>2, <2>4, <2>5
<1>10. ASSUME NEW d \in Devices, Select(d) PROVE IInv'
  <2> USE <1>10 DEF Select
  <2>1. UrbAfterProbe'
    BY UrbStep
  <2>2. CallInv' /\ PollInv' /\ SocketInv'
    BY DEF CallInv, Live, PollInv, Probed, SocketInv
  <2> QED
    BY <2>1, <2>2 DEF Maybe
<1>11. CASE Reset
  <2> USE <1>11, BridgeAssumption DEF Reset
  <2>1. UrbAfterProbe' /\ PollInv'
    BY UrbStep DEF PollInv, Probed
  <2>2. sock' \in [Sockets -> {"unborn", "connecting", "aborted", "open",
                              "closing", "closed"}]
    BY DEF AfterClose
  <2>3. SocketInv'
    BY <2>2 DEF SocketInv, AfterClose
  <2>4. CallInv'
    BY DEF CallInv, Quiet
  <2> QED
    BY <2>1, <2>2, <2>3, <2>4 DEF Maybe
<1>12. CASE UNCHANGED vars
  BY <1>12 DEF vars, UrbAfterProbe, SocketInv, CallInv, Live, PollInv, Probed
<1> QED
  BY <1>1, <1>2, <1>3, <1>4, <1>5, <1>6, <1>7, <1>8, <1>9, <1>10, <1>11, <1>12
  DEF Next, Settles
-----------------------------------------------------------------------------
LEMMA Invariance == Spec => []IInv
  BY InitIInv, NextIInv, PTL DEF Spec

(* All fields of the bridge, its sockets and its calls have their types:   *)
(* a URB names a device that was opened and a socket that was made.        *)
THEOREM TypeCorrect == Spec => []TypeOK
  BY Invariance, PTL DEF IInv

(* Whatever selections, clicks and resets overlap at the awaits of         *)
(* forwardUrb, a URB reaches a socket only after a probe that names its    *)
(* device there or, across a reset, on a socket before; with two devices   *)
(* claimed by overlapping claims nothing is promised.                      *)
THEOREM ProbeSafety == Spec => []UrbAfterProbe
  BY Invariance, PTL DEF IInv
=============================================================================
