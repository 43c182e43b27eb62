-------------------------- MODULE QmpSessionProofs --------------------------
(***************************************************************************)
(* Proofs about QmpSession for a response buffer of any size and a peer    *)
(* that sends any number of lines.                                         *)
(***************************************************************************)
EXTENDS QmpSession, TLAPS

(* Nothing is in the buffer before the command has been sent, and the read *)
(* loop runs only while the buffer has room for one more unit.             *)
LoopInv ==
  /\ stage \in {"connected", "newline"} => used = 0
  /\ stage = "recv" => wire = "line" /\ used < Size - 1

IInv ==
  /\ TypeOK /\ NoFdLeak /\ LoopInv
  /\ WaitsOnlyMidLine /\ SuccessExplained /\ FailureReadNothing

LEMMA InitIInv == Init => IInv
  BY SizesAssumption DEF Init, IInv, TypeOK, Stages, Requests, Bodies, NoFdLeak,
    InCall, LoopInv, WaitsOnlyMidLine, SuccessExplained, FailureReadNothing

(* What the peer does leaves the units already sent where they are. *)
LEMMA PeerStep == IInv /\ Peer => IInv'
<1> SUFFICES ASSUME IInv, Peer PROVE IInv'
  OBVIOUS
<1> USE SizesAssumption DEF IInv, TypeOK
<1>1. ASSUME NEW u \in Texts \cup {"newline"}, Says(u) PROVE IInv'
  <2>1. TypeOK'
    BY <1>1 DEF Says
  <2>2. NoFdLeak' /\ LoopInv' /\ FailureReadNothing'
    BY <1>1 DEF Says, NoFdLeak, InCall, LoopInv, FailureReadNothing
  <2>3. \A i \in 1..Len(out) : out'[i] = out[i]
    BY <1>1 DEF Says
  <2>4. WaitsOnlyMidLine' /\ SuccessExplained'
    BY <1>1, <2>3 DEF Says, WaitsOnlyMidLine, SuccessExplained
  <2> QED
    BY <2>1, <2>2, <2>4
<1>2. CASE HangsUp
  BY <1>2 DEF HangsUp, NoFdLeak, InCall, LoopInv, WaitsOnlyMidLine,
    SuccessExplained, FailureReadNothing
<1> QED
  BY <1>1, <1>2 DEF Peer, Greets, Reports, Replies, EndsLine, Texts

LEMMA NextIInv == IInv /\ [Next]_vars => IInv'
<1> SUFFICES ASSUME IInv, [Next]_vars PROVE IInv'
  OBVIOUS
<1> USE SizesAssumption DEF IInv, TypeOK
<1>1. CASE Begin
  <2> USE <1>1 DEF Begin
  <2>1. TypeOK'
    BY DEF Stages, Requests, Bodies, NoFdLeak, InCall
  <2>2. NoFdLeak' /\ LoopInv'
    BY DEF NoFdLeak, InCall, LoopInv
  <2>3. WaitsOnlyMidLine' /\ SuccessExplained' /\ FailureReadNothing'
    BY DEF LoopInv, WaitsOnlyMidLine, SuccessExplained, FailureReadNothing
  <2> QED
    BY <2>1, <2>2, <2>3
<1>2. CASE Connect
  <2> USE <1>2 DEF Connect
  <2>1. TypeOK'
    BY DEF Stages, Requests, Bodies, NoFdLeak, InCall
  <2>2. NoFdLeak' /\ LoopInv'
    BY DEF NoFdLeak, InCall, LoopInv
  <2>3. WaitsOnlyMidLine' /\ SuccessExplained' /\ FailureReadNothing'
    BY DEF LoopInv, WaitsOnlyMidLine, SuccessExplained, FailureReadNothing
  <2> QED
    BY <2>1, <2>2, <2>3
<1>3. CASE ConnectFails
  <2> USE <1>3 DEF ConnectFails
  <2>1. TypeOK'
    BY DEF Stages, Requests, Bodies, NoFdLeak, InCall
  <2>2. NoFdLeak' /\ LoopInv'
    BY DEF NoFdLeak, InCall, LoopInv
  <2>3. WaitsOnlyMidLine' /\ SuccessExplained' /\ FailureReadNothing'
    BY DEF LoopInv, WaitsOnlyMidLine, SuccessExplained, FailureReadNothing
  <2> QED
    BY <2>1, <2>2, <2>3
<1>4. CASE Refuse
  <2> USE <1>4 DEF Refuse
  <2>1. TypeOK'
    BY DEF Stages, Requests, Bodies, NoFdLeak, InCall
  <2>2. NoFdLeak' /\ LoopInv'
    BY DEF NoFdLeak, InCall, LoopInv
  <2>3. WaitsOnlyMidLine' /\ SuccessExplained' /\ FailureReadNothing'
    BY DEF LoopInv, WaitsOnlyMidLine, SuccessExplained, FailureReadNothing
  <2> QED
    BY <2>1, <2>2, <2>3
<1>5. CASE Send
  <2> USE <1>5 DEF Send
  <2>1. TypeOK'
    BY DEF Stages, Requests, Bodies, NoFdLeak, InCall
  <2>2. NoFdLeak' /\ LoopInv'
    BY DEF NoFdLeak, InCall, LoopInv
  <2>3. WaitsOnlyMidLine' /\ SuccessExplained' /\ FailureReadNothing'
    BY DEF LoopInv, WaitsOnlyMidLine, SuccessExplained, FailureReadNothing
  <2> QED
    BY <2>1, <2>2, <2>3
<1>6. CASE SendFails
  <2> USE <1>6 DEF SendFails, Sending
  <2>1. TypeOK'
    BY DEF Stages, Requests, Bodies, NoFdLeak, InCall
  <2>2. NoFdLeak' /\ LoopInv'
    BY DEF NoFdLeak, InCall, LoopInv
  <2>3. WaitsOnlyMidLine' /\ SuccessExplained' /\ FailureReadNothing'
    BY DEF LoopInv, WaitsOnlyMidLine, SuccessExplained, FailureReadNothing
  <2> QED
    BY <2>1, <2>2, <2>3
<1>7. CASE SendKills
  <2> USE <1>7 DEF SendKills, Sending
  <2>1. TypeOK'
    BY DEF Stages, Requests, Bodies, NoFdLeak, InCall
  <2>2. NoFdLeak' /\ LoopInv'
    BY DEF NoFdLeak, InCall, LoopInv
  <2>3. WaitsOnlyMidLine' /\ SuccessExplained' /\ FailureReadNothing'
    BY DEF LoopInv, WaitsOnlyMidLine, SuccessExplained, FailureReadNothing
  <2> QED
    BY <2>1, <2>2, <2>3
<1>8. CASE Restart
  <2> USE <1>8 DEF Restart
  <2>1. TypeOK'
    BY DEF Stages, Requests, Bodies, NoFdLeak, InCall
  <2>2. NoFdLeak' /\ LoopInv'
    BY DEF NoFdLeak, InCall, LoopInv
  <2>3. WaitsOnlyMidLine' /\ SuccessExplained' /\ FailureReadNothing'
    BY DEF LoopInv, WaitsOnlyMidLine, SuccessExplained, FailureReadNothing
  <2> QED
    BY <2>1, <2>2, <2>3
<1>9. CASE Recv
  <2> USE <1>9 DEF Recv, Space, LoopEnds
  <2>1. TypeOK'
    BY DEF Stages, Requests, Bodies, NoFdLeak, InCall
  <2>2. NoFdLeak' /\ LoopInv'
    BY DEF NoFdLeak, InCall, LoopInv
  <2>3. WaitsOnlyMidLine' /\ SuccessExplained' /\ FailureReadNothing'
    BY DEF LoopInv, WaitsOnlyMidLine, SuccessExplained, FailureReadNothing
  <2> QED
    BY <2>1, <2>2, <2>3
<1>10. CASE RecvEnds
  <2> USE <1>10 DEF RecvEnds
  <2>1. TypeOK'
    BY DEF Stages, Requests, Bodies, NoFdLeak, InCall
  <2>2. NoFdLeak' /\ LoopInv'
    BY DEF NoFdLeak, InCall, LoopInv
  <2>3. WaitsOnlyMidLine' /\ SuccessExplained' /\ FailureReadNothing'
    BY DEF LoopInv, WaitsOnlyMidLine, SuccessExplained, FailureReadNothing
  <2> QED
    BY <2>1, <2>2, <2>3
<1>11. CASE CloseAndAnswer
  <2> USE <1>11 DEF CloseAndAnswer, Closed, Copied
  <2>1. TypeOK'
    BY DEF Stages, Requests, Bodies, NoFdLeak, InCall
  <2>2. NoFdLeak' /\ LoopInv'
    BY DEF NoFdLeak, InCall, LoopInv
  <2>3. WaitsOnlyMidLine' /\ SuccessExplained' /\ FailureReadNothing'
    BY DEF LoopInv, WaitsOnlyMidLine, SuccessExplained, FailureReadNothing
  <2> QED
    BY <2>1, <2>2, <2>3
<1>12. CASE UNCHANGED vars
  BY <1>12 DEF NoFdLeak, InCall, LoopInv, WaitsOnlyMidLine, SuccessExplained,
    FailureReadNothing, vars
<1> QED
  BY <1>1, <1>2, <1>3, <1>4, <1>5, <1>6, <1>7, <1>8,
    <1>9, <1>10, <1>11, <1>12, PeerStep DEF Next, Daemon
-----------------------------------------------------------------------------
THEOREM Invariance == Spec => []IInv
<1> QED
  BY InitIInv, NextIInv, PTL DEF Spec

(* The response buffer keeps room for its terminating zero, whatever the   *)
(* peer sends and however recv cuts it.                                    *)
THEOREM TypeCorrect == Spec => []TypeOK
<1>1. IInv => TypeOK
  BY DEF IInv
<1> QED
  BY <1>1, Invariance, PTL

(* No way out of a call leaves a monitor socket open. *)
THEOREM FdSafety == Spec => []NoFdLeak
<1>1. IInv => NoFdLeak
  BY DEF IInv
<1> QED
  BY <1>1, Invariance, PTL

(* The loop of qwm_qmp_send_raw never blocks at the end of a line. *)
THEOREM LoopSafety == Spec => []WaitsOnlyMidLine
<1>1. IInv => WaitsOnlyMidLine
  BY DEF IInv
<1> QED
  BY <1>1, Invariance, PTL

(* A success is a line's end, a full buffer or the end of the stream; a    *)
(* failure has read nothing.                                               *)
THEOREM OutcomeSafety == Spec => []OutcomeExplained
<1>1. IInv => OutcomeExplained
  BY DEF IInv, OutcomeExplained
<1> QED
  BY <1>1, Invariance, PTL
=============================================================================
