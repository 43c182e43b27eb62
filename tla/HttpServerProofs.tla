-------------------------- MODULE HttpServerProofs --------------------------
(***************************************************************************)
(* Proofs about HttpServer for any clients and any backlog.                *)
(***************************************************************************)
EXTENDS HttpServer, TLAPS

(* A connection is current exactly while the loop is busy with it. *)
CurInv == cur = "nobody" <=> phase \in {"down", "accept"}

(* The socket is the daemon's while it runs; no backlog without a socket. *)
PortInv ==
  /\ port = "daemon" <=> phase # "down"
  /\ port = "nobody" => backlog = <<>>

(* What is about to be closed has been answered or has left. *)
AnsweredInv ==
  phase = "close" /\ cur \notin gone => seen[cur] = "answer"

IInv == TypeOK /\ QueueMatches /\ CurInv /\ PortInv /\ AnsweredInv

LEMMA InitIInv == Init => IInv
<1> SUFFICES ASSUME Init PROVE IInv
  OBVIOUS
<1>1. TypeOK
  BY ServerAssumption DEF Init, TypeOK, Phases
<1>2. QueueMatches
  BY ServerAssumption DEF Init, QueueMatches, Queued
<1>3. CurInv /\ PortInv /\ AnsweredInv
  BY DEF Init, CurInv, PortInv, AnsweredInv
<1> QED
  BY <1>1, <1>2, <1>3 DEF IInv

LEMMA DropType ==
  ASSUME TypeOK, NEW S, Drop(S)
  PROVE  /\ conn' \in [Clients -> {"none", "queued", "current", "closed"}]
         /\ seen' \in [Clients -> {"nothing", "header", "answer", "reset"}]
  BY DEF TypeOK, Drop

(* What leaves the backlog and the connections alone. *)
LEMMA SameQueue ==
  ASSUME QueueMatches, UNCHANGED <<cur, backlog, conn>>
  PROVE  QueueMatches'
  BY DEF QueueMatches, Queued

LEMMA NextIInv == IInv /\ [Next]_vars => IInv'
<1> SUFFICES ASSUME IInv, [Next]_vars PROVE IInv'
  OBVIOUS
<1> USE ServerAssumption DEF IInv, TypeOK
<1>1. CASE Accept
  <2> USE <1>1 DEF Accept
  <2>1. TypeOK'
    BY DEF Phases, CurInv
  <2> DEFINE c == Head(backlog)
  <2>a. /\ c \in Clients /\ c = backlog[1]
        /\ Len(backlog') = Len(backlog) - 1
        /\ \A i \in 1..Len(backlog') : backlog'[i] = backlog[i + 1]
    OBVIOUS
  <2>b. \A i, j \in 1..Len(backlog) : backlog[i] = backlog[j] => i = j
    BY DEF QueueMatches
  <2>c. Queued' = Queued \ {c}
    BY <2>a DEF Queued
  <2>d. {backlog'[i] : i \in 1..Len(backlog')} = {backlog[i] : i \in 1..Len(backlog)} \ {c}
    <3>1. ASSUME NEW i \in 1..Len(backlog')
          PROVE  /\ backlog'[i] # c
                 /\ backlog'[i] \in {backlog[j] : j \in 1..Len(backlog)}
      BY <2>a, <2>b
    <3>2. ASSUME NEW j \in 1..Len(backlog), backlog[j] # c
          PROVE  \E i \in 1..Len(backlog') : backlog'[i] = backlog[j]
      <4>1. j - 1 \in 1..Len(backlog')
        BY <2>a, <3>2
      <4>2. backlog'[j - 1] = backlog[(j - 1) + 1] /\ (j - 1) + 1 = j
        BY <2>a, <4>1
      <4> QED
        BY <4>1, <4>2
    <3> DEFINE New == {backlog'[i] : i \in 1..Len(backlog')}
               Old == {backlog[i] : i \in 1..Len(backlog)}
    <3>3. \A x : x \in New => x \in Old /\ x # c
      BY <3>1
    <3>4. ASSUME NEW x, x \in Old, x # c PROVE x \in New
      <4>1. PICK j \in 1..Len(backlog) : x = backlog[j]
        BY <3>4
      <4>2. PICK i \in 1..Len(backlog') : backlog'[i] = backlog[j]
        BY <3>2, <3>4, <4>1
      <4> QED
        BY <4>1, <4>2
    <3> HIDE DEF New, Old, c
    <3>5. New = Old \ {c}
      BY <3>3, <3>4
    <3> QED
      BY <3>5 DEF New, Old
  <2>e. \A i, j \in 1..Len(backlog') : backlog'[i] = backlog'[j] => i = j
    BY <2>a, <2>b
  <2>f. {d \in Clients : conn'[d] = "current"} = {cur'} \ {"nobody"}
    BY <2>a DEF QueueMatches, CurInv
  <2>2. QueueMatches'
    BY <2>c, <2>d, <2>e, <2>f DEF QueueMatches
  <2>3. CurInv' /\ PortInv' /\ AnsweredInv'
    BY DEF CurInv, PortInv, AnsweredInv
  <2> QED
    BY <2>1, <2>2, <2>3
<1>2. CASE Recv
  <2> USE <1>2 DEF Recv, Arrived
  <2>1. TypeOK'
    BY DEF Phases, CurInv
  <2>2. QueueMatches'
    BY SameQueue
  <2>3. CurInv' /\ PortInv' /\ AnsweredInv'
    BY DEF CurInv, PortInv, AnsweredInv
  <2> QED
    BY <2>1, <2>2, <2>3
<1>3. CASE RecvEnds
  <2> USE <1>3 DEF RecvEnds
  <2>1. TypeOK'
    BY DEF Phases, CurInv
  <2>2. QueueMatches'
    BY SameQueue
  <2>3. CurInv' /\ PortInv' /\ AnsweredInv'
    BY DEF CurInv, PortInv, AnsweredInv
  <2> QED
    BY <2>1, <2>2, <2>3
<1>4. CASE Handle
  <2> USE <1>4 DEF Handle
  <2>1. TypeOK'
    BY DEF Phases, CurInv
  <2>2. QueueMatches'
    BY SameQueue
  <2>3. CurInv' /\ PortInv' /\ AnsweredInv'
    BY DEF CurInv, PortInv, AnsweredInv
  <2> QED
    BY <2>1, <2>2, <2>3
<1>5. CASE MonitorAnswers
  <2> USE <1>5 DEF MonitorAnswers
  <2>1. TypeOK'
    BY DEF Phases, CurInv
  <2>2. QueueMatches'
    BY SameQueue
  <2>3. CurInv' /\ PortInv' /\ AnsweredInv'
    BY DEF CurInv, PortInv, AnsweredInv
  <2> QED
    BY <2>1, <2>2, <2>3
<1>6. CASE Respond
  <2> USE <1>6 DEF Respond, Receives, AfterHeader
  <2>1. TypeOK'
    BY DEF Phases, CurInv
  <2>2. QueueMatches'
    BY SameQueue
  <2>3. CurInv' /\ PortInv' /\ AnsweredInv'
    BY DEF CurInv, PortInv, AnsweredInv
  <2> QED
    BY <2>1, <2>2, <2>3
<1>16. CASE Drained \/ SendBreaks
  <2> USE <1>16 DEF Drained, SendBreaks, Receives
  <2>1. TypeOK'
    BY DEF Phases, CurInv
  <2>2. QueueMatches'
    BY SameQueue
  <2>3. CurInv' /\ PortInv' /\ AnsweredInv'
    BY DEF CurInv, PortInv, AnsweredInv
  <2> QED
    BY <2>1, <2>2, <2>3
<1>7. CASE Close
  <2> USE <1>7 DEF Close, Closed
  <2>1. TypeOK'
    BY DEF Phases, CurInv
  <2>2. QueueMatches'
    BY DEF QueueMatches, Queued, CurInv, PortInv
  <2>3. CurInv' /\ PortInv' /\ AnsweredInv'
    BY DEF CurInv, PortInv, AnsweredInv
  <2> QED
    BY <2>1, <2>2, <2>3
<1>8. CASE SendKills \/ Killed
  <2>0. Dies
    BY <1>8 DEF SendKills, Killed
  <2> USE <2>0 DEF Dies, Drop, Queued
  <2>a. /\ backlog' \in Seq(Clients)
        /\ Len(backlog') <= Backlog
    <3>1. backlog' = backlog \/ backlog' = << >>
      OBVIOUS
    <3>2. << >> \in Seq(Clients) /\ Len(<< >>) <= Backlog
      OBVIOUS
    <3> QED
      BY <3>1, <3>2
  <2>b. /\ conn' \in [Clients -> {"none", "queued", "current", "closed"}]
        /\ seen' \in [Clients -> {"nothing", "header", "answer", "reset"}]
    BY DropType
  <2>1. TypeOK'
    BY <2>a, <2>b DEF Phases
  <2>2. QueueMatches'
    <3>1. {c \in Clients : conn'[c] = "current"} = {} /\ cur' = "nobody"
      BY DEF QueueMatches
    <3>2. CASE UNCHANGED backlog /\ Drop({cur})
      <4>1. Queued' = Queued
        BY <3>2 DEF QueueMatches
      <4> QED
        BY <3>1, <3>2, <4>1 DEF QueueMatches
    <3>3. CASE backlog' = <<>> /\ Drop(Queued \cup {cur})
      <4>1. Queued' = {}
        BY <3>3
      <4> QED
        BY <3>1, <3>3, <4>1 DEF QueueMatches
    <3> QED
      BY <3>2, <3>3
  <2>3. CurInv' /\ PortInv' /\ AnsweredInv'
    BY DEF CurInv, PortInv, AnsweredInv
  <2> QED
    BY <2>1, <2>2, <2>3
<1>9. CASE VmEnds
  <2> USE <1>9 DEF VmEnds, Drop, Queued
  <2>1. TypeOK'
    BY DEF Phases, CurInv
  <2>2. QueueMatches'
    BY DEF QueueMatches, Queued, CurInv, PortInv
  <2>3. CurInv' /\ PortInv' /\ AnsweredInv'
    BY DEF CurInv, PortInv, AnsweredInv
  <2> QED
    BY <2>1, <2>2, <2>3
<1>10. CASE Boot
  <2> USE <1>10 DEF Boot
  <2>1. TypeOK'
    BY DEF Phases, CurInv
  <2>2. QueueMatches'
    BY DEF QueueMatches, Queued, CurInv, PortInv
  <2>3. CurInv' /\ PortInv' /\ AnsweredInv'
    BY DEF CurInv, PortInv, AnsweredInv
  <2> QED
    BY <2>1, <2>2, <2>3
<1>11. ASSUME NEW c \in Clients, Connects(c) PROVE IInv'
  <2> USE <1>11 DEF Connects
  <2>1. TypeOK'
    BY DEF Phases, CurInv
  <2>2. QueueMatches'
    <3>1. /\ Len(backlog') = Len(backlog) + 1 /\ backlog'[Len(backlog')] = c
          /\ \A i \in 1..Len(backlog) : backlog'[i] = backlog[i]
      OBVIOUS
    <3>2. Queued' = Queued \cup {c} /\ c \notin Queued
      BY DEF Queued
    <3>3. Queued = {backlog[i] : i \in 1..Len(backlog)}
      BY DEF QueueMatches
    <3>4. Queued' = {backlog'[i] : i \in 1..Len(backlog')}
      BY <3>1, <3>2, <3>3
    <3>5. \A i, j \in 1..Len(backlog') : backlog'[i] = backlog'[j] => i = j
      BY <3>1, <3>2, <3>3 DEF QueueMatches
    <3>6. {d \in Clients : conn'[d] = "current"} = {cur'} \ {"nobody"}
      BY DEF QueueMatches, CurInv
    <3> QED
      BY <3>4, <3>5, <3>6 DEF QueueMatches
  <2>3. CurInv' /\ PortInv' /\ AnsweredInv'
    BY DEF CurInv, PortInv, AnsweredInv
  <2> QED
    BY <2>1, <2>2, <2>3
<1>12. ASSUME NEW c \in Clients, Sends(c) PROVE IInv'
  <2> USE <1>12 DEF Sends, Pending
  <2>1. TypeOK'
    BY DEF Phases, CurInv
  <2>2. QueueMatches'
    BY DEF QueueMatches, Queued, CurInv, PortInv
  <2>3. CurInv' /\ PortInv' /\ AnsweredInv'
    BY DEF CurInv, PortInv, AnsweredInv
  <2> QED
    BY <2>1, <2>2, <2>3
<1>13. ASSUME NEW c \in Clients, Leaves(c) PROVE IInv'
  <2> USE <1>13 DEF Leaves, Pending
  <2>1. TypeOK'
    BY DEF Phases, CurInv
  <2>2. QueueMatches'
    BY DEF QueueMatches, Queued, CurInv, PortInv
  <2>3. CurInv' /\ PortInv' /\ AnsweredInv'
    BY DEF CurInv, PortInv, AnsweredInv
  <2> QED
    BY <2>1, <2>2, <2>3
<1>14. ASSUME NEW c \in Clients, Forgets(c) PROVE IInv'
  <2> USE <1>14 DEF Forgets
  <2>1. TypeOK'
    BY DEF Phases, CurInv
  <2>2. QueueMatches'
    BY DEF QueueMatches, Queued, CurInv, PortInv
  <2>3. CurInv' /\ PortInv' /\ AnsweredInv'
    BY DEF CurInv, PortInv, AnsweredInv, QueueMatches
  <2> QED
    BY <2>1, <2>2, <2>3
<1>15. CASE UNCHANGED vars
  BY <1>15 DEF QueueMatches, Queued, CurInv, PortInv, AnsweredInv, vars
<1> QED
  BY <1>1, <1>2, <1>3, <1>4, <1>5, <1>6, <1>7, <1>8,
    <1>9, <1>10, <1>11, <1>12, <1>13, <1>14, <1>15, <1>16 DEF Next, Server
-----------------------------------------------------------------------------
THEOREM Invariance == Spec => []IInv
<1> QED
  BY InitIInv, NextIInv, PTL DEF Spec

THEOREM TypeCorrect == Spec => []TypeOK
<1>1. IInv => TypeOK
  BY DEF IInv
<1> QED
  BY <1>1, Invariance, PTL

(* Every waiting client is in the backlog once, or accepted, and nobody    *)
(* else is, for any number of clients.                                     *)
THEOREM QueueSafety == Spec => []QueueMatches
<1>1. IInv => QueueMatches
  BY DEF IInv
<1> QED
  BY <1>1, Invariance, PTL
-----------------------------------------------------------------------------
(* Only Close ends the accepted connection of a daemon that stays up. *)
LEMMA CloseStepHolds ==
  ASSUME IInv, Next PROVE CloseStep
<1> SUFFICES ASSUME NEW c \in Clients,
                    conn[c] = "current", conn'[c] = "closed",
                    phase' # "down", c \notin gone
             PROVE  \/ seen'[c] = "answer"
                    \/ seen'[c] = "reset" /\ taken < Whole
  BY DEF CloseStep
<1> USE DEF IInv, TypeOK
<1>1. CASE \/ Accept \/ Recv \/ RecvEnds \/ Handle \/ MonitorAnswers
           \/ Respond \/ Drained \/ SendBreaks
  BY <1>1 DEF Accept, Recv, RecvEnds, Handle, MonitorAnswers, Respond,
    AfterHeader, Drained, SendBreaks
<1>2. CASE Close
  BY <1>2, ServerAssumption DEF Close, Closed, AnsweredInv, CurInv, QueueMatches
<1>3. CASE SendKills \/ Killed \/ VmEnds \/ Boot
  BY <1>3 DEF SendKills, Killed, Dies, VmEnds, Boot, Drop, Queued
<1>4. ASSUME NEW d \in Clients,
             Connects(d) \/ Sends(d) \/ Leaves(d) \/ Forgets(d)
      PROVE  FALSE
  BY <1>4 DEF Connects, Sends, Leaves, Forgets
<1> QED
  BY <1>1, <1>2, <1>3, <1>4 DEF Next, Server

(* A client that stays and has asked gets a whole answer, and can lose it  *)
(* only if a part of its request was left unread.                          *)
THEOREM AnswerSafety == Spec => AnswerOnClose
<1>1. IInv /\ [Next]_vars => [CloseStep]_vars
  BY CloseStepHolds
<1> QED
  BY <1>1, Invariance, PTL DEF Spec, AnswerOnClose
=============================================================================
