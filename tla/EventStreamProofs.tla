-------------------------- MODULE EventStreamProofs --------------------------
(***************************************************************************)
(* Proofs about EventStream for any threads, clients and capacity.         *)
(***************************************************************************)
EXTENDS EventStream, SequenceTheorems, FiniteSetTheorems, TLAPS

Places == {"none", "accepting", "reading", "sending", "over"}

(* Events are numbers; most of what follows is not about which. *)
Events == Nat

TypeInv ==
  /\ raised \in Nat
  /\ handlers \in Seq(Clients) /\ left \in [Threads -> Seq(Clients)]
  /\ event \in [Threads -> Events]
  /\ place \in [Clients -> Places]
  /\ channel \in [Clients -> Seq(Events)] /\ current \in [Clients -> Seq(Events)]
  /\ received \in [Clients -> Seq(Events)] /\ tried \in [Clients -> Seq(Events)]

(* Each element of s is there once. *)
Once(s) == \A i, j \in 1..Len(s) : s[i] = s[j] => i = j

(* A client is in the invocation list, and in what a publisher has yet to  *)
(* call, at most once, and only after it has subscribed.                   *)
ListInv ==
  /\ Once(handlers)
  /\ \A i \in 1..Len(handlers) : place[handlers[i]] \in {"reading", "sending"}
  /\ \A t \in Threads :
       /\ Once(left[t])
       /\ \A i \in 1..Len(left[t]) : place[left[t][i]] \notin {"none", "accepting"}

(* Publishers that are under way have events of their own. *)
EventInv ==
  \A t \in Threads : left[t] # <<>> =>
    /\ event[t] \in 1..raised
    /\ \A u \in Threads \ {t} : left[u] # <<>> => event[u] # event[t]

(* What a publisher has yet to offer to a client has not been offered.     *)
TriedInv ==
  \A c \in Clients :
    /\ \A i \in 1..Len(tried[c]) : tried[c][i] <= raised
    /\ \A t \in Threads : \A i \in 1..Len(left[t]) :
         left[t][i] = c => \A j \in 1..Len(tried[c]) : tried[c][j] # event[t]

(* An event is taken out of the channel to be sent at once. *)
SendInv == \A c \in Clients : place[c] # "sending" => current[c] = <<>>

IInv == TypeInv /\ OldestKept /\ ListInv /\ EventInv /\ TriedInv /\ SendInv
-----------------------------------------------------------------------------
LEMMA KeepsEmpty == Keeps(<<>>, <<>>)
<1> DEFINE at == [i \in 1..0 |-> i]
<1>1. at \in [1..Len(<<>>) -> 1..Len(<<>>)] /\ 1..Len(<<>>) = {}
  OBVIOUS
<1> QED
  BY <1>1 DEF Keeps, PartOf

LEMMA InitIInv == Init => IInv
<1> SUFFICES ASSUME Init PROVE IInv
  OBVIOUS
<1> USE DEF Init
<1>1. TypeInv /\ ListInv /\ EventInv /\ TriedInv /\ SendInv
  BY DEF TypeInv, Places, ListInv, Once, EventInv, TriedInv, SendInv, Events
<1>2. ASSUME NEW c \in Clients PROVE Got(c) = <<>> /\ tried[c] = <<>>
  BY DEF Got
<1> QED
  BY <1>1, <1>2, KeepsEmpty DEF IInv, OldestKept

(* What is left out of t is left out of a longer t. *)
LEMMA PartOfLonger ==
  ASSUME NEW S, NEW s \in Seq(S), NEW t \in Seq(S), NEW e \in S, PartOf(s, t)
  PROVE  PartOf(s, Append(t, e))
<1>1. PICK at \in [1..Len(s) -> 1..Len(t)] :
        /\ \A i \in 1..Len(s) : s[i] = t[at[i]]
        /\ \A i, j \in 1..Len(s) : i < j => at[i] < at[j]
  BY DEF PartOf
<1>2. at \in [1..Len(s) -> 1..Len(Append(t, e))]
  OBVIOUS
<1>3. \A i \in 1..Len(s) : s[i] = Append(t, e)[at[i]]
  BY <1>1
<1> QED
  BY <1>1, <1>2, <1>3 DEF PartOf

LEMMA PartOfBoth ==
  ASSUME NEW S, NEW s \in Seq(S), NEW t \in Seq(S), NEW e \in S, PartOf(s, t)
  PROVE  PartOf(Append(s, e), Append(t, e))
<1>1. PICK at \in [1..Len(s) -> 1..Len(t)] :
        /\ \A i \in 1..Len(s) : s[i] = t[at[i]]
        /\ \A i, j \in 1..Len(s) : i < j => at[i] < at[j]
  BY DEF PartOf
<1> DEFINE n == Len(s) + 1
           to == [i \in 1..Len(Append(s, e)) |-> IF i = n THEN Len(t) + 1 ELSE at[i]]
<1>2. Len(Append(s, e)) = n /\ Len(Append(t, e)) = Len(t) + 1
  OBVIOUS
<1>3. to \in [1..Len(Append(s, e)) -> 1..Len(Append(t, e))]
  BY <1>2
<1>4. \A i \in 1..n : Append(s, e)[i] = Append(t, e)[to[i]]
  BY <1>1, <1>2
<1>5. ASSUME NEW i \in 1..n, NEW j \in 1..n, i < j PROVE to[i] < to[j]
  <2>1. i \in 1..Len(s) /\ to[i] = at[i] /\ at[i] \in 1..Len(t)
    BY <1>2, <1>5
  <2>2. CASE j = n
    <3>1. to[j] = Len(t) + 1
      BY <1>2, <2>2
    <3> HIDE DEF to
    <3> QED
      BY <2>1, <3>1
  <2>3. CASE j # n
    <3>1. j \in 1..Len(s) /\ to[j] = at[j]
      BY <1>2, <2>3
    <3> HIDE DEF to
    <3> QED
      BY <1>1, <1>5, <2>1, <3>1
  <2> QED
    BY <2>2, <2>3
<1> HIDE DEF to
<1> QED
  BY <1>2, <1>3, <1>4, <1>5 DEF PartOf

LEMMA PartIsShorter ==
  ASSUME NEW S, NEW s \in Seq(S), NEW t \in Seq(S), PartOf(s, t)
  PROVE  Len(s) <= Len(t)
<1>1. PICK at \in [1..Len(s) -> 1..Len(t)] :
        \A i, j \in 1..Len(s) : i < j => at[i] < at[j]
  BY DEF PartOf
<1>2. at \in Injection(1..Len(s), 1..Len(t))
  <2> SUFFICES \A i, j \in 1..Len(s) : at[i] = at[j] => i = j
    BY DEF Injection, IsInjective
  <2> QED
    BY <1>1
<1>3. Cardinality(1..Len(s)) <= Cardinality(1..Len(t))
  BY <1>2, FS_Interval, FS_Injection
<1>4. ASSUME NEW n \in Nat PROVE Cardinality(1..n) = n
  BY FS_Interval
<1>5. Len(s) \in Nat /\ Len(t) \in Nat
  OBVIOUS
<1> QED
  BY <1>3, <1>4, <1>5

(* One more is offered: it is added, or as many as fit are waiting. *)
LEMMA KeepsMore ==
  ASSUME NEW got \in Seq(Events), NEW all \in Seq(Events), NEW e \in Events, NEW new,
         Keeps(got, all), \A i \in 1..Len(all) : all[i] # e,
         new = Append(got, e) \/ (new = got /\ Len(got) >= Capacity)
  PROVE  Keeps(new, Append(all, e))
<1> USE StreamAssumption
<1>1. PartOf(new, Append(all, e))
  <2>1. PartOf(got, all)
    BY DEF Keeps
  <2>2. PartOf(got, Append(all, e)) /\ PartOf(Append(got, e), Append(all, e))
    BY <2>1, PartOfLonger, PartOfBoth
  <2> QED
    BY <2>2
<1>2. \A i, j \in 1..Len(Append(all, e)) :
        Append(all, e)[i] = Append(all, e)[j] => i = j
  BY DEF Keeps
<1>3. ASSUME NEW i \in 1..Len(Append(all, e)), i <= Capacity
      PROVE  i <= Len(new) /\ new[i] = Append(all, e)[i]
  <2>1. Len(got) <= Len(all)
    BY PartIsShorter DEF Keeps
  <2>2. CASE i <= Len(all)
    <3>1. i <= Len(got) /\ got[i] = all[i]
      BY <1>3, <2>2 DEF Keeps
    <3> QED
      BY <2>2, <3>1
  <2>3. CASE i = Len(all) + 1
    <3>1. Len(got) = Len(all)
      <4>1. CASE Len(all) = 0
        BY <2>1, <4>1
      <4>2. CASE Len(all) # 0
        BY <1>3, <2>1, <2>3, <4>2 DEF Keeps
      <4> QED
        BY <4>1, <4>2
    <3> QED
      BY <1>3, <2>3, <3>1
  <2> QED
    BY <2>2, <2>3
<1> QED
  BY <1>1, <1>2, <1>3 DEF Keeps

(* Without its only c a list that has everything once is still one. *)
LEMMA Unsubscribe ==
  ASSUME NEW S, NEW s \in Seq(S), Once(s), NEW c
  PROVE  /\ RemoveFirst(s, c) \in Seq(S) /\ Once(RemoveFirst(s, c))
         /\ \A i \in 1..Len(RemoveFirst(s, c)) :
              /\ RemoveFirst(s, c)[i] # c
              /\ \E j \in 1..Len(s) : RemoveFirst(s, c)[i] = s[j]
<1>1. CASE \E i \in 1..Len(s) : s[i] = c
  <2>1. PICK k \in 1..Len(s) : s[k] = c
    BY <1>1
  <2>2. {i \in 1..Len(s) : s[i] = c} = {k}
    BY <2>1 DEF Once
  <2>3. SelectInSeq(s, LAMBDA v : v = c) = k
    BY <2>1, <2>2 DEF SelectInSeq, Min
  <2>4. RemoveFirst(s, c) = SubSeq(s, 1, k - 1) \o SubSeq(s, k + 1, Len(s))
    BY <1>1, <2>3 DEF RemoveFirst, RemoveAt
  <2> DEFINE a == SubSeq(s, 1, k - 1)
             b == SubSeq(s, k + 1, Len(s))
             r == a \o b
  <2>a. /\ a \in Seq(S) /\ Len(a) = k - 1
        /\ \A i \in 1..(k - 1) : a[i] = s[i]
    OBVIOUS
  <2>b. /\ b \in Seq(S) /\ Len(b) = Len(s) - k
        /\ \A i \in 1..(Len(s) - k) : b[i] = s[k + i]
    OBVIOUS
  <2> HIDE DEF a, b
  <2>5. r \in Seq(S) /\ Len(r) = Len(s) - 1
    <3>1. r \in Seq(S) /\ Len(r) = Len(a) + Len(b)
      BY <2>a, <2>b, ConcatProperties
    <3> HIDE DEF r
    <3> QED
      BY <2>a, <2>b, <3>1
  <2>6. \A i \in 1..Len(r) : r[i] = IF i < k THEN s[i] ELSE s[i + 1]
    <3> SUFFICES ASSUME NEW i \in 1..Len(r)
                 PROVE  r[i] = IF i < k THEN s[i] ELSE s[i + 1]
      OBVIOUS
    <3>1. r[i] = IF i <= k - 1 THEN a[i] ELSE b[i - (k - 1)]
      BY <2>a, <2>b, <2>5, ConcatProperties
    <3> HIDE DEF r
    <3>2. CASE i < k
      BY <2>a, <2>5, <3>1, <3>2
    <3>3. CASE ~(i < k)
      <4>1. i - (k - 1) \in 1..(Len(s) - k) /\ k + (i - (k - 1)) = i + 1
        BY <2>5, <3>3
      <4> QED
        BY <2>b, <3>1, <3>3, <4>1
    <3> QED
      BY <3>2, <3>3
  <2> HIDE DEF r
  <2>7. Once(r)
    BY <2>5, <2>6 DEF Once
  <2>8. \A i \in 1..Len(r) : r[i] # c /\ \E j \in 1..Len(s) : r[i] = s[j]
    BY <2>1, <2>5, <2>6 DEF Once
  <2> QED
    BY <2>4, <2>5, <2>7, <2>8 DEF a, b, r
<1>2. CASE ~\E i \in 1..Len(s) : s[i] = c
  BY <1>2 DEF RemoveFirst
<1> QED
  BY <1>1, <1>2

(* What a step makes of what a client gets. *)
GotNext(c) == received'[c] \o current'[c] \o channel'[c]

(* Nobody is sent or offered anything but clients that are left for good. *)
LEMMA SameGot ==
  ASSUME IInv,
         \A c \in Clients : \/ (GotNext(c) = Got(c) /\ tried'[c] = tried[c])
                           \/ (GotNext(c) = <<>> /\ tried'[c] = <<>>)
  PROVE  OldestKept'
<1>1. ASSUME NEW c \in Clients PROVE Keeps(GotNext(c), tried'[c])
  BY KeepsEmpty DEF IInv, OldestKept
<1> QED
  BY <1>1 DEF OldestKept, Got, GotNext

LEMMA JoinedMore ==
  ASSUME NEW r \in Seq(Events), NEW q \in Seq(Events), NEW ch \in Seq(Events),
         NEW e \in Events
  PROVE  /\ r \o q \o Append(ch, e) = Append(r \o q \o ch, e)
         /\ r \o q \o ch \in Seq(Events) /\ Len(r \o q \o ch) >= Len(ch)
         /\ Len(r \o q \o ch) \in Nat /\ Len(ch) \in Nat
  OBVIOUS

(* What one more offer does to what is kept of them. *)
LEMMA OfferKept ==
  ASSUME NEW r \in Seq(Events), NEW q \in Seq(Events), NEW ch \in Seq(Events),
         NEW e \in Events, NEW all \in Seq(Events),
         Keeps(r \o q \o ch, all), \A i \in 1..Len(all) : all[i] # e
  PROVE  Keeps(r \o q \o Offered(ch, e), Append(all, e))
<1> DEFINE got == r \o q \o ch
           new == r \o q \o Offered(ch, e)
<1>1. /\ r \o q \o Append(ch, e) = Append(got, e)
      /\ got \in Seq(Events) /\ Len(got) >= Len(ch)
      /\ Len(got) \in Nat /\ Len(ch) \in Nat
  BY JoinedMore
<1>2. Len(ch) < Capacity => new = Append(got, e)
  BY <1>1, Zenon DEF Offered
<1>3. ~(Len(ch) < Capacity) => new = got
  BY Zenon DEF Offered
<1>4. Keeps(got, all)
  OBVIOUS
<1> HIDE DEF got, new
<1>5. new = Append(got, e) \/ (new = got /\ Len(got) >= Capacity)
  BY <1>1, <1>2, <1>3, StreamAssumption
<1>6. Keeps(new, Append(all, e))
  BY <1>1, <1>4, <1>5, KeepsMore
<1> QED
  BY <1>6 DEF new

(* The next handler of a publisher is offered what it was not yet offered. *)
LEMMA HandlerKept ==
  ASSUME IInv, NEW t \in Threads, Handler(t)
  PROVE  OldestKept'
<1>0. /\ left[t] \in Seq(Clients) /\ left[t] # <<>> /\ event[t] \in Events
      /\ Head(left[t]) = left[t][1] /\ 1 \in 1..Len(left[t])
      /\ Head(left[t]) \in Clients
  BY DEF Handler, IInv, TypeInv
<1>1. PICK c \in Clients, e \in Events :
        c = Head(left[t]) /\ e = event[t] /\ c = left[t][1]
  BY <1>0
<1>2. /\ tried'[c] = Append(tried[c], e)
      /\ channel'[c] = Offered(channel[c], e)
      /\ received'[c] = received[c] /\ current'[c] = current[c]
  BY <1>1 DEF Handler, endpoints, IInv, TypeInv
<1>3. ASSUME NEW d \in Clients, d # c
      PROVE  /\ tried'[d] = tried[d] /\ channel'[d] = channel[d]
             /\ received'[d] = received[d] /\ current'[d] = current[d]
  BY <1>1, <1>3 DEF Handler, endpoints, IInv, TypeInv
<1>4. /\ received[c] \in Seq(Events) /\ current[c] \in Seq(Events)
      /\ channel[c] \in Seq(Events) /\ tried[c] \in Seq(Events)
  BY DEF IInv, TypeInv
<1>5. \A i \in 1..Len(tried[c]) : tried[c][i] # e
  BY <1>0, <1>1 DEF IInv, TriedInv
<1>6. Keeps(received[c] \o current[c] \o channel[c], tried[c])
  BY DEF IInv, OldestKept, Got
<1>7. Keeps(received[c] \o current[c] \o Offered(channel[c], e), Append(tried[c], e))
  BY <1>4, <1>5, <1>6, OfferKept
<1>8. ASSUME NEW d \in Clients
      PROVE  Keeps(received'[d] \o current'[d] \o channel'[d], tried'[d])
  <2>1. CASE d = c
    BY <1>2, <1>7, <2>1
  <2>2. CASE d # c
    <3>1. Keeps(received[d] \o current[d] \o channel[d], tried[d])
      BY DEF IInv, OldestKept, Got
    <3> QED
      BY <1>3, <2>2, <3>1
  <2> QED
    BY <2>1, <2>2
<1> QED
  BY <1>8 DEF OldestKept, Got
-----------------------------------------------------------------------------
(* A client that has subscribed is past that for good. *)
LEMMA ListsStay ==
  ASSUME TypeInv, ListInv, left' = left, Once(handlers'),
         \A i \in 1..Len(handlers') : place'[handlers'[i]] \in {"reading", "sending"},
         \A c \in Clients : place[c] \notin {"none", "accepting"}
           => place'[c] \notin {"none", "accepting"}
  PROVE  ListInv'
<1>1. ASSUME NEW t \in Threads, NEW i \in 1..Len(left[t])
      PROVE  place'[left[t][i]] \notin {"none", "accepting"}
  <2>1. left[t] \in Seq(Clients) /\ left[t][i] \in Clients
    BY DEF TypeInv
  <2> QED
    BY <2>1 DEF ListInv
<1> QED
  BY <1>1 DEF ListInv

LEMMA PublishStep ==
  ASSUME IInv, NEW t \in Threads, Publish(t)
  PROVE  IInv'
<1>0. /\ UNCHANGED <<handlers, channel, tried, place, current, gone, received>>
      /\ raised' = raised + 1 /\ left[t] = <<>>
      /\ left' = [left EXCEPT ![t] = handlers]
      /\ event' = [event EXCEPT ![t] = IF handlers = <<>> THEN 0 ELSE raised + 1]
  BY DEF Publish, endpoints
<1>1. TypeInv'
  BY <1>0 DEF IInv, TypeInv, Events
<1>2. OldestKept'
  BY <1>0, SameGot DEF Got, GotNext
<1>3. /\ raised \in Nat /\ event \in [Threads -> Nat] /\ left \in [Threads -> Seq(Clients)]
      /\ tried \in [Clients -> Seq(Nat)] /\ handlers \in Seq(Clients)
  BY DEF IInv, TypeInv, Events
<1>4. ASSUME NEW u \in Threads
      PROVE  \/ u = t /\ left'[u] = handlers
                /\ (left'[u] # <<>> => event'[u] = raised + 1)
             \/ u # t /\ left'[u] = left[u] /\ event'[u] = event[u]
  BY <1>0, <1>3
<1>5. ListInv'
  <2>1. ASSUME NEW u \in Threads
        PROVE  /\ Once(left'[u])
               /\ \A i \in 1..Len(left'[u]) : place[left'[u][i]] \notin {"none", "accepting"}
    <3>1. left'[u] = handlers \/ left'[u] = left[u]
      BY <1>4
    <3> QED
      BY <3>1 DEF IInv, ListInv
  <2> QED
    BY <1>0, <2>1 DEF IInv, ListInv
<1>6. EventInv'
  <2>1. \A u \in Threads : left[u] # <<>> => event[u] \in 1..raised
    BY DEF IInv, EventInv
  <2>2. ASSUME NEW u \in Threads, left'[u] # <<>> PROVE event'[u] \in 1..raised'
    BY <1>0, <1>3, <1>4, <2>1, <2>2
  <2>3. ASSUME NEW u \in Threads, NEW v \in Threads \ {u},
               left'[u] # <<>>, left'[v] # <<>>
        PROVE  event'[v] # event'[u]
    <3>1. CASE u = t
      <4>1. event'[u] = raised + 1 /\ event'[v] = event[v] /\ event[v] \in 1..raised
        BY <1>4, <2>1, <2>3, <3>1
      <4> QED
        BY <1>3, <4>1
    <3>2. CASE v = t
      <4>1. event'[v] = raised + 1 /\ event'[u] = event[u] /\ event[u] \in 1..raised
        BY <1>4, <2>1, <2>3, <3>2
      <4> QED
        BY <1>3, <4>1
    <3>3. CASE u # t /\ v # t
      BY <1>4, <2>3, <3>3 DEF IInv, EventInv
    <3> QED
      BY <3>1, <3>2, <3>3
  <2> QED
    BY <2>2, <2>3 DEF EventInv
<1>7. TriedInv'
  <2> SUFFICES ASSUME NEW c \in Clients
               PROVE  /\ \A i \in 1..Len(tried[c]) : tried[c][i] <= raised'
                      /\ \A u \in Threads : \A i \in 1..Len(left'[u]) :
                           left'[u][i] = c =>
                             \A j \in 1..Len(tried[c]) : tried[c][j] # event'[u]
    BY <1>0 DEF TriedInv
  <2>1. ASSUME NEW i \in 1..Len(tried[c])
        PROVE  tried[c][i] \in Nat /\ tried[c][i] <= raised
    BY <1>3 DEF IInv, TriedInv
  <2>2. \A i \in 1..Len(tried[c]) : tried[c][i] # raised + 1 /\ tried[c][i] <= raised'
    BY <1>0, <1>3, <2>1
  <2>3. ASSUME NEW u \in Threads, NEW i \in 1..Len(left'[u]), left'[u][i] = c,
               NEW j \in 1..Len(tried[c])
        PROVE  tried[c][j] # event'[u]
    <3>1. CASE u = t
      <4>1. left'[u] # <<>>
        OBVIOUS
      <4> QED
        BY <1>4, <2>2, <3>1, <4>1
    <3>2. CASE u # t
      <4>1. left'[u] = left[u] /\ event'[u] = event[u]
        BY <1>4, <3>2
      <4> QED
        BY <2>3, <4>1 DEF IInv, TriedInv
    <3> QED
      BY <3>1, <3>2
  <2> QED
    BY <2>2, <2>3
<1>8. SendInv'
  BY <1>0 DEF IInv, SendInv
<1> QED
  BY <1>1, <1>2, <1>5, <1>6, <1>7, <1>8 DEF IInv

LEMMA HasSome ==
  ASSUME NEW S, NEW s \in Seq(S), NEW i \in 1..Len(s)
  PROVE  s # <<>>
  OBVIOUS

(* What is left of a list when its first client has been called. *)
LEMMA RestOfList ==
  ASSUME NEW S, NEW s \in Seq(S), s # <<>>, Once(s)
  PROVE  /\ Tail(s) \in Seq(S) /\ Once(Tail(s)) /\ (Len(s) = 1 => Tail(s) = <<>>)
         /\ \A i \in 1..Len(Tail(s)) :
              /\ i + 1 \in 1..Len(s) /\ Tail(s)[i] = s[i + 1]
              /\ Tail(s)[i] # Head(s)
  BY DEF Once

LEMMA HandlerStep ==
  ASSUME IInv, NEW t \in Threads, Handler(t)
  PROVE  IInv'
<1>0. /\ UNCHANGED <<raised, handlers, place, current, gone, received>>
      /\ left[t] # <<>> /\ left' = [left EXCEPT ![t] = Tail(left[t])]
      /\ event' = [event EXCEPT ![t] = IF Len(left[t]) = 1 THEN 0 ELSE event[t]]
      /\ tried' = [tried EXCEPT ![Head(left[t])] = Append(@, event[t])]
      /\ channel' = [channel EXCEPT ![Head(left[t])] = Offered(@, event[t])]
  BY DEF Handler, endpoints
<1>1. /\ raised \in Nat /\ event \in [Threads -> Nat] /\ left \in [Threads -> Seq(Clients)]
      /\ tried \in [Clients -> Seq(Nat)] /\ channel \in [Clients -> Seq(Nat)]
      /\ Head(left[t]) \in Clients /\ event[t] \in Nat /\ left[t] \in Seq(Clients)
      /\ Head(left[t]) = left[t][1] /\ 1 \in 1..Len(left[t])
  BY <1>0 DEF IInv, TypeInv, Events
<1>2. /\ Tail(left[t]) \in Seq(Clients) /\ Once(Tail(left[t]))
      /\ \A i \in 1..Len(Tail(left[t])) :
           /\ i + 1 \in 1..Len(left[t]) /\ Tail(left[t])[i] = left[t][i + 1]
           /\ Tail(left[t])[i] # Head(left[t])
  BY <1>0, <1>1, RestOfList DEF IInv, ListInv
<1>3. TypeInv'
  <2>1. \A q \in Seq(Nat) : Offered(q, event[t]) \in Seq(Nat)
    BY <1>1 DEF Offered
  <2>2. channel' \in [Clients -> Seq(Nat)] /\ tried' \in [Clients -> Seq(Nat)]
    BY <1>0, <1>1, <2>1
  <2>3. left' \in [Threads -> Seq(Clients)] /\ event' \in [Threads -> Nat]
    BY <1>0, <1>1, <1>2
  <2> QED
    BY <1>0, <2>2, <2>3 DEF IInv, TypeInv, Events
<1>4. OldestKept'
  BY HandlerKept
<1>5. ASSUME NEW u \in Threads
      PROVE  \/ u = t /\ left'[u] = Tail(left[t])
                /\ (left'[u] # <<>> => event'[u] = event[t])
             \/ u # t /\ left'[u] = left[u] /\ event'[u] = event[u]
  <2>1. Len(left[t]) = 1 => Tail(left[t]) = <<>>
    BY <1>0, <1>1, RestOfList DEF IInv, ListInv
  <2> QED
    BY <1>0, <1>1, <2>1
<1>6. ListInv'
  <2>1. ASSUME NEW u \in Threads
        PROVE  /\ Once(left'[u])
               /\ \A i \in 1..Len(left'[u]) : place[left'[u][i]] \notin {"none", "accepting"}
    <3>1. CASE u = t
      <4>1. left'[u] = Tail(left[t])
        BY <1>5, <3>1
      <4> QED
        BY <1>2, <4>1 DEF IInv, ListInv
    <3>2. CASE u # t
      <4>1. left'[u] = left[u]
        BY <1>5, <3>2
      <4> QED
        BY <4>1 DEF IInv, ListInv
    <3> QED
      BY <3>1, <3>2
  <2> QED
    BY <1>0, <2>1 DEF IInv, ListInv
<1>7. EventInv'
  <2>1. \A u \in Threads : left'[u] # <<>> => left[u] # <<>> /\ event'[u] = event[u]
    BY <1>0, <1>5
  <2> QED
    BY <1>0, <2>1 DEF IInv, EventInv
<1>8. TriedInv'
  <2>1. ASSUME NEW u \in Threads, NEW i \in 1..Len(left'[u])
        PROVE  /\ event'[u] = event[u] /\ left[u] # <<>>
               /\ \E k \in 1..Len(left[u]) : left[u][k] = left'[u][i]
               /\ u = t => left'[u][i] # Head(left[t])
    <3>1. CASE u = t
      <4>1. left'[u] = Tail(left[t]) /\ i \in 1..Len(Tail(left[t]))
        BY <1>5, <3>1
      <4>2. left'[u] # <<>>
        <5>1. Tail(left[t]) \in Seq(Clients) /\ i \in 1..Len(Tail(left[t]))
          BY <1>2, <4>1
        <5>2. Tail(left[t]) # <<>>
          BY <5>1, HasSome
        <5> QED
          BY <4>1, <5>2
      <4> QED
        BY <1>0, <1>2, <1>5, <3>1, <4>1, <4>2
    <3>2. CASE u # t
      <4>1. left'[u] = left[u] /\ event'[u] = event[u]
        BY <1>5, <3>2
      <4>2. left[u] # <<>>
        BY <1>1, <4>1
      <4> QED
        BY <3>2, <4>1, <4>2
    <3> QED
      BY <3>1, <3>2
  <2>2. ASSUME NEW c \in Clients, NEW j \in 1..Len(tried'[c])
        PROVE  \/ \E k \in 1..Len(tried[c]) : tried'[c][j] = tried[c][k]
               \/ c = Head(left[t]) /\ tried'[c][j] = event[t]
    <3>1. CASE c = Head(left[t])
      <4>1. tried'[c] = Append(tried[c], event[t]) /\ tried[c] \in Seq(Nat)
        BY <1>0, <1>1, <3>1
      <4> QED
        BY <1>1, <3>1, <4>1
    <3>2. CASE c # Head(left[t])
      <4>1. tried'[c] = tried[c]
        BY <1>0, <1>1, <3>2
      <4> QED
        BY <4>1
    <3> QED
      BY <3>1, <3>2
  <2>3. event[t] <= raised
    BY <1>0, <1>1 DEF IInv, EventInv
  <2>4. ASSUME NEW c \in Clients, NEW j \in 1..Len(tried'[c])
        PROVE  tried'[c][j] <= raised
    BY <2>2, <2>3 DEF IInv, TriedInv
  <2>5. ASSUME NEW c \in Clients, NEW j \in 1..Len(tried'[c]),
               NEW u \in Threads, NEW i \in 1..Len(left'[u]), left'[u][i] = c
        PROVE  tried'[c][j] # event'[u]
    <3>1. PICK k \in 1..Len(left[u]) : left[u][k] = c
      BY <2>1, <2>5
    <3>2. CASE \E n \in 1..Len(tried[c]) : tried'[c][j] = tried[c][n]
      BY <2>1, <3>1, <3>2 DEF IInv, TriedInv
    <3>3. CASE c = Head(left[t]) /\ tried'[c][j] = event[t]
      <4>1. u # t
        BY <2>1, <2>5, <3>3
      <4>2. left[u] # <<>> /\ event'[u] = event[u]
        BY <2>1
      <4>3. event[u] # event[t]
        BY <1>0, <4>1, <4>2 DEF IInv, EventInv
      <4> QED
        BY <3>3, <4>2, <4>3
    <3> QED
      BY <2>2, <3>2, <3>3
  <2> QED
    BY <1>0, <2>4, <2>5 DEF TriedInv
<1>9. SendInv'
  BY <1>0 DEF IInv, SendInv
<1> QED
  BY <1>3, <1>4, <1>6, <1>7, <1>8, <1>9 DEF IInv

(* A step of an endpoint that leaves the list and the channels alone. *)
LEMMA QuietStep ==
  ASSUME IInv, NEW c \in Clients, Asks(c) \/ AcceptFails(c) \/ Sent(c) \/ Leaves(c)
  PROVE  IInv'
<1>0. UNCHANGED <<raised, handlers, event, left, channel, tried>>
  BY DEF Asks, AcceptFails, Sent, Leaves
<1>1. TypeInv'
  <2>1. CASE Sent(c)
    <3>1. received[c] \o current[c] \in Seq(Events)
      BY DEF IInv, TypeInv
    <3> QED
      BY <2>1, <3>1 DEF Sent, AfterSend, IInv, TypeInv, Places
  <2>2. CASE Asks(c) \/ AcceptFails(c) \/ Leaves(c)
    BY <2>2 DEF Asks, AcceptFails, Leaves, IInv, TypeInv, Places
  <2> QED
    BY <2>1, <2>2
<1>2. OldestKept'
  <2>1. ASSUME NEW d \in Clients
        PROVE  GotNext(d) = Got(d) /\ tried'[d] = tried[d]
    <3>1. CASE Sent(c) /\ d = c
      <4>1. /\ received'[d] = received[d] \o current[d] /\ current'[d] = <<>>
            /\ channel'[d] = channel[d]
        BY <3>1 DEF Sent, IInv, TypeInv
      <4>2. received[d] \o current[d] \in Seq(Events)
        BY DEF IInv, TypeInv
      <4>3. GotNext(d) = (received[d] \o current[d]) \o <<>> \o channel[d]
        BY <4>1 DEF GotNext
      <4>4. (received[d] \o current[d]) \o <<>> = received[d] \o current[d]
        BY <4>2
      <4> QED
        BY <1>0, <4>3, <4>4 DEF Got
    <3>2. CASE ~(Sent(c) /\ d = c)
      <4>1. received'[d] = received[d] /\ current'[d] = current[d]
        BY <3>2 DEF Asks, AcceptFails, Sent, Leaves, IInv, TypeInv
      <4> QED
        BY <1>0, <4>1 DEF Got, GotNext
    <3> QED
      BY <3>1, <3>2
  <2> QED
    BY <2>1, SameGot
<1>3. ListInv'
  <2>1. \A d \in Clients :
          /\ place[d] \in {"reading", "sending"} => place'[d] \in {"reading", "sending"}
          /\ place[d] \notin {"none", "accepting"} => place'[d] \notin {"none", "accepting"}
    BY DEF Asks, AcceptFails, Sent, Leaves, AfterSend, IInv, TypeInv
  <2>2. ASSUME NEW i \in 1..Len(handlers)
        PROVE  place'[handlers[i]] \in {"reading", "sending"}
    <3>1. handlers[i] \in Clients
      BY DEF IInv, TypeInv
    <3> QED
      BY <2>1, <3>1 DEF IInv, ListInv
  <2> QED
    BY <1>0, <2>1, <2>2, ListsStay DEF IInv, ListInv
<1>4. EventInv' /\ TriedInv'
  BY <1>0 DEF IInv, EventInv, TriedInv
<1>5. SendInv'
  BY DEF Asks, AcceptFails, Sent, Leaves, IInv, TypeInv, SendInv
<1> QED
  BY <1>1, <1>2, <1>3, <1>4, <1>5 DEF IInv

LEMMA SubscribesStep ==
  ASSUME IInv, NEW c \in Clients, Subscribes(c)
  PROVE  IInv'
<1>0. /\ UNCHANGED <<raised, event, left, channel, current, gone, received, tried>>
      /\ place[c] = "accepting" /\ handlers' = Append(handlers, c)
      /\ place' = [place EXCEPT ![c] = "reading"] /\ place \in [Clients -> Places]
      /\ handlers \in Seq(Clients)
  BY DEF Subscribes, IInv, TypeInv
<1>1. TypeInv'
  BY <1>0 DEF IInv, TypeInv, Places
<1>2. OldestKept'
  BY <1>0, SameGot DEF Got, GotNext
<1>3. ListInv'
  <2>1. ASSUME NEW i \in 1..Len(handlers)
        PROVE  handlers[i] # c /\ place[handlers[i]] \in {"reading", "sending"}
    BY <1>0 DEF IInv, ListInv
  <2>2. Once(handlers')
    <3>1. \A i, j \in 1..Len(handlers) : handlers[i] = handlers[j] => i = j
      BY DEF IInv, ListInv, Once
    <3> QED
      BY <1>0, <2>1, <3>1 DEF Once
  <2>3. ASSUME NEW i \in 1..Len(handlers')
        PROVE  place'[handlers'[i]] \in {"reading", "sending"}
    <3>1. handlers'[i] = c \/ (i \in 1..Len(handlers) /\ handlers'[i] = handlers[i])
      BY <1>0
    <3>2. handlers'[i] \in Clients
      BY <1>1 DEF TypeInv
    <3> QED
      BY <1>0, <2>1, <3>1, <3>2
  <2>4. \A d \in Clients : place[d] \notin {"none", "accepting"}
                             => place'[d] \notin {"none", "accepting"}
    BY <1>0
  <2> QED
    BY <1>0, <2>2, <2>3, <2>4, ListsStay DEF IInv
<1>4. EventInv' /\ TriedInv'
  BY <1>0 DEF IInv, EventInv, TriedInv
<1>5. SendInv'
  BY <1>0 DEF IInv, SendInv
<1> QED
  BY <1>1, <1>2, <1>3, <1>4, <1>5 DEF IInv

LEMMA HeadFirst ==
  ASSUME NEW r \in Seq(Events), NEW q \in Seq(Events), q # <<>>
  PROVE  r \o <<Head(q)>> \o Tail(q) = r \o <<>> \o q
<1>1. Head(q) \in Events /\ Tail(q) \in Seq(Events) /\ <<Head(q)>> \in Seq(Events)
  OBVIOUS
<1>2. q = <<Head(q)>> \o Tail(q)
  BY HeadTailProperties
<1>3. r \o <<>> = r
  OBVIOUS
<1>4. r \o <<Head(q)>> \o Tail(q) = r \o (<<Head(q)>> \o Tail(q))
  BY <1>1, ConcatAssociative
<1> QED
  BY <1>2, <1>3, <1>4

LEMMA TakesStep ==
  ASSUME IInv, NEW c \in Clients, Takes(c)
  PROVE  IInv'
<1>0. /\ UNCHANGED <<raised, handlers, event, left, gone, received, tried>>
      /\ place[c] = "reading" /\ channel[c] # <<>>
      /\ current' = [current EXCEPT ![c] = <<Head(channel[c])>>]
      /\ channel' = [channel EXCEPT ![c] = Tail(@)]
      /\ place' = [place EXCEPT ![c] = "sending"]
  BY DEF Takes
<1>1. TypeInv'
  BY <1>0 DEF IInv, TypeInv, Places
<1>2. OldestKept'
  <2>1. ASSUME NEW d \in Clients PROVE GotNext(d) = Got(d) /\ tried'[d] = tried[d]
    <3>1. CASE d = c
      <4>1. /\ received[c] \in Seq(Events) /\ channel[c] \in Seq(Events)
            /\ current[c] = <<>>
        BY <1>0 DEF IInv, TypeInv, SendInv
      <4>2. /\ received'[c] = received[c] /\ current'[c] = <<Head(channel[c])>>
            /\ channel'[c] = Tail(channel[c])
        BY <1>0 DEF IInv, TypeInv
      <4>3. received[c] \o <<Head(channel[c])>> \o Tail(channel[c])
              = received[c] \o <<>> \o channel[c]
        BY <1>0, <4>1, HeadFirst
      <4> QED
        BY <1>0, <3>1, <4>1, <4>2, <4>3 DEF Got, GotNext
    <3>2. CASE d # c
      BY <1>0, <3>2 DEF IInv, TypeInv, Got, GotNext
    <3> QED
      BY <3>1, <3>2
  <2> QED
    BY <2>1, SameGot
<1>3. ListInv'
  <2>1. \A d \in Clients :
          /\ place[d] \in {"reading", "sending"} => place'[d] \in {"reading", "sending"}
          /\ place[d] \notin {"none", "accepting"} => place'[d] \notin {"none", "accepting"}
    BY <1>0 DEF IInv, TypeInv
  <2>2. ASSUME NEW i \in 1..Len(handlers)
        PROVE  place'[handlers[i]] \in {"reading", "sending"}
    <3>1. handlers[i] \in Clients
      BY DEF IInv, TypeInv
    <3> QED
      BY <2>1, <3>1 DEF IInv, ListInv
  <2> QED
    BY <1>0, <2>1, <2>2, ListsStay DEF IInv, ListInv
<1>4. EventInv' /\ TriedInv'
  BY <1>0 DEF IInv, EventInv, TriedInv
<1>5. SendInv'
  BY <1>0 DEF IInv, TypeInv, SendInv
<1> QED
  BY <1>1, <1>2, <1>3, <1>4, <1>5 DEF IInv

LEMMA AbortsStep ==
  ASSUME IInv, NEW c \in Clients, Aborts(c)
  PROVE  IInv'
<1>0. /\ UNCHANGED <<raised, event, left, gone>> /\ handlers' = RemoveFirst(handlers, c)
      /\ place[c] \in {"reading", "sending"} /\ place' = [place EXCEPT ![c] = "over"]
      /\ current' = [current EXCEPT ![c] = <<>>] /\ channel' = [channel EXCEPT ![c] = <<>>]
      /\ received' = [received EXCEPT ![c] = <<>>] /\ tried' = [tried EXCEPT ![c] = <<>>]
  BY DEF Aborts, Unsubscribed
<1>1. /\ handlers' \in Seq(Clients) /\ Once(handlers')
      /\ \A i \in 1..Len(handlers') :
           handlers'[i] # c /\ \E j \in 1..Len(handlers) : handlers'[i] = handlers[j]
  <2>1. handlers \in Seq(Clients) /\ Once(handlers)
    BY DEF IInv, TypeInv, ListInv
  <2> QED
    BY <1>0, <2>1, Unsubscribe
<1>2. TypeInv'
  BY <1>0, <1>1 DEF IInv, TypeInv, Places
<1>3. ASSUME NEW d \in Clients
      PROVE  \/ (GotNext(d) = Got(d) /\ tried'[d] = tried[d])
             \/ (GotNext(d) = <<>> /\ tried'[d] = <<>>)
  <2>1. CASE d = c
    <3>1. /\ received'[d] = <<>> /\ current'[d] = <<>> /\ channel'[d] = <<>>
          /\ tried'[d] = <<>>
      BY <1>0, <2>1 DEF IInv, TypeInv
    <3> QED
      BY <3>1 DEF GotNext
  <2>2. CASE d # c
    <3>1. /\ received'[d] = received[d] /\ current'[d] = current[d]
          /\ channel'[d] = channel[d] /\ tried'[d] = tried[d]
      BY <1>0, <2>2 DEF IInv, TypeInv
    <3> QED
      BY <3>1 DEF Got, GotNext
  <2> QED
    BY <2>1, <2>2
<1>4. OldestKept'
  BY <1>3, SameGot
<1>5. ListInv'
  <2>1. ASSUME NEW i \in 1..Len(handlers')
        PROVE  place'[handlers'[i]] \in {"reading", "sending"}
    <3>1. PICK j \in 1..Len(handlers) : handlers'[i] = handlers[j]
      BY <1>1
    <3>2. handlers[j] \in Clients /\ handlers[j] # c
      <4>1. handlers \in Seq(Clients)
        BY DEF IInv, TypeInv
      <4> QED
        BY <1>1, <3>1, <4>1
    <3>3. place'[handlers[j]] = place[handlers[j]]
      BY <1>0, <3>2 DEF IInv, TypeInv
    <3> QED
      BY <3>1, <3>3 DEF IInv, ListInv
  <2>2. \A d \in Clients : place[d] \notin {"none", "accepting"}
                             => place'[d] \notin {"none", "accepting"}
    BY <1>0 DEF IInv, TypeInv
  <2> QED
    BY <1>0, <1>1, <2>1, <2>2, ListsStay DEF IInv
<1>6. EventInv'
  BY <1>0 DEF IInv, EventInv
<1>7. TriedInv'
  <2>1. \A d \in Clients : tried'[d] = tried[d] \/ tried'[d] = <<>>
    BY <1>0 DEF IInv, TypeInv
  <2> QED
    BY <1>0, <2>1 DEF IInv, TriedInv
<1>8. SendInv'
  BY <1>0 DEF IInv, TypeInv, SendInv
<1> QED
  BY <1>2, <1>4, <1>5, <1>6, <1>7, <1>8 DEF IInv

LEMMA NextIInv == IInv /\ [Next]_vars => IInv'
<1> SUFFICES ASSUME IInv, [Next]_vars PROVE IInv'
  OBVIOUS
<1>1. CASE UNCHANGED vars
  <2>1. \A c \in Clients : GotNext(c) = Got(c) /\ tried'[c] = tried[c]
    BY <1>1 DEF vars, endpoints, Got, GotNext
  <2>2. OldestKept'
    BY <2>1, SameGot
  <2>3. TypeInv' /\ ListInv' /\ EventInv' /\ TriedInv' /\ SendInv'
    BY <1>1 DEF vars, endpoints, IInv, TypeInv, ListInv, Once, EventInv, TriedInv, SendInv
  <2> QED
    BY <2>2, <2>3 DEF IInv
<1>2. ASSUME NEW t \in Threads, Publish(t) \/ Handler(t) PROVE IInv'
  BY <1>2, PublishStep, HandlerStep
<1>3. ASSUME NEW c \in Clients, Asks(c) \/ Endpoint(c) \/ Sent(c) \/ Leaves(c)
      PROVE  IInv'
  BY <1>3, QuietStep, SubscribesStep, TakesStep, AbortsStep DEF Endpoint
<1> QED
  BY <1>1, <1>2, <1>3 DEF Next

THEOREM Invariance == Spec => []IInv
<1> QED
  BY InitIInv, NextIInv, PTL DEF Spec

(* Whatever threads raise them and whoever comes and goes, a subscriber is *)
(* offered no event twice, gets them in the order of the offers, and never *)
(* misses one of the first Capacity it was offered.                        *)
THEOREM OrderSafety == Spec => []OldestKept
<1>1. IInv => OldestKept
  BY DEF IInv
<1> QED
  BY <1>1, Invariance, PTL
=============================================================================
