---------------------------- MODULE EventStream -----------------------------
(***************************************************************************)
(* The events of one machine in Program.cs: ManagedMachine.Publish, called *)
(* from any thread, and EventsAsync, which gives each subscriber a bounded *)
(* channel and sends on what is in it.                                     *)
(*                                                                         *)
(* External: the clients, who may stop reading or leave at any time, and   *)
(* RequestAborted, by which the server learns of it.                       *)
(***************************************************************************)
EXTENDS Naturals, Sequences, SequencesExt

CONSTANTS
  Threads,     \* what publishes: a start, the Exited handler, a QMP call
  Clients,     \* connections to /events, each made once
  Capacity,    \* of the channel; 64 in the code
  MaxEvents    \* bound: events that are raised

ASSUME StreamAssumption == Capacity \in Nat \ {0} /\ MaxEvents \in Nat

VARIABLES
  raised,     \* how many events there were; an event is its number
  handlers,   \* the invocation list of EventRaised
  event,      \* what each thread hands to its list, 0 if nothing
  left,       \* the handlers its Invoke has yet to call
  place,      \* where each EventsAsync is
  channel,    \* its channel
  current,    \* the event it sends, if any
  gone,       \* clients that have left
  received,   \* history: what each client was sent
  tried       \* history: what was offered to each channel, in order

vars == <<raised, handlers, event, left, place, channel, current, gone,
          received, tried>>
endpoints == <<place, current, gone, received>>

Init ==
  /\ raised = 0 /\ handlers = <<>>
  /\ event = [t \in Threads |-> 0] /\ left = [t \in Threads |-> <<>>]
  /\ place = [c \in Clients |-> "none"]
  /\ channel = [c \in Clients |-> <<>>] /\ current = [c \in Clients |-> <<>>]
  /\ gone = {}
  /\ received = [c \in Clients |-> <<>>] /\ tried = [c \in Clients |-> <<>>]
-----------------------------------------------------------------------------
(* Publish: Invoke works on the list as it was when the event was raised. *)
Publish(t) ==
  /\ left[t] = <<>> /\ raised < MaxEvents
  /\ raised' = raised + 1
  /\ event' = [event EXCEPT ![t] = IF handlers = <<>> THEN 0 ELSE raised + 1]
  /\ left' = [left EXCEPT ![t] = handlers]
  /\ UNCHANGED <<handlers, channel, tried, endpoints>>

(* A seeded bug: BoundedChannelFullMode.DropOldest. *)
Bug_Offered(q, e) == Append(IF Len(q) < Capacity THEN q ELSE Tail(q), e)

(* TryWrite on a bounded channel in its default mode: false when full. *)
Offered(q, e) == IF Len(q) < Capacity THEN Append(q, e) ELSE q

(* The next handler of the list, called by the thread that publishes. *)
Handler(t) ==
  /\ left[t] # <<>>
  /\ LET c == Head(left[t]) IN
       /\ channel' = [channel EXCEPT ![c] = Offered(@, event[t])]
       /\ tried' = [tried EXCEPT ![c] = Append(@, event[t])]
  /\ left' = [left EXCEPT ![t] = Tail(@)]
  /\ event' = [event EXCEPT ![t] = IF Len(left[t]) = 1 THEN 0 ELSE @]
  /\ UNCHANGED <<raised, handlers, endpoints>>
-----------------------------------------------------------------------------
(* EventsAsync.  AcceptWebSocketAsync has been awaited when it subscribes. *)
Asks(c) ==
  /\ place[c] = "none"
  /\ place' = [place EXCEPT ![c] = "accepting"]
  /\ UNCHANGED <<raised, handlers, event, left, channel, current, gone, received, tried>>

AcceptFails(c) ==
  /\ place[c] = "accepting"
  /\ place' = [place EXCEPT ![c] = "over"]
  /\ UNCHANGED <<raised, handlers, event, left, channel, current, gone, received, tried>>

Subscribes(c) ==
  /\ place[c] = "accepting"
  /\ handlers' = Append(handlers, c)
  /\ place' = [place EXCEPT ![c] = "reading"]
  /\ UNCHANGED <<raised, event, left, channel, current, gone, received, tried>>

Takes(c) ==
  /\ place[c] = "reading" /\ channel[c] # <<>>
  /\ current' = [current EXCEPT ![c] = <<Head(channel[c])>>]
  /\ channel' = [channel EXCEPT ![c] = Tail(@)]
  /\ place' = [place EXCEPT ![c] = "sending"]
  /\ UNCHANGED <<raised, handlers, event, left, gone, received, tried>>

(* A seeded bug: one event is awaited instead of all. *)
Bug_AfterSend == "served"

(* await foreach goes round again. *)
AfterSend == "reading"

Sent(c) ==
  /\ place[c] = "sending" /\ c \notin gone
  /\ received' = [received EXCEPT ![c] = @ \o current[c]]
  /\ current' = [current EXCEPT ![c] = <<>>]
  /\ place' = [place EXCEPT ![c] = AfterSend]
  /\ UNCHANGED <<raised, handlers, event, left, channel, gone, tried>>

(* A seeded bug: the handler is removed after the loop, not in finally. *)
Bug_Unsubscribed(c) == handlers

(* EventRaised -= Handler takes one out, and there is one at most. *)
Unsubscribed(c) == RemoveFirst(handlers, c)

(* RequestAborted cancels the read or the send, or the send fails: finally *)
(* removes the handler, and the histories end.  A publisher under way may  *)
(* still call the handler; its channel is read by nobody.                  *)
Aborts(c) ==
  /\ place[c] \in {"reading", "sending"} /\ c \in gone
  /\ handlers' = Unsubscribed(c)
  /\ current' = [current EXCEPT ![c] = <<>>]
  /\ channel' = [channel EXCEPT ![c] = <<>>]
  /\ received' = [received EXCEPT ![c] = <<>>]
  /\ tried' = [tried EXCEPT ![c] = <<>>]
  /\ place' = [place EXCEPT ![c] = "over"]
  /\ UNCHANGED <<raised, event, left, gone>>

Leaves(c) ==
  /\ place[c] # "none" /\ c \notin gone
  /\ gone' = gone \cup {c}
  /\ UNCHANGED <<raised, handlers, event, left, channel, tried, place, current, received>>
-----------------------------------------------------------------------------
Endpoint(c) ==
  AcceptFails(c) \/ Subscribes(c) \/ Takes(c) \/ Aborts(c)

Next ==
  \/ \E t \in Threads : Publish(t) \/ Handler(t)
  \/ \E c \in Clients : Asks(c) \/ Endpoint(c) \/ Sent(c) \/ Leaves(c)

Spec == Init /\ [][Next]_vars

(* A publisher goes through its list and the server's own steps are taken, *)
(* RequestAborted among them.  A send ends only if its client reads, and   *)
(* nobody has to publish or to leave.                                      *)
FairSpec ==
  /\ Spec
  /\ \A t \in Threads : WF_vars(Handler(t))
  /\ \A c \in Clients : WF_vars(Endpoint(c))
-----------------------------------------------------------------------------
(* What a client has been sent, and what is still on its way there. *)
Got(c) == received[c] \o current[c] \o channel[c]

(* s is t with some of its elements left out. *)
PartOf(s, t) ==
  \E at \in [1..Len(s) -> 1..Len(t)] :
    /\ \A i \in 1..Len(s) : s[i] = t[at[i]]
    /\ \A i, j \in 1..Len(s) : i < j => at[i] < at[j]

(* What is got of all that was offered: in order, the oldest for certain, *)
(* and nothing was offered twice.                                          *)
Keeps(got, all) ==
  /\ PartOf(got, all)
  /\ \A i \in 1..Len(all) : i <= Capacity => i <= Len(got) /\ got[i] = all[i]
  /\ \A i, j \in 1..Len(all) : all[i] = all[j] => i = j

(* A subscriber is offered no event twice, gets what it was offered in the *)
(* order it was offered, from whatever threads, and always the first       *)
(* Capacity events of it: what a slow one misses is never older than what  *)
(* it gets next, which also means that the last state may be what it       *)
(* misses.                                                                 *)
OldestKept == \A c \in Clients : Keeps(Got(c), tried[c])

(* An event that is in a channel reaches the client, unless that leaves or *)
(* reads no further.                                                       *)
Delivered ==
  \A c \in Clients : \A e \in 1..MaxEvents :
    e \in Range(channel[c])
      ~> e \in Range(received[c]) \/ c \in gone \/ [](place[c] = "sending")

(* No subscriber that has left keeps its handler, and with it its channel, *)
(* in the machine for ever, even if it left before it was subscribed.      *)
GoneIsForgotten ==
  \A c \in Clients : c \in gone ~> [](c \notin Range(handlers))
=============================================================================
