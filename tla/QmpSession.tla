----------------------------- MODULE QmpSession -----------------------------
(***************************************************************************)
(* One QMP call of the daemon: ctl_qmp, ctl_snapshot, ctl_balloon and      *)
(* ctl_usb_hotplug of control.c over the client of qmp.c.                  *)
(*                                                                         *)
(* Every call opens a connection to the machine's monitor socket, sends    *)
(* one command, reads once, closes and answers.  The peer is external: it  *)
(* greets, sends events when it likes, replies to the command or not, and  *)
(* may close at any time, in the middle of a line too.  What it sends is a *)
(* sequence of units, each the text of a line or the newline that ends it; *)
(* recv may cut the stream between any two of them.                        *)
(***************************************************************************)
EXTENDS Naturals, Sequences

CONSTANTS
  Size,     \* capacity of the response buffer, in units (MAX_OUT)
  MaxOut    \* bound: units the peer sends on one connection

ASSUME SizesAssumption == Size \in Nat /\ Size >= 2 /\ MaxOut \in Nat

VARIABLES
  stage,    \* where the daemon is
  request,  \* what it was asked: see Requests
  fds,      \* sockets to monitors it has open
  wire,     \* what of the command has been sent: nothing, its text, the line
  peer,     \* the monitor's end of the connection
  out,      \* what the peer has sent on this connection
  used,     \* how much of that is in the response buffer
  rc,       \* what the qwm_qmp_ call returned
  answer    \* status and body of the last HTTP answer

vars == <<stage, request, fds, wire, peer, out, used, rc, answer>>

(* A helper is ctl_snapshot, ctl_balloon or ctl_usb_hotplug: its command is *)
(* a constant of qmp.c and allowed.  The other two are calls of ctl_qmp.    *)
Requests == {"helper", "allowed", "forbidden"}
Allowed(r) == r # "forbidden"
Stages   == {"down", "idle", "connect", "connected", "newline", "recv", "close"}
Texts    == {"greeting", "event", "reply"}
Bodies   == {"none", "unavailable", "policy", "response", "garbage", "error"}

TypeOK ==
  /\ stage \in Stages
  /\ request \in Requests
  /\ fds \in Nat
  /\ wire \in {"nothing", "text", "line"}
  /\ peer \in {"open", "closed"}
  /\ out \in Seq(Texts \cup {"newline"}) /\ Len(out) <= MaxOut
  /\ used \in 0..Len(out) /\ used < Size
  /\ rc \in {"none", "ok", "fail", "policy"}
  /\ answer \in [status : {0, 200, 500}, body : Bodies]

Init ==
  /\ stage = "idle" /\ request = "helper" /\ fds = 0
  /\ wire = "nothing" /\ peer = "closed" /\ out = <<>> /\ used = 0
  /\ rc = "none"
  /\ answer = [status |-> 0, body |-> "none"]
-----------------------------------------------------------------------------
(* A request reaches one of the four ctl_ functions. *)
Begin ==
  /\ stage = "idle"
  /\ request' \in Requests
  /\ stage' = "connect"
  /\ rc' = "none"
  /\ UNCHANGED <<fds, wire, peer, out, used, answer>>

(* qwm_qmp_connect: a connection of its own for each call. *)
Connect ==
  /\ stage = "connect"
  /\ stage' = "connected" /\ fds' = fds + 1
  /\ wire' = "nothing" /\ peer' = "open" /\ out' = <<>> /\ used' = 0
  /\ UNCHANGED <<request, rc, answer>>

(* qwm_unix_connect closes its socket when nobody listens; every one of   *)
(* the four callers then answers 200 with an error text.                  *)
ConnectFails ==
  /\ stage = "connect"
  /\ stage' = "idle"
  /\ answer' = [status |-> 200, body |-> "unavailable"]
  /\ UNCHANGED <<request, fds, wire, peer, out, used, rc>>

(* qwm_qmp_command: the policy is looked up on the open connection. *)
Refuse ==
  /\ stage = "connected" /\ ~Allowed(request)
  /\ stage' = "close" /\ rc' = "policy"
  /\ UNCHANGED <<request, fds, wire, peer, out, used, answer>>

(* qwm_qmp_send_raw sends the text and the newline in two calls. *)
Send ==
  /\ peer = "open"
  /\ \/ /\ stage = "connected" /\ Allowed(request)
        /\ stage' = "newline" /\ wire' = "text"
     \/ /\ stage = "newline"
        /\ stage' = "recv" /\ wire' = "line"
  /\ UNCHANGED <<request, fds, peer, out, used, rc, answer>>

Sending ==
  \/ stage = "newline"
  \/ stage = "connected" /\ Allowed(request)

(* send fails for want of buffers; the response buffer was never written. *)
SendFails ==
  /\ Sending
  /\ stage' = "close" /\ rc' = "fail"
  /\ UNCHANGED <<request, fds, wire, peer, out, used, answer>>

(* send to a closed peer raises SIGPIPE, which nobody handles or ignores: *)
(* the daemon is gone, with all its descriptors, and nothing is answered. *)
SendKills ==
  /\ Sending /\ peer = "closed"
  /\ stage' = "down" /\ fds' = 0
  /\ UNCHANGED <<request, wire, peer, out, used, rc, answer>>

Restart ==
  /\ stage = "down"
  /\ stage' = "idle"
  /\ UNCHANGED <<request, fds, wire, peer, out, used, rc, answer>>
-----------------------------------------------------------------------------
(* Seeded bugs: the first read ends the loop; only a full buffer ends it. *)
Bug_OneRead(n) == n > 0
Bug_NoDelimiter(n) == used + n + 1 >= Size

(* The read loop stops at a full buffer or when the last unit of what it  *)
(* has is a newline, wherever the lines of the stream end.                *)
LoopEnds(n) == used + n + 1 >= Size \/ out[used + n] = "newline"

(* A seeded bug: recv may fill the place of the terminating zero. *)
Bug_Space == Size - used

Space == Size - 1 - used

Recv ==
  /\ stage = "recv"
  /\ \E n \in 1..Space :
       /\ used + n <= Len(out)
       /\ used' = used + n
       /\ IF LoopEnds(n)
          THEN stage' = "close" /\ rc' = "ok"
          ELSE UNCHANGED <<stage, rc>>
  /\ UNCHANGED <<request, fds, wire, peer, out, answer>>

(* A seeded bug: recv's 0 is taken for "try again". *)
Bug_RecvEnds ==
  /\ stage = "recv" /\ peer = "closed" /\ used = Len(out)
  /\ UNCHANGED vars

(* recv returns 0 or an error once the stream is drained.  Whatever was   *)
(* read by then counts as a response.                                     *)
RecvEnds ==
  /\ stage = "recv" /\ peer = "closed" /\ used = Len(out)
  /\ stage' = "close"
  /\ rc' = IF used > 0 THEN "ok" ELSE "fail"
  /\ UNCHANGED <<request, fds, wire, peer, out, used, answer>>

(* The bytes snprintf copies: response[] was filled by the read loop, or   *)
(* it still holds whatever the stack held.                                 *)
Copied == IF wire = "line" THEN "response" ELSE "garbage"

(* A seeded bug: ctl_qmp returns on a refusal before it closes. *)
Bug_Closed == IF rc = "policy" THEN fds ELSE fds - 1

Closed == fds - 1

(* ctl_qmp answers 200 whatever rc is; the helpers pass it on, and         *)
(* handle_api makes 500 of it.                                             *)
CloseAndAnswer ==
  /\ stage = "close"
  /\ stage' = "idle" /\ fds' = Closed
  /\ answer' =
       IF rc = "policy" THEN [status |-> 200, body |-> "policy"]
       ELSE IF request = "helper" /\ rc = "fail"
       THEN [status |-> 500, body |-> "error"]
       ELSE [status |-> 200, body |-> Copied]
  /\ UNCHANGED <<request, wire, peer, out, used, rc>>
-----------------------------------------------------------------------------
(* The peer.                                                               *)
Says(u) ==
  /\ fds > 0 /\ peer = "open" /\ Len(out) < MaxOut
  /\ out' = Append(out, u)
  /\ UNCHANGED <<stage, request, fds, wire, peer, used, rc, answer>>

LineOpen == out # <<>> /\ out[Len(out)] # "newline"

Greets  == out = <<>> /\ Says("greeting")
Reports == out # <<>> /\ ~LineOpen /\ Says("event")
Replies ==
  /\ out # <<>> /\ ~LineOpen /\ wire # "nothing"
  /\ \A i \in 1..Len(out) : out[i] # "reply"
  /\ Says("reply")
EndsLine == LineOpen /\ Says("newline")

HangsUp ==
  /\ fds > 0 /\ peer = "open"
  /\ peer' = "closed"
  /\ UNCHANGED <<stage, request, fds, wire, out, used, rc, answer>>
-----------------------------------------------------------------------------
Daemon ==
  \/ Connect \/ ConnectFails \/ Refuse \/ Send \/ SendFails \/ SendKills
  \/ Recv \/ RecvEnds \/ CloseAndAnswer
Peer == Greets \/ Reports \/ Replies \/ EndsLine \/ HangsUp

Next == Begin \/ Restart \/ Daemon \/ Peer

Spec == Init /\ [][Next]_vars

(* The daemon's own steps go on whenever they can; the peer owes nothing. *)
FairSpec == Spec /\ WF_vars(Daemon)
-----------------------------------------------------------------------------
Response == SubSeq(out, 1, used)
InCall == stage \notin {"down", "idle"}

(* qmp.c closes what it opened on every way out of a call: refused, failed *)
(* to send, answered or not.  One socket at most is ever open.             *)
NoFdLeak == fds = IF InCall /\ stage # "connect" THEN 1 ELSE 0

(* The daemon never blocks in recv when what it has read so far ends with  *)
(* a line: it waits for a first byte or for the rest of a line only.       *)
WaitsOnlyMidLine ==
  stage = "recv" /\ used > 0 => out[used] # "newline"

(* A success: the whole command was sent, and the response ends with a    *)
(* line, fills the buffer, or is all the peer ever sent.                   *)
SuccessExplained ==
  stage = "close" /\ rc = "ok" =>
    /\ wire = "line" /\ used > 0
    /\ \/ out[used] = "newline"
       \/ used = Size - 1
       \/ peer = "closed" /\ used = Len(out)

(* A failure: nothing was read, though the command may have been sent and  *)
(* carried out.                                                            *)
FailureReadNothing == stage = "close" /\ rc = "fail" => used = 0

(* What the outcome of a call can mean.  A success is never a line the     *)
(* peer was still writing and would have finished, nor the answer to half  *)
(* a command; a failure, and with it a helper's 500, never hides a         *)
(* response.                                                               *)
OutcomeExplained == SuccessExplained /\ FailureReadNothing

(* A call comes back once the peer has hung up or has sent as much as the  *)
(* buffer takes, however the stream was cut: only a peer that is silent or *)
(* stuck in a short line can hold the daemon.                              *)
CallReturns ==
  fds > 0 /\ (peer = "closed" \/ Len(out) >= Size - 1) ~> ~InCall
=============================================================================
