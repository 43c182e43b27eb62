------------------------------ MODULE ApiRoutes ------------------------------
(***************************************************************************)
(* One request through serve and handle_api of server.c: the request line, *)
(* the choice of a route by substring, the arguments taken from the path,  *)
(* the control-plane call and the answer made of its result.               *)
(*                                                                         *)
(* The paths are those ApiClient of api.js makes, and pages.  Of the names *)
(* that the client puts into a path only those of a snapshot's device and  *)
(* tag, and of a command, are encoded; all others go in as they are, so    *)
(* that a slash in them makes segments, and dots, a question mark or a     *)
(* number sign do what they do in every URL before fetch sends it.         *)
(*                                                                         *)
(* A path is the sequence of its segments; of a segment the model keeps    *)
(* what the constants below say of it.                                     *)
(***************************************************************************)
EXTENDS Naturals, Sequences, SequencesExt

CONSTANTS
  Names,     \* what callers give as machine, device, name, number or command
  Texts,     \* those, and all that segments and arguments can be made of
  Encoded,   \* encodeURIComponent on names: always a single segment
  Sent,      \* the segments fetch makes of a text found in a path; the last
             \* is "#" when a fragment, which is not sent, begins there
  Queries,   \* segments in which a query begins
  Commands,  \* from segments that hold "execute=" to the text behind it
  Begins,    \* pairs <<text, word>>: a longer text and a word it begins with
             \* (or, when the word is "..", that it contains)
  Long,      \* texts of more than 255 characters
  Clipped,   \* the first 255 characters of those
  Huge,      \* segments in which the request line ends
  Kept,      \* what it holds of those
  Pages      \* paths of other requests

Operations == {"health", "telemetry", "stop", "start", "qmp", "snapshot",
               "balloon", "usb"}

(* The words the source writes into its routes. *)
Words == {"api", "v1", "machines", "hotplug"} \cup Operations

(* strstr(path, "/a/b/c"): the last word need only begin a segment. *)
Starts(t, word) == t = word \/ <<t, word>> \in Begins

(* No word of the routes begins with another, so that nothing begins with  *)
(* two of them; and the first characters of a text begin with no more      *)
(* words than the text.                                                    *)
NamesOK ==
  /\ Names \subseteq Texts /\ Huge \subseteq Texts
  /\ Encoded \in [Names -> Texts]
  /\ Sent \in [Texts -> Seq(Texts) \ {<<>>}]
  /\ Words \cap (Long \cup Huge \cup DOMAIN Commands) = {}
  /\ Clipped \in [Long -> Texts] /\ Kept \in [Huge -> Texts]
  /\ \A h \in Huge, w \in Words : Starts(Kept[h], w) => Starts(h, w)
  /\ \A w, u \in Words :
       /\ <<"", w>> \notin Begins /\ <<w, u>> \notin Begins
       /\ w # u => \A t \in Texts : <<t, w>> \in Begins => <<t, u>> \notin Begins

ASSUME NamesAssumption == NamesOK

(* The calls of the client; start and stop are its only POSTs. *)
Calls ==
  [op : {"health", "telemetry"}, args : {<<>>}]
    \cup [op : {"start", "stop"}, args : {<<m>> : m \in Names}]
    \cup [op : {"qmp", "balloon"}, args : Names \X Names]
    \cup [op : {"snapshot", "usb"}, args : Names \X Names \X Names]

Api(w) == <<"api", "v1", w>>
Prefix(r) == IF r = "usb" THEN Api("usb") \o <<"hotplug">> ELSE Api(r)

(* The names the client puts into the path, as it writes them. *)
InPath(c) ==
  CASE c.op = "qmp"      -> <<c.args[1]>>
    [] c.op = "snapshot" -> <<c.args[1], Encoded[c.args[2]], Encoded[c.args[3]]>>
    [] OTHER             -> c.args

(* The segments those become. *)
Spelt(c) == FlattenSeq([i \in 1..Len(InPath(c)) |-> Sent[InPath(c)[i]]])

Url(c) ==
  IF c.op \in {"start", "stop", "qmp"}
  THEN Prefix("machines") \o Spelt(c) \o <<c.op>>
  ELSE Prefix(c.op) \o Spelt(c)

(* The text after "execute=" in the query, if there is one. *)
Execute(c) == IF c.op = "qmp" THEN <<Encoded[c.args[2]]>> ELSE <<>>

Other == [op |-> "other", args |-> <<>>]

VARIABLES
  stage,    \* request, call, then done
  method,   \* of the request
  named,    \* the call the client made, or Other
  path,     \* what the request line holds of its path
  execute,  \* and the text behind its first "execute="
  call,     \* the ctl_ function called, with its arguments
  reply     \* status and text of the answer

vars == <<stage, method, named, path, execute, call, reply>>
-----------------------------------------------------------------------------
Has(p, S) == \E i \in 1..Len(p) : p[i] \in S

First(p, S) ==
  CHOOSE i \in 1..Len(p) : p[i] \in S /\ \A j \in 1..(i - 1) : p[j] \notin S

Dots == {".", ".."}

(* What the i-th segment makes of s, the segments before it: up to the     *)
(* query a dot goes nowhere, and two go up.                                *)
Walk(p, s, i) ==
  IF p[i] \notin Dots \/ \E j \in 1..(i - 1) : p[j] \in Queries THEN Append(s, p[i])
  ELSE IF p[i] = ".." /\ s # <<>> THEN Front(s)
  ELSE s

(* fetch resolves dots before it sends a path: the result is a directory   *)
(* when they come last.                                                    *)
Resolved(p) ==
  LET resolved[i \in 0..Len(p)] ==
        IF i = 0 THEN <<>> ELSE Walk(p, resolved[i - 1], i)
  IN  IF Last(p) \in Dots /\ ~Has(p, Queries)
      THEN Append(resolved[Len(p)], "")
      ELSE resolved[Len(p)]

(* And it sends no fragment. *)
Fetched(u) ==
  Resolved(IF Has(u, {"#"}) THEN SubSeq(u, 1, First(u, {"#"}) - 1) ELSE u)

(* sscanf "%1023s" ends the path in the middle of a huge segment. *)
Cut(p) ==
  IF Has(p, Huge)
  THEN Append(SubSeq(p, 1, First(p, Huge) - 1), Kept[p[First(p, Huge)]])
  ELSE p

(* What response is told to send: a file, the result of a call, or a text  *)
(* of the source with a length written next to it by hand.                 *)
Written(text, size, told) == [text |-> text, size |-> size, told |-> told]

Nothing == [status |-> 0, body |-> Written("none", 0, 0)]

(* strstr(path, "execute="): in the path first, then in its own query, of  *)
(* which nothing is left behind a fragment or a path that was cut.         *)
Receives(m, c, p, query) ==
  /\ stage = "request" /\ method = m /\ named = c
  /\ path = Cut(p)
  /\ execute = IF Has(path, DOMAIN Commands)
               THEN <<Commands[path[First(path, DOMAIN Commands)]]>>
               ELSE IF Has(p, Huge) THEN <<>> ELSE query
  /\ call = Other /\ reply = Nothing

Init ==
  \/ \E m \in {"GET", "POST"}, c \in Calls :
       Receives(m, c, Fetched(Url(c)), IF Has(Url(c), {"#"}) THEN <<>> ELSE Execute(c))
  \/ \E p \in Pages : Receives("GET", Other, p, <<>>)

HasWords(p, words) ==
  \E i \in 0..(Len(p) - Len(words)) :
    /\ \A j \in 1..(Len(words) - 1) : p[i + j] = words[j]
    /\ Starts(p[i + Len(words)], words[Len(words)])

(* The tests of handle_api, in their order. *)
Routes == <<"health", "telemetry", "stop", "start", "qmp", "snapshot",
            "balloon", "usb">>

(* A seeded bug: the second test of the stop route is left out. *)
Bug_Matches(p, r) ==
  IF r \in {"start", "qmp"}
  THEN HasWords(p, Api("machines")) /\ HasWords(p, <<r>>)
  ELSE IF r = "stop" THEN HasWords(p, Api("machines")) ELSE HasWords(p, Api(r))

Matches(p, r) ==
  IF r \in {"stop", "start", "qmp"}
  THEN HasWords(p, Api("machines")) /\ HasWords(p, <<r>>)
  ELSE HasWords(p, Api(r))

Route(p) ==
  IF \E i \in 1..Len(Routes) : Matches(p, Routes[i])
  THEN Routes[CHOOSE i \in 1..Len(Routes) :
                /\ Matches(p, Routes[i])
                /\ \A j \in 1..(i - 1) : ~Matches(p, Routes[j])]
  ELSE "none"
-----------------------------------------------------------------------------
(* api_segment(path, "/api/v1/machines/"), empty when there is none. *)
MachineId(p) ==
  LET at == {i \in 1..(Len(p) - 3) : SubSeq(p, i, i + 2) = Api("machines")}
  IN  IF at = {} THEN ""
      ELSE p[3 + CHOOSE i \in at : \A j \in at : i <= j]

(* A seeded bug: the last field must be followed by a slash. *)
Bug_Scans(p, prefix, k) ==
  /\ Len(p) > Len(prefix) + k
  /\ SubSeq(p, 1, Len(prefix)) = prefix
  /\ \A i \in 1..k : p[Len(prefix) + i] \notin Long \cup {""}

(* sscanf(path, "<prefix>/%255[^/]/...") = k: fields are not empty, and    *)
(* only the last may be too long, for nothing has to follow it.            *)
Scans(p, prefix, k) ==
  /\ Len(p) >= Len(prefix) + k
  /\ SubSeq(p, 1, Len(prefix)) = prefix
  /\ \A i \in 1..k : p[Len(prefix) + i] # ""
  /\ \A i \in 1..(k - 1) : p[Len(prefix) + i] \notin Long

Fields(r) == IF r = "balloon" THEN 2 ELSE 3

WellFormed(p, r) ==
  CASE r \in {"health", "telemetry"}       -> TRUE
    [] r \in {"stop", "start", "qmp"}      -> MachineId(p) # ""
    [] r \in {"snapshot", "balloon", "usb"} -> Scans(p, Prefix(r), Fields(r))
    [] OTHER                               -> FALSE

Clip(t) == IF t \in Long THEN Clipped[t] ELSE t

(* A seeded bug: the second field is passed on for both that follow. *)
Bug_Arguments(p, r) ==
  CASE r \in {"health", "telemetry"}  -> <<>>
    [] r \in {"stop", "start"}        -> <<Clip(MachineId(p))>>
    [] r = "qmp" -> <<Clip(MachineId(p))>> \o execute
    [] OTHER -> [i \in 1..Fields(r) |->
                   Clip(p[Len(Prefix(r)) + (IF i > 2 THEN 2 ELSE i)])]

(* The arguments of the call.  Without an execute= the command is          *)
(* query-status; what args= says is never looked at.                       *)
Arguments(p, r) ==
  CASE r \in {"health", "telemetry"}  -> <<>>
    [] r \in {"stop", "start"}        -> <<Clip(MachineId(p))>>
    [] r = "qmp" ->
         <<Clip(MachineId(p)),
           IF execute = <<>> THEN "query-status" ELSE Clip(execute[1])>>
    [] OTHER -> [i \in 1..Fields(r) |-> Clip(p[Len(Prefix(r)) + i])]
-----------------------------------------------------------------------------
NotFound     == Written("not found", 21, 18)
BadRequest   == Written("bad request", 23, 22)
PathInvalid  == [snapshot |-> Written("snapshot path invalid", 33, 31),
                 balloon  |-> Written("balloon path invalid", 32, 29),
                 usb      |-> Written("usb path invalid", 28, 25)]

(* A seeded bug: the length of the text that stood there before. *)
Bug_Failed ==
  [health    |-> Written("health failed", 25, 24),
   telemetry |-> Written("telemetry failed", 28, 25),
   stop      |-> Written("stop failed", 23, 21),
   start     |-> Written("start failed", 24, 21),
   qmp       |-> Written("qmp failed", 22, 20),
   snapshot  |-> Written("snapshot failed", 27, 31),
   balloon   |-> Written("balloon failed", 26, 25),
   usb       |-> Written("usb hotplug failed", 30, 27)]

Failed ==
  [health    |-> Written("health failed", 25, 24),
   telemetry |-> Written("telemetry failed", 28, 25),
   stop      |-> Written("stop failed", 23, 21),
   start     |-> Written("start failed", 24, 21),
   qmp       |-> Written("qmp failed", 22, 20),
   snapshot  |-> Written("snapshot failed", 27, 26),
   balloon   |-> Written("balloon failed", 26, 25),
   usb       |-> Written("usb hotplug failed", 30, 27)]

Answers(status, body) ==
  /\ stage' = "done"
  /\ reply' = [status |-> status, body |-> body]

(* sscanf "GET " fails on every other method. *)
RefusesMethod ==
  /\ stage = "request" /\ method # "GET"
  /\ Answers(400, Written("plain", 11, 11))
  /\ UNCHANGED <<method, named, path, execute, call>>

IsApi == Len(path) >= 2 /\ path[1] = "api"

(* A page: one with ".." is refused; the others are files that may be      *)
(* missing, or too large for memory.                                       *)
ServesFile ==
  /\ stage = "request" /\ method = "GET" /\ ~IsApi
  /\ IF \E i \in 1..Len(path) : Starts(path[i], "..")
     THEN Answers(403, Written("plain", 9, 9))
     ELSE \/ Answers(200, Written("file", 1, 1))
          \/ Answers(404, Written("plain", 9, 9))
          \/ Answers(500, Written("plain", 12, 12))
  /\ UNCHANGED <<method, named, path, execute, call>>

Dispatches ==
  /\ stage = "request" /\ method = "GET" /\ IsApi
  /\ WellFormed(path, Route(path))
  /\ call' = [op |-> Route(path), args |-> Arguments(path, Route(path))]
  /\ stage' = "call"
  /\ UNCHANGED <<method, named, path, execute, reply>>

Rejects ==
  /\ stage = "request" /\ method = "GET" /\ IsApi
  /\ ~WellFormed(path, Route(path))
  /\ LET r == Route(path) IN
       CASE r = "none"                     -> Answers(404, NotFound)
         [] r \in {"stop", "start", "qmp"} -> Answers(400, BadRequest)
         [] OTHER                          -> Answers(400, PathInvalid[r])
  /\ UNCHANGED <<method, named, path, execute, call>>

(* The calls that can return a negative result.  The others only format a  *)
(* text, and the error texts of their routes are never sent.               *)
MayFail == {"start", "snapshot", "balloon", "usb"}

(* Also "unavailable" and "forbidden" results are sent with 200. *)
Returns ==
  /\ stage = "call"
  /\ \/ Answers(200, Written("result", 1, 1))
     \/ call.op \in MayFail /\ Answers(500, Failed[call.op])
  /\ UNCHANGED <<method, named, path, execute, call>>

Next == RefusesMethod \/ ServesFile \/ Dispatches \/ Rejects \/ Returns

Spec == Init /\ [][Next]_vars
-----------------------------------------------------------------------------
(* The route is chosen by words found anywhere in the path: another call   *)
(* than the one the client made is carried out only when one of the        *)
(* segments its names become begins with the name of that other call (a    *)
(* machine called "stop-gap" cannot be started, only stopped, and a qmp    *)
(* for "x/stop" stops "x").                                                *)
OtherCallOnlyIfNamed ==
  stage = "call" /\ named # Other /\ call.op # named.op =>
    \E i \in 1..Len(Spelt(named)) : Starts(Spelt(named)[i], call.op)

(* The names go to the daemon as they are: nothing in them moves to        *)
(* another directory, ends the path or goes past the end of the line.      *)
Travels(c) == ~Has(Spelt(c), Dots \cup {"#"} \cup Huge)

(* When the call is the one the client made, its names arrive in order, as *)
(* the client wrote them (what it encoded stays encoded), each up to its   *)
(* first slash as long as those before it have none, and the command       *)
(* unless another stands in the machine's name.  A name that is too long   *)
(* is cut silently when it comes last or names the machine of a "machines" *)
(* path, and refused everywhere else.                                      *)
ArgumentsArrive ==
  stage = "call" /\ call.op = named.op /\ Travels(named) =>
    /\ Len(call.args) = Len(named.args)
    /\ \A i \in 1..Len(InPath(named)) :
         LET t == Head(Sent[InPath(named)[i]]) IN
         (\A j \in 1..(i - 1) : Len(Sent[InPath(named)[j]]) = 1) =>
           /\ call.args[i] = Clip(t)
           /\ named.op \in {"snapshot", "balloon", "usb"} /\ i < Len(call.args)
                => t \notin Long
    /\ named.op = "qmp" /\ ~Has(Spelt(named), DOMAIN Commands) =>
         call.args[2] = Clip(Encoded[named.args[2]])

(* The names spell a route that is tried before the call's own. *)
SpellsRoute(c) ==
  \/ /\ c.op \in {"snapshot", "balloon", "usb"}
     /\ HasWords(Spelt(c), Api("machines"))
  \/ c.op \in {"balloon", "usb"} /\ HasWords(Spelt(c), Api("snapshot"))
  \/ c.op = "usb" /\ HasWords(Spelt(c), Api("balloon"))

(* A GET for a call the client can make is carried out unless its names do *)
(* not travel as they are, a segment of theirs is empty or too long, or    *)
(* they spell a route of their own.                                        *)
RejectsOnlyMalformed ==
  stage = "done" /\ method = "GET" /\ named # Other /\ call = Other =>
    \/ ~Travels(named)
    \/ Has(Spelt(named), Long \cup {""})
    \/ SpellsRoute(named)

(* The lengths written by hand never reach past the end of their texts.    *)
(* (Most of them are too small, and the JSON of the answer is cut.)        *)
SendsOnlyText == reply.body.told <= reply.body.size
-----------------------------------------------------------------------------
(* README.md lists "POST /api/v1/machines/{id}/start" and "/stop"; every   *)
(* POST is refused, so that the client's start and stop never get through. *)
PostsAreCarriedOut ==
  stage = "done" /\ method = "POST" /\ named.op \in {"start", "stop"} =>
    call # Other
=============================================================================
