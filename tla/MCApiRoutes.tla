---------------------------- MODULE MCApiRoutes ----------------------------
(* The names and pages for which TLC checks ApiRoutes. *)
EXTENDS ApiRoutes

(* Ordinary, empty, to be encoded, too long, beginning with the words of    *)
(* the routes and those words themselves; and names that are more than one  *)
(* segment, a directory, a query, or that end in a fragment.                *)
AllNames == {"vm", "", "hd 0", "long", "huge", "stop-gap", "starter", "qmp",
             "api", "v1", "health", "balloon", "..", ".", "x/stop", "a/b",
             "up/..", "../../../a..b", "api/v1/snapshot", "api/v1/machines",
             "q?execute=quit&", "a#b"}

(* encodeURIComponent of those it changes. *)
Escapes == [hd |-> <<"hd 0", "hd%200">>, stop |-> <<"x/stop", "x%2Fstop">>,
            ab |-> <<"a/b", "a%2Fb">>, up |-> <<"up/..", "up%2F..">>,
            out |-> <<"../../../a..b", "..%2F..%2F..%2Fa..b">>,
            one |-> <<"api/v1/snapshot", "api%2Fv1%2Fsnapshot">>,
            two |-> <<"api/v1/machines", "api%2Fv1%2Fmachines">>,
            q |-> <<"q?execute=quit&", "q%3Fexecute%3Dquit%26">>,
            mark |-> <<"a#b", "a%23b">>]

Encode == [t \in AllNames |->
             IF \E e \in DOMAIN Escapes : Escapes[e][1] = t
             THEN Escapes[CHOOSE e \in DOMAIN Escapes : Escapes[e][1] = t][2]
             ELSE t]

AllTexts == AllNames \cup {Encode[t] : t \in AllNames}
              \cup {"long255", "x", "stop", "a", "b", "up", "snapshot",
                   "machines", "a..b", "#"}

Split == [t \in AllTexts |->
            CASE t = "hd 0"   -> <<"hd%200">>
              [] t = "x/stop" -> <<"x", "stop">>
              [] t = "a/b"    -> <<"a", "b">>
              [] t = "up/.."  -> <<"up", "..">>
              [] t = "a#b"    -> <<"a", "#">>
              [] t = "#"      -> <<"", "#">>
              [] t = "../../../a..b"   -> <<"..", "..", "..", "a..b">>
              [] t = "api/v1/snapshot" -> <<"api", "v1", "snapshot">>
              [] t = "api/v1/machines" -> <<"api", "v1", "machines">>
              [] OTHER        -> <<t>>]

AllQueries  == {"q?execute=quit&"}
AllCommands == [t \in AllQueries |-> "quit"]

AllBegins == {<<"stop-gap", "stop">>, <<"starter", "start">>,
              <<"a..b", "..">>, <<"..%2F..%2F..%2Fa..b", "..">>}

TooLong  == {"long", "huge"}
Clipping == [t \in TooLong |-> "long255"]
EndLine  == {"huge"}
Keeping  == [t \in EndLine |-> "long"]

AllPages == {<<"">>, <<"app.js">>, <<"..", "x">>, <<"a..b">>, <<"api">>,
             <<"api", "v1", "machines">>, <<"api", "v1", "machines", "stop">>,
             <<"api", "v1", "machines", "vm", "events">>}
=============================================================================
