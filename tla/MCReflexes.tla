----------------------------- MODULE MCReflexes -----------------------------
(* Four percepts, of which two meet reflexes that invoke one that          *)
(* escalates; a schedule and a condition whose workflows belong to one     *)
(* extension, with a call of invoke_workflow; edits of one reflex with     *)
(* restarts; and extensions that require one another in circles.           *)
EXTENDS Percepts, TLC

Pcpt == {"msg", "wake", "cmd", "other", "again", "own"}
MCPercept == Pcpt
MCInvocation == {"call"}
MCTimed == {"nightly", "watch", "wrong"}
MCThread == MCPercept \cup MCInvocation \cup MCTimed

MCExtension == {"core", "gtd", "a", "b", "c", "d", "gone"}
MCSystemDir == ("core" :> <<>>) @@ ("gtd" :> "broken") @@ ("a" :> <<"b", "c">>) @@ ("b" :> <<"a">>)
               @@ ("c" :> <<"b">>)
MCUserDir == ("core" :> "broken") @@ ("gtd" :> <<"core", "gone">>) @@ ("d" :> <<"a", "gtd">>)
Loaded == <<"core", "gtd", "d">>

Step(do, to, onError, retries, missing, output) ==
  [do |-> do, to |-> to, gives |-> {"to"}, output |-> output, missing |-> missing,
   onError |-> onError, retries |-> retries]
Act == Step("act", "", "stop", 0, "", "_")
Plain(name, prio, steps) ==
  [name |-> name, ext |-> "", slash |-> "", prio |-> prio, callable |-> FALSE, classifier |-> FALSE,
   required |-> {}, defaults |-> {}, steps |-> steps]

MCName == {"hi", "try", "log", "ask", "go", "tidy", "sweep"}
MCDef ==
  ("hi" :> Plain("hi", 2, <<Step("invoke", "ask", "skip", 0, "", "_")>>))
  @@ ("try" :> [Plain("try", 2, <<Step("invoke_reflex", "ask", "retry", 1, "", "_")>>) EXCEPT !.classifier = TRUE])
  @@ ("ask" :> [Plain("ask", 0, <<Act, Step("invoke", "ask", "skip", 0, "", "a"),
                                  Step("escalate", "", "stop", 0, "", "_")>>)
                EXCEPT !.callable = TRUE, !.required = {"content"}])
  @@ ("log" :> Plain("log", 1, <<Step("gate", "", "stop", 0, "", "_"), Act>>))
  @@ ("log2" :> Plain("log", 1, <<>>))
  @@ ("badlog" :> Plain("log", 1, <<Step("act", "", "stop", 0, "", "x"), Step("act", "", "stop", 0, "", "x")>>))
  @@ ("go" :> [Plain("go", 1, <<Step("invoke", "nobody", "stop", 0, "escalate", "_")>>) EXCEPT !.slash = "/go"])
  @@ ("tidy" :> [Plain("tidy", 0, <<Step("act", "", "retry", 1, "", "r"), Step("invoke", "sweep", "skip", 0, "", "_")>>)
                 EXCEPT !.ext = "core", !.defaults = {"dir"}])
  @@ ("sweep" :> [Plain("sweep", 0, <<Step("invoke_reflex", "tidy", "stop", 0, "continue", "_")>>)
                  EXCEPT !.ext = "core", !.required = {"dir"}])
MCNames == MCName \cup {"nobody"}
MCDefault == [n \in {"hi", "try", "log", "ask", "go", "sweep"} |-> n]
MCCapFile == [n \in {"tidy", "sweep"} |-> n]
MCCapOwner == [n \in {"tidy", "sweep"} |-> "core"]

MCBehaviour == {"nightly", "watch", "greet", "slash", "wrong", "hand"}
MCKind == ("nightly" :> "schedule") @@ ("wrong" :> "schedule") @@ ("watch" :> "condition")
          @@ ("greet" :> "pattern_match") @@ ("slash" :> "slash_command") @@ ("hand" :> "manual")
MCBehaviours == ("core" :> <<"nightly", "greet", "wrong">>) @@ ("gtd" :> <<"watch", "slash", "hand">>)
                @@ ("d" :> <<"hand">>)
MCRuns == [b \in MCBehaviour |-> IF b \in {"nightly", "hand"} THEN "tidy" ELSE "sweep"]
Every == {[kind |-> "any"]}
MCCron ==
  ("nightly" :> [minute |-> {[kind |-> "step", n |-> 2], [kind |-> "range", lo |-> 58, hi |-> 61]},
                 hour |-> {[kind |-> "value", n |-> 3]}, dom |-> Every, month |-> Every, dow |-> Every])
  @@ ("wrong" :> [minute |-> {[kind |-> "value", n |-> 60]}, hour |-> Every, dom |-> Every, month |-> Every, dow |-> Every])
MCCalendar ==
  [m \in 0..3 |-> [minute |-> (m + 58) % 60, hour |-> IF m < 2 THEN 3 ELSE 4, dom |-> 1, month |-> 1, dow |-> 0,
                   holds |-> m = 1]]

MCOrigin ==
  [p \in Pcpt |-> CASE p = "wake" -> [type |-> "impulse", subtype |-> "system"]
                    [] p = "own"  -> [type |-> "message", subtype |-> "thought"]
                    [] OTHER      -> [type |-> "message", subtype |-> ""]]
MCSlash == [p \in Pcpt |-> IF p = "cmd" THEN "/go" ELSE ""]
MCData == [p \in Pcpt |-> {"content", "dir"}]
MCFits ==
  [f \in DOMAIN MCDef |-> CASE f = "hi" -> {"msg"} [] f = "try" -> {"wake"} [] f = "log" -> Pcpt \ {"own"}
                            [] f = "log2" -> {"other", "again"} [] f = "go" -> {"cmd"} [] f = "ask" -> Pcpt [] OTHER -> {}]
MCPatternFits == [b \in {"greet"} |-> {"own"}]
MCInvokes == "call" :> [name |-> "tidy", params |-> {}]
MCCreate == {<<"log", "log2">>, <<"log", "badlog">>}

Begun == {p \in Percept \cup Invocation : stage[p] # "new"}
Edited == stamp["log"] > 0 \/ registry["log"] = 0
Clock == begun \notin {now, Never}
(* The search order that the scenarios behind a start are explored for.    *)
Usual == <<"a", "core", "gtd", "d">>
InUsualOrder ==
  path # <<>> => \E i \in DOMAIN Usual : path[1].name = Usual[i] /\ \A j \in 1..(i - 1) : visit[Usual[j]] = "visited"
Scenarios ==
  /\ loading = "loaded" => order = <<"c", "core", "gtd", "d">> /\ cycled = {"a", "b"}
  /\ restarts > 0 => InUsualOrder
  /\ \/ Cardinality(Begun) <= 1 /\ Begun \subseteq Percept /\ ~Edited /\ restarts = 0 /\ ~Clock
     \/ /\ Begun \subseteq {"other", "again"} /\ ~Clock /\ ~canWork /\ now = 1
        /\ stage["again"] # "new" => stage["other"] = "done" /\ stamp["log"] + restarts <= 1
     \/ Begun = {} /\ ~Edited /\ restarts = 0 /\ ~canWork
     \/ Begun \subseteq {"call"} /\ now <= 2 /\ ~Edited /\ restarts = 0 /\ ~canWork
     \/ Begun \subseteq {"call", "own"} /\ ~Edited /\ restarts = 0 /\ ~Clock /\ ~canWork /\ now = 1
=============================================================================
