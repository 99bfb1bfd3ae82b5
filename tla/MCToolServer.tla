---------------------------- MODULE MCToolServer ----------------------------
(***************************************************************************)
(* Three requests for one database, which has two spellings, two of them   *)
(* from a subagent's session; or two for two databases, one of them a      *)
(* read_resource of that session, with cleanup and shutdown; or calls of   *)
(* the other kinds.  One process may hang.                                 *)
(***************************************************************************)
EXTENDS ToolServer, TLC

MCCall == {"gk1", "gk2", "res", "rd", "ext", "own", "bad"}
MCCleaner == {"cleanup", "shutdown"}
MCCaller == MCCall \cup MCCleaner \cup {"startup"}
MCMethod == ("gk1" :> "gk") @@ ("gk2" :> "gk") @@ ("res" :> "resource") @@ ("rd" :> "reader")
            @@ ("ext" :> "proxied") @@ ("own" :> "builtin") @@ ("bad" :> "unknown")
MCExplicit == [c \in MCCall |-> IF c = "gk1" THEN "/p" ELSE ""]
MCToken == [c \in MCCall |-> IF c \in {"gk2", "res", "rd"} THEN "tok" ELSE ""]
MCSessionDomain == "tok" :> "/p/"
MCDBPath == ("/" :> "gk.db") @@ ("/p" :> "p/gk.db") @@ ("/p/" :> "p/gk.db")

Asked == {c \in Call : pc[c] # "new"}
Spawned == Asked # {} => spawned # {}
Scenarios ==
  /\ Cardinality({k \in Client : process[k] = "hung"}) <= 1
  /\ \/ Asked \subseteq {"ext", "own", "bad"} /\ sessions = {} /\ idle = {}
     \/ Asked \subseteq {"gk1", "gk2", "res"} /\ proxy = 0 /\ "shutdown" \notin poolMu
        /\ Spawned /\ idle = {} /\ ("res" \in Asked => "gk2" \in Asked)
     \/ Asked \subseteq {"gk1", "rd"} /\ proxy = 0 /\ Spawned
        /\ (idle = {} \/ launched = 1)
=============================================================================
