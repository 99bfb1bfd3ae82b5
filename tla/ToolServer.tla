------------------------------ MODULE ToolServer ------------------------------
(***************************************************************************)
(* The MCP server (internal/mcp/server.go), which runs every request in a  *)
(* goroutine of its own, the pool of knowledge-graph processes it routes   *)
(* GK calls and read_resource to (gkpool.go, tools/gk.go and resource.go)  *)
(* and the servers it proxies (proxy.go).  A request is a tool call or one *)
(* for a resource; it carries a domain, or the token of a subagent's       *)
(* session.                                                                *)
(*                                                                         *)
(* Not here: the tools that run inside the program, which other modules    *)
(* model, the schemas of tools/list and the HTTP and JSON formats.         *)
(***************************************************************************)
EXTENDS ProxyClient, FiniteSets

CONSTANTS
  Call,         \* the requests
  Method,       \* "gk": a GK tool; "resource"; "reader": read_resource;
                \* "proxied", "builtin" or "unknown": another tool
  Explicit,     \* the domain a request names, or "" when it leaves it out
  Token,        \* the session a request comes from, or "" for the executive
  SessionDomain,  \* the domain each session is spawned with
  DBPath,       \* the database of each domain: of two spellings it is one
  Cleaner       \* the goroutines that close clients: "cleanup", "shutdown"

ASSUME ToolConstants ==
  /\ Caller = Call \cup Cleaner \cup {"startup"}
  /\ Method \in [Call -> {"gk", "resource", "reader", "proxied", "builtin", "unknown"}]
  /\ DOMAIN Explicit = Call /\ DOMAIN Token = Call
  /\ {"/"} \cup {Explicit[c] : c \in Call} \cup {SessionDomain[t] : t \in DOMAIN SessionDomain}
       \subseteq DOMAIN DBPath \cup {""}
  /\ Cleaner \subseteq {"cleanup", "shutdown"}
  /\ Call \cap {"cleanup", "shutdown", "startup", "none", "error"} = {}

VARIABLES
  sessions,   \* s.sessions: tokens registered
  spawned,    \* sessions whose subagent runs
  pc,         \* of each request
  db,         \* of each request for the pool: the database it goes to
  using,      \* the client each request got, 0 for none
  result,     \* of each request: "none", "error", or the client and addressee of the answer
  hooked,     \* the tool calls the post-tool hook was started for
  poolMu,     \* p.mu: who holds it, {} or one
  entries,    \* p.entries: a function from databases to clients
  idle,       \* databases whose entry has not been used for five minutes
  closing,    \* databases a cleaner that holds the pool has yet to close
  proxy,      \* the proxied server: its client, 0 before and without it
  phase       \* "startup", "serving", "exited"

callVars == <<pc, db, using, result, hooked>>
poolVars == <<poolMu, entries, idle, closing>>
serverVars == <<sessions, spawned, proxy, phase>>
vars == <<callVars, poolVars, serverVars, clientVars>>

NoDomain == ""
Root == "/"
Tokens == {Token[c] : c \in Call} \ {NoDomain}

Init ==
  /\ ClientInit
  /\ sessions = {} /\ spawned = {} /\ proxy = 0 /\ phase = "startup"
  /\ pc = [c \in Call |-> "new"] /\ db = [c \in Call |-> NoDomain]
  /\ using = [c \in Call |-> 0] /\ result = [c \in Call |-> [from |-> 0, to |-> "none"]]
  /\ hooked = {}
  /\ poolMu = {} /\ entries = <<>> /\ idle = {} /\ closing = {}

Error == [from |-> 0, to |-> "error"]
Without(f, S) == [x \in DOMAIN f \ S |-> f[x]]
Put(f, x, v) == [y \in DOMAIN f \cup {x} |-> IF y = x THEN v ELSE f[y]]
Goto(c, where) == pc' = [pc EXCEPT ![c] = where]

-----------------------------------------------------------------------------
(* Start-up: the proxied server, if it starts and lists its tools, before  *)
(* the port is opened.                                                     *)
StartProxyFromConfig ==
  /\ phase = "startup" /\ launched = 0
  /\ Launch("startup")
  /\ UNCHANGED <<callVars, poolVars, serverVars>>

DiscoverTools ==
  /\ phase = "startup" /\ launched = 1
  /\ \/ /\ responses[1] # <<>> /\ Head(responses[1]).ok
        /\ ReadResponse("startup", 1)
        /\ proxy' = 1
     \/ /\ \/ process[1] = "down"
           \/ responses[1] # <<>> /\ ~Head(responses[1]).ok
        /\ Kill("startup", 1)
        /\ UNCHANGED proxy
  /\ phase' = "serving"
  /\ UNCHANGED <<callVars, poolVars, sessions, spawned>>

ServeWithoutProxy ==
  /\ phase = "startup" /\ launched = 0
  /\ phase' = "serving"
  /\ UNCHANGED <<callVars, poolVars, sessions, spawned, proxy, clientVars>>

(* Agent_spawn_async registers the session's token before it spawns, and   *)
(* again, with the same domain, when it knows the session's ID.            *)
Registered(t) == t \in sessions

RegisterSession(t) ==
  /\ phase = "serving" /\ t \notin sessions
  /\ sessions' = sessions \cup {t}
  /\ UNCHANGED <<callVars, poolVars, spawned, proxy, phase, clientVars>>

SpawnSubagent(t) ==
  /\ phase = "serving" /\ t \notin spawned /\ Registered(t)
  /\ spawned' = spawned \cup {t}
  /\ UNCHANGED <<callVars, poolVars, sessions, proxy, phase, clientVars>>

DomainForToken(t) == IF t \in sessions /\ SessionDomain[t] # NoDomain THEN SessionDomain[t] ELSE Root

-----------------------------------------------------------------------------
(* handleHTTP and handleToolsCall.                                         *)

DomainToDBPath(d) == DBPath[IF d = NoDomain THEN Root ELSE d]

(* A resource request is always for the session's domain; a GK call and    *)
(* read_resource for the one they name if they name one.  Of the others,   *)
(* a GK call is for the session's domain, read_resource for the root.      *)
RequestDomain(c) ==
  IF Method[c] \in {"gk", "reader"} /\ Explicit[c] # NoDomain THEN Explicit[c]
  ELSE IF Method[c] = "reader" THEN Root ELSE DomainForToken(Token[c])

Outcome(c, r) ==
  /\ result' = [result EXCEPT ![c] = r]
  /\ hooked' = IF Method[c] \in {"gk", "reader", "proxied", "builtin"} THEN hooked \cup {c} ELSE hooked

Received(c) ==
  /\ phase = "serving" /\ pc[c] = "new"
  /\ Token[c] = NoDomain \/ Token[c] \in spawned

ToPool(c) ==
  /\ db' = [db EXCEPT ![c] = DomainToDBPath(RequestDomain(c))]
  /\ Goto(c, "get")
  /\ UNCHANGED <<using, result, hooked, poolVars, serverVars, clientVars>>

GKTool(c) == Method[c] = "gk"     \* each of the gk_ tools
GKForward(c) == Received(c) /\ GKTool(c) /\ ToPool(c)
ResourceRequest(c) == Received(c) /\ Method[c] = "resource" /\ ToPool(c)
ReadResourceTool(c) == Received(c) /\ Method[c] = "reader" /\ ToPool(c)

ToProxy(c) ==
  /\ Received(c) /\ Method[c] = "proxied" /\ proxy # 0
  /\ using' = [using EXCEPT ![c] = proxy]
  /\ Goto(c, "send")
  /\ UNCHANGED <<db, result, hooked, poolVars, serverVars, clientVars>>

(* Tools that do not leave the program, and read_resource when it has no   *)
(* URI or there is no pool.                                                *)
HandledHere(c) ==
  /\ Received(c)
  /\ \/ Method[c] = "builtin" /\ Outcome(c, [from |-> 0, to |-> c])
     \/ Method[c] \in {"builtin", "reader"} /\ Outcome(c, Error)
  /\ Goto(c, "done")
  /\ UNCHANGED <<db, using, poolVars, serverVars, clientVars>>

UnknownTool(c) ==
  /\ Received(c)
  /\ Method[c] = "unknown" \/ (Method[c] = "proxied" /\ proxy = 0)
  /\ result' = [result EXCEPT ![c] = Error]
  /\ Goto(c, "done")
  /\ UNCHANGED <<db, using, hooked, poolVars, serverVars, clientVars>>

HandleHTTP(c) ==
  \/ GKForward(c) \/ ResourceRequest(c) \/ ReadResourceTool(c)
  \/ ToProxy(c) \/ HandledHere(c) \/ UnknownTool(c)

(* The deferred unlock of an operation that does not end well. *)
StayLocked(c) == UNCHANGED poolMu     \* variant
Unlock(c) == poolMu' = poolMu \ {c}

(* getOrStart, with the pool's mutex held, also while a process starts.    *)
GetOrStart(c) ==
  /\ pc[c] = "get" /\ poolMu = {}
  /\ idle' = idle \ {db[c]}
  /\ \/ /\ db[c] \in DOMAIN entries
        /\ using' = [using EXCEPT ![c] = entries[db[c]]]
        /\ Goto(c, "send")
        /\ UNCHANGED <<poolMu, result, hooked, clientVars>>
     \/ /\ db[c] \notin DOMAIN entries
        /\ Launch(c)
        /\ using' = [using EXCEPT ![c] = launched + 1]
        /\ poolMu' = {c}
        /\ Goto(c, "initialize") /\ UNCHANGED <<result, hooked>>
     \/ /\ db[c] \notin DOMAIN entries    \* the process does not start
        /\ Outcome(c, Error)
        /\ Goto(c, "done") /\ UNCHANGED <<using, poolMu, clientVars>>
  /\ UNCHANGED <<entries, closing, db, serverVars>>

Initialized(c) ==
  /\ pc[c] = "initialize"
  /\ responses[using[c]] # <<>> /\ Head(responses[using[c]]).ok
  /\ ReadResponse(c, using[c])
  /\ entries' = Put(entries, db[c], using[c])
  /\ poolMu' = {}
  /\ Goto(c, "send")
  /\ UNCHANGED <<db, using, result, hooked, idle, closing, serverVars>>

InitializeFails(c) ==
  /\ pc[c] = "initialize"
  /\ \/ responses[using[c]] # <<>> /\ ~Head(responses[using[c]]).ok
     \/ responses[using[c]] = <<>> /\ process[using[c]] = "down"
  /\ Kill(c, using[c])
  /\ Unlock(c)
  /\ Outcome(c, Error)
  /\ Goto(c, "done")
  /\ UNCHANGED <<db, using, entries, idle, closing, serverVars>>

(* The client's call; any error, the tool's own ones too, evicts.          *)
Finish(c, ok, r) ==
  /\ Outcome(c, r)
  /\ Goto(c, IF ok \/ Method[c] = "proxied" THEN "done" ELSE "evict")

(* What the next response is for its reader: an error, reported by the     *)
(* protocol or by the tool, or an answer.                                  *)
Decoded(k) ==
  LET answer == Head(responses[k]) IN
    IF answer.ok THEN [from |-> k, to |-> answer.to] ELSE Error

CallTool(c) ==
  /\ pc[c] = "send"
  /\ \/ /\ WriteRequest(c, using[c])
        /\ Goto(c, "await") /\ UNCHANGED <<result, hooked>>
     \/ /\ WriteFails(using[c])
        /\ Finish(c, FALSE, Error)
  /\ UNCHANGED <<db, using, poolVars, serverVars>>

CallReturns(c) ==
  /\ pc[c] = "await"
  /\ \/ /\ ReadResponse(c, using[c])
        /\ Finish(c, Head(responses[using[c]]).ok, Decoded(using[c]))
     \/ /\ ReadFails(c, using[c])
        /\ Finish(c, FALSE, Error)
  /\ UNCHANGED <<db, using, poolVars, serverVars>>

(* evict closes whichever client the pool has for the database by now.     *)
Evict(c) ==
  /\ pc[c] = "evict" /\ poolMu = {}
  /\ IF db[c] \in DOMAIN entries
     THEN poolMu' = {c} /\ Goto(c, "close")
     ELSE Goto(c, "done") /\ UNCHANGED poolMu
  /\ UNCHANGED <<db, using, result, hooked, entries, idle, closing>>
  /\ UNCHANGED <<serverVars, clientVars>>

Remove(d) ==
  /\ entries' = Without(entries, {d}) /\ idle' = idle \ {d}

EvictCloses(c) ==
  /\ pc[c] = "close"
  /\ Close(entries[db[c]])
  /\ Remove(db[c])
  /\ Unlock(c)
  /\ Goto(c, "done")
  /\ UNCHANGED <<db, using, result, hooked, closing, serverVars>>

-----------------------------------------------------------------------------
(* cleanup closes what has been idle, Close everything when the program    *)
(* ends.                                                                   *)
Idles(d) ==
  /\ d \in DOMAIN entries \ idle
  /\ idle' = idle \cup {d}
  /\ UNCHANGED <<poolMu, entries, closing, callVars, serverVars, clientVars>>

Closes(g) == IF g = "cleanup" THEN idle ELSE DOMAIN entries

Sweep(g) ==
  /\ phase = "serving" /\ poolMu = {} /\ (g = "cleanup" => idle # {})
  /\ poolMu' = {g} /\ closing' = Closes(g)
  /\ UNCHANGED <<entries, idle, callVars, serverVars, clientVars>>

SweepCloses(g, d) ==
  /\ g \in poolMu /\ d \in closing
  /\ Close(entries[d])
  /\ Remove(d)
  /\ closing' = closing \ {d}
  /\ UNCHANGED <<poolMu, callVars, serverVars>>

SweepEnds(g) ==
  /\ g \in poolMu /\ closing = {}
  /\ poolMu' = {}
  /\ phase' = IF g = "shutdown" THEN "exited" ELSE phase
  /\ UNCHANGED <<entries, idle, closing, callVars, sessions, spawned, proxy, clientVars>>

-----------------------------------------------------------------------------
ProcessStep ==
  /\ \E k \in Client : (\E ok \in BOOLEAN : Answer(k, ok)) \/ (\E how \in {"hung", "down"} : Breaks(k, how))
  /\ UNCHANGED <<callVars, poolVars, serverVars>>

ProcessAnswers ==
  /\ \E k \in Client, ok \in BOOLEAN : Answer(k, ok)
  /\ UNCHANGED <<callVars, poolVars, serverVars>>

Handler(c) ==
  \/ GetOrStart(c) \/ Initialized(c) \/ InitializeFails(c)
  \/ CallTool(c) \/ CallReturns(c) \/ Evict(c) \/ EvictCloses(c)

Sweeper(g) == Sweep(g) \/ SweepEnds(g) \/ \E d \in closing : SweepCloses(g, d)

Next ==
  /\ phase # "exited"
  /\ \/ StartProxyFromConfig \/ DiscoverTools \/ ServeWithoutProxy
     \/ \E t \in Tokens : RegisterSession(t) \/ SpawnSubagent(t)
     \/ \E c \in Call : HandleHTTP(c) \/ Handler(c)
     \/ \E d \in DOMAIN entries : Idles(d)
     \/ \E g \in Cleaner : Sweeper(g)
     \/ ProcessStep

(* Goroutines are scheduled, mutexes are handed on to those who wait       *)
(* (Go's do not starve), and a process that is up answers.                 *)
Spec ==
  /\ Init /\ [][Next]_vars
  /\ \A c \in Call : SF_vars(phase # "exited" /\ Handler(c))
  /\ \A g \in Cleaner : WF_vars(phase # "exited" /\ (SweepEnds(g) \/ \E d \in closing : SweepCloses(g, d)))
  /\ WF_vars(phase # "exited" /\ ProcessAnswers)

-----------------------------------------------------------------------------
(* There is one process per database: whatever runs is the entry of one    *)
(* database, is being started by whoever holds the pool, or is the proxied *)
(* server.                                                                 *)
Starting == IF poolMu = {} THEN {}
            ELSE {using[c] : c \in {d \in Call : d \in poolMu /\ pc[d] = "initialize"}}
OneProcessPerDatabase ==
  /\ \A k \in Client : holder[k] \subseteq Caller /\ Cardinality(holder[k]) <= 1
  /\ \A d, e \in DOMAIN entries : entries[d] = entries[e] => d = e
  /\ \A d \in DOMAIN entries : entries[d] # proxy
  /\ idle \subseteq DOMAIN entries /\ closing \subseteq DOMAIN entries
  /\ phase # "startup" =>
       Running \subseteq {entries[d] : d \in DOMAIN entries} \cup Starting \cup {proxy}

(* A request goes to, and is answered from, a process of the database of   *)
(* the domain it asked for, which for a subagent that names none is the    *)
(* one it was spawned with, if any.  The exception is read_resource:       *)
(* without a domain it is answered from the root, whichever session calls  *)
(* it (resource.go:26).  Every tool call that was handled has had its      *)
(* hook.                                                                   *)
MeantDomain(c) ==
  IF Method[c] \in {"gk", "reader"} /\ Explicit[c] # NoDomain THEN Explicit[c]
  ELSE IF Token[c] = NoDomain \/ SessionDomain[Token[c]] = NoDomain THEN Root
  ELSE SessionDomain[Token[c]]
Pooled == {"gk", "resource", "reader"}
RightDatabase(c) ==
  \/ db[c] = DomainToDBPath(MeantDomain(c))
  \/ Method[c] = "reader" /\ Explicit[c] = NoDomain /\ db[c] = DomainToDBPath(Root)
AnswersBelong ==
  \A c \in Call :
    /\ result[c].to \in {"none", "error", c}
    /\ using[c] # 0 /\ Method[c] \in Pooled => RightDatabase(c)
    /\ \A d \in DOMAIN entries : result[c].from = entries[d] /\ result[c].from # 0 => db[c] = d
    /\ pc[c] = "done" =>
         (c \in hooked <=> Method[c] \in {"gk", "reader", "builtin"}
                           \/ (Method[c] = "proxied" /\ proxy # 0))

(* A request ends, unless its own process hangs, or somebody waits for a   *)
(* process that hangs while holding the pool: that blocks every domain.    *)
WaitsForHung ==
  \/ \E g \in Cleaner \cap poolMu : \E d \in closing : process[entries[d]] = "hung"
  \/ \E c \in Call \cap poolMu :
       process[IF pc[c] = "close" THEN entries[db[c]] ELSE using[c]] = "hung"
CallsEndUnlessHung ==
  \A c \in Call :
    pc[c] # "new" ~>
      \/ pc[c] = "done" \/ phase = "exited"
      \/ using[c] # 0 /\ process[using[c]] = "hung"
      \/ WaitsForHung
=============================================================================
