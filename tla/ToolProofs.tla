----------------------------- MODULE ToolProofs -----------------------------
(***************************************************************************)
(* Theorems about the MCP server, its pool of processes and their clients, *)
(* for every set of requests, sessions and domains and any number of       *)
(* processes.                                                              *)
(***************************************************************************)
EXTENDS ToolServer, FiniteSetTheorems, TLAPS

(***************************************************************************)
(* A client's pipes: while somebody holds the mutex they carry his request *)
(* or the answer to it; otherwise, unless the process is gone, nothing.    *)
(***************************************************************************)
ClientTypeOK ==
  /\ launched \in 0 .. MaxClients
  /\ process \in [Client -> {"up", "hung", "down"}]
  /\ holder \in [Client -> SUBSET Caller]
  /\ requests \in [Client -> Seq(Caller)]
  /\ responses \in [Client -> Seq([to : Caller, ok : BOOLEAN])]

Unlaunched(k) == process[k] = "down" /\ holder[k] = {} /\ responses[k] = <<>>

Asking(w, k) == requests[k] = <<w>> /\ responses[k] = <<>>
Told(w, k) == requests[k] = <<>> /\ \E ok \in BOOLEAN : responses[k] = <<[to |-> w, ok |-> ok]>>
Line(k) ==
  \/ holder[k] = {} /\ (process[k] = "down" \/ (requests[k] = <<>> /\ responses[k] = <<>>))
  \/ \E w \in Caller : holder[k] = {w} /\ (Asking(w, k) \/ Told(w, k))

ClientInv ==
  /\ ClientTypeOK
  /\ \A k \in Client : (k > launched => Unlaunched(k)) /\ Line(k)

LEMMA ClientInvInit == ClientInit => ClientInv
BY ClientConstants DEF ClientInit, ClientInv, ClientTypeOK, Client, Unlaunched, Line

LEMMA LaunchKeeps ==
  ASSUME ClientInv, NEW w \in Caller, Launch(w)
  PROVE  ClientInv'
<1>1. launched + 1 \in Client /\ launched' = launched + 1 /\ launched \in Nat /\ launched' \in 0 .. MaxClients
  BY ClientConstants DEF ClientInv, ClientTypeOK, Launch, Client
<1>2. <<w>> \in Seq(Caller) OBVIOUS
<1>3. ClientTypeOK' BY <1>1, <1>2 DEF ClientInv, ClientTypeOK, Launch
<1>4. ASSUME NEW k \in Client PROVE k > launched' => Unlaunched(k)'
  <2>1. k > launched' => k > launched /\ k # launched + 1 BY <1>1 DEF Client
  <2> QED BY <1>1, <2>1 DEF ClientInv, ClientTypeOK, Launch, Unlaunched
<1>5. ASSUME NEW k \in Client PROVE Line(k)'
  <2>1. CASE k = launched + 1
    <3>1. launched + 1 > launched BY <1>1
    <3>2. holder'[k] = {w} /\ requests'[k] = <<w>> /\ responses'[k] = <<>>
      BY <1>1, <2>1, <3>1 DEF ClientInv, ClientTypeOK, Launch, Unlaunched
    <3> QED BY <3>2 DEF Line, Asking
  <2>2. CASE k # launched + 1
    BY <2>2 DEF ClientInv, ClientTypeOK, Launch, Line, Asking, Told
  <2> QED BY <2>1, <2>2
<1> QED BY <1>3, <1>4, <1>5 DEF ClientInv

LEMMA SameClients == ClientInv /\ UNCHANGED clientVars => ClientInv'
BY DEF clientVars, ClientInv, ClientTypeOK, Line, Asking, Told, Unlaunched

LEMMA AnswerKeeps ==
  ASSUME ClientInv, NEW k \in Client, NEW ok \in BOOLEAN, Answer(k, ok)
  PROVE  ClientInv'
<1>1. PICK w \in Caller : holder[k] = {w} /\ Asking(w, k)
  BY DEF ClientInv, Answer, Line, Told
<1>2. requests[k] = <<w>> /\ responses[k] = <<>> BY <1>1 DEF Asking
<1>3. /\ Head(<<w>>) = w /\ Tail(<<w>>) = <<>>
      /\ Append(<<>>, [to |-> w, ok |-> ok]) = <<[to |-> w, ok |-> ok]>>
  OBVIOUS
<1>4. /\ requests' = [requests EXCEPT ![k] = <<>>]
      /\ responses' = [responses EXCEPT ![k] = <<[to |-> w, ok |-> ok]>>]
      /\ UNCHANGED <<launched, process, holder>>
  BY <1>2, <1>3 DEF Answer
<1>5. <<>> \in Seq(Caller) /\ [to |-> w, ok |-> ok] \in [to : Caller, ok : BOOLEAN] OBVIOUS
<1>6. <<[to |-> w, ok |-> ok]>> \in Seq([to : Caller, ok : BOOLEAN]) BY <1>5
<1>7. ClientTypeOK' BY <1>4, <1>5, <1>6 DEF ClientInv, ClientTypeOK
<1>8. ASSUME NEW j \in Client PROVE (j > launched' => Unlaunched(j)') /\ Line(j)'
  <2>1. CASE j = k
    <3>1. Told(w, k)' BY <1>4 DEF ClientInv, ClientTypeOK, Told
    <3>2. ~(k > launched) BY <1>1 DEF ClientInv, Unlaunched
    <3> QED BY <1>1, <1>4, <2>1, <3>1, <3>2 DEF Line
  <2>2. CASE j # k
    <3>1. UNCHANGED <<requests[j], responses[j], holder[j], process[j], launched>>
      BY <1>4, <2>2 DEF ClientInv, ClientTypeOK
    <3> QED BY <3>1 DEF ClientInv, Unlaunched, Line, Asking, Told
  <2> QED BY <2>1, <2>2
<1> QED BY <1>7, <1>8 DEF ClientInv

LEMMA BreaksKeeps ==
  ASSUME ClientInv, NEW k \in Client, NEW how \in {"hung", "down"}, Breaks(k, how)
  PROVE  ClientInv'
BY DEF ClientInv, ClientTypeOK, Breaks, Line, Asking, Told, Unlaunched

LEMMA WriteKeeps ==
  ASSUME ClientInv, NEW w \in Caller, NEW k \in Client, WriteRequest(w, k)
  PROVE  ClientInv'
<1>1. requests[k] = <<>> /\ responses[k] = <<>> /\ ~(k > launched)
  BY DEF ClientInv, Line, WriteRequest, Free, Unlaunched
<1>2. Append(<<>>, w) = <<w>> /\ <<w>> \in Seq(Caller) OBVIOUS
<1>3. /\ requests' = [requests EXCEPT ![k] = <<w>>] /\ holder' = [holder EXCEPT ![k] = {w}]
      /\ UNCHANGED <<launched, process, responses>>
  BY <1>1, <1>2 DEF WriteRequest
<1>4. ClientTypeOK' BY <1>2, <1>3 DEF ClientInv, ClientTypeOK
<1>5. ASSUME NEW j \in Client PROVE (j > launched' => Unlaunched(j)') /\ Line(j)'
  <2>1. CASE j = k
    <3>1. holder'[k] = {w} /\ Asking(w, k)' BY <1>1, <1>3 DEF ClientInv, ClientTypeOK, Asking
    <3> QED BY <1>1, <1>3, <2>1, <3>1 DEF Line
  <2>2. CASE j # k
    <3>1. UNCHANGED <<requests[j], responses[j], holder[j], process[j], launched>>
      BY <1>3, <2>2 DEF ClientInv, ClientTypeOK
    <3> QED BY <3>1 DEF ClientInv, Unlaunched, Line, Asking, Told
  <2> QED BY <2>1, <2>2
<1> QED BY <1>4, <1>5 DEF ClientInv

(* Who reads gets the answer to his own request. *)
LEMMA ReadKeeps ==
  ASSUME ClientInv, NEW w \in Caller, NEW k \in Client, ReadResponse(w, k)
  PROVE  ClientInv' /\ Head(responses[k]).to = w /\ Head(responses[k]).ok \in BOOLEAN
<1>1. holder[k] = {w} /\ Told(w, k) BY DEF ClientInv, Line, Asking, ReadResponse
<1>2. PICK ok \in BOOLEAN : responses[k] = <<[to |-> w, ok |-> ok]>> BY <1>1 DEF Told
<1>3. Head(responses[k]) = [to |-> w, ok |-> ok] /\ Tail(responses[k]) = <<>> BY <1>2
<1>4. /\ responses' = [responses EXCEPT ![k] = <<>>] /\ holder' = [holder EXCEPT ![k] = {}]
      /\ UNCHANGED <<launched, process, requests>>
  <2>1. holder[k] \ {w} = {} BY <1>1
  <2> QED BY <1>3, <2>1 DEF ReadResponse
<1>5. <<>> \in Seq([to : Caller, ok : BOOLEAN]) OBVIOUS
<1>6. ClientTypeOK' BY <1>4, <1>5 DEF ClientInv, ClientTypeOK
<1>7. ASSUME NEW j \in Client PROVE (j > launched' => Unlaunched(j)') /\ Line(j)'
  <2>1. CASE j = k
    <3>1. holder'[k] = {} /\ requests'[k] = <<>> /\ responses'[k] = <<>>
      BY <1>1, <1>4 DEF ClientInv, ClientTypeOK, Told
    <3>2. ~(k > launched) BY <1>1 DEF ClientInv, Unlaunched
    <3> QED BY <1>4, <2>1, <3>1, <3>2 DEF Line
  <2>2. CASE j # k
    <3>1. UNCHANGED <<requests[j], responses[j], holder[j], process[j], launched>>
      BY <1>4, <2>2 DEF ClientInv, ClientTypeOK
    <3> QED BY <3>1 DEF ClientInv, Unlaunched, Line, Asking, Told
  <2> QED BY <2>1, <2>2
<1>8. ClientInv' BY <1>6, <1>7 DEF ClientInv
<1>9. Head(responses[k]).to = w /\ Head(responses[k]).ok = ok BY <1>3
<1> QED BY <1>8, <1>9

LEMMA ReadFailsKeeps ==
  ASSUME ClientInv, NEW w \in Caller, NEW k \in Client, ReadFails(w, k)
  PROVE  ClientInv'
<1> USE DEF ClientInv, ClientTypeOK, ReadFails
<1>1. holder[k] = {w} BY DEF Line
<1>2. holder' = [holder EXCEPT ![k] = {}] BY <1>1
<1> QED BY <1>2, ZenonT(60) DEF Line, Asking, Told, Unlaunched

LEMMA CloseKeeps ==
  ASSUME ClientInv, NEW k \in Client, Close(k)
  PROVE  ClientInv'
BY DEF ClientInv, ClientTypeOK, Close, Free, Line, Asking, Told, Unlaunched

LEMMA KillKeeps ==
  ASSUME ClientInv, NEW w \in Caller, NEW k \in Client, Kill(w, k)
  PROVE  ClientInv'
<1> USE DEF ClientInv, ClientTypeOK, Kill
<1>1. <<>> \in Seq([to : Caller, ok : BOOLEAN]) OBVIOUS
<1> QED BY <1>1 DEF Line, Asking, Told, Unlaunched

-----------------------------------------------------------------------------
(* The server.  Who is where with the pool's mutex, and which process is   *)
(* whose: an entry's, the one being started, or the proxied server.        *)
Domain == {NoDomain, Root} \cup {Explicit[c] : c \in Call} \cup {SessionDomain[t] : t \in Tokens}
Database == {NoDomain} \cup {DomainToDBPath(d) : d \in Domain}
Where == {"new", "get", "initialize", "send", "await", "evict", "close", "done"}

LEMMA WhoCalls ==
  /\ Call \subseteq Caller /\ Cleaner \subseteq Caller /\ "startup" \in Caller
  /\ Cleaner \subseteq {"cleanup", "shutdown"}
  /\ Call \cap {"cleanup", "shutdown", "startup", "none", "error"} = {}
BY ToolConstants

ToolTypeOK ==
  /\ sessions \subseteq Tokens /\ spawned \subseteq sessions
  /\ pc \in [Call -> Where] /\ db \in [Call -> Database]
  /\ using \in [Call -> 0 .. launched]
  /\ result \in [Call -> [from : 0 .. launched, to : Caller \cup {"none", "error"}]]
  /\ hooked \subseteq Call
  /\ entries \in [DOMAIN entries -> 1 .. launched] /\ DOMAIN entries \subseteq Database
  /\ idle \subseteq DOMAIN entries /\ closing \subseteq DOMAIN entries
  /\ proxy \in {0, 1} /\ proxy <= launched
  /\ phase \in {"startup", "serving", "exited"}

AtStart ==
  phase = "startup" =>
    /\ launched <= 1 /\ proxy = 0 /\ DOMAIN entries = {} /\ poolMu = {}
    /\ \A c \in Call : pc[c] = "new" /\ using[c] = 0

PoolHeld ==
  /\ poolMu = {} \/ \E x \in Call \cup Cleaner : poolMu = {x}
  /\ \A c \in Call : pc[c] \in {"initialize", "close"} <=> c \in poolMu
  /\ closing # {} => \E g \in Cleaner : poolMu = {g}
  /\ \A c \in Call : pc[c] = "close" => db[c] \in DOMAIN entries

(* A process that is being started is nobody else's.                       *)
New(c) ==
  /\ db[c] \notin DOMAIN entries
  /\ using[c] \notin {0, proxy} \cup {entries[d] : d \in DOMAIN entries}
  /\ \A b \in Call \ {c} : using[b] # using[c]

Owned ==
  /\ \A d, e \in DOMAIN entries : entries[d] = entries[e] => d = e
  /\ \A d \in DOMAIN entries : entries[d] # proxy
  /\ \A c \in Call : pc[c] = "initialize" => New(c)
  /\ \A k \in Client :
       process[k] # "down" =>
         \/ k = proxy \/ (phase = "startup" /\ k = 1)
         \/ \E d \in DOMAIN entries : entries[d] = k
         \/ \E c \in Call : pc[c] = "initialize" /\ using[c] = k

(* A request's database, the process it uses, its result and its hook.     *)
Belongs(c) ==
  /\ pc[c] \in {"new", "get"} => using[c] = 0
  /\ pc[c] \in {"get", "initialize", "evict", "close"} => Method[c] \in Pooled
  /\ pc[c] \in {"send", "await"} =>
       using[c] # 0 /\ (Method[c] \in Pooled \/ (Method[c] = "proxied" /\ proxy # 0))
  /\ (pc[c] = "get" \/ using[c] # 0) /\ Method[c] \in Pooled => RightDatabase(c)
  /\ \A d \in DOMAIN entries : using[c] = entries[d] => db[c] = d
  /\ result[c].to \in {"none", "error", c} /\ result[c].from \in {0, using[c]}
  /\ pc[c] \in {"evict", "close", "done"} =>
       (c \in hooked <=> Method[c] \in {"gk", "reader", "builtin"} \/ (Method[c] = "proxied" /\ proxy # 0))
  /\ c \in hooked => pc[c] \in {"evict", "close", "done"}

ToolInv ==
  /\ ClientInv /\ ToolTypeOK /\ AtStart /\ PoolHeld /\ Owned
  /\ \A c \in Call : Belongs(c)

LEMMA ToolInvInit == Init => ToolInv
<1> SUFFICES ASSUME Init PROVE ToolInv OBVIOUS
<1>1. ClientInv BY ClientInvInit DEF Init
<1>2. DOMAIN entries = {} /\ entries = [d \in DOMAIN entries |-> entries[d]] /\ launched = 0
  BY DEF Init, ClientInit
<1>3. ToolTypeOK
  <2>1. pc \in [Call -> Where] BY DEF Init, Where
  <2>2. db \in [Call -> Database] BY DEF Init, Database
  <2>3. using \in [Call -> 0 .. launched] BY <1>2 DEF Init
  <2>4. result \in [Call -> [from : 0 .. launched, to : Caller \cup {"none", "error"}]]
    BY <1>2 DEF Init
  <2>5. entries \in [DOMAIN entries -> 1 .. launched] BY <1>2
  <2> QED BY <1>2, <2>1, <2>2, <2>3, <2>4, <2>5 DEF Init, ToolTypeOK
<1>4. AtStart /\ PoolHeld BY <1>2 DEF Init, AtStart, PoolHeld
<1>5. Owned BY <1>2 DEF Init, ClientInit, Owned
<1>6. \A c \in Call : Belongs(c) BY <1>2 DEF Init, Belongs
<1> QED BY <1>1, <1>3, <1>4, <1>5, <1>6 DEF ToolInv

(* Starting up. *)
LEMMA StartKeeps ==
  ASSUME ToolInv, StartProxyFromConfig \/ DiscoverTools \/ ServeWithoutProxy
  PROVE  ToolInv'
<1>1. CASE StartProxyFromConfig
  <2>1. ClientInv' BY <1>1, LaunchKeeps, WhoCalls DEF ToolInv, StartProxyFromConfig
  <2>2. launched = 0 /\ launched' = 1 BY <1>1 DEF StartProxyFromConfig, Launch
  <2>3. ToolTypeOK' BY <1>1, <2>2 DEF ToolInv, ToolTypeOK, StartProxyFromConfig, callVars, poolVars, serverVars
  <2>4. AtStart' /\ PoolHeld' /\ Owned'
    BY <1>1, <2>2 DEF ToolInv, AtStart, PoolHeld, Owned, New, ClientInv, ClientTypeOK, Unlaunched,
                      StartProxyFromConfig, Launch, callVars, poolVars, serverVars
  <2>5. \A c \in Call : Belongs(c)'
    BY <1>1 DEF ToolInv, Belongs, RightDatabase, MeantDomain, StartProxyFromConfig, callVars, poolVars, serverVars
  <2> QED BY <2>1, <2>3, <2>4, <2>5 DEF ToolInv
<1>2. CASE DiscoverTools
  <2>0. launched = 1 /\ 1 \in Client /\ "startup" \in Caller
    BY <1>2, WhoCalls, ClientConstants
       DEF ToolInv, ClientInv, ClientTypeOK, Client, DiscoverTools
  <2>1. ClientInv' /\ launched' = launched
    <3>1. CASE ReadResponse("startup", 1)
      BY <2>0, <3>1, ReadKeeps DEF ToolInv, ReadResponse
    <3>2. CASE Kill("startup", 1) BY <2>0, <3>2, KillKeeps DEF ToolInv, Kill
    <3> QED BY <1>2, <3>1, <3>2 DEF DiscoverTools
  <2>2. ToolTypeOK' BY <1>2, <2>0, <2>1 DEF ToolInv, ToolTypeOK, DiscoverTools, callVars, poolVars
  <2>3. AtStart' /\ PoolHeld'
    BY <1>2 DEF ToolInv, AtStart, PoolHeld, DiscoverTools, callVars, poolVars
  <2>4. Owned'
    <3>1. \A k \in Client : process'[k] # "down" => k = proxy'
      BY <1>2, <2>0, <2>1 DEF ToolInv, AtStart, Owned, ClientInv, ClientTypeOK, Client, DiscoverTools,
                        ReadResponse, Kill
    <3> QED BY <1>2, <3>1 DEF ToolInv, AtStart, Owned, DiscoverTools, callVars, poolVars
  <2>5. \A c \in Call : Belongs(c)'
    BY <1>2 DEF ToolInv, AtStart, Belongs, RightDatabase, MeantDomain, DiscoverTools, callVars, poolVars
  <2> QED BY <2>1, <2>2, <2>3, <2>4, <2>5 DEF ToolInv
<1>3. CASE ServeWithoutProxy
  <2>1. ClientInv' BY <1>3, SameClients DEF ToolInv, ServeWithoutProxy
  <2>2. UNCHANGED <<launched, process>> BY <1>3 DEF ServeWithoutProxy, clientVars
  <2>3. ToolTypeOK' BY <1>3, <2>2 DEF ToolInv, ToolTypeOK, ServeWithoutProxy, callVars, poolVars
  <2>4. AtStart' /\ PoolHeld'
    BY <1>3 DEF ToolInv, AtStart, PoolHeld, ServeWithoutProxy, callVars, poolVars
  <2>5. \A k \in Client : process[k] = "down"
    BY <1>3 DEF ToolInv, ClientInv, Unlaunched, Client, ServeWithoutProxy
  <2>6. Owned'
    BY <1>3, <2>2, <2>5 DEF ToolInv, AtStart, Owned, New, ServeWithoutProxy, callVars, poolVars
  <2>7. \A c \in Call : Belongs(c)'
    BY <1>3 DEF ToolInv, Belongs, RightDatabase, MeantDomain, ServeWithoutProxy, callVars, poolVars
  <2> QED BY <2>1, <2>3, <2>4, <2>6, <2>7 DEF ToolInv
<1> QED BY <1>1, <1>2, <1>3

(* Tokens are registered, processes answer, hang and end. *)
LEMMA AroundKeeps ==
  ASSUME ToolInv,
         \/ \E t \in Tokens : RegisterSession(t) \/ SpawnSubagent(t)
         \/ ProcessStep
         \/ \E d \in DOMAIN entries : Idles(d)
         \/ UNCHANGED vars
  PROVE  ToolInv'
<1>1. ASSUME NEW t \in Tokens, RegisterSession(t) \/ SpawnSubagent(t) PROVE ToolInv'
  <2> USE <1>1 DEF RegisterSession, SpawnSubagent, Registered
  <2>1. ClientInv' BY SameClients DEF ToolInv
  <2>2. UNCHANGED <<launched, process, callVars, poolVars, proxy, phase>> BY DEF clientVars
  <2>3. ToolTypeOK' BY <2>2 DEF ToolInv, ToolTypeOK, callVars, poolVars
  <2>4. AtStart' /\ PoolHeld' /\ Owned'
    BY <2>2 DEF ToolInv, AtStart, PoolHeld, Owned, New, callVars, poolVars
  <2>5. \A c \in Call : Belongs(c)' BY <2>2 DEF ToolInv, Belongs, RightDatabase, MeantDomain, callVars, poolVars
  <2> QED BY <2>1, <2>3, <2>4, <2>5 DEF ToolInv
<1>2. CASE ProcessStep
  <2>1. ClientInv' BY <1>2, AnswerKeeps, BreaksKeeps DEF ToolInv, ProcessStep
  <2>2. launched' = launched /\ UNCHANGED <<callVars, poolVars, serverVars>>
    BY <1>2 DEF ProcessStep, Answer, Breaks
  <2>3. \A k \in Client : process'[k] # "down" => process[k] # "down"
    BY <1>2 DEF ToolInv, ClientInv, ClientTypeOK, ProcessStep, Answer, Breaks
  <2>4. ToolTypeOK' BY <2>2 DEF ToolInv, ToolTypeOK, callVars, poolVars, serverVars
  <2>5. AtStart' /\ PoolHeld' BY <2>2 DEF ToolInv, AtStart, PoolHeld, callVars, poolVars, serverVars
  <2>6. Owned' BY <2>2, <2>3 DEF ToolInv, Owned, New, callVars, poolVars, serverVars
  <2>7. \A c \in Call : Belongs(c)' BY <2>2 DEF ToolInv, Belongs, RightDatabase, MeantDomain, callVars, poolVars, serverVars
  <2> QED BY <2>1, <2>4, <2>5, <2>6, <2>7 DEF ToolInv
<1>3. ASSUME NEW d \in DOMAIN entries, Idles(d) PROVE ToolInv'
  <2>1. ClientInv' BY <1>3, SameClients DEF ToolInv, Idles
  <2>2. UNCHANGED <<launched, process, callVars, serverVars, poolMu, entries, closing>>
    BY <1>3 DEF Idles, clientVars
  <2>3. idle' \subseteq DOMAIN entries' BY <1>3, <2>2 DEF ToolInv, ToolTypeOK, Idles
  <2>4. ToolTypeOK' BY <2>2, <2>3 DEF ToolInv, ToolTypeOK, callVars, serverVars
  <2>5. AtStart' /\ PoolHeld' /\ Owned'
    BY <2>2 DEF ToolInv, AtStart, PoolHeld, Owned, New, callVars, serverVars
  <2>6. \A c \in Call : Belongs(c)' BY <2>2 DEF ToolInv, Belongs, RightDatabase, MeantDomain, callVars, serverVars
  <2> QED BY <2>1, <2>4, <2>5, <2>6 DEF ToolInv
<1>4. CASE UNCHANGED vars
  <2>1. ClientInv' BY <1>4, SameClients DEF ToolInv, vars
  <2>2. UNCHANGED <<launched, process, callVars, poolVars, serverVars>> BY <1>4 DEF vars, clientVars
  <2>3. ToolTypeOK' BY <2>2 DEF ToolInv, ToolTypeOK, callVars, poolVars, serverVars
  <2>4. AtStart' /\ PoolHeld' /\ Owned'
    BY <2>2 DEF ToolInv, AtStart, PoolHeld, Owned, New, callVars, poolVars, serverVars
  <2>5. \A c \in Call : Belongs(c)' BY <2>2 DEF ToolInv, Belongs, RightDatabase, MeantDomain, callVars, poolVars, serverVars
  <2> QED BY <2>1, <2>3, <2>4, <2>5 DEF ToolInv
<1> QED BY <1>1, <1>2, <1>3, <1>4

(* A request arrives. *)
LEMMA MeantIsAsked ==
  ASSUME ToolInv, NEW c \in Call, Token[c] = NoDomain \/ Token[c] \in spawned,
         Method[c] \in Pooled
  PROVE  /\ RequestDomain(c) \in Domain
         /\ \/ RequestDomain(c) = MeantDomain(c)
            \/ Method[c] = "reader" /\ Explicit[c] = NoDomain /\ RequestDomain(c) = Root
<1>1. Token[c] \in sessions <=> Token[c] # NoDomain BY DEF ToolInv, ToolTypeOK, Tokens
<1>2. Token[c] # NoDomain => Token[c] \in Tokens BY DEF Tokens
<1>3. RequestDomain(c) \in Domain
  BY <1>1, <1>2 DEF RequestDomain, DomainForToken, Domain
<1>4. \/ RequestDomain(c) = MeantDomain(c)
      \/ Method[c] = "reader" /\ Explicit[c] = NoDomain /\ RequestDomain(c) = Root
  BY <1>1 DEF RequestDomain, MeantDomain, DomainForToken, Pooled
<1> QED BY <1>3, <1>4

LEMMA ReceiveKeeps ==
  ASSUME ToolInv, NEW c \in Call, HandleHTTP(c)
  PROVE  ToolInv'
<1>1. /\ Received(c) /\ pc[c] = "new" /\ phase = "serving" /\ using[c] = 0
      /\ UNCHANGED <<poolVars, serverVars, clientVars>>
  BY DEF HandleHTTP, GKForward, ResourceRequest, ReadResourceTool, ToPool, ToProxy, HandledHere, UnknownTool, Received,
         ToolInv, Belongs
<1>2. ClientInv' BY <1>1, SameClients DEF ToolInv
<1>3. UNCHANGED <<launched, process>> BY <1>1 DEF clientVars
<1>4. c \notin hooked /\ c \notin poolMu BY <1>1 DEF ToolInv, Belongs, PoolHeld
<1>5. CASE GKForward(c) \/ ResourceRequest(c) \/ ReadResourceTool(c)
  <2>1. /\ Method[c] \in Pooled /\ pc' = [pc EXCEPT ![c] = "get"]
        /\ db' = [db EXCEPT ![c] = DomainToDBPath(RequestDomain(c))]
        /\ UNCHANGED <<using, result, hooked>>
    BY <1>5 DEF GKForward, ResourceRequest, ReadResourceTool, GKTool, ToPool, Goto, Pooled
  <2>2. DomainToDBPath(RequestDomain(c)) \in Database /\ RightDatabase(c)'
    <3>1. DomainToDBPath(RequestDomain(c)) \in Database
      BY <1>1, <2>1, MeantIsAsked DEF Received, Database
    <3>2. RightDatabase(c)'
      BY <1>1, <2>1, MeantIsAsked DEF Received, RightDatabase, ToolInv, ToolTypeOK
    <3> QED BY <3>1, <3>2
  <2>3. ToolTypeOK' BY <1>1, <1>3, <2>1, <2>2 DEF ToolInv, ToolTypeOK, Where, poolVars, serverVars
  <2>4. AtStart' /\ PoolHeld'
    BY <1>1, <1>4, <2>1 DEF ToolInv, ToolTypeOK, AtStart, PoolHeld, poolVars, serverVars
  <2>5. Owned'
    BY <1>1, <1>3, <2>1 DEF ToolInv, ToolTypeOK, Owned, New, poolVars, serverVars
  <2>6. ASSUME NEW b \in Call PROVE Belongs(b)'
    BY <1>1, <1>4, <2>1, <2>2 DEF ToolInv, ToolTypeOK, Belongs, RightDatabase, MeantDomain, poolVars, serverVars
  <2> QED BY <1>2, <2>3, <2>4, <2>5, <2>6 DEF ToolInv
<1>6. CASE ToProxy(c)
  <2>1. /\ Method[c] = "proxied" /\ proxy # 0 /\ pc' = [pc EXCEPT ![c] = "send"]
        /\ using' = [using EXCEPT ![c] = proxy] /\ UNCHANGED <<db, result, hooked>>
    BY <1>6 DEF ToProxy, Goto
  <2>2. Method[c] \notin Pooled BY <2>1 DEF Pooled
  <2>3. ToolTypeOK' BY <1>1, <1>3, <2>1 DEF ToolInv, ToolTypeOK, Where, poolVars, serverVars
  <2>4. AtStart' /\ PoolHeld'
    BY <1>1, <1>4, <2>1 DEF ToolInv, ToolTypeOK, AtStart, PoolHeld, poolVars, serverVars
  <2>5. Owned'
    BY <1>1, <1>3, <2>1 DEF ToolInv, ToolTypeOK, Owned, New, poolVars, serverVars
  <2>6. ASSUME NEW b \in Call PROVE Belongs(b)'
    BY <1>1, <1>4, <2>1, <2>2 DEF ToolInv, ToolTypeOK, Owned, Belongs, RightDatabase, MeantDomain, poolVars, serverVars
  <2> QED BY <1>2, <2>3, <2>4, <2>5, <2>6 DEF ToolInv
<1>7. CASE HandledHere(c)
  <2>1. PICK to \in {c, "error"} :
          /\ Method[c] \in {"reader", "builtin"} /\ pc' = [pc EXCEPT ![c] = "done"]
          /\ result' = [result EXCEPT ![c] = [from |-> 0, to |-> to]]
          /\ hooked' = hooked \cup {c} /\ UNCHANGED <<db, using>>
    BY <1>7 DEF HandledHere, Goto, Outcome, Error
  <2>2. Method[c] # "proxied" BY <2>1
  <2>3. c \in Caller /\ [from |-> 0, to |-> to] \in [from : 0 .. launched, to : Caller \cup {"none", "error"}]
    BY WhoCalls DEF ToolInv, ClientInv, ClientTypeOK
  <2>4. ToolTypeOK' BY <1>1, <1>3, <2>1, <2>3 DEF ToolInv, ToolTypeOK, Where, poolVars, serverVars
  <2>5. AtStart' /\ PoolHeld'
    BY <1>1, <1>4, <2>1 DEF ToolInv, ToolTypeOK, AtStart, PoolHeld, poolVars, serverVars
  <2>6. Owned'
    BY <1>1, <1>3, <2>1 DEF ToolInv, ToolTypeOK, Owned, New, poolVars, serverVars
  <2>7. ASSUME NEW b \in Call PROVE Belongs(b)'
    BY <1>1, <1>4, <2>1, <2>2 DEF ToolInv, ToolTypeOK, Belongs, RightDatabase, MeantDomain, poolVars, serverVars
  <2> QED BY <1>2, <2>4, <2>5, <2>6, <2>7 DEF ToolInv
<1>8. CASE UnknownTool(c)
  <2>1. /\ Method[c] = "unknown" \/ (Method[c] = "proxied" /\ proxy = 0)
        /\ pc' = [pc EXCEPT ![c] = "done"]
        /\ result' = [result EXCEPT ![c] = [from |-> 0, to |-> "error"]] /\ UNCHANGED <<db, using, hooked>>
    BY <1>8 DEF UnknownTool, Goto, Error
  <2>2. Method[c] \notin Pooled \cup {"builtin"} BY <2>1 DEF Pooled
  <2>3. c \in Caller /\ [from |-> 0, to |-> "error"] \in [from : 0 .. launched, to : Caller \cup {"none", "error"}]
    BY WhoCalls DEF ToolInv, ClientInv, ClientTypeOK
  <2>4. ToolTypeOK' BY <1>1, <1>3, <2>1, <2>3 DEF ToolInv, ToolTypeOK, Where, poolVars, serverVars
  <2>5. AtStart' /\ PoolHeld'
    BY <1>1, <1>4, <2>1 DEF ToolInv, ToolTypeOK, AtStart, PoolHeld, poolVars, serverVars
  <2>6. Owned'
    BY <1>1, <1>3, <2>1 DEF ToolInv, ToolTypeOK, Owned, New, poolVars, serverVars
  <2>7. ASSUME NEW b \in Call PROVE Belongs(b)'
    BY <1>1, <1>4, <2>1, <2>2 DEF ToolInv, ToolTypeOK, Belongs, RightDatabase, MeantDomain, poolVars, serverVars
  <2> QED BY <1>2, <2>4, <2>5, <2>6, <2>7 DEF ToolInv
<1> QED BY <1>5, <1>6, <1>7, <1>8 DEF HandleHTTP

(* Whoever holds the pool is the only one who starts or closes a process.  *)
LEMMA OneHolder ==
  ASSUME ToolInv
  PROVE  /\ poolMu = {} => closing = {} /\ \A b \in Call : pc[b] \notin {"initialize", "close"}
         /\ \A c \in Call : c \in poolMu =>
              poolMu = {c} /\ closing = {} /\ \A b \in Call \ {c} : pc[b] \notin {"initialize", "close"}
         /\ \A g \in Cleaner : g \in poolMu =>
              poolMu = {g} /\ \A b \in Call : pc[b] \notin {"initialize", "close"}
BY WhoCalls DEF ToolInv, PoolHeld

(* Taking a client from the pool, or starting one. *)
LEMMA GetOrStartKeeps ==
  ASSUME ToolInv, NEW c \in Call, GetOrStart(c)
  PROVE  ToolInv'
<1>1. /\ pc[c] = "get" /\ poolMu = {} /\ phase # "startup" /\ using[c] = 0 /\ c \notin hooked
      /\ closing = {} /\ \A b \in Call : pc[b] \notin {"initialize", "close"}
      /\ Method[c] \in Pooled /\ RightDatabase(c)
      /\ c \in Caller /\ result[c].from = 0
  BY OneHolder, WhoCalls DEF ToolInv, AtStart, Belongs, GetOrStart
<1>2. /\ idle' = idle \ {db[c]} /\ UNCHANGED <<entries, closing, db, serverVars>>
  BY DEF GetOrStart
<1>3. idle' \subseteq DOMAIN entries' /\ closing' \subseteq DOMAIN entries' BY <1>2 DEF ToolInv, ToolTypeOK
<1>4. CASE /\ db[c] \in DOMAIN entries
           /\ using' = [using EXCEPT ![c] = entries[db[c]]]
           /\ Goto(c, "send")
           /\ UNCHANGED <<poolMu, result, hooked, clientVars>>
  <2>1. pc' = [pc EXCEPT ![c] = "send"] BY <1>4 DEF Goto
  <2>2. ClientInv' BY <1>4, SameClients DEF ToolInv
  <2>3. UNCHANGED <<launched, process>> BY <1>4 DEF clientVars
  <2>4. entries[db[c]] \in 0 .. launched BY <1>4 DEF ToolInv, ToolTypeOK, ClientInv, ClientTypeOK
  <2>5. ToolTypeOK' BY <1>2, <1>3, <1>4, <2>1, <2>3, <2>4 DEF ToolInv, ToolTypeOK, Where, serverVars
  <2>6. AtStart' /\ PoolHeld'
    BY <1>1, <1>2, <1>4, <2>1 DEF ToolInv, ToolTypeOK, AtStart, PoolHeld, serverVars
  <2>7. Owned' BY <1>1, <1>2, <1>4, <2>1, <2>3 DEF ToolInv, ToolTypeOK, Owned, serverVars
  <2>8. ASSUME NEW b \in Call PROVE Belongs(b)'
    BY <1>1, <1>2, <1>4, <2>1 DEF ToolInv, ToolTypeOK, Belongs, Owned, RightDatabase, MeantDomain, serverVars
  <2> QED BY <2>2, <2>5, <2>6, <2>7, <2>8 DEF ToolInv
<1>5. CASE /\ db[c] \notin DOMAIN entries
           /\ Launch(c)
           /\ using' = [using EXCEPT ![c] = launched + 1]
           /\ poolMu' = {c}
           /\ Goto(c, "initialize") /\ UNCHANGED <<result, hooked>>
  <2>1. pc' = [pc EXCEPT ![c] = "initialize"] BY <1>5 DEF Goto
  <2>2. ClientInv' BY <1>1, <1>5, LaunchKeeps DEF ToolInv
  <2>3. launched \in Nat /\ launched' = launched + 1 /\ launched + 1 \in Client
        /\ process' = [process EXCEPT ![launched + 1] = "up"]
    BY <1>5, ClientConstants DEF ToolInv, ClientInv, ClientTypeOK, Launch, Client
  <2>4. ToolTypeOK'
    <3>1. using' \in [Call -> 0 .. launched'] /\ entries' \in [DOMAIN entries' -> 1 .. launched']
      BY <1>2, <1>5, <2>3 DEF ToolInv, ToolTypeOK
    <3>2. result' \in [Call -> [from : 0 .. launched', to : Caller \cup {"none", "error"}]]
      BY <1>5, <2>3 DEF ToolInv, ToolTypeOK
    <3> QED BY <1>2, <1>3, <1>5, <2>1, <2>3, <3>1, <3>2 DEF ToolInv, ToolTypeOK, Where, serverVars
  <2>5. AtStart' /\ PoolHeld'
    BY <1>1, <1>2, <1>5, <2>1 DEF ToolInv, ToolTypeOK, AtStart, PoolHeld, serverVars
  <2>6. /\ \A b \in Call \ {c} : using'[b] = using[b] /\ using[b] # launched + 1
        /\ using'[c] = launched + 1 /\ proxy # launched + 1 /\ launched + 1 # 0
        /\ \A d \in DOMAIN entries : entries[d] # launched + 1
    BY <1>5, <2>3 DEF ToolInv, ToolTypeOK
  <2>7. New(c)' BY <1>2, <1>5, <2>6 DEF New, serverVars
  <2>8. Owned'
    <3>1. \A b \in Call : pc'[b] = "initialize" => b = c BY <1>1, <2>1 DEF ToolInv, ToolTypeOK
    <3>2. pc'[c] = "initialize" /\ using'[c] = launched + 1 BY <2>1, <2>6 DEF ToolInv, ToolTypeOK
    <3>3. ASSUME NEW k \in Client, process'[k] # "down"
          PROVE  k = proxy \/ (\E d \in DOMAIN entries : entries[d] = k) \/ k = launched + 1
      BY <1>1, <2>3, <3>3 DEF ToolInv, Owned, ClientInv, ClientTypeOK
    <3> QED BY <1>2, <2>7, <3>1, <3>2, <3>3 DEF ToolInv, Owned, serverVars
  <2>9. ASSUME NEW b \in Call PROVE Belongs(b)'
    BY <1>1, <1>2, <1>5, <2>1, <2>6 DEF ToolInv, ToolTypeOK, Belongs, RightDatabase, MeantDomain, serverVars
  <2> QED BY <2>2, <2>4, <2>5, <2>8, <2>9 DEF ToolInv
<1>6. CASE /\ db[c] \notin DOMAIN entries
           /\ Outcome(c, Error)
           /\ Goto(c, "done") /\ UNCHANGED <<using, poolMu, clientVars>>
  <2>1. /\ pc' = [pc EXCEPT ![c] = "done"] /\ result' = [result EXCEPT ![c] = Error]
        /\ hooked' \subseteq hooked \cup {c} /\ hooked \subseteq hooked'
        /\ c \in hooked' <=> Method[c] \in {"gk", "reader"}
    BY <1>1, <1>6 DEF Goto, Outcome, Pooled
  <2>2. ClientInv' BY <1>6, SameClients DEF ToolInv
  <2>3. UNCHANGED <<launched, process>> BY <1>6 DEF clientVars
  <2>4. Error \in [from : 0 .. launched, to : Caller \cup {"none", "error"}]
    BY DEF Error, ToolInv, ClientInv, ClientTypeOK
  <2>5. ToolTypeOK' BY <1>2, <1>3, <1>6, <2>1, <2>3, <2>4 DEF ToolInv, ToolTypeOK, Where, serverVars
  <2>6. AtStart' /\ PoolHeld'
    BY <1>1, <1>2, <1>6, <2>1 DEF ToolInv, ToolTypeOK, AtStart, PoolHeld, serverVars
  <2>7. Owned' BY <1>1, <1>2, <1>6, <2>1, <2>3 DEF ToolInv, ToolTypeOK, Owned, serverVars
  <2>8. ASSUME NEW b \in Call PROVE Belongs(b)'
    BY <1>1, <1>2, <1>6, <2>1 DEF ToolInv, ToolTypeOK, Belongs, Error, RightDatabase, MeantDomain, Pooled, serverVars
  <2> QED BY <2>2, <2>5, <2>6, <2>7, <2>8 DEF ToolInv
<1> QED BY <1>4, <1>5, <1>6 DEF GetOrStart

(* The process that was started answers the handshake, or does not. *)
LEMMA InitializedKeeps ==
  ASSUME ToolInv, NEW c \in Call, Initialized(c)
  PROVE  ToolInv'
<1>1. /\ pc[c] = "initialize" /\ c \in poolMu /\ poolMu = {c} /\ closing = {} /\ phase # "startup"
      /\ \A b \in Call \ {c} : pc[b] \notin {"initialize", "close"}
      /\ Method[c] \in Pooled /\ RightDatabase(c) /\ c \in Caller
  BY OneHolder, WhoCalls DEF ToolInv, AtStart, PoolHeld, Belongs, Owned, New, Initialized
<1>2. New(c) BY <1>1 DEF ToolInv, Owned
<1>3. using[c] \in 1 .. launched /\ using[c] \in Client
  BY <1>2, ClientConstants DEF New, ToolInv, ToolTypeOK, ClientInv, ClientTypeOK, Client
<1>4. /\ pc' = [pc EXCEPT ![c] = "send"] /\ poolMu' = {}
      /\ UNCHANGED <<db, using, result, hooked, idle, closing, serverVars, launched, process>>
  BY DEF Initialized, Goto, ReadResponse
<1>5. ClientInv' BY <1>1, <1>3, ReadKeeps DEF ToolInv, Initialized
<1>6. /\ DOMAIN entries' = DOMAIN entries \cup {db[c]}
      /\ entries'[db[c]] = using[c]
      /\ \A d \in DOMAIN entries : d # db[c] /\ entries'[d] = entries[d]
      /\ entries' = [d \in DOMAIN entries' |-> entries'[d]]
  BY <1>2 DEF Initialized, Put, New
<1>7. db[c] \in Database /\ \A d \in DOMAIN entries' : entries'[d] \in 1 .. launched
  BY <1>3, <1>6 DEF ToolInv, ToolTypeOK
<1>8. entries' \in [DOMAIN entries' -> 1 .. launched'] BY <1>4, <1>6, <1>7
<1>9. ToolTypeOK' BY <1>4, <1>6, <1>7, <1>8 DEF ToolInv, ToolTypeOK, Where, serverVars
<1>10. AtStart' /\ PoolHeld'
  BY <1>1, <1>4 DEF ToolInv, ToolTypeOK, AtStart, PoolHeld, serverVars
<1>11. Owned'
  <2>1. \A b \in Call : pc'[b] # "initialize" BY <1>1, <1>4 DEF ToolInv, ToolTypeOK
  <2>2. \A d, e \in DOMAIN entries' : entries'[d] = entries'[e] => d = e
    BY <1>2, <1>6 DEF ToolInv, Owned, New
  <2>3. \A d \in DOMAIN entries' : entries'[d] # proxy' BY <1>2, <1>4, <1>6 DEF ToolInv, Owned, New, serverVars
  <2>4. ASSUME NEW k \in Client, process[k] # "down"
        PROVE  k = proxy \/ \E d \in DOMAIN entries' : entries'[d] = k
    BY <1>1, <1>6, <2>4 DEF ToolInv, Owned
  <2> QED BY <1>4, <2>1, <2>2, <2>3, <2>4 DEF Owned, serverVars
<1>12. ASSUME NEW b \in Call PROVE Belongs(b)'
  <2>1. \A d \in DOMAIN entries' : using[b] = entries'[d] => db[b] = d
    BY <1>2, <1>6 DEF New, ToolInv, Belongs
  <2> QED BY <1>1, <1>2, <1>4, <2>1 DEF ToolInv, ToolTypeOK, Belongs, New, RightDatabase, MeantDomain, serverVars
<1> QED BY <1>5, <1>9, <1>10, <1>11, <1>12 DEF ToolInv

LEMMA InitializeFailsKeeps ==
  ASSUME ToolInv, NEW c \in Call, InitializeFails(c)
  PROVE  ToolInv'
<1>1. /\ pc[c] = "initialize" /\ c \in poolMu /\ poolMu = {c} /\ closing = {} /\ phase # "startup"
      /\ \A b \in Call \ {c} : pc[b] \notin {"initialize", "close"}
      /\ Method[c] \in Pooled /\ c \in Caller /\ c \notin hooked
  BY OneHolder, WhoCalls DEF ToolInv, AtStart, PoolHeld, Belongs, InitializeFails
<1>2. using[c] \in Client
  BY <1>1, ClientConstants DEF New, ToolInv, Owned, ToolTypeOK, ClientInv, ClientTypeOK, Client
<1>3. /\ pc' = [pc EXCEPT ![c] = "done"] /\ poolMu' = {} /\ result' = [result EXCEPT ![c] = Error]
      /\ hooked' \subseteq hooked \cup {c} /\ hooked \subseteq hooked'
      /\ c \in hooked' <=> Method[c] \in {"gk", "reader"}
      /\ process' = [process EXCEPT ![using[c]] = "down"]
      /\ UNCHANGED <<db, using, entries, idle, closing, serverVars, launched>>
  BY <1>1 DEF InitializeFails, Goto, Kill, Unlock, Outcome, Pooled
<1>4. ClientInv' BY <1>1, <1>2, KillKeeps DEF ToolInv, InitializeFails
<1>5. Error \in [from : 0 .. launched, to : Caller \cup {"none", "error"}]
  BY DEF Error, ToolInv, ClientInv, ClientTypeOK
<1>6. ToolTypeOK' BY <1>3, <1>5 DEF ToolInv, ToolTypeOK, Where, serverVars
<1>7. AtStart' /\ PoolHeld' BY <1>1, <1>3 DEF ToolInv, ToolTypeOK, AtStart, PoolHeld, serverVars
<1>8. Owned'
  <2>1. \A b \in Call : pc'[b] # "initialize" BY <1>1, <1>3 DEF ToolInv, ToolTypeOK
  <2>2. ASSUME NEW k \in Client, process'[k] # "down"
        PROVE  k = proxy \/ \E d \in DOMAIN entries : entries[d] = k
    BY <1>1, <1>2, <1>3, <2>2 DEF ToolInv, Owned, ClientInv, ClientTypeOK
  <2> QED BY <1>3, <2>1, <2>2 DEF ToolInv, Owned, serverVars
<1>9. ASSUME NEW b \in Call PROVE Belongs(b)'
  BY <1>1, <1>3 DEF ToolInv, ToolTypeOK, Belongs, Error, RightDatabase, MeantDomain, Pooled, serverVars
<1> QED BY <1>4, <1>6, <1>7, <1>8, <1>9 DEF ToolInv

(* The request is written, the response read. *)
LEMMA CallToolKeeps ==
  ASSUME ToolInv, NEW c \in Call, CallTool(c) \/ CallReturns(c)
  PROVE  ToolInv'
<1>1. /\ pc[c] \in {"send", "await"} /\ c \notin poolMu /\ phase # "startup" /\ c \in Caller
      /\ c \notin hooked
      /\ Method[c] \in Pooled \/ (Method[c] = "proxied" /\ proxy # 0)
      /\ UNCHANGED <<db, using, poolVars, serverVars>>
  BY WhoCalls DEF ToolInv, AtStart, PoolHeld, Belongs, CallTool, CallReturns
<1>2. using[c] \in Client
  BY <1>1, ClientConstants DEF ToolInv, ToolTypeOK, Belongs, ClientInv, ClientTypeOK, Client
<1>3. ClientInv' /\ UNCHANGED <<launched, process>>
  <2>1. CASE WriteRequest(c, using[c])
    BY <1>1, <1>2, <2>1, WriteKeeps DEF ToolInv, WriteRequest
  <2>2. CASE WriteFails(using[c])
    BY <2>2, SameClients DEF ToolInv, WriteFails, clientVars
  <2>3. CASE ReadResponse(c, using[c])
    BY <1>1, <1>2, <2>3, ReadKeeps DEF ToolInv, ReadResponse
  <2>4. CASE ReadFails(c, using[c])
    BY <1>1, <1>2, <2>4, ReadFailsKeeps DEF ToolInv, ReadFails
  <2> QED BY <2>1, <2>2, <2>3, <2>4 DEF CallTool, CallReturns
<1>4. \/ Goto(c, "await") /\ UNCHANGED <<result, hooked>>
      \/ \E ok \in BOOLEAN, r \in {Error, [from |-> using[c], to |-> c]} : Finish(c, ok, r)
  <2>1. CASE CallTool(c) BY <2>1 DEF CallTool
  <2>2. CASE CallReturns(c) /\ ReadResponse(c, using[c])
            /\ Finish(c, Head(responses[using[c]]).ok, Decoded(using[c]))
    BY <1>1, <1>2, <2>2, ReadKeeps DEF ToolInv, Decoded
  <2>3. CASE CallReturns(c) /\ Finish(c, FALSE, Error) BY <2>3
  <2> QED BY <2>1, <2>2, <2>3 DEF CallReturns
<1>5. AtStart' BY <1>1 DEF AtStart, serverVars
<1>6. CASE Goto(c, "await") /\ UNCHANGED <<result, hooked>>
  <2>1. pc' = [pc EXCEPT ![c] = "await"] BY <1>6 DEF Goto
  <2>2. ToolTypeOK' BY <1>1, <1>3, <1>6, <2>1 DEF ToolInv, ToolTypeOK, Where, poolVars, serverVars
  <2>3. PoolHeld' BY <1>1, <2>1 DEF ToolInv, ToolTypeOK, PoolHeld, poolVars
  <2>4. Owned' BY <1>1, <1>3, <2>1 DEF ToolInv, ToolTypeOK, Owned, New, poolVars, serverVars
  <2>5. ASSUME NEW b \in Call PROVE Belongs(b)'
    BY <1>1, <1>6, <2>1 DEF ToolInv, ToolTypeOK, Belongs, RightDatabase, MeantDomain, poolVars, serverVars
  <2> QED BY <1>3, <1>5, <2>2, <2>3, <2>4, <2>5 DEF ToolInv
<1>7. ASSUME NEW ok \in BOOLEAN, NEW r \in {Error, [from |-> using[c], to |-> c]}, Finish(c, ok, r)
      PROVE  ToolInv'
  <2>1. PICK where \in {"evict", "done"} :
          pc' = [pc EXCEPT ![c] = where] /\ (where = "evict" => Method[c] # "proxied")
    BY <1>7 DEF Finish, Goto
  <2>2. /\ result' = [result EXCEPT ![c] = r]
        /\ hooked' \subseteq hooked \cup {c} /\ hooked \subseteq hooked'
        /\ c \in hooked' <=> Method[c] \in {"gk", "reader", "proxied"}
    BY <1>1, <1>7 DEF Finish, Outcome, Pooled
  <2>3. r \in [from : 0 .. launched, to : Caller \cup {"none", "error"}]
    BY <1>1, <1>2 DEF Error, ToolInv, ToolTypeOK, ClientInv, ClientTypeOK
  <2>4. r.from \in {0, using[c]} /\ r.to \in {"error", c} BY DEF Error
  <2>5. ToolTypeOK'
    BY <1>1, <1>3, <2>1, <2>2, <2>3 DEF ToolInv, ToolTypeOK, Where, poolVars, serverVars
  <2>6. PoolHeld' BY <1>1, <2>1 DEF ToolInv, ToolTypeOK, PoolHeld, poolVars
  <2>7. Owned' BY <1>1, <1>3, <2>1 DEF ToolInv, ToolTypeOK, Owned, New, poolVars, serverVars
  <2>8. ASSUME NEW b \in Call PROVE Belongs(b)'
    <3>1. CASE b = c
      <4>1. pc'[c] = where /\ result'[c] = r BY <2>1, <2>2 DEF ToolInv, ToolTypeOK
      <4> QED BY <1>1, <2>1, <2>2, <2>4, <3>1, <4>1 DEF ToolInv, Belongs, RightDatabase, MeantDomain, Pooled, poolVars, serverVars
    <3>2. CASE b # c
      <4>1. pc'[b] = pc[b] /\ result'[b] = result[b] /\ (b \in hooked' <=> b \in hooked)
        BY <2>1, <2>2, <3>2 DEF ToolInv, ToolTypeOK
      <4> QED BY <1>1, <4>1 DEF ToolInv, Belongs, RightDatabase, MeantDomain, poolVars, serverVars
    <3> QED BY <3>1, <3>2
  <2> QED BY <1>3, <1>5, <2>5, <2>6, <2>7, <2>8 DEF ToolInv
<1> QED BY <1>4, <1>6, <1>7

(* After an error the pool's entry of the domain is closed. *)
LEMMA EvictKeeps ==
  ASSUME ToolInv, NEW c \in Call, Evict(c)
  PROVE  ToolInv'
<1>1. /\ pc[c] = "evict" /\ poolMu = {} /\ phase # "startup" /\ closing = {}
      /\ \A b \in Call : pc[b] \notin {"initialize", "close"}
      /\ Method[c] \in Pooled
      /\ UNCHANGED <<db, using, result, hooked, entries, idle, closing, serverVars, clientVars>>
  BY OneHolder DEF ToolInv, AtStart, Belongs, Evict
<1>2. \/ pc' = [pc EXCEPT ![c] = "close"] /\ poolMu' = {c} /\ db[c] \in DOMAIN entries
      \/ pc' = [pc EXCEPT ![c] = "done"] /\ poolMu' = {}
  BY <1>1 DEF Evict, Goto
<1>3. ClientInv' BY <1>1, SameClients DEF ToolInv
<1>4. UNCHANGED <<launched, process>> BY <1>1 DEF clientVars
<1>5. ToolTypeOK' BY <1>1, <1>2, <1>4 DEF ToolInv, ToolTypeOK, Where, serverVars
<1>6. AtStart' /\ PoolHeld' BY <1>1, <1>2 DEF ToolInv, ToolTypeOK, AtStart, PoolHeld, serverVars
<1>7. Owned' BY <1>1, <1>2, <1>4 DEF ToolInv, ToolTypeOK, Owned, serverVars
<1>8. ASSUME NEW b \in Call PROVE Belongs(b)'
  BY <1>1, <1>2 DEF ToolInv, ToolTypeOK, Belongs, RightDatabase, MeantDomain, serverVars
<1> QED BY <1>3, <1>5, <1>6, <1>7, <1>8 DEF ToolInv

(* An entry is removed once its process is closed. *)
LEMMA RemoveFacts ==
  ASSUME ToolInv, NEW d \in DOMAIN entries, Close(entries[d]), Remove(d),
         \A b \in Call : pc[b] # "initialize"
  PROVE  /\ ClientInv' /\ launched' = launched
         /\ DOMAIN entries' = DOMAIN entries \ {d}
         /\ \A e \in DOMAIN entries' : entries'[e] = entries[e]
         /\ entries' \in [DOMAIN entries' -> 1 .. launched']
         /\ idle' \subseteq DOMAIN entries'
         /\ \A k \in Client : process'[k] # "down" =>
              \/ k = proxy \/ (phase = "startup" /\ k = 1)
              \/ \E e \in DOMAIN entries' : entries'[e] = k
<1>1. entries[d] \in Client
  BY ClientConstants DEF ToolInv, ToolTypeOK, ClientInv, ClientTypeOK, Client
<1>2. ClientInv' /\ launched' = launched BY <1>1, CloseKeeps DEF ToolInv, Close
<1>3. /\ DOMAIN entries' = DOMAIN entries \ {d}
      /\ \A e \in DOMAIN entries' : entries'[e] = entries[e]
      /\ entries' = [e \in DOMAIN entries' |-> entries'[e]]
      /\ idle' = idle \ {d}
  BY DEF Remove, Without
<1>4. \A e \in DOMAIN entries' : entries'[e] \in 1 .. launched' BY <1>2, <1>3 DEF ToolInv, ToolTypeOK
<1>5. entries' \in [DOMAIN entries' -> 1 .. launched'] BY <1>3, <1>4
<1>6. idle' \subseteq DOMAIN entries' BY <1>3 DEF ToolInv, ToolTypeOK
<1>7. ASSUME NEW k \in Client, process'[k] # "down"
      PROVE  \/ k = proxy \/ (phase = "startup" /\ k = 1)
             \/ \E e \in DOMAIN entries' : entries'[e] = k
  <2>1. process[k] # "down" /\ k # entries[d]
    BY <1>1, <1>7 DEF Close, ToolInv, ClientInv, ClientTypeOK
  <2> QED BY <1>3, <2>1 DEF ToolInv, Owned
<1> QED BY <1>2, <1>3, <1>5, <1>6, <1>7

LEMMA EvictClosesKeeps ==
  ASSUME ToolInv, NEW c \in Call, EvictCloses(c)
  PROVE  ToolInv'
<1>1. /\ pc[c] = "close" /\ poolMu = {c} /\ closing = {} /\ phase # "startup"
      /\ \A b \in Call \ {c} : pc[b] \notin {"initialize", "close"}
      /\ db[c] \in DOMAIN entries /\ Method[c] \in Pooled
  BY OneHolder DEF ToolInv, AtStart, PoolHeld, Belongs, EvictCloses
<1>2. /\ pc' = [pc EXCEPT ![c] = "done"] /\ poolMu' = {}
      /\ UNCHANGED <<db, using, result, hooked, closing, serverVars>>
  BY <1>1 DEF EvictCloses, Goto, Unlock
<1>3. \A b \in Call : pc[b] # "initialize" /\ pc'[b] \notin {"initialize", "close"}
  BY <1>1, <1>2 DEF ToolInv, ToolTypeOK
<1>4. /\ ClientInv' /\ launched' = launched
      /\ DOMAIN entries' = DOMAIN entries \ {db[c]}
      /\ \A e \in DOMAIN entries' : entries'[e] = entries[e]
      /\ entries' \in [DOMAIN entries' -> 1 .. launched']
      /\ idle' \subseteq DOMAIN entries'
      /\ \A k \in Client : process'[k] # "down" =>
           \/ k = proxy \/ (phase = "startup" /\ k = 1)
           \/ \E e \in DOMAIN entries' : entries'[e] = k
  BY <1>1, <1>3, RemoveFacts DEF EvictCloses
<1>5. ToolTypeOK' BY <1>1, <1>2, <1>4 DEF ToolInv, ToolTypeOK, Where, serverVars
<1>6. AtStart' /\ PoolHeld' BY <1>1, <1>2, <1>3 DEF ToolInv, ToolTypeOK, AtStart, PoolHeld, serverVars
<1>7. Owned' BY <1>2, <1>3, <1>4 DEF ToolInv, Owned, serverVars
<1>8. ASSUME NEW b \in Call PROVE Belongs(b)'
  BY <1>1, <1>2, <1>4 DEF ToolInv, ToolTypeOK, Belongs, RightDatabase, MeantDomain, serverVars
<1> QED BY <1>4, <1>5, <1>6, <1>7, <1>8 DEF ToolInv

(* The idle clients, or all of them, are closed one after the other. *)
LEMMA SweepKeeps ==
  ASSUME ToolInv, NEW g \in Cleaner, Sweeper(g)
  PROVE  ToolInv'
<1>1. CASE Sweep(g) \/ SweepEnds(g)
  <2>1. /\ poolMu = {} \/ (poolMu = {g} /\ closing = {} /\ phase # "startup")
        /\ \A b \in Call : pc[b] \notin {"initialize", "close"} /\ b # g
        /\ UNCHANGED <<entries, idle, callVars, sessions, spawned, proxy, clientVars>>
    <3>1. CASE Sweep(g) BY <3>1, OneHolder, WhoCalls DEF Sweep, serverVars
    <3>2. CASE SweepEnds(g)
      BY <3>2, OneHolder, WhoCalls DEF SweepEnds, ToolInv, AtStart
    <3> QED BY <1>1, <3>1, <3>2
  <2>2. /\ phase' \in {phase, "exited"} /\ phase # "startup"
        /\ closing' \subseteq DOMAIN entries
        /\ \/ poolMu' = {g}
           \/ poolMu' = {} /\ closing' = {}
    BY <1>1, <2>1, OneHolder DEF Sweep, SweepEnds, Closes, serverVars, ToolInv, ToolTypeOK, AtStart
  <2>3. ClientInv' BY <2>1, SameClients DEF ToolInv
  <2>4. UNCHANGED <<launched, process, pc, db, using, result, hooked>> BY <2>1 DEF clientVars, callVars
  <2>5. ToolTypeOK' BY <2>1, <2>2, <2>4 DEF ToolInv, ToolTypeOK
  <2>6. AtStart' /\ PoolHeld' BY <2>1, <2>2, <2>4 DEF ToolInv, AtStart, PoolHeld
  <2>7. Owned' BY <2>1, <2>2, <2>4 DEF ToolInv, Owned, New
  <2>8. ASSUME NEW b \in Call PROVE Belongs(b)'
    BY <2>1, <2>4 DEF ToolInv, Belongs, RightDatabase, MeantDomain
  <2> QED BY <2>3, <2>5, <2>6, <2>7, <2>8 DEF ToolInv
<1>2. ASSUME NEW d \in closing, SweepCloses(g, d) PROVE ToolInv'
  <2>1. /\ poolMu = {g} /\ \A b \in Call : pc[b] \notin {"initialize", "close"} /\ b # g
        /\ phase # "startup" /\ d \in DOMAIN entries
        /\ closing' = closing \ {d} /\ UNCHANGED <<poolMu, callVars, serverVars>>
    BY <1>2, OneHolder, WhoCalls DEF SweepCloses, ToolInv, AtStart, ToolTypeOK
  <2>2. /\ ClientInv' /\ launched' = launched
        /\ DOMAIN entries' = DOMAIN entries \ {d}
        /\ \A e \in DOMAIN entries' : entries'[e] = entries[e]
        /\ entries' \in [DOMAIN entries' -> 1 .. launched']
        /\ idle' \subseteq DOMAIN entries'
        /\ \A k \in Client : process'[k] # "down" =>
             \/ k = proxy \/ (phase = "startup" /\ k = 1)
             \/ \E e \in DOMAIN entries' : entries'[e] = k
    BY <1>2, <2>1, RemoveFacts DEF SweepCloses
  <2>3. ToolTypeOK' BY <2>1, <2>2 DEF ToolInv, ToolTypeOK, callVars, serverVars
  <2>4. AtStart' /\ PoolHeld' BY <2>1 DEF ToolInv, AtStart, PoolHeld, callVars, serverVars
  <2>5. Owned' BY <2>1, <2>2 DEF ToolInv, Owned, callVars, serverVars
  <2>6. ASSUME NEW b \in Call PROVE Belongs(b)'
    BY <2>1, <2>2 DEF ToolInv, Belongs, RightDatabase, MeantDomain, callVars, serverVars
  <2> QED BY <2>2, <2>3, <2>4, <2>5, <2>6 DEF ToolInv
<1> QED BY <1>1, <1>2 DEF Sweeper

LEMMA ToolStepKeeps ==
  ASSUME ToolInv, [Next]_vars
  PROVE  ToolInv'
<1>1. CASE UNCHANGED vars BY <1>1, AroundKeeps
<1>2. CASE Next
  <2>1. CASE StartProxyFromConfig \/ DiscoverTools \/ ServeWithoutProxy BY <2>1, StartKeeps
  <2>2. CASE \/ \E t \in Tokens : RegisterSession(t) \/ SpawnSubagent(t)
             \/ ProcessStep
             \/ \E d \in DOMAIN entries : Idles(d)
    BY <2>2, AroundKeeps
  <2>3. ASSUME NEW c \in Call, HandleHTTP(c) PROVE ToolInv' BY <2>3, ReceiveKeeps
  <2>4. ASSUME NEW c \in Call, Handler(c) PROVE ToolInv'
    BY <2>4, GetOrStartKeeps, InitializedKeeps, InitializeFailsKeeps, CallToolKeeps, EvictKeeps,
       EvictClosesKeeps DEF Handler
  <2>5. ASSUME NEW g \in Cleaner, Sweeper(g) PROVE ToolInv' BY <2>5, SweepKeeps
  <2> QED BY <1>2, <2>1, <2>2, <2>3, <2>4, <2>5 DEF Next
<1> QED BY <1>1, <1>2

-----------------------------------------------------------------------------
(* The pool's and the clients' state stays well formed: an entry, a        *)
(* request and the proxied server name processes that were started, what   *)
(* is idle or being closed is an entry, and a pipe carries what callers    *)
(* wrote (gkpool.go, proxy.go).                                            *)
THEOREM ToolInvariant == Spec => []ToolInv
<1>1. Init => ToolInv BY ToolInvInit
<1>2. ToolInv /\ [Next]_vars => ToolInv' BY ToolStepKeeps
<1> QED BY <1>1, <1>2, PTL DEF Spec

(* There is one process per database, however requests, the cleaner and    *)
(* shutdown meet at the pool's mutex (getOrStart, evict, cleanup), and a   *)
(* client is used by one caller at a time.                                 *)
THEOREM ProcessesAreOwned == Spec => []OneProcessPerDatabase
<1>1. ToolInv => OneProcessPerDatabase
  <2> SUFFICES ASSUME ToolInv PROVE OneProcessPerDatabase OBVIOUS
  <2>1. ASSUME NEW k \in Client
        PROVE  holder[k] \subseteq Caller /\ Cardinality(holder[k]) <= 1
    <3>1. CASE holder[k] = {}
      <4>1. Cardinality(holder[k]) = 0 BY <3>1, FS_EmptySet
      <4> QED BY <3>1, <4>1
    <3>2. ASSUME NEW w \in Caller, holder[k] = {w}
          PROVE  holder[k] \subseteq Caller /\ Cardinality(holder[k]) <= 1
      <4>1. Cardinality(holder[k]) = 1 BY <3>2, FS_Singleton
      <4> QED BY <3>2, <4>1
    <3> QED BY <3>1, <3>2 DEF ToolInv, ClientInv, Line
  <2>2. ASSUME phase # "startup", NEW k \in Running
        PROVE  k \in {entries[d] : d \in DOMAIN entries} \cup Starting \cup {proxy}
    <3>1. \A c \in Call : pc[c] = "initialize" => c \in poolMu BY DEF ToolInv, PoolHeld
    <3> QED BY <2>2, <3>1 DEF Running, Starting, ToolInv, Owned
  <2> QED BY <2>1, <2>2 DEF OneProcessPerDatabase, ToolInv, ToolTypeOK, Owned
<1> QED BY <1>1, ToolInvariant, PTL

(* Whatever else runs, an answered request has its own answer, from a      *)
(* process of the database of the domain it is for, and its post-tool hook *)
(* (handleToolsCall, sendRequest, DomainForToken, DomainToDBPath).  A      *)
(* read_resource without a domain is answered from the root's database,    *)
(* also when a subagent spawned with another domain calls it               *)
(* (resource.go:26).                                                       *)
THEOREM AnswersAreOnesOwn == Spec => []AnswersBelong
<1>1. ToolInv => AnswersBelong BY DEF ToolInv, Belongs, AnswersBelong
<1> QED BY <1>1, ToolInvariant, PTL
=============================================================================
