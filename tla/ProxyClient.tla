----------------------------- MODULE ProxyClient -----------------------------
(***************************************************************************)
(* Clients of MCP servers that run as child processes                      *)
(* (internal/mcp/proxy.go).  A client writes one request at a time, under  *)
(* its mutex, and reads the next response; there is no timeout.  A         *)
(* process answers in order; it may also hang or end.  External: the       *)
(* servers themselves, which are taken to send no requests of their own.   *)
(***************************************************************************)
EXTENDS Naturals, Sequences

CONSTANTS
  Caller,       \* those who use clients
  MaxClients    \* bound: processes started

ASSUME ClientConstants == MaxClients \in Nat

VARIABLES
  launched,   \* number of processes started; a client is named by its number
  process,    \* of each: "up", "hung" or "down"
  holder,     \* c.mu: who holds it, {} or one caller
  requests,   \* what the process has yet to answer
  responses   \* what it has answered and nobody has read

clientVars == <<launched, process, holder, requests, responses>>

Client == 1 .. MaxClients
Running == {k \in Client : process[k] # "down"}

ClientInit ==
  /\ launched = 0
  /\ process = [k \in Client |-> "down"]
  /\ holder = [k \in Client |-> {}]
  /\ requests = [k \in Client |-> <<>>] /\ responses = [k \in Client |-> <<>>]

(* exec.Command ... Start, and the first request, initialize. *)
Launch(who) ==
  /\ launched < MaxClients
  /\ launched' = launched + 1
  /\ process' = [process EXCEPT ![launched + 1] = "up"]
  /\ holder' = [holder EXCEPT ![launched + 1] = {who}]
  /\ requests' = [requests EXCEPT ![launched + 1] = <<who>>]
  /\ UNCHANGED responses

(* The process. *)
Answer(k, ok) ==
  /\ process[k] = "up" /\ requests[k] # <<>>
  /\ requests' = [requests EXCEPT ![k] = Tail(@)]
  /\ responses' = [responses EXCEPT ![k] = Append(@, [to |-> Head(requests[k]), ok |-> ok])]
  /\ UNCHANGED <<launched, process, holder>>

Breaks(k, how) ==
  /\ process[k] = "up"
  /\ process' = [process EXCEPT ![k] = how]
  /\ UNCHANGED <<launched, holder, requests, responses>>

(* sendRequest: the mutex is taken and the request written ... *)
NoMutex(k) == TRUE     \* variant
Free(k) == holder[k] = {}

WriteRequest(who, k) ==
  /\ Free(k) /\ process[k] # "down"
  /\ holder' = [holder EXCEPT ![k] = {who}]
  /\ requests' = [requests EXCEPT ![k] = Append(@, who)]
  /\ UNCHANGED <<launched, process, responses>>

(* ... which fails when the process is gone ... *)
WriteFails(k) ==
  /\ Free(k) /\ process[k] = "down"
  /\ UNCHANGED clientVars

(* ... and the next response read: whatever its ID, it is taken.           *)
ReadResponse(who, k) ==
  /\ who \in holder[k] /\ responses[k] # <<>>
  /\ responses' = [responses EXCEPT ![k] = Tail(@)]
  /\ holder' = [holder EXCEPT ![k] = @ \ {who}]
  /\ UNCHANGED <<launched, process, requests>>

ReadFails(who, k) ==
  /\ who \in holder[k] /\ responses[k] = <<>> /\ process[k] = "down"
  /\ holder' = [holder EXCEPT ![k] = @ \ {who}]
  /\ UNCHANGED <<launched, process, requests, responses>>

(* Close waits for the mutex, then kills the process, hung or not. *)
Abandon(k) ==     \* variant: the process is left behind
  /\ Free(k)
  /\ UNCHANGED clientVars
Close(k) ==
  /\ Free(k)
  /\ process' = [process EXCEPT ![k] = "down"]
  /\ UNCHANGED <<launched, holder, requests, responses>>

(* A handshake that failed: the process is killed, nobody else knows it.   *)
Kill(who, k) ==
  /\ who \in holder[k]
  /\ process' = [process EXCEPT ![k] = "down"]
  /\ holder' = [holder EXCEPT ![k] = {}]
  /\ responses' = [responses EXCEPT ![k] = <<>>]
  /\ UNCHANGED <<launched, requests>>
=============================================================================
