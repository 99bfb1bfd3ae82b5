------------------------------- MODULE OpenCode -------------------------------
(***************************************************************************)
(* Sessions on an opencode server (internal/executive/provider/            *)
(* opencode_serve.go): the provider that starts or reuses the server, its  *)
(* OpenCodeSession objects, the prompts sent through them and the poller   *)
(* goroutine that answers permission requests while a prompt runs.         *)
(*                                                                         *)
(* A prompter is a goroutine that calls SendPrompt; several may share one  *)
(* object (both executive goroutines use the executive's).  Server         *)
(* sessions are numbered in the order they are created, and a permission   *)
(* is named by its prompter and a number.  One prompt per prompter.        *)
(*                                                                         *)
(* PrepareForResume is called by nobody, so isResuming is always false     *)
(* and every prompt creates a session.  Of the server: a message returns   *)
(* when no permission of its prompt is pending (comment at line 322), or   *)
(* fails at any time (30 minutes, a crash).                                *)
(***************************************************************************)
EXTENDS Naturals, FiniteSets

CONSTANTS
  Prompter,
  Object,
  ObjectOf,     \* the OpenCodeSession each prompter uses
  Provider,
  ProviderOf,   \* the provider that made the object; all have one server
  Asks          \* bound: permissions each prompt asks for

ASSUME OpenCodeConstants ==
  /\ ObjectOf \in [Prompter -> Object] /\ ProviderOf \in [Object -> Provider]
  /\ Asks \in [Prompter -> Nat]

VARIABLES
  running,       \* p.running of each provider
  server,        \* the opencode process
  newSession,    \* per object: where NewSession is
  ocSessionID,   \* s.ocSessionID, 0 for ""
  repliedPerms,  \* s.repliedPerms
  created,       \* sessions created so far
  at,            \* where each prompter's SendPrompt is
  sentTo,        \* the session its message went to
  failed,        \* SendPrompt returns an error
  ctxDone,       \* the context SendPrompt was given
  poller,        \* where the prompter's permissionPoller is
  listed,        \* permissions it fetched and has not looked at
  handling,      \* the one it is handling
  requested,     \* permissions asked for so far
  pending,       \* permissions the server waits for
  put            \* history: how often each was put to a handler

providerVars == <<running, server, newSession>>
sessionVars == <<ocSessionID, repliedPerms, created>>
promptVars == <<at, sentTo, failed, ctxDone>>
pollerVars == <<poller, listed, handling, put>>
permVars == <<requested, pending>>
ocVars == <<providerVars, sessionVars, promptVars, pollerVars, permVars>>

Permission == UNION {{q} \X (1 .. Asks[q]) : q \in Prompter}
Obj(q) == ObjectOf[q]
To(f, x, v) == [f EXCEPT ![x] = v]

OpenCodeInit ==
  /\ running = [v \in Provider |-> FALSE] /\ server \in {"down", "up"}
  /\ newSession = [o \in Object |-> "none"]
  /\ ocSessionID = [o \in Object |-> 0]
  /\ repliedPerms = [o \in Object |-> {}] /\ created = 0
  /\ at = [q \in Prompter |-> "none"] /\ sentTo = [q \in Prompter |-> 0]
  /\ failed = [q \in Prompter |-> FALSE] /\ ctxDone = [q \in Prompter |-> FALSE]
  /\ poller = [q \in Prompter |-> "off"]
  /\ listed = [q \in Prompter |-> {}] /\ handling = [q \in Prompter |-> <<>>]
  /\ requested = [q \in Prompter |-> 0] /\ pending = {}
  /\ put = [p \in Permission |-> 0]

-----------------------------------------------------------------------------
(* NewSession and Start.  p.running is read outside the lock; it is set    *)
(* before a launched server is healthy, and stays when it never is.        *)
NewSession(o) ==
  /\ newSession[o] = "none"
  /\ newSession' = To(newSession, o, IF running[ProviderOf[o]] THEN "ready" ELSE "probe")
  /\ UNCHANGED <<running, server, sessionVars, promptVars, pollerVars, permVars>>

Probe(o) ==
  /\ newSession[o] = "probe"
  /\ IF server = "up"
     THEN newSession' = To(newSession, o, "ready") /\ running' = To(running, ProviderOf[o], TRUE)
     ELSE newSession' = To(newSession, o, "launch") /\ UNCHANGED running
  /\ UNCHANGED <<server, sessionVars, promptVars, pollerVars, permVars>>

(* A second process does not get the port of the first. *)
Launch(o) ==
  /\ newSession[o] = "launch"
  /\ \/ newSession' = To(newSession, o, "refused") /\ UNCHANGED <<running, server>>
     \/ /\ newSession' = To(newSession, o, "await")
        /\ running' = To(running, ProviderOf[o], TRUE)
        /\ server' = IF server = "down" THEN "starting" ELSE server
  /\ UNCHANGED <<sessionVars, promptVars, pollerVars, permVars>>

(* Sixty looks at its health. *)
AwaitHealth(o) ==
  /\ newSession[o] = "await"
  /\ \/ server = "up" /\ newSession' = To(newSession, o, "ready")
     \/ server # "up" /\ newSession' = To(newSession, o, "refused")
  /\ UNCHANGED <<running, server, sessionVars, promptVars, pollerVars, permVars>>

ServerChanges ==
  /\ \/ server = "starting" /\ server' = "up"
     \/ server # "down" /\ server' = "down"
  /\ UNCHANGED <<running, newSession, sessionVars, promptVars, pollerVars, permVars>>

-----------------------------------------------------------------------------
(* SendPrompt.                                                             *)

SendPrompt(q) ==
  /\ at[q] = "none" /\ newSession[Obj(q)] = "ready"
  /\ at' = To(at, q, "create")
  /\ UNCHANGED <<providerVars, sessionVars, sentTo, failed, ctxDone, pollerVars, permVars>>

CreateSession(q) ==
  /\ at[q] = "create" /\ server = "up" /\ ~ctxDone[q]
  /\ created' = created + 1
  /\ ocSessionID' = To(ocSessionID, Obj(q), created + 1)
  /\ repliedPerms' = To(repliedPerms, Obj(q), {})
  /\ at' = To(at, q, "post")
  /\ UNCHANGED <<providerVars, sentTo, failed, ctxDone, pollerVars, permVars>>

CreateFails(q) ==
  /\ at[q] = "create"
  /\ at' = To(at, q, "returned") /\ failed' = To(failed, q, TRUE)
  /\ UNCHANGED <<providerVars, sessionVars, sentTo, ctxDone, pollerVars, permVars>>

(* registerMCP lies between the two and may last.  The message goes to     *)
(* whatever session the object has by now.                                 *)
PostMessage(q) ==
  /\ at[q] = "post"
  /\ at' = To(at, q, "message")
  /\ sentTo' = To(sentTo, q, ocSessionID[Obj(q)])
  /\ poller' = To(poller, q, "idle")
  /\ UNCHANGED <<providerVars, sessionVars, failed, ctxDone, listed, handling, put, permVars>>

AskPermission(q) ==
  /\ at[q] = "message" /\ sentTo[q] # 0 /\ server = "up"
  /\ requested[q] < Asks[q]
  /\ requested' = To(requested, q, requested[q] + 1)
  /\ pending' = pending \cup {<<q, requested[q] + 1>>}
  /\ UNCHANGED <<providerVars, sessionVars, promptVars, pollerVars>>

MessageReturns(q) ==
  /\ at[q] = "message" /\ sentTo[q] # 0 /\ server = "up"
  /\ \A p \in pending : p[1] # q
  /\ at' = To(at, q, "parse")
  /\ UNCHANGED <<providerVars, sessionVars, sentTo, failed, ctxDone, pollerVars, permVars>>

MessageFails(q) ==
  /\ at[q] = "message"
  /\ at' = To(at, q, "returned") /\ failed' = To(failed, q, TRUE)
  /\ UNCHANGED <<providerVars, sessionVars, sentTo, ctxDone, pollerVars, permVars>>

(* parseMessageResponse reports the tool calls of the response; then the   *)
(* poller is told to stop, and queryToolCalls reports those of all         *)
(* messages of the object's present session.                               *)
ReportsTools(q) == at[q] \in {"parse", "tools"}

QueryToolCalls(q) ==
  /\ at[q] = "parse"
  /\ at' = To(at, q, IF ocSessionID[Obj(q)] = 0 THEN "returned" ELSE "tools")
  /\ UNCHANGED <<providerVars, sessionVars, sentTo, failed, ctxDone, pollerVars, permVars>>

PromptReturns(q) ==
  /\ at[q] = "tools"
  /\ at' = To(at, q, "returned")
  /\ UNCHANGED <<providerVars, sessionVars, sentTo, failed, ctxDone, pollerVars, permVars>>

(* memory_reset; nothing keeps it from a running prompt. *)
Reset(o) ==
  /\ ocSessionID[o] # 0
  /\ ocSessionID' = To(ocSessionID, o, 0)
  /\ repliedPerms' = To(repliedPerms, o, {})
  /\ UNCHANGED <<created, providerVars, promptVars, pollerVars, permVars>>

(* signal_done, /stop, a user message during a background turn: the        *)
(* prompt, on a context of its own, goes on.                               *)
Cancel(q) ==
  /\ ctxDone' = To(ctxDone, q, TRUE)
  /\ UNCHANGED <<providerVars, sessionVars, at, sentTo, failed, pollerVars, permVars>>

-----------------------------------------------------------------------------
(* permissionPoller.                                                       *)

AlsoCancelled(q) == at[q] \in {"tools", "returned"} \/ ctxDone[q]   \* variant: shared context
MayStop(q) == at[q] \in {"tools", "returned"}

PollerStops(q) ==
  /\ poller[q] = "idle" /\ MayStop(q)
  /\ poller' = To(poller, q, "off")
  /\ UNCHANGED <<providerVars, sessionVars, promptVars, listed, handling, put, permVars>>

(* A tick and the end of the prompt may race; the request fails once the   *)
(* prompt's context is cancelled.                                          *)
Poll(q) ==
  /\ poller[q] = "idle" /\ at[q] # "returned" /\ server = "up"
  /\ listed' = To(listed, q, {p \in pending : sentTo[p[1]] = ocSessionID[Obj(q)]})
  /\ listed'[q] # {}
  /\ poller' = To(poller, q, "listed")
  /\ UNCHANGED <<providerVars, sessionVars, promptVars, handling, put, permVars>>

NoMark(q, p) == UNCHANGED repliedPerms         \* variant: not remembered
Mark(q, p) ==
  repliedPerms' = To(repliedPerms, Obj(q), repliedPerms[Obj(q)] \cup {p})

(* The next one that was not put to a handler yet, in whatever order the   *)
(* server lists them.                                                      *)
Take(q, p) ==
  /\ poller[q] = "listed" /\ p \in listed[q]
  /\ listed' = To(listed, q, listed[q] \ {p})
  /\ p \notin repliedPerms[Obj(q)]
  /\ Mark(q, p)
  /\ handling' = To(handling, q, p)
  /\ put' = To(put, p, put[p] + 1)
  /\ poller' = To(poller, q, "handler")
  /\ UNCHANGED <<ocSessionID, created, providerVars, promptVars, permVars>>

PassOver(q) ==
  /\ poller[q] = "listed"
  /\ listed' = To(listed, q, listed[q] \ repliedPerms[Obj(q)])
  /\ listed'[q] = {}
  /\ poller' = To(poller, q, "idle")
  /\ UNCHANGED <<providerVars, sessionVars, promptVars, handling, put, permVars>>

HandlerReturns(q) ==
  /\ poller[q] = "handler"
  /\ poller' = To(poller, q, "reply")
  /\ UNCHANGED <<providerVars, sessionVars, promptVars, listed, handling, put, permVars>>

(* Both endpoints may fail; the permission then stays pending for ever.    *)
ReplyPermission(q) ==
  /\ poller[q] = "reply"
  /\ \/ pending' = pending \ {handling[q]} /\ at[q] # "returned" /\ server = "up"
     \/ UNCHANGED pending
  /\ handling' = To(handling, q, <<>>)
  /\ poller' = To(poller, q, "listed")
  /\ UNCHANGED <<providerVars, sessionVars, promptVars, listed, put, requested>>

PollerStep(q) ==
  \/ PollerStops(q) \/ Poll(q) \/ PassOver(q) \/ ReplyPermission(q)

Serving(o) == NewSession(o) \/ Probe(o) \/ Launch(o) \/ AwaitHealth(o)

Prompting(q) ==
  \/ SendPrompt(q) \/ CreateSession(q) \/ CreateFails(q) \/ PostMessage(q)
  \/ AskPermission(q) \/ MessageReturns(q) \/ MessageFails(q)

-----------------------------------------------------------------------------
(* However prompts, pollers and new sessions of one object overlap, a      *)
(* permission is put to a handler at most once (repliedPerms, line 392),   *)
(* also when the reply to it failed and the server goes on listing it.     *)
(* Except: createSession and Reset forget what was replied to, and a       *)
(* poller that had fetched its list before asks about the old session's    *)
(* permissions again.                                                      *)
PutOnce ==
  \A p \in Permission : put[p] > 1 => sentTo[p[1]] # ocSessionID[Obj(p[1])]
=============================================================================
