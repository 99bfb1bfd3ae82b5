----------------------------- MODULE DiscordSense -----------------------------
(***************************************************************************)
(* The Discord sense (internal/senses/discord.go): what it takes from the  *)
(* gateway sessions it listens to, what it believes about the connection,  *)
(* and the health monitor that replaces the session after a prolonged      *)
(* outage.  A session of the library redials by itself when its connection *)
(* is lost, also after another one has taken its place, and calls the      *)
(* handlers in goroutines of their own.                                    *)
(***************************************************************************)
EXTENDS Naturals, FiniteSets

CONSTANTS
  Session,      \* bound: the gateway sessions that can exist at a time
  First,        \* the one made at start-up
  MaxDown,      \* maxDisconnectDur, in checks of the health monitor
  MaxDrops,     \* bound: connections lost
  Message,      \* what is written to Discord while the program runs
  Kind          \* "chat", "own", "elsewhere", "command text", or the slash commands
                \*   "stop", "debug", "slash" and "stranger's"

ASSUME SenseConstants == First \in Session /\ MaxDown \in Nat \ {0} /\ MaxDrops \in Nat

VARIABLES
  session,    \* d.session
  open,       \* the sessions that have a connection
  redialling, \* those whose library is trying to get one again
  events,     \* Connect, Resumed and Disconnect handlers that have yet to run
  connected,  \* d.connected
  downFor,    \* checks since d.lastDisconnected, up to MaxDown
  drops,
  abandoned,  \* sessions that were redialling when a hard reset replaced them
  coming,     \* messages on their way, each to a session
  handed      \* those that were handed to processInboxMessage

senseVars == <<session, open, redialling, events, connected, downFor, drops, abandoned, coming, handed>>
messageVars == <<coming, handed>>
linkVars == <<open, redialling, events>>

SenseInit ==
  /\ session = First /\ open = {First} /\ redialling = {} /\ events = {<<First, "connect">>}
  /\ connected = TRUE /\ downFor = 0 /\ drops = 0 /\ abandoned = {}
  /\ coming = {} /\ handed = {}

-----------------------------------------------------------------------------
(* The library.                                                            *)
Drop(s) ==
  /\ s \in open /\ drops < MaxDrops
  /\ drops' = drops + 1
  /\ open' = open \ {s} /\ redialling' = redialling \cup {s}
  /\ events' = events \cup {<<s, "disconnect">>}
  /\ UNCHANGED <<session, connected, downFor, abandoned, messageVars>>

Redial(s) ==
  /\ s \in redialling
  /\ redialling' = redialling \ {s} /\ open' = open \cup {s}
  /\ events' = events \cup {<<s, "connect">>}
  /\ UNCHANGED <<session, connected, downFor, drops, abandoned, messageVars>>

(* handleConnect, handleResumed and handleDisconnect do not look at which  *)
(* session called them.                                                    *)
HandleEvent(e) ==
  /\ e \in events
  /\ events' = events \ {e}
  /\ connected' = (e[2] = "connect")
  /\ downFor' = IF e[2] = "disconnect" THEN 0 ELSE downFor
  /\ UNCHANGED <<session, open, redialling, drops, abandoned, messageVars>>

-----------------------------------------------------------------------------
(* The health monitor.  *)
KeepOpen == open     \* variant
Closed == open \ {session}
Free == Session \ (open \cup redialling \cup {e[1] : e \in events} \cup {session})

(* Closing a session tells the handlers, connected or not: before the new  *)
(* one has opened or failed to, or later.                                  *)
ClosedEvent == {<<session, "disconnect">>}

CloseTells(others) ==
  \/ events' = events \cup ClosedEvent \cup others /\ UNCHANGED downFor
  \/ events' = events \cup others /\ downFor' = 0

Replace(s) ==
  /\ session' = s /\ connected' = TRUE
  /\ open' = Closed \cup {s}
  /\ CloseTells({<<s, "connect">>})
  /\ abandoned' = abandoned \cup (redialling \cap {session})

BelieveIt == connected' = TRUE     \* variant: the state is updated before Open
GiveUp == connected' = connected

(* The old session is closed whether or not the new one opens.             *)
CannotOpen ==
  /\ GiveUp
  /\ open' = Closed
  /\ CloseTells({})
  /\ UNCHANGED <<session, abandoned>>

(* Handlers run well within a tick of the monitor.                         *)
AtTick == events = {}
Outage == AtTick /\ ~connected /\ downFor >= MaxDown
HardReset == Outage /\ \E s \in Free : Replace(s) /\ UNCHANGED <<redialling, drops, messageVars>>
ResetFails == Outage /\ CannotOpen /\ UNCHANGED <<redialling, drops, messageVars>>

HealthCheck ==
  /\ AtTick /\ ~connected /\ downFor < MaxDown
  /\ downFor' = downFor + 1
  /\ UNCHANGED <<session, linkVars, connected, drops, abandoned, messageVars>>

-----------------------------------------------------------------------------
(* A message goes to every session that has a connection, and may be       *)
(* replayed to one that gets its connection back.                          *)
Unwritten(m) == \A s \in Session : <<m, s>> \notin coming \cup handed
Write(m) ==
  /\ Unwritten(m)
  /\ \E R \in SUBSET (open \cup redialling) : R # {} /\ open \subseteq R /\ coming' = coming \cup ({m} \X R)
  /\ UNCHANGED <<session, linkVars, connected, downFor, drops, abandoned, handed>>

(* handleMessage drops the bot's own messages, those of other channels and *)
(* the text of slash commands; handleInteraction answers a stranger, /stop *)
(* and /debug-executive itself, and gives up on a command that it cannot   *)
(* acknowledge in time.                                                    *)
HandleMessage(m) == Kind[m] = "chat"
HandleInteraction(m) == Kind[m] = "slash"

Arrives(m, s) ==
  /\ s \in open /\ <<m, s>> \in coming
  /\ coming' = coming \ {<<m, s>>}
  /\ UNCHANGED <<session, linkVars, connected, downFor, drops, abandoned>>

HandsOver(m, s) == Arrives(m, s) /\ (HandleMessage(m) \/ HandleInteraction(m)) /\ handed' = handed \cup {<<m, s>>}
Drops(m, s) == Arrives(m, s) /\ ~HandleMessage(m) /\ handed' = handed

(* The program stops, and later opens its first session again.             *)
StopSense ==
  /\ session' = First /\ open' = {} /\ redialling' = {} /\ events' = {} /\ coming' = {}
  /\ connected' = TRUE /\ downFor' = 0
  /\ UNCHANGED <<drops, abandoned, handed>>

Start ==
  /\ open' = {First} /\ events' = {<<First, "connect">>}
  /\ UNCHANGED <<session, redialling, connected, downFor, drops, abandoned, messageVars>>

Sense ==
  \/ \E s \in Session : Drop(s) \/ Redial(s)
  \/ \E e \in events : HandleEvent(e)
  \/ HardReset \/ ResetFails \/ HealthCheck
  \/ \E m \in Message : Write(m) \/ \E s \in Session : Drops(m, s)

-----------------------------------------------------------------------------
(* No message is handed over twice, unless a reset has replaced a session  *)
(* that was redialling, which nothing can close: when that one gets its    *)
(* connection back both of them listen.                                    *)
HandedOverOnce == \A m \in Message : Cardinality({s \in Session : <<m, s>> \in handed}) <= 1 \/ abandoned # {}

(* When the program believes it has no connection, and no event says       *)
(* otherwise, its session gets one again, whatever becomes of the one it   *)
(* had and also when nothing but the health monitor acts, provided Discord *)
(* does not refuse new sessions for ever: unless a reset has left a        *)
(* redialling session behind, whose events are taken for the new one's.    *)
ConnectionRecovers == (~connected /\ events = {}) ~> (session \in open \/ abandoned # {})
=============================================================================
