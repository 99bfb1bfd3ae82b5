SPECIFICATION PromptsSpec
CONSTANTS
  msgA = msgA
  msgB = msgB
  ok = ok
  due = due
  wake = wake
  Item <- MCItem
  Priority <- MCPriority
  Salience <- MCSalience
  WakeItem <- MCWake
  MinimalItem <- MCMinimal
  MaxSize = 3
  FullCount = 1
  C32Count = 1
  C8Count = 1
  FetchLimit = 4
  TokenBudget = 7
  WakeLimit = 3
  WakeBudget = 5
  Logs <- MCLogs
  MaxNotes = 2
  MaxRestarts = 1
CHECK_DEADLOCK FALSE
CONSTRAINT Scenarios
SYMMETRY Messages
INVARIANTS
  NotesReachPrompts
  ConversationHasNoHoles
PROPERTIES
  SilentOnlyIfMasked
  FallbackAfterAnswerOnlyIfStolen
