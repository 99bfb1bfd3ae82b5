SPECIFICATION Spec
CONSTANTS
  m1 = m1
  m2 = m2
  react = react
  ch = ch
  other = other
  Action <- MCAction
  Channel <- MCChannel
  Kind <- MCKind
  To <- MCTo
  Contents <- MCContents
  MaxLength = 5
  FenceRange = 2
  MaxMarks = 7
  MaxRetry = 4
  MaxBackoff = 2
  MaxSlashes = 1
  MaxTypers = 3
CHECK_DEADLOCK FALSE
CONSTRAINT Scenarios
INVARIANTS
  ActionsAccountedFor
  PrefixRepeatedOnlyByRetry
  ChunksFit
PROPERTIES
  OvertakenOnlyWhileRetrying
  EveryActionResolved
