SPECIFICATION SessionSpec
CONSTANTS
  msgA = msgA
  msgB = msgB
  msgC = msgC
  wake = wake
  Item <- MCItem
  Priority <- MCPriority
  Salience <- MCSalience
  WakeItem <- MCWake
  MaxSize = 4
CONSTRAINT Scenarios
SYMMETRY Messages
CHECK_DEADLOCK FALSE
INVARIANTS
  ForgottenOnlyByRestart
  SoundWhenAlone
