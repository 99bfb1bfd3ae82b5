SPECIFICATION Spec
CONSTANTS
  msgA = msgA
  due = due
  wake = wake
  Item <- MCPair
  Priority <- MCPriority
  Salience <- MCSalience
  WakeItem <- MCWake
  MaxSize = 3
CHECK_DEADLOCK FALSE
INVARIANTS
  RunningSessionCancellable
