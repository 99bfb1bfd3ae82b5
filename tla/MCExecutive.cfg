SPECIFICATION FairSpec
CONSTANTS
  msgA = msgA
  due = due
  wake = wake
  Item <- MCItem
  Priority <- MCPriority
  Salience <- MCSalience
  WakeItem <- MCWake
  MaxSize = 1
CHECK_DEADLOCK FALSE
INVARIANTS
  NoLostWakeup
  OvertakenAtMostOnce
PROPERTIES
  EveryItemServed
