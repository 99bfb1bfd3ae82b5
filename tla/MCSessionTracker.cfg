SPECIFICATION TrackerSpec
CONSTANTS
  msgA = msgA
  wake = wake
  Item <- MCLanes
  Priority <- MCPriority
  Salience <- MCSalience
  WakeItem <- MCWake
  MaxSize = 3
  MaxDay = 1
CONSTRAINT FewIDs
CHECK_DEADLOCK FALSE
INVARIANTS
  RecordsKept
PROPERTY
  RecordedUnlessOverlapped
