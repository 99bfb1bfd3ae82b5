SPECIFICATION QueueSpec
CONSTANTS
  alarm = alarm
  msg = msg
  due = due
  wakeA = wakeA
  wakeB = wakeB
  Item <- MCItem
  Priority <- MCPriority
  Salience <- MCSalience
  MaxSize = 2
PROPERTIES
  KeepsPromise
CHECK_DEADLOCK FALSE
