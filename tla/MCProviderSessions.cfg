SPECIFICATION ProviderSpec
CONSTANTS
  p1 = p1
  bg = bg
  a = a
  b = b
  exec = exec
  ofExec = ofExec
  ofAgents = ofAgents
  Provider <- MCProvider
  ProviderOf <- MCProviderOf
  Session <- MCSession
  Turn <- MCTurn
  Prompter <- MCPrompter
  Object <- MCObject
  ObjectOf <- MCObjectOf
  Asks <- MCAsks
  Questions <- MCQuestions
  Thoughts <- MCThoughts
  NotifySize = 1
CHECK_DEADLOCK FALSE
CONSTRAINT Scenarios
INVARIANTS
  PutOnce
PROPERTIES
  PermissionsServed
  FinalChangedOnlyByPoller
