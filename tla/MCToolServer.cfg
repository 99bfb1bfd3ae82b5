SPECIFICATION Spec
CONSTANTS
  Call <- MCCall
  Caller <- MCCaller
  Cleaner <- MCCleaner
  Method <- MCMethod
  Explicit <- MCExplicit
  Token <- MCToken
  SessionDomain <- MCSessionDomain
  DBPath <- MCDBPath
  MaxClients = 3
CHECK_DEADLOCK FALSE
CONSTRAINT Scenarios
INVARIANTS
  OneProcessPerDatabase
  AnswersBelong
PROPERTIES
  CallsEndUnlessHung
