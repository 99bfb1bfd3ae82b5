SPECIFICATION Spec
CONSTANTS
  Thread <- MCThread
  Name <- MCNames
  Def <- MCDef
  Default <- MCDefault
  CapFile <- MCCapFile
  CapOwner <- MCCapOwner
  MaxDepth = 1
  MaxObject = 5
  MaxStamp = 2
  Extension <- MCExtension
  SystemDir <- MCSystemDir
  UserDir <- MCUserDir
  Behaviour <- MCBehaviour
  Kind <- MCKind
  Behaviours <- MCBehaviours
  Runs <- MCRuns
  Cron <- MCCron
  Disabled = {"d"}
  Calendar <- MCCalendar
  MaxHalf = 4
  Percept <- MCPercept
  Origin <- MCOrigin
  Slash <- MCSlash
  Data <- MCData
  Fits <- MCFits
  PatternFits <- MCPatternFits
  Invocation <- MCInvocation
  Invokes <- MCInvokes
  Create <- MCCreate
  MaxRestart = 1
CONSTRAINT Scenarios
INVARIANT DependenciesFirst
INVARIANT OneRunPerExtension
INVARIANT CountsKept
INVARIANT ScheduleKept
INVARIANT EscalationReachesExecutive
CHECK_DEADLOCK FALSE
PROPERTY WorkflowsEnd
