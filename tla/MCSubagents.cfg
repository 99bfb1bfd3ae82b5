SPECIFICATION Spec
CONSTANTS
  a = a
  b = b
  Session = {a, b}
  Questions <- MCQuestions
  Thoughts <- MCThoughts
  NotifySize = 1
CONSTRAINT OneStopped
CHECK_DEADLOCK FALSE
INVARIANTS
  NoQuestionLost
  AnswersItsQuestion
  ReportedOnceAsIs
  SavedOnce
PROPERTIES
  FinalStatusStays
