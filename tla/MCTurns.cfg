\* Two requests of any kind, overlapping or one after the other.
SPECIFICATION FairSpec
CONSTANTS
  Requests = {r1, r2}
  Kinds <- AllKinds
  Payloads <- Questions
  Reinterrupts = TRUE
  MaxMessages = 12
  NoRequest = NoRequest
  Dropped = Dropped
INVARIANTS
  EndsWithOutcome
  NothingAfterClosing
  FailedRunsLeaveNothing
  AnswersFollowQuestions
PROPERTIES
  AllServed
