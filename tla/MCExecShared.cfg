\* A call and a stream on one session, a call on another, one permit.
SPECIFICATION Spec
CONSTANTS
  c1 = c1
  c2 = c2
  s1 = s1
  A = A
  B = B
  NoRun = NoRun
  Runs = {c1, c2, s1}
  Streams = {s1}
  Sessions = {A, B}
  SessionOf <- SharedSession
  MaxActiveRuns = 1
  StreamBufferSize = 1
  MaxItems = 2
INVARIANTS
  PermitAccounting
  TypeOK
  NodeChecksOwnRun
  OutcomeAfterRelease
  CompleteDelivery
  ReportedReason
PROPERTIES
  ImplementsRunAdmission
