\* A call cancelled before a thread takes its work item.
SPECIFICATION FairSpec
CONSTANTS
  c1 = c1
  c2 = c2
  s1 = s1
  A = A
  B = B
  NoRun = NoRun
  Runs = {c1, s1}
  Streams = {s1}
  Sessions = {A}
  SessionOf <- CallAndStream
  MaxActiveRuns = 1
  StreamBufferSize = 1
  MaxItems = 1
PROPERTIES
  SessionsAreReleased
