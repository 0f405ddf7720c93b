\* A call and a stream on one session, a fair event loop; fair threads only where said.
SPECIFICATION CallerFairSpec
CONSTANTS
  c1 = c1
  c2 = c2
  s1 = s1
  A = A
  B = B
  NoRun = NoRun
  Runs = {c1, s1}
  Streams = {s1}
  Sessions = {A}
  SessionOf <- CallAndStream
  MaxActiveRuns = 1
  StreamBufferSize = 1
  MaxItems = 2
PROPERTIES
  CallersSettle
  StartedRunsRelease
