\* A confirm, one beat and one restart; FastAPI need not answer.
SPECIFICATION ServiceFairSpec
CONSTANTS
  s1 = s1
  s2 = s2
  k1 = k1
  k2 = k2
  Creator = Creator
  Nobody = Nobody
  Streams = {}
  Confirms = {k1}
  MaxBeats = 1
  MaxCrashes = 1
PROPERTIES
  EventuallySettled
