\* Two confirms of one task; FastAPI need not answer.
SPECIFICATION ServiceFairSpec
CONSTANTS
  s1 = s1
  s2 = s2
  k1 = k1
  k2 = k2
  Creator = Creator
  Nobody = Nobody
  Streams = {}
  Confirms = {k1, k2}
  MaxBeats = 0
  MaxCrashes = 0
PROPERTIES
  EventuallySettled
  WorkersLetGo
