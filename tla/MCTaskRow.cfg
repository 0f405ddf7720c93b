\* A stream and a confirm on one task, one beat.
SPECIFICATION Spec
CONSTANTS
  s1 = s1
  s2 = s2
  k1 = k1
  k2 = k2
  Creator = Creator
  Nobody = Nobody
  Streams = {s1}
  Confirms = {k1}
  MaxBeats = 1
  MaxCrashes = 0
INVARIANTS
  TypeOK
  CanonicalFields
  AnswerStored
