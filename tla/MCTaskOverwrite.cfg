\* The last event of a stream and the disconnect of its client.
SPECIFICATION Spec
CONSTANTS
  s1 = s1
  s2 = s2
  k1 = k1
  k2 = k2
  Creator = Creator
  Nobody = Nobody
  Streams = {s1}
  Confirms = {}
  MaxBeats = 0
  MaxCrashes = 0
PROPERTIES
  TerminalIsFinal
