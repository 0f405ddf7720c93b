SPECIFICATION Spec
CONSTANTS
 Order <- Three
 Images <- Pngs
 Samples = "samples"
 Named <- Safe
 Versions = {1, 2}
 Pieces <- Shrinking
 Sids = {s1}
 Values = {1, 2}
 Texts = {hi, yo}
 Contents = {a, b, c}
 MaxMessages = 1
 MaxItems = 2
 Clock = 6
INVARIANTS AcknowledgedSurvives
PROPERTIES SourceStaysWhole MirrorOnlyLags FreshestKept
CONSTRAINT Bounds
