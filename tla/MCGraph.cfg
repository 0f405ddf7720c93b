\* One thread of turns; a list of sub-questions is one or two long.
SPECIFICATION FairSpec
CONSTANTS
  Skills <- SomeSkills
  Iterations <- OneAndMany
  MinSub = 2
  MaxSub = 2
  MaxEdits = 1
  BaseEvidence = 1
  QaTopN = 2
  Threshold = 80
  Budget = 1
  RecursionLimit = 29
INVARIANTS
  TypeOK
  SearchesWhatWasDecided
  RefinementIsBounded
  EvidenceIsUsed
PROPERTIES
  RunsEnd
