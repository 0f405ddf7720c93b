\* One response, every thread.
SPECIFICATION FairSpec
INVARIANTS
  TypeOK
  OneEnding
  DisconnectIsReal
  NoOrphanUpstream
PROPERTIES
  DisconnectIsNoticed
