SPECIFICATION FairSpec
CONSTANTS
  h1 = h1
  h2 = h2
  Handler = {h1, h2}
  Report <- AllReports
  MaxBeats = 2
INVARIANTS
  TypeOK
  ReadyAgrees
PROPERTIES
  SilenceUnpublished
  SliceFollowsStatus
  ImplementsRegister
CHECK_DEADLOCK FALSE
