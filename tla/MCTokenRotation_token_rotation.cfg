SPECIFICATION FairSpec
CONSTANTS
  h1 = h1
  h2 = h2
  NoToken = NoToken
  Handler <- TwoHandlers
  MaxRotations = 3
  Patient = TRUE
INVARIANTS
  TypeOK
  NotLockedOut
  HeartbeatAccepted
PROPERTIES
  RotationCompletes
  ImplementsHandover
