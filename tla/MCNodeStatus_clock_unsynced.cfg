SPECIFICATION Spec
CONSTANTS
  h1 = h1
  h2 = h2
  Handler = {h1}
  Report <- AllReports
  MaxBeats = 1
INVARIANTS
  UnsyncedNeverReady
CHECK_DEADLOCK FALSE
