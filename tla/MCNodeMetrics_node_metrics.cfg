SPECIFICATION FairSpec
CONSTANTS
  h1 = h1
  h2 = h2
  w1 = w1
  w2 = w2
  c1 = c1
  NoWorkload = NoWorkload
  NoChip = NoChip
  NoLabels = NoLabels
  Handler = {h1, h2}
  Workload = {w1, w2}
  Chip = {c1}
  MaxBeats = 2
INVARIANTS
  TypeOK
  OneLabelSet
  SeriesAgree
  NoOrphans
PROPERTIES
  DeletionEnds
