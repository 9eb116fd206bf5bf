SPECIFICATION FairSpec
CONSTANTS
  w1 = w1
  w2 = w2
  Writer <- OneWriter
  Blank = Blank
  Size = 8
  ChunkSize = 3
  MaxAttempts = 3
INVARIANTS
  TypeOK
  SlotInOrder
  DoneIsStaged
PROPERTIES
  TransferEnds
