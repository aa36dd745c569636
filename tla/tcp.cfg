SPECIFICATION FairSpec
CONSTANTS
  QueueLen = 2  Segments = 2  Window = 2
  MaxWrites = 1  MaxFail = 1
  OpSets <- AllOps
  SizeMax = 4  Garbage <- One
INVARIANTS TypeOK DataInOrder WindowKept ToldOnce
PROPERTIES CloseCarriedOut EndTold
CHECK_DEADLOCK FALSE
