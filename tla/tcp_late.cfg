SPECIFICATION Spec
CONSTANTS
  QueueLen = 2  Segments = 2  Window = 2
  MaxWrites = 1  MaxFail = 1
  OpSets <- AllOps
  SizeMax = 4  Garbage <- Zero
INVARIANTS NothingLate
CHECK_DEADLOCK FALSE
