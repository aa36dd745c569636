SPECIFICATION Spec
CONSTANTS
  QueueLen = 2  Segments = 3  Window = 3
  MaxWrites = 1  MaxFail = 0
  OpSets <- Quiet
  SizeMax = 4  Garbage <- Zero
INVARIANTS NotStuck
CHECK_DEADLOCK FALSE
