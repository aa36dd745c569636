SPECIFICATION Spec
CONSTANTS
  QueueLen = 2  Segments = 2  Window = 2
  MaxWrites = 1  MaxFail = 1
  OpSets <- Both
  SizeMax = 4  Garbage <- Zero
INVARIANTS ToldOnceByAll
CHECK_DEADLOCK FALSE
