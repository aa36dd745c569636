SPECIFICATION FairSpec
CONSTANTS
  A = A  B = B  C = C
  Node <- Pair
  None = none
  Off = off
  InRange <- BothWays
  MaxLinks <- OneOfPair
  MaxFaults = 1
  Backlog = FALSE
  AppMsg <- NoMsg
INVARIANT OnePerNeighbour
PROPERTIES HandledKept Converges
CHECK_DEADLOCK FALSE
