SPECIFICATION FairSpec
CONSTANTS
  A = A  B = B  C = C
  Node <- Pair
  None = none
  Off = off
  InRange <- BothWays
  MaxLinks <- TwoForB
  MaxFaults = 1
  Backlog = FALSE
  AppMsg <- NoMsg
INVARIANTS TypeOK OnePerNeighbour
PROPERTY Converges
CHECK_DEADLOCK FALSE
