SPECIFICATION Spec
CONSTANTS
  A = A  B = B  C = C
  Node <- Pair
  None = none
  Off = off
  InRange <- BothWays
  MaxLinks <- OneOfPair
  MaxFaults = 0
  Backlog = FALSE
  AppMsg <- FromA
INVARIANTS NoEcho
CHECK_DEADLOCK FALSE
