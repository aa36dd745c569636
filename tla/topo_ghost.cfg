SPECIFICATION Spec
CONSTANTS
  A = A  B = B  C = C
  Node <- Trio
  None = none
  Off = off
  InRange <- Line
  MaxLinks <- NotA
  MaxFaults = 1
  Backlog = FALSE
  AppMsg <- NoMsg
INVARIANTS NoGhosts
CHECK_DEADLOCK FALSE
