SPECIFICATION Spec
CONSTANTS
  A = A  B = B  C = C
  Node <- Trio
  None = none
  Off = off
  InRange <- Line
  MaxLinks <- NotA
  MaxFaults = 0
  Backlog = TRUE
  AppMsg <- LineMsgs
INVARIANT ToldToAll
CHECK_DEADLOCK FALSE
