SPECIFICATION Spec
CONSTANTS
  A = A  B = B  C = C
  Node <- Trio
  None = none
  Off = off
  InRange <- Walk
  MaxLinks <- ThreeForC
  MaxFaults = 2
  Backlog = FALSE
  AppMsg <- NoMsg
INVARIANT OnePerNeighbour
CONSTRAINT OnTheWalk
ACTION_CONSTRAINT SetOut
CHECK_DEADLOCK FALSE
