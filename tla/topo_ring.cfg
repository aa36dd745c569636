SPECIFICATION FairSpec
CONSTANTS
  A = A  B = B  C = C
  Node <- Trio
  None = none
  Off = off
  InRange <- Ring
  MaxLinks <- OneEach
  MaxFaults = 0
  Backlog = FALSE
  AppMsg <- NoMsg
INVARIANTS NoGhosts
PROPERTY Converges
CHECK_DEADLOCK FALSE
