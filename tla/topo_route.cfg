SPECIFICATION FairSpec
CONSTANTS
  A = A  B = B  C = C
  Node <- Trio
  None = none
  Off = off
  InRange <- Either
  MaxLinks <- NotA
  MaxFaults = 0
  Backlog = TRUE
  AppMsg <- LineMsgs
INVARIANTS BroadcastOnce
PROPERTY SingleArrives
CHECK_DEADLOCK FALSE
