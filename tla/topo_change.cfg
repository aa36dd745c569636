SPECIFICATION Spec
CONSTANTS
  A = A  B = B  C = C
  Node <- Trio
  None = none
  Off = off
  InRange <- Star
  MaxLinks <- NotA
  MaxFaults = 0
  Backlog = FALSE
  AppMsg <- NoMsg
PROPERTY ChangesSignalled
CHECK_DEADLOCK FALSE
