SPECIFICATION Spec
CONSTANTS
  a1 = a1  a2 = a2  a3 = a3  c1 = c1  c2 = c2
  AppMsgs <- MCApp2
  CtlMsgs <- MCCtl1
  Tick = tick
  Size <- MCSize
  MSS = 3
  SndBuf = 4
  MaxQueue = 1
  MaxFail = 1
  CallbackTask = "loop"
  TracksClean = FALSE
  OutputMayFail = FALSE
INVARIANT WholeMessages
CHECK_DEADLOCK FALSE
