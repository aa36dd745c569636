SPECIFICATION FairSpec
CONSTANTS
  a1 = a1  a2 = a2  a3 = a3  c1 = c1  c2 = c2
  AppMsgs <- MCApp2
  CtlMsgs <- MCCtl1
  Tick = tick
  Size <- MCSize
  MSS = 3
  SndBuf = 4
  MaxQueue = 2
  MaxFail = 1
  CallbackTask = "loop"
  TracksClean = TRUE
  OutputMayFail = FALSE
INVARIANTS TypeOK WholeMessages OrderKept ExactlyOnce ListOpsDefined IInv
PROPERTIES ChannelSpec EventuallyHandled
CHECK_DEADLOCK FALSE
