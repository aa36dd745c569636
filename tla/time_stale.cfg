SPECIFICATION Spec
CONSTANTS
  A = A  B = B  C = C  D = D  E = E
  Node <- Five
  Nets <- OnlyLine
  EntryLen <- Ten
  W = 40  Accuracy = 6  SmallStep = 6  MinDelay = 1  MaxDelay = 2
  Clocks <- TwoTimes
  Measured <- Nobody  Moments = {}
  Views <- Unknown
  MaxFaults = 0  MaxSlow = 0  MaxProbes = 0
INVARIANT QuietAgrees
CHECK_DEADLOCK FALSE
