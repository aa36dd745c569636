SPECIFICATION FairSpec
CONSTANTS
  A = A  B = B  C = C  D = D  E = E
  Node <- Five
  Nets <- Some
  EntryLen <- Ten
  W = 40  Accuracy = 6  SmallStep = 6  MinDelay = 1  MaxDelay = 2
  Clocks <- TwoTimes
  Measured <- InPair  Moments = {0, 28, 37}
  Views <- Settled
  MaxFaults = 1  MaxSlow = 1  MaxProbes = 1
INVARIANTS TypeOK QuietAgrees DelayReal
CHECK_DEADLOCK FALSE
PROPERTY WaveEnds Converges
