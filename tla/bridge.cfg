SPECIFICATION FairSpec
CONSTANTS
  N = N  F1 = F1
  Kinds = {"c", "mp", "js"}
  Near = N  Far = {F1}
  Big = {N}
  Saturated = Saturated
  FirstSize = 8  LowSize = 4  Step = 1  BufSize = 11  Rounds = 2
  WriteSets <- Sets
  MaxUnread = 2  MaxBacklog = 1  MaxFaults = 1
INVARIANTS TypeOK WholeOnly ListOnce NamedFirst
PROPERTIES ComesBack
CHECK_DEADLOCK FALSE
