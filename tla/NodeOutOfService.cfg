SPECIFICATION DatedSpec
CONSTANTS
  LastYear = 2104
  m1 = m1
  n1 = n1
  Nodes = {m1, n1}
  Masters = {m1}
  Threshold = 0
  CpThreshold = 1
  Settle = 1
  MaxUnready = 1
  JobSpan = 1
  Labelled = {n1}
  MaxAge = 3
  MaxFaults = 1
INVARIANTS DaysMatch
PROPERTIES TaintIsJustified UntaintIsSettled TaintFollowsNode
CHECK_DEADLOCK FALSE
