SPECIFICATION FairSpec
CONSTANTS
  f = f  p = p
  Flux = {f}
  Pods = {p}
  Grace = 1
  Repage = 2
  Ttl = 1
  RunSpan = 1
  MaxFaults = 1
PROPERTIES SummonIsClaimed ClaimIsKept PodPageIsEarned TroubleIsAnswered
CHECK_DEADLOCK FALSE
