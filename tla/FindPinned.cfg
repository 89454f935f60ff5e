SPECIFICATION FairSpec
CONSTANTS
  w1 = w1  w2 = w2  e1 = e1  r1 = r1  x1 = x1
  WoKeys = {w1, w2}
  EscKeys = {}
  RemKeys = {}
  StrayKeys = {}
  Promotion <- MCPromotion
  WatchdogEsc <- MCWatchdogEsc
  Served = {"wo"}
  Requeued = {}
  ReapMax = 2
  DigestOn = FALSE
  MaxAge = 1
  MaxFaults = 0
  MaxBeats = 0
PROPERTIES QueuedIsServed
CHECK_DEADLOCK FALSE
