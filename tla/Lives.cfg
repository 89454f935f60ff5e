SPECIFICATION LivesSpec
CONSTANTS
  w1 = w1  w2 = w2  e1 = e1  r1 = r1  x1 = x1  x2 = x2  x3 = x3
  WoKeys = {}
  EscKeys = {e1}
  RemKeys = {r1}
  StrayKeys = {}
  Promotion <- MCPromotion
  WatchdogEsc <- MCWatchdogEsc
  Served = {"rem"}
  Requeued = {}
  ReapMax = 1
  DigestOn = TRUE
  MaxAge = 3
  MaxFaults = 1
  MaxBeats = 1
INVARIANT NeverBlank
PROPERTIES OrdersEnd AlertIsClaimed
CHECK_DEADLOCK FALSE
