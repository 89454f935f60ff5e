SPECIFICATION LanesSpec
CONSTANTS
  w1 = w1  w2 = w2  e1 = e1  r1 = r1  x1 = x1
  WoKeys = {w1, w2}
  EscKeys = {e1}
  RemKeys = {r1}
  StrayKeys = {x1}
  Promotion <- MCPromotion
  WatchdogEsc <- MCWatchdogEsc
  Served = {"esc", "wo", "rem"}
  Requeued = {w1, w2, e1}
  ReapMax = 1
  DigestOn = FALSE
  MaxAge = 2
  MaxFaults = 1
  MaxBeats = 1
SYMMETRY WoSymmetry
INVARIANTS SingleFlight SpawnFindsNoWindow
PROPERTIES SweepsSpareWorking EscVerdictStands
CHECK_DEADLOCK FALSE
