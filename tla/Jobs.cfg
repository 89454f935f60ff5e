SPECIFICATION MCSpec
CONSTANTS
  Jobs = {j1, j2}
  Capacity = 1
  MaxFaults = 2
  Deliveries = {d1, d2}
  Asks = {a1, a2}
  Files = 2
  MaxKills = 1
  Runs = {r1}
  Kinds = {"live", "diagnostic"}
  Others = {x1}
  None = None
  Readers = {w1, w2}
  ReadStreams = 2
  ReorderWindow = 3
  Count = 5
  Objects = {o1, o2}
  MaxTouches = 1
  MaxCrashes = 1
  Vid = {v1, v2}
  Aud = {j1}
  Foreign = {f1}
  MaxDeaths = 1
  Pids = {p1, p2}
  Editors = {c1, c2}
  MaxStart = 4
  Commands = {d1, d2}
  Required = {"CI"}
  Targets = 1
  MaxPushes = 1
  MaxReruns = 1
  g1 = g1
  h1 = h1
  m1 = m1
  m2 = m2
  Callers = {c1}
  Discovery <- MCDiscovery
  Routes = {m1, m2}
  Allowed = {m1, m2}
  Covered = {m2}
  Heads = {h1}
  RouteOf <- MCRouteOf
  Plans <- MCPlans
  Guard = 1
  Budget = 1
  Grants = {g1}
  Expiry <- MCExpiry
  MaxNow = 3
  MaxLag = 1
  MaxBlockers = 1
  LedgerFaults = 1
INVARIANTS DeliveredWhole LateUndoesNothing WorkIsWanted OneAtATime
PROPERTIES OnlyOwn AsAuthorised IsJobService JobsEnd
CHECK_DEADLOCK FALSE
