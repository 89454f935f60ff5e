SPECIFICATION Spec
CONSTANTS
  a1 = a1  a2 = a2  n1 = n1  s1 = s1  s2 = s2
  Alerts = {a1, a2}
  NameOf <- MCNameOf
  SpaceOf <- MCSpaceOf
  Storm = 2
  Cooldown = 2
  Ttl = 3
  MaxAge = 2
  Hour = 2
  MaxPages = 1
  RunSpan = 1
  MaxFaults = 1
INVARIANT PagesAreCapped
PROPERTIES OncePerIncident FlapGuard
CHECK_DEADLOCK FALSE
