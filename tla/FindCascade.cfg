SPECIFICATION Spec
CONSTANTS
  None = None
  b2 = b2
  b3 = b3
  a1 = a1
  a2 = a2
  f1 = f1
  Ids = {b2, b3}
  Authors = {a1, a2}
  Files = {f1}
  Title <- MCTitle
  WrittenBy <- MCWrittenBy
  IdOf <- MCIdOf
  Tree <- MCTree
  Hidden = {}
  Known = {}
  Held = {b2, b3}
  HeldBy <- MCHeldBy
  Unlinked = {}
  Unknown = {a2}
  Partial = {}
  MaxAdds = 0
  MaxMoves = 0
  MaxCrashes = 0
PROPERTIES ScanKeepsOwners
CHECK_DEADLOCK FALSE
