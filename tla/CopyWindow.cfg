SPECIFICATION Spec
CONSTANTS
  a1 = a1  a2 = a2
  Apps = {a1, a2}
  Trigger = 1
  Ceiling = 2
  ArmLimit = 1
  Stale = 1
  MaxNow = 3
  MaxCrash = 1
  MaxDrop = 1
INVARIANTS WorkersAlone CeilingKept
PROPERTIES NoStalePause Restored
CHECK_DEADLOCK FALSE
