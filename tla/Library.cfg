SPECIFICATION MCSpec
CONSTANTS
  MaxFaults = 2
  r1 = r1
  p1 = p1
  p2 = p2
  p3 = p3
  Books = {1, 2}
  Author <- MCAuthor
  Title <- MCTitle
  Ambiguous = {}
  LibraryHolds = {}
  Stripping = TRUE
  Runs = {r1}
  MaxImports = 1
  EpubFaults = 1
  Paths = {p1, p2, p3}
  Bound = TRUE
  MaxActs = 2
  MaxRuns = 1
INVARIANTS NoOriginalLost RestoredAlone
PROPERTIES OnlyRedundantGoes LibraryEnds
CHECK_DEADLOCK FALSE
