SPECIFICATION MCSpec
CONSTANTS
  None = None
  b1 = b1
  b2 = b2
  b3 = b3
  b4 = b4
  t1 = t1
  t2 = t2
  s1 = s1
  s2 = s2
  a1 = a1
  a2 = a2
  a3 = a3
  f1 = f1
  f2 = f2
  f3 = f3
  f4 = f4
  Books = {b1}
  Releases = {t1, t2}
  Torrents <- MCTorrents
  Offers <- MCOffers
  Poor = {}
  Searchers = {s1, s2}
  KeepSeeding = TRUE
  DestinationCopy = FALSE
  MaxEvents = 1
  Catalogues = {"scan", "scan again"}
  Ids = {b1, b2, b3, b4}
  Authors = {a1, a2, a3}
  Title <- MCTitle
  WrittenBy <- MCWrittenBy
  IdOf <- MCIdOf
  Unknown = {a3}
  Partial = {a3}
  MaxAdds = 1
  MaxCrashes = 1
  Files <- MCFiles
  Tree <- MCTree
  Hidden <- MCHidden
  Known <- MCKnown
  Held <- MCHeld
  HeldBy <- MCHeldBy
  Unlinked <- MCUnlinked
  MaxMoves <- MCMaxMoves
  Versions = {0, 60, 79}
  ReadBooks = {b1, b2, b3}
  KnownBooks = {b1, b2}
  Listed <- MCListed
  SeriesIds <- MCSeriesIds
  Source <- MCSource
  Members <- MCMembers
  MaxKills = 2
INVARIANTS RowsAgree RightFile
PROPERTIES NothingLost OwnersSpared UpgradeKeeps LazyLibrarianEnds
CHECK_DEADLOCK FALSE
