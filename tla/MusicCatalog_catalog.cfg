SPECIFICATION Spec
CONSTANTS
  main = main
  extra = extra
  album = album
  disc = disc
  loose = loose
  s1 = s1
  s2 = s2
  queen = queen
  Nobody = Nobody
  Told = Told
  NoFile = NoFile
  Roots <- TwoRoots
  WalkOf <- Walks
  DiscOf <- OneDisc
  Paths <- FourPaths
  Home <- HomeOf
  Songs <- TwoSongs
  Length <- SameLength
  Artist <- ByQueen
  Sure <- OnlyFirst
  MaxEvents = 2
INVARIANTS TypeOK RatingsStay
PROPERTIES HistoryKept VerdictsShown CatalogIsDisk
