SPECIFICATION FairSpec
CONSTANTS
  s1 = s1
  s2 = s2
  Species = {s1, s2}
  MaxInserts = 3
  MaxPending = 2
  Environments <- MCEnvironments
INVARIANTS
  HomeStripFresh
  UniqueSpecies
  HeartTruthful
  BackgroundIsDurable
  GridMatchesDataSource
PROPERTIES
  ImplementsDurableFavorites
  SnapshotSettles
