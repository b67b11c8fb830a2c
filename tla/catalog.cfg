SPECIFICATION FairSpec
CONSTANTS
  dog = dog
  cat = cat
  word = word
  d1 = d1
  d2 = d2
  c1 = c1
  n1 = n1
  Items <- MCItems
  Types = {dog, cat}
  Words = {word}
  Blank = Blank
  TypeOf <- MCTypeOf
  WordsIn <- MCWordsIn
  Snapshots <- MCSnapshots
  Kinds = {"list", "handbook", "training"}
  MaxTimers = 2
  Environments <- MCEnvironments
INVARIANTS
  RowsInRange
  CategoryRespected
  BlankSearchShowsAll
  TapOpensShown
PROPERTIES
  LoadingEnds
\* A handbook or training screen whose query failed stays covered.
CHECK_DEADLOCK FALSE
