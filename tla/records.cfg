SPECIFICATION FairSpec
CONSTANTS
  Kinds = {"pets", "health"}
  Me = me
  Foreign = {other}
  MaxTaps = 4
  MaxVisits = 3
INVARIANTS
  TypeOK
  NoSavedPetMissing
PROPERTIES
  LoadingEnds
