SPECIFICATION FairSpec
CONSTANTS
  Users = {a, b}
  NoUser = nobody
  Failed = failed
  MaxChanges = 2
  MaxTurns = 1
INVARIANTS
  TokenIsOfItsUser
  OpenStreamSpeaksForUser
  ResumeFindsStarting
  WritesOwnedBySignedIn
PROPERTY
  StartingEnds
CHECK_DEADLOCK FALSE
