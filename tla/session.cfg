SPECIFICATION FairSpec
CONSTANTS
  a = a
  b = b
  c = c
  Users = {a, b, c}
  None = None
  Environments <- MCEnvironments
INVARIANTS
  TabsHaveUser
  ProfileIsSignedInUser
PROPERTIES
  OverlayClears
