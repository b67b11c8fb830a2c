SPECIFICATION FairSpec
CONSTANTS
  Gets = {g1, g2}
  Queries = {q, r}
  Refusable = {r}
  MaxInbox = 1
  MaxFaults = 1
INVARIANTS
  AnsweredOnce
  ListenersAreWatched
  TimerOnlyWhileUnknown
  IdleOnlyWhenDone
  GetsInHand
PROPERTIES
  CurrentByOwnListen
  GetsAnswered
CHECK_DEADLOCK FALSE
