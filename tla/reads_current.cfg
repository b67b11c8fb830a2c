SPECIFICATION FairSpec
CONSTANTS
  Gets = {g1, g2}
  Queries = {q}
  Refusable = {}
  MaxInbox = 1
  MaxFaults = 0
PROPERTY SyncedByOwnListen
CHECK_DEADLOCK FALSE
