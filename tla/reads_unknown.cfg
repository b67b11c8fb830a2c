SPECIFICATION ClientFairSpec
CONSTANTS
  Gets = {g1, g2}
  Queries = {q}
  Refusable = {}
  MaxInbox = 2
  MaxFaults = 0
PROPERTY OnlineStateDecided
CHECK_DEADLOCK FALSE
