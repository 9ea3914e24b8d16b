SPECIFICATION QuerySpec
CONSTANTS
  Radix = 2
  IdBytes = 2
  Addresses <- MCAddresses
  Times = {1}
  DayLength = 2
  MaxBidAmounts = {1}
  MaxAuctions = 2
  MaxBids = 2
  MaxKeys = 11
  Limit = 1
  Clients <- MCClients
INVARIANTS
  IterationsAgree
  WalkIsExact
CHECK_DEADLOCK FALSE
