SPECIFICATION Spec
CONSTANTS
  Radix = 2
  IdBytes = 2
  Addresses <- MCAddresses
  Times = {1, 2}
  DayLength = 2
  MaxBidAmounts = {1}
  MaxAuctions = 2
  MaxBids = 2
  MaxKeys = 10
INVARIANTS
  PrefixesAreExact
  IndexIsExact
PROPERTY
  ImplementsRecords
CHECK_DEADLOCK FALSE
