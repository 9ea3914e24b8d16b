SPECIFICATION Spec
CONSTANTS
  alice = alice
  bob = bob
  carol = carol
  ONE = 10
  Users <- MCUsers
  Denoms <- MCDenoms
  InitialBalance <- FixedBalance
  CreateMsgs <- FixedMsgs
  Prices <- FixedPrices
  Amounts <- FixedAmounts
  AllowedBidderLists <- FixedLists
  MaxBidAmounts = {1}
  Transfers = {3}
  AuctionCreationFee <- OneCoinFee
  PlaceBidFee <- OneCoinFee
  ExtendedPeriods = {0, 1}
  MaxNumVestingSchedules = 2
  MaxExtendedRound = 2
  MaxAuctions = 1
  MaxBids = 3
  MaxTime = 4
INVARIANTS
  TypeOK
  FixedPriceNeverOversold
  ReservesCoverObligations
  VestingInOrder
  BeginBlockerNeverPanics
