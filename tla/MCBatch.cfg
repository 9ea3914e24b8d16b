SPECIFICATION ChainSpec
CONSTANTS
  alice = alice
  bob = bob
  carol = carol
  ONE = 10
  Listeners = {"listener"}
  Users <- MCUsers
  Denoms <- MCDenoms
  InitialBalance <- BatchBalance
  CreateMsgs <- BatchMsgs
  Prices <- BatchPrices
  Amounts <- BatchAmounts
  AllowedBidderLists <- BatchLists
  MaxBidAmounts = {1}
  Transfers = {3}
  AuctionCreationFee <- NoFee
  PlaceBidFee <- NoFee
  ExtendedPeriods = {1}
  MaxNumVestingSchedules = 2
  MaxExtendedRound = 2
  MaxAuctions = 1
  MaxBids = 2
  MaxTime = 3
INVARIANTS
  MirrorIsExact
  BeginBlockerNeverPanics
PROPERTIES
  AnnouncedIsPaid
  BatchSettlementIsFair
  BidsOnlyImprove
