SPECIFICATION ChainSpec
CONSTANTS
  alice = alice
  bob = bob
  carol = carol
  ONE = 10
  Listeners = {}
  Users <- MCUsers
  Denoms <- MCDenoms
  InitialBalance <- RoundsBalance
  CreateMsgs <- RoundsMsgs
  Prices <- RoundsPrices
  Amounts = {1}
  AllowedBidderLists <- RoundsLists
  MaxBidAmounts = {}
  Transfers = {}
  AuctionCreationFee <- NoFee
  PlaceBidFee <- NoFee
  ExtendedPeriods = {0, 1}
  MaxNumVestingSchedules = 2
  MaxExtendedRound = 2
  MaxAuctions = 1
  MaxBids = 3
  MaxTime = 4
INVARIANTS
  RoundsBounded
  VestingInOrder
PROPERTIES
  RestartKeepsRecords
  NoCloseAfterSniping
