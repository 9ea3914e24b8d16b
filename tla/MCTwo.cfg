SPECIFICATION FairChainSpec
CONSTANTS
  alice = alice
  bob = bob
  carol = carol
  ONE = 10
  Listeners = {}
  Users <- MCUsers
  Denoms <- MCDenoms
  InitialBalance <- TwoBalance
  CreateMsgs <- TwoMsgs
  Prices <- TwoPrices
  Amounts <- TwoAmounts
  AllowedBidderLists <- TwoLists
  MaxBidAmounts = {}
  Transfers = {}
  AuctionCreationFee <- OneCoinFee
  PlaceBidFee <- OneCoinFee
  ExtendedPeriods = {0, 1}
  MaxNumVestingSchedules = 2
  MaxExtendedRound = 2
  MaxAuctions = 2
  MaxBids = 2
  MaxTime = 4
INVARIANTS
  CoinsConserved
  ReservesAreExact
PROPERTIES
  EveryAuctionEnds
  ImplementsEscrow
