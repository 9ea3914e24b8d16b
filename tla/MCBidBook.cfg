SPECIFICATION Spec
CONSTANTS
  ONE = 10
  Bidders = {b1, b2}
  Prices <- MCPrices
  Amounts <- MCAmounts
  SellingAmounts <- MCSellingAmounts
  MaxBidAmounts <- MCMaxBidAmounts
  BookSize = 3
INVARIANTS
  AllocationIsDemand
  LowestPriceMatchedWithoutDust
  UnmatchedBidsRefunded
  PaymentCoversAllocation
CHECK_DEADLOCK FALSE
