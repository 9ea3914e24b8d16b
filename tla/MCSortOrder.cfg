SPECIFICATION Spec
CONSTANTS
  ONE = 10
  Bidders = {b1}
  Prices = {5, 10}
  Amounts = {1}
  SellingAmounts = {2}
  MaxBidAmounts = {1}
  BookSize = 7
INVARIANT BidsSortedByPrice
CHECK_DEADLOCK FALSE
