------------------------------ MODULE MCBidBook ------------------------------
\* Instances of BidBook for TLC.  With ONE = 10, the prices are 0.5, 1 and 1.5,
\* so that both conversions round.
EXTENDS BidBook

MCPrices == {5, 10, 15}
MCAmounts == {1, 3}
MCSellingAmounts == {2, 4}
MCMaxBidAmounts == {1, 3}
=============================================================================
