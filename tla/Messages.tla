------------------------------ MODULE Messages ------------------------------
(***************************************************************************)
(* The messages of the module as the generated code (types/*.pb.go) knows  *)
(* them.  MarshalTable gives the fields that MarshalToSizedBuffer writes,  *)
(* in the order of the buffer, each with the tag byte it is given there;   *)
(* UnmarshalTable gives the cases of the switch of Unmarshal, each with    *)
(* its field number and the kind of value it reads; and SizeTable gives    *)
(* the fields whose bytes Size adds up, each with the bytes that it counts *)
(* for the tag.  The three were translated separately: nothing but the     *)
(* run ties a tag to its case and to its size.                             *)
(***************************************************************************)
EXTENDS Naturals

\* A field of a message: its tag byte (when it is written), its field number
\* (when it is read) or the bytes of its tag (when it is measured), its name,
\* its kind, and the message it holds.
Field(key, name, kind, type) ==
  [key |-> key, name |-> name, kind |-> kind, type |-> type]

Uint64(key, name) == Field(key, name, "uint64", "")
Uint32(key, name) == Field(key, name, "uint32", "")
Enum(key, name) == Field(key, name, "enum", "")
Bool(key, name) == Field(key, name, "bool", "")
Text(key, name) == Field(key, name, "bytes", "")
Bytes(key, name) == Field(key, name, "bytes", "")
Custom(key, name) == Field(key, name, "custom", "")
Embedded(key, name, type) == Field(key, name, "embedded", type)
Pointer(key, name, type) == Field(key, name, "pointer", type)
Repeated(key, name, type) == Field(key, name, "repeated", type)
StdTime(key, name) == Field(key, name, "time", "Timestamp")
StdTimes(key, name) == Field(key, name, "times", "Timestamp")

NoFields == <<>>

-----------------------------------------------------------------------------
(***************************************************************************)
(* Messages of the libraries, which those of the module contain.           *)
(***************************************************************************)
CoinSize == <<Text(1, "Denom"), Custom(1, "Amount")>>
CoinMarshal == <<Text(\h0A, "Denom"), Custom(\h12, "Amount")>>
CoinUnmarshal == {Text(1, "Denom"), Custom(2, "Amount")}

TimestampSize == <<Uint64(1, "Seconds"), Enum(1, "Nanos")>>
TimestampMarshal == <<Uint64(\h08, "Seconds"), Enum(\h10, "Nanos")>>
TimestampUnmarshal == {Uint64(1, "Seconds"), Enum(2, "Nanos")}

AnySize == <<Text(1, "TypeUrl"), Bytes(1, "Value")>>
AnyMarshal == <<Text(\h0A, "TypeUrl"), Bytes(\h12, "Value")>>
AnyUnmarshal == {Text(1, "TypeUrl"), Bytes(2, "Value")}

PageRequestSize ==
  <<Bytes(1, "Key"), Uint64(1, "Offset"), Uint64(1, "Limit"),
    Bool(1, "CountTotal"), Bool(1, "Reverse")>>
PageRequestMarshal ==
  <<Bytes(\h0A, "Key"), Uint64(\h10, "Offset"), Uint64(\h18, "Limit"),
    Bool(\h20, "CountTotal"), Bool(\h28, "Reverse")>>
PageRequestUnmarshal ==
  {Bytes(1, "Key"), Uint64(2, "Offset"), Uint64(3, "Limit"),
   Bool(4, "CountTotal"), Bool(5, "Reverse")}

PageResponseSize == <<Bytes(1, "NextKey"), Uint64(1, "Total")>>
PageResponseMarshal == <<Bytes(\h0A, "NextKey"), Uint64(\h10, "Total")>>
PageResponseUnmarshal == {Bytes(1, "NextKey"), Uint64(2, "Total")}

-----------------------------------------------------------------------------
(***************************************************************************)
(* The records of the store (types/fundraising.pb.go).                     *)
(***************************************************************************)

BaseAuctionSize ==
  <<Uint64(1, "Id"), Enum(1, "Type"), Text(1, "Auctioneer"),
    Text(1, "SellingReserveAddress"), Text(1, "PayingReserveAddress"),
    Custom(1, "StartPrice"), Embedded(1, "SellingCoin", "Coin"),
    Text(1, "PayingCoinDenom"), Text(1, "VestingReserveAddress"),
    Repeated(1, "VestingSchedules", "VestingSchedule"),
    StdTime(1, "StartTime"), StdTimes(1, "EndTimes"), Enum(1, "Status")>>
BaseAuctionMarshal ==
  <<Uint64(\h08, "Id"), Enum(\h10, "Type"), Text(\h1A, "Auctioneer"),
    Text(\h22, "SellingReserveAddress"), Text(\h2A, "PayingReserveAddress"),
    Custom(\h32, "StartPrice"), Embedded(\h3A, "SellingCoin", "Coin"),
    Text(\h42, "PayingCoinDenom"), Text(\h4A, "VestingReserveAddress"),
    Repeated(\h52, "VestingSchedules", "VestingSchedule"),
    StdTime(\h5A, "StartTime"), StdTimes(\h62, "EndTimes"),
    Enum(\h68, "Status")>>
BaseAuctionUnmarshal ==
  {Uint64(1, "Id"), Enum(2, "Type"), Text(3, "Auctioneer"),
   Text(4, "SellingReserveAddress"), Text(5, "PayingReserveAddress"),
   Custom(6, "StartPrice"), Embedded(7, "SellingCoin", "Coin"),
   Text(8, "PayingCoinDenom"), Text(9, "VestingReserveAddress"),
   Repeated(10, "VestingSchedules", "VestingSchedule"),
   StdTime(11, "StartTime"), StdTimes(12, "EndTimes"), Enum(13, "Status")}

FixedPriceAuctionSize ==
  <<Pointer(1, "BaseAuction", "BaseAuction"),
    Embedded(1, "RemainingSellingCoin", "Coin")>>
FixedPriceAuctionMarshal ==
  <<Pointer(\h0A, "BaseAuction", "BaseAuction"),
    Embedded(\h12, "RemainingSellingCoin", "Coin")>>
FixedPriceAuctionUnmarshal ==
  {Pointer(1, "BaseAuction", "BaseAuction"),
   Embedded(2, "RemainingSellingCoin", "Coin")}

BatchAuctionSize ==
  <<Pointer(1, "BaseAuction", "BaseAuction"), Custom(1, "MinBidPrice"),
    Custom(1, "MatchedPrice"), Uint32(1, "MaxExtendedRound"),
    Custom(1, "ExtendedRoundRate")>>
BatchAuctionMarshal ==
  <<Pointer(\h0A, "BaseAuction", "BaseAuction"), Custom(\h12, "MinBidPrice"),
    Custom(\h1A, "MatchedPrice"), Uint32(\h20, "MaxExtendedRound"),
    Custom(\h2A, "ExtendedRoundRate")>>
BatchAuctionUnmarshal ==
  {Pointer(1, "BaseAuction", "BaseAuction"), Custom(2, "MinBidPrice"),
   Custom(3, "MatchedPrice"), Uint32(4, "MaxExtendedRound"),
   Custom(5, "ExtendedRoundRate")}

VestingScheduleSize == <<StdTime(1, "ReleaseTime"), Custom(1, "Weight")>>
VestingScheduleMarshal ==
  <<StdTime(\h0A, "ReleaseTime"), Custom(\h12, "Weight")>>
VestingScheduleUnmarshal == {StdTime(1, "ReleaseTime"), Custom(2, "Weight")}

VestingQueueSize ==
  <<Uint64(1, "AuctionId"), Text(1, "Auctioneer"),
    Embedded(1, "PayingCoin", "Coin"), StdTime(1, "ReleaseTime"),
    Bool(1, "Released")>>
VestingQueueMarshal ==
  <<Uint64(\h08, "AuctionId"), Text(\h12, "Auctioneer"),
    Embedded(\h1A, "PayingCoin", "Coin"), StdTime(\h22, "ReleaseTime"),
    Bool(\h28, "Released")>>
VestingQueueUnmarshal ==
  {Uint64(1, "AuctionId"), Text(2, "Auctioneer"),
   Embedded(3, "PayingCoin", "Coin"), StdTime(4, "ReleaseTime"),
   Bool(5, "Released")}

AllowedBidderSize == <<Text(1, "Bidder"), Custom(1, "MaxBidAmount")>>
AllowedBidderMarshal == <<Text(\h0A, "Bidder"), Custom(\h12, "MaxBidAmount")>>
AllowedBidderUnmarshal == {Text(1, "Bidder"), Custom(2, "MaxBidAmount")}

\* Mutant: the mark, the last field of a bid, is left out of Size.
BidSizeWithoutMark ==
  <<Uint64(1, "AuctionId"), Text(1, "Bidder"), Uint64(1, "Id"),
    Enum(1, "Type"), Custom(1, "Price"), Embedded(1, "Coin", "Coin")>>

BidSize ==
  <<Uint64(1, "AuctionId"), Text(1, "Bidder"), Uint64(1, "Id"),
    Enum(1, "Type"), Custom(1, "Price"), Embedded(1, "Coin", "Coin"),
    Bool(1, "IsMatched")>>
BidMarshal ==
  <<Uint64(\h08, "AuctionId"), Text(\h12, "Bidder"), Uint64(\h18, "Id"),
    Enum(\h20, "Type"), Custom(\h2A, "Price"), Embedded(\h32, "Coin", "Coin"),
    Bool(\h38, "IsMatched")>>
BidUnmarshal ==
  {Uint64(1, "AuctionId"), Text(2, "Bidder"), Uint64(3, "Id"),
   Enum(4, "Type"), Custom(5, "Price"), Embedded(6, "Coin", "Coin"),
   Bool(7, "IsMatched")}

-----------------------------------------------------------------------------
(***************************************************************************)
(* Parameters and genesis (types/params.pb.go, types/genesis.pb.go).       *)
(***************************************************************************)

ParamsSize ==
  <<Repeated(1, "AuctionCreationFee", "Coin"),
    Repeated(1, "PlaceBidFee", "Coin"), Uint32(1, "ExtendedPeriod")>>
ParamsMarshal ==
  <<Repeated(\h0A, "AuctionCreationFee", "Coin"),
    Repeated(\h12, "PlaceBidFee", "Coin"), Uint32(\h18, "ExtendedPeriod")>>
ParamsUnmarshal ==
  {Repeated(1, "AuctionCreationFee", "Coin"),
   Repeated(2, "PlaceBidFee", "Coin"), Uint32(3, "ExtendedPeriod")}

GenesisStateSize ==
  <<Embedded(1, "Params", "Params"), Repeated(1, "Auctions", "Any"),
    Repeated(1, "AllowedBidderRecords", "AllowedBidderRecord"),
    Repeated(1, "Bids", "Bid"), Repeated(1, "VestingQueues", "VestingQueue")>>
GenesisStateMarshal ==
  <<Embedded(\h0A, "Params", "Params"), Repeated(\h12, "Auctions", "Any"),
    Repeated(\h1A, "AllowedBidderRecords", "AllowedBidderRecord"),
    Repeated(\h22, "Bids", "Bid"),
    Repeated(\h2A, "VestingQueues", "VestingQueue")>>
GenesisStateUnmarshal ==
  {Embedded(1, "Params", "Params"), Repeated(2, "Auctions", "Any"),
   Repeated(3, "AllowedBidderRecords", "AllowedBidderRecord"),
   Repeated(4, "Bids", "Bid"), Repeated(5, "VestingQueues", "VestingQueue")}

AllowedBidderRecordSize ==
  <<Uint64(1, "AuctionId"), Embedded(1, "AllowedBidder", "AllowedBidder")>>
AllowedBidderRecordMarshal ==
  <<Uint64(\h08, "AuctionId"),
    Embedded(\h12, "AllowedBidder", "AllowedBidder")>>
AllowedBidderRecordUnmarshal ==
  {Uint64(1, "AuctionId"), Embedded(2, "AllowedBidder", "AllowedBidder")}

-----------------------------------------------------------------------------
(***************************************************************************)
(* Transactions (types/tx.pb.go).                                          *)
(***************************************************************************)

MsgCreateFixedPriceAuctionSize ==
  <<Text(1, "Auctioneer"), Custom(1, "StartPrice"),
    Embedded(1, "SellingCoin", "Coin"), Text(1, "PayingCoinDenom"),
    Repeated(1, "VestingSchedules", "VestingSchedule"),
    StdTime(1, "StartTime"), StdTime(1, "EndTime")>>
MsgCreateFixedPriceAuctionMarshal ==
  <<Text(\h0A, "Auctioneer"), Custom(\h12, "StartPrice"),
    Embedded(\h1A, "SellingCoin", "Coin"), Text(\h22, "PayingCoinDenom"),
    Repeated(\h2A, "VestingSchedules", "VestingSchedule"),
    StdTime(\h32, "StartTime"), StdTime(\h3A, "EndTime")>>
MsgCreateFixedPriceAuctionUnmarshal ==
  {Text(1, "Auctioneer"), Custom(2, "StartPrice"),
   Embedded(3, "SellingCoin", "Coin"), Text(4, "PayingCoinDenom"),
   Repeated(5, "VestingSchedules", "VestingSchedule"),
   StdTime(6, "StartTime"), StdTime(7, "EndTime")}

MsgCreateFixedPriceAuctionResponseUnmarshal == {}

MsgCreateBatchAuctionSize ==
  <<Text(1, "Auctioneer"), Custom(1, "StartPrice"), Custom(1, "MinBidPrice"),
    Embedded(1, "SellingCoin", "Coin"), Text(1, "PayingCoinDenom"),
    Repeated(1, "VestingSchedules", "VestingSchedule"),
    Uint32(1, "MaxExtendedRound"), Custom(1, "ExtendedRoundRate"),
    StdTime(1, "StartTime"), StdTime(1, "EndTime")>>
MsgCreateBatchAuctionMarshal ==
  <<Text(\h0A, "Auctioneer"), Custom(\h12, "StartPrice"),
    Custom(\h1A, "MinBidPrice"), Embedded(\h22, "SellingCoin", "Coin"),
    Text(\h2A, "PayingCoinDenom"),
    Repeated(\h32, "VestingSchedules", "VestingSchedule"),
    Uint32(\h38, "MaxExtendedRound"), Custom(\h42, "ExtendedRoundRate"),
    StdTime(\h4A, "StartTime"), StdTime(\h52, "EndTime")>>
MsgCreateBatchAuctionUnmarshal ==
  {Text(1, "Auctioneer"), Custom(2, "StartPrice"), Custom(3, "MinBidPrice"),
   Embedded(4, "SellingCoin", "Coin"), Text(5, "PayingCoinDenom"),
   Repeated(6, "VestingSchedules", "VestingSchedule"),
   Uint32(7, "MaxExtendedRound"), Custom(8, "ExtendedRoundRate"),
   StdTime(9, "StartTime"), StdTime(10, "EndTime")}

MsgCreateBatchAuctionResponseUnmarshal == {}

MsgCancelAuctionSize == <<Text(1, "Auctioneer"), Uint64(1, "AuctionId")>>
MsgCancelAuctionMarshal ==
  <<Text(\h0A, "Auctioneer"), Uint64(\h10, "AuctionId")>>
MsgCancelAuctionUnmarshal == {Text(1, "Auctioneer"), Uint64(2, "AuctionId")}

MsgCancelAuctionResponseUnmarshal == {}

MsgPlaceBidSize ==
  <<Uint64(1, "AuctionId"), Text(1, "Bidder"), Enum(1, "BidType"),
    Custom(1, "Price"), Embedded(1, "Coin", "Coin")>>
MsgPlaceBidMarshal ==
  <<Uint64(\h08, "AuctionId"), Text(\h12, "Bidder"), Enum(\h18, "BidType"),
    Custom(\h22, "Price"), Embedded(\h2A, "Coin", "Coin")>>
MsgPlaceBidUnmarshal ==
  {Uint64(1, "AuctionId"), Text(2, "Bidder"), Enum(3, "BidType"),
   Custom(4, "Price"), Embedded(5, "Coin", "Coin")}

MsgPlaceBidResponseUnmarshal == {}

MsgModifyBidSize ==
  <<Uint64(1, "AuctionId"), Text(1, "Bidder"), Uint64(1, "BidId"),
    Custom(1, "Price"), Embedded(1, "Coin", "Coin")>>
MsgModifyBidMarshal ==
  <<Uint64(\h08, "AuctionId"), Text(\h12, "Bidder"), Uint64(\h18, "BidId"),
    Custom(\h22, "Price"), Embedded(\h2A, "Coin", "Coin")>>
MsgModifyBidUnmarshal ==
  {Uint64(1, "AuctionId"), Text(2, "Bidder"), Uint64(3, "BidId"),
   Custom(4, "Price"), Embedded(5, "Coin", "Coin")}

MsgModifyBidResponseUnmarshal == {}

MsgAddAllowedBidderSize ==
  <<Uint64(1, "AuctionId"), Embedded(1, "AllowedBidder", "AllowedBidder")>>
MsgAddAllowedBidderMarshal ==
  <<Uint64(\h08, "AuctionId"),
    Embedded(\h12, "AllowedBidder", "AllowedBidder")>>
MsgAddAllowedBidderUnmarshal ==
  {Uint64(1, "AuctionId"), Embedded(2, "AllowedBidder", "AllowedBidder")}

MsgAddAllowedBidderResponseUnmarshal == {}

-----------------------------------------------------------------------------
(***************************************************************************)
(* Queries (types/query.pb.go).                                            *)
(***************************************************************************)

QueryParamsRequestUnmarshal == {}

QueryParamsResponseSize == <<Embedded(1, "Params", "Params")>>
QueryParamsResponseMarshal == <<Embedded(\h0A, "Params", "Params")>>
QueryParamsResponseUnmarshal == {Embedded(1, "Params", "Params")}

QueryAuctionsRequestSize ==
  <<Text(1, "Status"), Text(1, "Type"),
    Pointer(1, "Pagination", "PageRequest")>>
QueryAuctionsRequestMarshal ==
  <<Text(\h0A, "Status"), Text(\h12, "Type"),
    Pointer(\h1A, "Pagination", "PageRequest")>>
QueryAuctionsRequestUnmarshal ==
  {Text(1, "Status"), Text(2, "Type"),
   Pointer(3, "Pagination", "PageRequest")}

QueryAuctionsResponseSize ==
  <<Repeated(1, "Auctions", "Any"), Pointer(1, "Pagination", "PageResponse")>>
QueryAuctionsResponseMarshal ==
  <<Repeated(\h0A, "Auctions", "Any"),
    Pointer(\h12, "Pagination", "PageResponse")>>
QueryAuctionsResponseUnmarshal ==
  {Repeated(1, "Auctions", "Any"), Pointer(2, "Pagination", "PageResponse")}

QueryAuctionRequestSize == <<Uint64(1, "AuctionId")>>
QueryAuctionRequestMarshal == <<Uint64(\h08, "AuctionId")>>
QueryAuctionRequestUnmarshal == {Uint64(1, "AuctionId")}

QueryAuctionResponseSize == <<Pointer(1, "Auction", "Any")>>
QueryAuctionResponseMarshal == <<Pointer(\h0A, "Auction", "Any")>>
QueryAuctionResponseUnmarshal == {Pointer(1, "Auction", "Any")}

QueryAllowedBidderRequestSize == <<Uint64(1, "AuctionId"), Text(1, "Bidder")>>
QueryAllowedBidderRequestMarshal ==
  <<Uint64(\h08, "AuctionId"), Text(\h12, "Bidder")>>
QueryAllowedBidderRequestUnmarshal ==
  {Uint64(1, "AuctionId"), Text(2, "Bidder")}

QueryAllowedBidderResponseSize ==
  <<Embedded(1, "AllowedBidder", "AllowedBidder")>>
QueryAllowedBidderResponseMarshal ==
  <<Embedded(\h0A, "AllowedBidder", "AllowedBidder")>>
QueryAllowedBidderResponseUnmarshal ==
  {Embedded(1, "AllowedBidder", "AllowedBidder")}

QueryAllowedBiddersRequestSize ==
  <<Uint64(1, "AuctionId"), Pointer(1, "Pagination", "PageRequest")>>
QueryAllowedBiddersRequestMarshal ==
  <<Uint64(\h08, "AuctionId"), Pointer(\h12, "Pagination", "PageRequest")>>
QueryAllowedBiddersRequestUnmarshal ==
  {Uint64(1, "AuctionId"), Pointer(2, "Pagination", "PageRequest")}

QueryAllowedBiddersResponseSize ==
  <<Repeated(1, "AllowedBidders", "AllowedBidder"),
    Pointer(1, "Pagination", "PageResponse")>>
QueryAllowedBiddersResponseMarshal ==
  <<Repeated(\h0A, "AllowedBidders", "AllowedBidder"),
    Pointer(\h12, "Pagination", "PageResponse")>>
QueryAllowedBiddersResponseUnmarshal ==
  {Repeated(1, "AllowedBidders", "AllowedBidder"),
   Pointer(2, "Pagination", "PageResponse")}

QueryBidsRequestSize ==
  <<Uint64(1, "AuctionId"), Text(1, "Bidder"), Text(1, "IsMatched"),
    Pointer(1, "Pagination", "PageRequest")>>
QueryBidsRequestMarshal ==
  <<Uint64(\h08, "AuctionId"), Text(\h12, "Bidder"), Text(\h1A, "IsMatched"),
    Pointer(\h22, "Pagination", "PageRequest")>>
QueryBidsRequestUnmarshal ==
  {Uint64(1, "AuctionId"), Text(2, "Bidder"), Text(3, "IsMatched"),
   Pointer(4, "Pagination", "PageRequest")}

QueryBidsResponseSize ==
  <<Repeated(1, "Bids", "Bid"), Pointer(1, "Pagination", "PageResponse")>>
QueryBidsResponseMarshal ==
  <<Repeated(\h0A, "Bids", "Bid"),
    Pointer(\h12, "Pagination", "PageResponse")>>
QueryBidsResponseUnmarshal ==
  {Repeated(1, "Bids", "Bid"), Pointer(2, "Pagination", "PageResponse")}

QueryBidRequestSize == <<Uint64(1, "AuctionId"), Uint64(1, "BidId")>>
QueryBidRequestMarshal == <<Uint64(\h08, "AuctionId"), Uint64(\h10, "BidId")>>
QueryBidRequestUnmarshal == {Uint64(1, "AuctionId"), Uint64(2, "BidId")}

QueryBidResponseSize == <<Embedded(1, "Bid", "Bid")>>
QueryBidResponseMarshal == <<Embedded(\h0A, "Bid", "Bid")>>
QueryBidResponseUnmarshal == {Embedded(1, "Bid", "Bid")}

QueryVestingsRequestSize == <<Uint64(1, "AuctionId")>>
QueryVestingsRequestMarshal == <<Uint64(\h08, "AuctionId")>>
QueryVestingsRequestUnmarshal == {Uint64(1, "AuctionId")}

QueryVestingsResponseSize == <<Repeated(1, "Vestings", "VestingQueue")>>
QueryVestingsResponseMarshal == <<Repeated(\h0A, "Vestings", "VestingQueue")>>
QueryVestingsResponseUnmarshal == {Repeated(1, "Vestings", "VestingQueue")}

-----------------------------------------------------------------------------
SizeTable ==
  [Coin |-> CoinSize, Timestamp |-> TimestampSize, Any |-> AnySize,
   PageRequest |-> PageRequestSize, PageResponse |-> PageResponseSize,
   BaseAuction |-> BaseAuctionSize,
   FixedPriceAuction |-> FixedPriceAuctionSize,
   BatchAuction |-> BatchAuctionSize,
   VestingSchedule |-> VestingScheduleSize,
   VestingQueue |-> VestingQueueSize,
   AllowedBidder |-> AllowedBidderSize, Bid |-> BidSize,
   Params |-> ParamsSize, GenesisState |-> GenesisStateSize,
   AllowedBidderRecord |-> AllowedBidderRecordSize,
   MsgCreateFixedPriceAuction |-> MsgCreateFixedPriceAuctionSize,
   MsgCreateFixedPriceAuctionResponse |-> NoFields,
   MsgCreateBatchAuction |-> MsgCreateBatchAuctionSize,
   MsgCreateBatchAuctionResponse |-> NoFields,
   MsgCancelAuction |-> MsgCancelAuctionSize,
   MsgCancelAuctionResponse |-> NoFields, MsgPlaceBid |-> MsgPlaceBidSize,
   MsgPlaceBidResponse |-> NoFields, MsgModifyBid |-> MsgModifyBidSize,
   MsgModifyBidResponse |-> NoFields,
   MsgAddAllowedBidder |-> MsgAddAllowedBidderSize,
   MsgAddAllowedBidderResponse |-> NoFields, QueryParamsRequest |-> NoFields,
   QueryParamsResponse |-> QueryParamsResponseSize,
   QueryAuctionsRequest |-> QueryAuctionsRequestSize,
   QueryAuctionsResponse |-> QueryAuctionsResponseSize,
   QueryAuctionRequest |-> QueryAuctionRequestSize,
   QueryAuctionResponse |-> QueryAuctionResponseSize,
   QueryAllowedBidderRequest |-> QueryAllowedBidderRequestSize,
   QueryAllowedBidderResponse |-> QueryAllowedBidderResponseSize,
   QueryAllowedBiddersRequest |-> QueryAllowedBiddersRequestSize,
   QueryAllowedBiddersResponse |-> QueryAllowedBiddersResponseSize,
   QueryBidsRequest |-> QueryBidsRequestSize,
   QueryBidsResponse |-> QueryBidsResponseSize,
   QueryBidRequest |-> QueryBidRequestSize,
   QueryBidResponse |-> QueryBidResponseSize,
   QueryVestingsRequest |-> QueryVestingsRequestSize,
   QueryVestingsResponse |-> QueryVestingsResponseSize]

MarshalTable ==
  [Coin |-> CoinMarshal, Timestamp |-> TimestampMarshal, Any |-> AnyMarshal,
   PageRequest |-> PageRequestMarshal, PageResponse |-> PageResponseMarshal,
   BaseAuction |-> BaseAuctionMarshal,
   FixedPriceAuction |-> FixedPriceAuctionMarshal,
   BatchAuction |-> BatchAuctionMarshal,
   VestingSchedule |-> VestingScheduleMarshal,
   VestingQueue |-> VestingQueueMarshal,
   AllowedBidder |-> AllowedBidderMarshal, Bid |-> BidMarshal,
   Params |-> ParamsMarshal, GenesisState |-> GenesisStateMarshal,
   AllowedBidderRecord |-> AllowedBidderRecordMarshal,
   MsgCreateFixedPriceAuction |-> MsgCreateFixedPriceAuctionMarshal,
   MsgCreateFixedPriceAuctionResponse |-> NoFields,
   MsgCreateBatchAuction |-> MsgCreateBatchAuctionMarshal,
   MsgCreateBatchAuctionResponse |-> NoFields,
   MsgCancelAuction |-> MsgCancelAuctionMarshal,
   MsgCancelAuctionResponse |-> NoFields, MsgPlaceBid |-> MsgPlaceBidMarshal,
   MsgPlaceBidResponse |-> NoFields, MsgModifyBid |-> MsgModifyBidMarshal,
   MsgModifyBidResponse |-> NoFields,
   MsgAddAllowedBidder |-> MsgAddAllowedBidderMarshal,
   MsgAddAllowedBidderResponse |-> NoFields, QueryParamsRequest |-> NoFields,
   QueryParamsResponse |-> QueryParamsResponseMarshal,
   QueryAuctionsRequest |-> QueryAuctionsRequestMarshal,
   QueryAuctionsResponse |-> QueryAuctionsResponseMarshal,
   QueryAuctionRequest |-> QueryAuctionRequestMarshal,
   QueryAuctionResponse |-> QueryAuctionResponseMarshal,
   QueryAllowedBidderRequest |-> QueryAllowedBidderRequestMarshal,
   QueryAllowedBidderResponse |-> QueryAllowedBidderResponseMarshal,
   QueryAllowedBiddersRequest |-> QueryAllowedBiddersRequestMarshal,
   QueryAllowedBiddersResponse |-> QueryAllowedBiddersResponseMarshal,
   QueryBidsRequest |-> QueryBidsRequestMarshal,
   QueryBidsResponse |-> QueryBidsResponseMarshal,
   QueryBidRequest |-> QueryBidRequestMarshal,
   QueryBidResponse |-> QueryBidResponseMarshal,
   QueryVestingsRequest |-> QueryVestingsRequestMarshal,
   QueryVestingsResponse |-> QueryVestingsResponseMarshal]

UnmarshalTable ==
  [Coin |-> CoinUnmarshal, Timestamp |-> TimestampUnmarshal,
   Any |-> AnyUnmarshal, PageRequest |-> PageRequestUnmarshal,
   PageResponse |-> PageResponseUnmarshal,
   BaseAuction |-> BaseAuctionUnmarshal,
   FixedPriceAuction |-> FixedPriceAuctionUnmarshal,
   BatchAuction |-> BatchAuctionUnmarshal,
   VestingSchedule |-> VestingScheduleUnmarshal,
   VestingQueue |-> VestingQueueUnmarshal,
   AllowedBidder |-> AllowedBidderUnmarshal, Bid |-> BidUnmarshal,
   Params |-> ParamsUnmarshal, GenesisState |-> GenesisStateUnmarshal,
   AllowedBidderRecord |-> AllowedBidderRecordUnmarshal,
   MsgCreateFixedPriceAuction |-> MsgCreateFixedPriceAuctionUnmarshal,
   MsgCreateFixedPriceAuctionResponse |->
     MsgCreateFixedPriceAuctionResponseUnmarshal,
   MsgCreateBatchAuction |-> MsgCreateBatchAuctionUnmarshal,
   MsgCreateBatchAuctionResponse |-> MsgCreateBatchAuctionResponseUnmarshal,
   MsgCancelAuction |-> MsgCancelAuctionUnmarshal,
   MsgCancelAuctionResponse |-> MsgCancelAuctionResponseUnmarshal,
   MsgPlaceBid |-> MsgPlaceBidUnmarshal,
   MsgPlaceBidResponse |-> MsgPlaceBidResponseUnmarshal,
   MsgModifyBid |-> MsgModifyBidUnmarshal,
   MsgModifyBidResponse |-> MsgModifyBidResponseUnmarshal,
   MsgAddAllowedBidder |-> MsgAddAllowedBidderUnmarshal,
   MsgAddAllowedBidderResponse |-> MsgAddAllowedBidderResponseUnmarshal,
   QueryParamsRequest |-> QueryParamsRequestUnmarshal,
   QueryParamsResponse |-> QueryParamsResponseUnmarshal,
   QueryAuctionsRequest |-> QueryAuctionsRequestUnmarshal,
   QueryAuctionsResponse |-> QueryAuctionsResponseUnmarshal,
   QueryAuctionRequest |-> QueryAuctionRequestUnmarshal,
   QueryAuctionResponse |-> QueryAuctionResponseUnmarshal,
   QueryAllowedBidderRequest |-> QueryAllowedBidderRequestUnmarshal,
   QueryAllowedBidderResponse |-> QueryAllowedBidderResponseUnmarshal,
   QueryAllowedBiddersRequest |-> QueryAllowedBiddersRequestUnmarshal,
   QueryAllowedBiddersResponse |-> QueryAllowedBiddersResponseUnmarshal,
   QueryBidsRequest |-> QueryBidsRequestUnmarshal,
   QueryBidsResponse |-> QueryBidsResponseUnmarshal,
   QueryBidRequest |-> QueryBidRequestUnmarshal,
   QueryBidResponse |-> QueryBidResponseUnmarshal,
   QueryVestingsRequest |-> QueryVestingsRequestUnmarshal,
   QueryVestingsResponse |-> QueryVestingsResponseUnmarshal]
=============================================================================
