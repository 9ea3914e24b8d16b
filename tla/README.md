# Formal model of the fundraising module

TLA+ specifications of `x/fundraising`, a Cosmos SDK module in which an
auctioneer sells coins at a fixed price or in a batch auction. TLC checks them
on small instances, and TLAPS proves most of the safety properties for every
instance, the restarts of the chain, the bytes of the keys and the pages of the
queries included.
`PROJECT.json` relates the definitions to lines of the source and lists the
runs, the mutants, the hazards and the theorems.

## The system

| Part | State | Operations |
| --- | --- | --- |
| Auctions (`keeper/auction.go`, `types/auction.go`) | auction records: terms, status, end times, remaining selling coin | create (two kinds), cancel, start, close, extend |
| Bids (`keeper/bid.go`, `types/bid.go`) | the bids of every auction | place (fixed price, worth, many), modify |
| Matching (`keeper/match.go`, `types/match.go`, `types/utils.go`) | number of matched bids of the last round, `IsMatched` flags | allocation of a fixed price or batch auction |
| Vesting (`keeper/vesting.go`, `types/vesting.go`) | vesting queues | apply the schedules, release what is due |
| Allowed bidders (`keeper/auction.go`, `types/allowed_bidder.go`) | maximum bid amount per auction and bidder | add a list, update one |
| BeginBlocker (`abci.go`, `keeper/execution.go`) | none | one status transition of every auction per block |
| Parameters, fees, bank (`keeper/keeper.go`, `types/params.go`) | parameters; account balances (in x/bank) | pay a fee, reserve coins, pay out |
| Registered invariants (`keeper/invariants.go`) | none | compare reserves with obligations |
| Genesis (`keeper/genesis.go`, `types/genesis.go`, `app/export.go`) | none | export, validate, import |
| Hooks (`keeper/hooks.go`, `types/hooks.go`) | that of the modules that listen | a call per creation, cancellation, bid, change of a limit, settlement |
| Store (`types/keys.go`, `keeper/store.go`) | a sorted map from byte keys; an index of bids by bidder | get, set, iterate a prefix |
| Queries (`keeper/grpc_query.go`) | none; the client's page key or offset | lookups and paginated, filtered lists |
| Codec (`types/*.pb.go`) | none | marshal, size, unmarshal, skip, for every message |
| Client, simulation, application wiring | none | see "Not modelled" |

Messages change the store within a transaction, which is rolled back as a whole
when its handler returns an error. The BeginBlocker runs before the messages of
a block, visits all auctions in the order of their ids, and is not rolled back:
an error there panics and halts the chain. Other modules call
`AddAllowedBidders` and `UpdateAllowedBidder`. Every auction has three reserve
accounts (selling, paying and vesting), which are ordinary accounts: anyone may
send coins to them, and the settlement reads their balance rather than what was
reserved.

What is hard to get right, and to test, here:

- the order of bids, modifications, rounds and late blocks, and what each round
  remembers of the one before (the number of matched bids);
- rounding: prices and weights are decimals, coins are integers, and amounts
  are rounded when bids are placed, modified, matched and vested;
- the settlement, in which four functions empty shared accounts one after the
  other and none may fail;
- a binary search over prices that needs a monotone predicate;
- caps that are checked when a bid is placed, not when it is modified, and may
  change later;
- that every auction ends, although an unlucky one is extended again and again,
  and although the chain may be stopped, exported and started again in between;
- orders that come from bytes: bids are matched, and queues released, in the
  order of their keys;
- lists that are read page by page while the chain goes on;
- what a second module is told, and when, compared with what really happens;
- a wire format whose writer, size computation and two parsers must agree.

## Modules

| Module | Models |
| --- | --- |
| `DecMath` | the arithmetic of `sdk.Dec` that the keeper uses; a library, modelled from the calls |
| `Matching` | conversions of bids, both allocations, the loop of `Match`, the search for a price |
| `BidBook` | one book of bids growing bid by bid; compares `Matching` with its reference definition |
| `Fundraising` | the keeper: its store, the accounts, one action per message or keeper function, the BeginBlocker |
| `AuctionEscrow` | abstract specification of an auction as an escrow of coins |
| `FundraisingProperties` | the properties of `Fundraising`, and the refinement mapping to `AuctionEscrow` |
| `Genesis` | export, validation and import of the state: a restart of the chain |
| `Hooks` | the hooks, and a listener that keeps what it hears |
| `Chain` | the composition: keeper, hooks and restarts |
| `Store` | the store as a map from byte keys; readers, writers, the handlers as the store sees them, and a restart from the exported lists |
| `Records` | abstract specification of the store: auctions, bids, limits and queues without keys |
| `Queries` | the paginated queries over `Store`, and clients that read page by page |
| `Messages` | tables of the fields that are written, of those that are measured, and of the cases that are read, for every message |
| `ProtoWire` | the generated code, once: varints, sizes, marshal, unmarshal, skip |
| `Codec` | a message on its way from a sender to a receiver, or an arbitrary buffer |
| `FundraisingProofs` | types of all operations, `RoundsBounded`, `BidsOnlyImprove` |
| `ReserveProofs` | what each operation writes; records and reserves |
| `MatchingProofs` | lemmas: induction, sums, arithmetic; what the sort, the search and the loop of `Match` compute |
| `SettlementProofs` | vesting, settlement, anti-sniping; conservation of coins, refinement of `AuctionEscrow` |
| `ChainProofs` | all of it across restarts; what listeners know |
| `BidBookProofs` | the matching against its reference definition |
| `StoreProofs` | the keys of the store (order, prefixes, reading ids back), what every handler writes, the iterations compared with each other, a restart; refinement of `Records` |
| `QueriesProofs` | pages, and walks through them while handlers write |
| `MCBidBook`, `MCFundraising`, `MCChain`, `MCStore`, `MCQueries`, `MCCodec` | instances for TLC |

`Fundraising` extends `Matching` extends `DecMath`; `FundraisingProperties`
extends `Fundraising` and instantiates `AuctionEscrow`. `Genesis` and `Hooks`
extend `FundraisingProperties`, and `Chain` extends both. `Queries` extends
`Store`, which instantiates `Records`; `Codec` extends `ProtoWire` extends
`Messages`. The proof modules build on each other: `MatchingProofs`,
`FundraisingProofs`, `ReserveProofs`, `SettlementProofs` and `ChainProofs` each
extend the one before. `BidBookProofs` extends `BidBook` and `MatchingProofs`,
`StoreProofs` extends `Store`, and `QueriesProofs` extends `Queries` and
`StoreProofs`.

### Correspondence

A decimal is the integer that represents it, with `ONE` for 1 (10^18 in the
code, 10 in the runs). The id of an auction or a bid is its index. An auction
keeps the message that created it in `msg`, since those fields never change.
`allowed[id][u]` is the maximum bid amount of a bidder, 0 when there is no
record (`AllowedBidder.Validate` excludes 0). Reserve accounts are counted in
their own denomination only: no code path touches other denominations there.

An action is a whole handler, `ValidateBasic` included: its guards are the
conditions under which the handler does not return an error, in the order in
which they cannot be told apart from outside, since a failing message changes
nothing. The exception is `AddAllowedBidders`, which another module calls and
which may have stored entries before it fails: the action stores the entries
before the first invalid one, and the caller that rolls back is the absence of a
step.

`PlaceBid` is three actions, one per branch of its `switch`. A settlement
(`CloseFixedPriceAuction`, `CloseBatchAuction`) is one step, `Settle`, with the
four transfers in the order of the code: `Unsold` and `Raised` are what the
accounts hold when the earlier transfers are made. Where the code would panic,
the step is not enabled (`CanSettle`, `CanRelease`); `BeginBlockerNeverPanics`
and the deadlock check show that this never happens.

The BeginBlocker is one step per auction: `BeginBlock` sets `blockTime` and
`cursor`, each following step handles auction `cursor`, and messages are
delivered when `cursor` is 0 again. Nothing interleaves with these steps; they
are separate so that each can be described, and violated, on its own.

`TransferToReserve` (x/bank) and `ParamChange` (x/params) are what the rest of
the chain may do to the module's state.

`SortBids` uses the comparator of the code, which is not a strict weak order: the
id decides also when the price is lower. What comes out depends on the
algorithm. For up to 12 bids `sort.Slice` of Go 1.18 compares elements that are six
places apart and then sorts by insertion, and so does the model. Up to six bids
come out as intended. Longer books are sorted by partition; for them the model
takes some order of the bids, of which nothing but that is known. `BidsByPrice`
then visits the bids by descending price, and in the order of `SortBids` within a
price. `Search` is the loop of `sort.Search`, which ends within as many iterations as
there are prices.

`Chain` adds to every action of `Fundraising` the hook that the handler calls,
with the values it is called with. A listener is the weakest module one can
register: it keeps what it hears and asks nothing back. The two hooks called
before a creation carry what the ones after it carry, without the id, and are
not kept.

`Restart` is an export and an import as one step between two blocks:
`InitGenesis(ExportGenesis)`, with the validation that panics otherwise. The
lists of the genesis state are sequences in the order of the store. Every record is
stored under its exported id (`WithId`), and the last id is counted, one for every
record of the list, as in the code. `MatchedBidsLen` is not exported and is 0
afterwards. A restart is possible between any two blocks at which the export passes
`GenesisState.Validate`; that it need not pass is what `reimport` shows. The bank exports its own balances; a listener exports what it knows.

`Store` has keys of bytes. `Radix` and `IdBytes` are 256 and 8 in the code; with 2
and 2 in the runs the id 2 is the first with a carry, as 256 is in the code, and
2 auctions are enough to meet it. Values are records of what handlers branch on.
The handlers of `Store` are those of the keeper without coins: which keys they
write, under which conditions on records. A fixed price bid is stored as matched, as
in the code. `FormatTimeBytes` of the SDK writes a time as text whose first digits are
those of the date; the model writes the day and the time of that day, each with a fixed
number of digits (`DayLength` is the number of times of a day), so that the order
of the queues is that of the bytes written and not assumed. `Restart` of `Store` exports
the lists that the iterations show and fills an empty store from them, the counters
apart from the records: were an id left out or counted twice, the next bid would
get an id that is taken. A list is what `InOrder` makes of a set
of keys: the i-th key is the one that has i keys up to itself, in the order of
bytes. `FilteredPaginate` of the SDK is
modelled from its use: by key it starts at the key and stops after `Limit`
hits, by offset it counts hits from the beginning.

`ProtoWire` has the code that protoc-gen-gogo repeats for each of the messages once,
driven by three tables per message. The tables come from different functions of
the generated code (`MarshalToSizedBuffer`, `Size` and `Unmarshal`), so that a tag, an
order, a kind or a field that does not match shows up in a run. A time that is read
must be in the years 1 to 9999 with less than 10^9 nanoseconds, as the library
requires (`ValidTimestamp`; the years are -62 to 252 seconds and a second is 100
nanoseconds in the runs). `WordBits` is 64 in the
code and 16 in the runs: a varint then has up to three bytes instead of ten, and
overflow of the index is three bytes away.

## Properties

Safety of the keeper: `ReservesCoverObligations` (the registered invariants),
`ReservesAreExact` (the same with equality, when nobody donates),
`CoinsConserved`, `BeginBlockerNeverPanics`, `FixedPriceNeverOversold`,
`RoundsBounded`, `VestingInOrder`; in `BidBook` `AllocationIsDemand`,
`LowestPriceMatchedWithoutDust`, `UnmatchedBidsRefunded` and
`PaymentCoversAllocation`. Action properties: `BatchSettlementIsFair`,
`NoCloseAfterSniping`, `BidsOnlyImprove`. Refinement: `ImplementsEscrow`.
Liveness: `EveryAuctionEnds`.

Restarts: `RestartKeepsRecords`; and all properties of the runs over `Chain` hold
with restarts between blocks, whenever the export is valid. Hooks: `MirrorIsExact` (a listener knows the
auctions, cancellations and bids of the keeper), `AnnouncedIsPaid` (what it is
told before a settlement is what bidders receive).

Store: `ImplementsRecords` (a refinement: through its iterators the store is the
records, in the order of ids and times, and a restart loses no record and reuses no
id), `IterationsAgree` (the other prefixes and
the index show the same), `PrefixesAreExact` (an iteration finds the keys of its
kind, auction or bidder and no other ones) and `IndexIsExact` (every bid has its
entry in the index, which gives back the bid it stands for).
Queries: `WalkIsExact`. Codec: `RoundTrip`, `SizeIsExact`,
`UnmarshalNeverPanics`, `CutOffIsNoticed`, `AcceptedSurvives`.

Each is explained where it is defined.

## Runs

| Run | Configuration | Shows |
| --- | --- | --- |
| `fixed` | `MCFixed.cfg` | one auction: fixed price at 1.5, or a batch auction; fees of one coin, two vesting schedules, bids in both denominations, five invalid creation messages, transfers to all three reserves |
| `batch` | `MCBatch.cfg` | an auction without vesting: worth and many bids, modifications, a list of allowed bidders that is refused at its third entry, a cap lowered after bids were placed, transfers, restarts, a listener |
| `rounds` | `MCRounds.cfg` | two extended rounds, late bids, vesting with a release time inside the extended rounds, changes of `ExtendedPeriod` between 0 and 1, restarts |
| `two` | `MCTwo.cfg` | two auctions at the same time, both kinds, cancellation, restarts, under fairness |
| `book` | `MCBidBook.cfg` | all books of up to three bids |
| `store` | `MCStore.cfg` | all stores of up to 10 keys, with ids of two bytes of two values each, two release times on different days, and restarts |
| `queries` | `MCQueries.cfg` | seven kinds of clients with pages of one record over stores of up to 11 keys, with one release time |
| `codec` | `MCCodec.cfg` | all messages with up to two fields set at their boundaries, and arbitrary buffers of up to four chunks read as four of the messages |

Bounds. Two bidders are enough to compete for the last unit and to be capped
independently; three bids are enough for a bid to be displaced by two others
and for one bidder to have two bids next to another's. Prices of 0.5, 1
and 1.5 with amounts 1 to 3 make every conversion round. `MaxTime` is at least
the last release time of every message, and as blocks may skip any number of
time units, also several ends at once. Restarts are not bounded: they change
nothing but the number of matched bids, and so add few states. Ten keys are
two auctions, one of them with a bid, index, counters, limits and queues, or one
auction with two bids; two auctions with a limit and a bid each need the eleven of
`queries`, which leaves the order of several queues to `store`. One record per page
makes every record a page boundary. Two fields are enough for
a field to be read as a part of the one before it; the chunks are
tags, lengths at both ends of the range of an int, pieces of groups, and times out of range.

The keeper's runs check deadlock. The others end when a bound is reached: the
book is full, the store has all its keys, the buffer has arrived.

Fairness, for `two` only: a BeginBlocker that has started continues
(`WF_cursor(LeaveAuction)`), blocks keep being made (`WF_vars(NewBlock)`), and
time passes (`SF_vars(TimePasses)`: strong, because blocks at the same model time,
messages and restarts may come in between for ever). All three are what
consensus gives a chain; no message and no restart is assumed. `LeaveAuction`
only restricts `cursor`; as the deadlock checks show some step is possible for
every visited auction, this is weak fairness of the BeginBlocker. That a restart
forgets the number of matched bids can cost an auction one more round, never
more than its maximum: the end times, which bound the rounds, survive.

## Where documentation and code disagree

Four runs end with a violation of what a doc, a comment or a test says:

- `book_dust`: the search does not always find the lowest matching price
  (`keeper/match.go:68`). A worth bid that is too small to buy a unit at some
  price makes `Match` fail there although a lower price matches. Books without
  such bids are matched at the lowest price (`LowestPriceMatchedWithoutDust`).
- `sort_order`: `SortBids` does not sort by price (`types/utils.go:35`) when there
  are seven bids or more. `BidsByPrice` then collects the bids by price, so that
  only the order within one price is affected.
- `stale_marks`: `IsMatched` is the mark of the winners "when an auction ends"
  (`spec/02_state.md:178`). The matching of every round sets marks and none is ever
  reset (`keeper/match.go:110`), so that a bid that was displaced in an extended round
  is still marked when the auction ends, and the query for matched bids returns it.
  `MarksAreWinners` states the documented meaning.
- `reimport`: the genesis test requires of an export that it validates
  (`keeper/genesis_test.go:109`). That of an auction extended past its first
  release time does not: `BaseAuction.Validate` compares the release times with
  the last end time, the creation message with the first.

Visible in the model without a run of its own:

- "Bids queries all bids for the auction" (`keeper/grpc_query.go:181`;
  `docs/How-To/api/README.md:205`: "with the given auction id"), but with a bidder in the
  request the answer has that bidder's bids in all auctions: `Matches` looks at the
  bidder and the mark, as `keeper/grpc_query.go:285` does, and never at the auction.
- `spec/05_end_block.md:71` and `:79` cap the allocation of a bidder by a maximum,
  `max(..., S^max_n)`; `types/match.go:44` takes the minimum, which is what a cap is
  (`MatchAmount`).
- `MatchedPrice` is never written (`spec/05_end_block.md:18` says it is "updated
  for the auction"); no action changes `matchedPrice`.
- A sold out fixed price auction does not close before its end time
  (`spec/05_end_block.md:15`); `ShouldAuctionClosed` looks at the time only.
- Batch bids are compared with the maximum bid amount one by one, not in total
  (`keeper/bid.go:186`). The allocation is capped nevertheless
  (`BatchSettlementIsFair`).
- `MatchedBidsLen` is lost in an export, so that an exported and imported chain
  has another state than the original one; this shows only when the export
  is taken in an extended round.
- The comments of `keeper/invariants.go` state the inequalities the wrong way
  round (reserves must be at least the obligations, as the code checks).
- `spec/07_params.md` gives `ExtendedPeriod` in seconds and `ExtendRound` adds days.
- `spec/01_concepts.md` extends a round if "more than" `ExtendedRoundRate` of the
  matched bids are lost, the code if at least as many.
- An auction created at its own end time takes bids in that block.
- `isMatched` of a bid query is parsed only when the first bid is visited, if there
  is a bidder: a malformed value is no error for a bidder without bids.
- `BeforeAllowedBiddersAdded` is called before the entries are validated, and
  without the auction id.

## Proofs

TLAPS proves the theorems for every value of the constants that satisfies the
named assumptions: any number of accounts, auctions, bids and schedules, any
prices, amounts, weights, rates and fees, any number of bytes of an id. The
assumptions are `OneAssumption`, `FundraisingAssumption`, `BookAssumption`,
`StoreAssumption` and `QueriesAssumption`, which TLC evaluates on the runs. `ReservesExact`,
`KeeperIsEscrow` and the two theorems that say the same of a chain with restarts
also assume `Transfers = {}`: what they say is false, by design of the bank, when
strangers may send coins to a reserve account.

| Theorem | Property | Rests on |
| --- | --- | --- |
| `TypeCorrect` | `TypeOK` | itself |
| `RoundsAreBounded` | `RoundsBounded` | `TypeOK` |
| `BidsOnlyEverImprove` | `BidsOnlyImprove` | `TypeOK` |
| `NeverOversold` | `FixedPriceNeverOversold` | `RecordsInv` |
| `ReservesCover` | `ReservesCoverObligations` | `RecordsInv`, `Covered` |
| `ReservesExact` | `ReservesAreExact` | `RecordsInv`, `Exact` |
| `VestingIsInOrder` | `VestingInOrder` | `RecordsInv`, `VestingInv` |
| `BeginBlockerIsSafe` | `BeginBlockerNeverPanics` | `RecordsInv`, `Covered`, `BatchAllocationFair` |
| `SettlementIsFair` | `BatchSettlementIsFair` | `RecordsInv`, `BatchAllocationFair` |
| `SnipingExtends` | `NoCloseAfterSniping` | `MarksInv` |
| `CoinsAreConserved` | `CoinsConserved` | `UnusedReserves` |
| `KeeperIsEscrow` | `ImplementsEscrow` | `Exact`, `VestingInv`, `RecordsInv` |
| `AllocationMeetsDemand` | `AllocationIsDemand` | `BookInv`, `MatchIsDemand` |
| `BisectionFindsLowest` | `LowestPriceMatchedWithoutDust` | `BookInv`, `FoundIndex`, `DemandAntitone` |
| `RefundsCoverUnmatched` | `UnmatchedBidsRefunded` | `BookInv`, `AccOK` |
| `RoundingFavoursAuctioneer` | `PaymentCoversAllocation` | `BookInv`, `AccOK` |
| `RestartLosesNoRecord` | `RestartKeepsRecords` | `RecordsInv`, `UnusedAllowed` |
| `KeeperSurvivesRestarts` | `TypeOK` and six more invariants | `ChainInv` |
| `RulesSurviveRestarts` | `BidsOnlyImprove`, `BatchSettlementIsFair`, `NoCloseAfterSniping` | `ChainInv` |
| `ReservesExactAcrossRestarts` | `ReservesAreExact` | `ChainInv`, `Exact` |
| `ChainIsEscrow` | `ImplementsEscrow` | `ChainInv`, `Exact` |
| `ListenersMirror` | `MirrorIsExact` | `ChainInv`, `Mirror` |
| `AnnouncedPaid` | `AnnouncedIsPaid` | `ChainInv`, `Mirror` |
| `StoreIsConsistent` | | `EntriesInv` |
| `IterationsFindTheirOwn` | `PrefixesAreExact` | `EntriesInv`, `KeyKinds`, `BigEndianInjective` |
| `IndexHasTheBids` | `IndexIsExact` | `EntriesInv`, `IdIsReadBack` |
| `StoreIsRecords` | `ImplementsRecords` | `EntriesInv`, `OrderOfKeys`, `Numbered`, `RestartWrites` |
| `IterationsShowTheSame` | `IterationsAgree` | `EntriesInv`, `KeysInOrder` |
| `WalksAreExact` | `WalkIsExact` | `EntriesInv`, `WalkInv` |
| `QueriesOnlyRead` | | |

The arguments:

- Types. The content of `TypeOK` is that all amounts stay natural numbers. What
  needs an argument: a balance is debited only after `HasCoins`; the remaining
  selling coin is checked in the converted amount that is subtracted; the
  additional reserve of a modified bid is not negative since rounding up is
  monotone (`MulCeilMonotone`); the number of matched bids is the cardinality of
  a finite set; allowed bidders are given the last of their entries, which
  exists (`GreatestNat`).
- Rounds. Only creations and `ExtendRound` touch end times, and an extension is
  refused when the number of end times equals the maximum, so that the equality
  is never jumped over.
- Records. `ReserveProofs` first states what every operation writes: one auction,
  or nothing that matters (`ChangesOnly`, `Quiet`, one lemma per operation). The
  inductive invariant `RecordsInv` relates the records of one auction: its message
  is valid, its bids are bids that the handlers of its type accept, its remaining
  coin is what its fixed price bids left, and it has vesting queues, one per
  schedule, only after a settlement.
- Reserves. What an account holds beyond what the auction owes is a surplus. A
  step either keeps the surplus of every account or, when a stranger sends coins,
  adds to one (`KeepsSurplus`, `AddsSurplus`), so that it is never negative
  (`Covered`) and, without transfers, always zero (`Exact`). The steps that change
  both sides are a bid, a modification (the difference is reserved), and the
  settlement, which leaves the vesting reserve with what it put into the queues:
  the last queue takes what the portions of the others have left, and these fit
  because the weights sum to one.
- Matching. The loop of `Match` keeps `AccOK`: allocations respect MaxBidAmount
  and sum up to the matched amount, which is on offer; a bidder pays no more
  than their matched bids reserved, since the matched price is not above the
  price of a matched bid, and no less than the price of the allocation. That is
  independent of the order of the bids, which only has to list every bid once
  (`IsOrder`; `SortBidsOrder`, `BidsByPriceOrder`), and of the price that the
  search finds (`SearchFacts`). `BatchAllocationFair` is what the settlement needs of it.
- Settlement. `Covered` and `BatchAllocationFair` make every transfer of `CanSettle`
  possible; for a fixed price auction the allocation sums up to what was sold
  (`SumByOwner`, `RecordsInv`).
- Vesting. `VestingInv` says of the queues of an auction that they are in the order
  of their release times, that a released queue was due, and that the auction
  is finished when all are released. Times only grow.
- Anti-sniping. `MarksInv` says that no bid is marked before the first extended
  round, and that during it there are as many marked bids as `MatchedBidsLen`,
  or that this is 0, as it is after a restart.
  It does not hold for later rounds: a bid that a later round displaces keeps
  its mark. The rate is a rounded quotient; `RateIsExact` bounds what the
  rounding can do.
- Conservation. Every step moves an amount from one place of the sum to another;
  `UnusedReserves` (the reserves of auctions that do not exist yet are empty) is
  needed when an auction is created.
- Escrow. A step of the keeper changes the stage or the reserves of one auction
  or of none; `Exact` gives the values, `RecordsInv` and `VestingInv` the stages.
- Demand. After every bid, the loop of `Match` either has given everybody what the
  bids seen so far demand, capped by MaxBidAmount, or these bids demand more than
  is on offer (`LoopOK`). As more bids demand no less, giving up early is right. So `Match`
  matches at a price exactly when the demand there is positive and on offer
  (`MatchIsDemand`). The demand falls when the price rises (`DemandAntitone`); without
  dust it is positive at every price (`DemandPositive`); so feasibility is
  monotone, which is what the bisection needs. `FoundIndex` holds with dust, too:
  the search then stops at a feasible price with an infeasible one below it, though
  not always at the lowest one (run `book_dust`).
- Restarts. The exported lists are those of all auctions, one after the other, and
  the import picks out of them the records of each auction (`FlattenFacts`,
  `Regrouped`). That gives back the list of an auction because its records are in
  the order of their ids and no id is missing (`BidsReturn`, `QueuesReturn`), and
  because auctions that do not exist have no records (`RecordsInv`,
  `UnusedAllowed`). `RestartEffect` is the result: a restart changes nothing but
  `MatchedBidsLen`, which becomes 0; `MarksInv` allows for it. So `ChainInv`, the
  invariants of the keeper together, is inductive for `ChainNext`, too.
- Listeners. One lemma per hook says what a listener makes of the call (`Hears...`),
  and one per operation that what the handler writes is what it tells (`...Told`);
  operations without a hook leave the terms of auctions and bids alone
  (`KeptSteps`). `Mirror` is `MirrorIsExact` with its parts named. For
  `AnnouncedIsPaid`, an auction leaves `Started` by a settlement only, which calls
  the hook with the allocation and the refunds that it then pays.
- Keys. `Top(n, i)` is what the first `i` bytes of an id say. Dividing twice is
  dividing by the product (`DivideTwice`), so that every byte refines what the ones
  before say (`TopFacts`). Two ids first differ in a byte in which the smaller
  one has the smaller value (`FirstDifference`); hence the order of keys, and
  different ids have different bytes (`BigEndianInjective`). Reading an id adds up the
  same bytes (`IdIsReadBack`). The first byte of a key tells its kind (`KeyKinds`), and
  every variable part is of fixed length or has its length in front, so that a
  key starts with the prefix of an auction or bidder only if it has that id or
  address (`IdPrefix`, `AddressPrefix`).
- Store. `StoreInv` relates the kinds of keys: the counters are within their bounds
  (`NumbersOk`), auctions and bids are those up to the last id, under their own
  keys (`AuctionsOk`, `BidsOk`), the index has exactly the bids of each bidder
  (`IndexOk`), and only auctions that vest or have finished have queues
  (`QueuesOk`). One lemma per handler says which kinds of keys it writes
  (`...Writes`, `SameBut`), so that the parts about other kinds are kept.
- Records. `Nth(T, i)` is the i-th of a set of numbers. When the keys of a set are
  numbered by T in the order of T, the list of the set is that of the numbers
  (`Numbered`). With the order of keys, every list that the keeper reads can be
  read off `StoreInv`, and each handler is an operation of `Records`.
- Iterations. The order of bytes is total (`TotalOrder`, `Transitive`), so that `InOrder`
  lists every key of a finite set once, in that order (`KeysInOrder`). `EntriesInv`
  adds to `StoreInv` that a limit is stored under its own bidder, that only auctions
  have bids, limits and counters, and that the keys are finitely many. It is the
  inductive invariant of handlers and restarts together.
- Restarts of the store. By `IterationsAgree` the exported lists have every record once
  (`ExportedAuctions`, `ExportedBidders`, `ExportedBids`, `ExportedQueues`), and since the
  bids of an auction are those up to its last id, counting them gives that id
  (`BidsAreCounted`). So the import writes all that there was (`ImportsTheOld`) but the
  numbers of matched bids, and nothing else (`ImportsAll`, `RestartWrites`).
- Pages. Every hit of a query stands for one record that was asked for, and every
  such record has one hit (`StandsFor`, `HitsAreAsked`). A page has the first hits
  from its start, and its next key divides what is left from what was given
  (`PageIs`; `KeyPage`, `FirstPage`).
- Walks. Of a client with a next key, `KeyWalk` says that what they got stands before
  that key, and that what was there all the time and stands before it was got.
  Nothing in it depends on the present store, so a write between two pages
  keeps it; a page moves the key on. Of a client with an offset in a list that
  only grows at its end, `OffsetWalk` says that they got the first records of the
  list, which writes leave where they are (`NumbersGrow`).

Induction over sums, loops and sets is done with `InductiveSet` and
`InductiveSets`, which speak about sets of numbers or of sets rather than about
predicates and follow from the well-foundedness of `<` on the naturals; each
recursive function of the model is shown to exist before it is unfolded.

The theorems of `FundraisingProofs` to `SettlementProofs` are about `Spec`, the
keeper alone, which `MCFixed.cfg` checks; those of `ChainProofs` are about
`ChainSpec`, with restarts and listeners, which the other runs of the keeper check.
Those of the store are about the `Spec` of `Store`, restarts included;
`QueriesOnlyRead` extends them to `QuerySpec`, where clients read.

Only model-checked:

- `EveryAuctionEnds`: liveness under fairness, and `ENABLED`.
- the codec: its functions are recursive operators over the bytes of a buffer.

## Not modelled

- Client and HTTP gateway: parsing of arguments, printing, forwarding.
- Simulation: random inputs for tests. Application wiring and commands of the
  node: construction and registration.
- Events, gas, and the JSON and amino encodings of messages.
- The pagination features that no query of the module treats specially: reverse
  order and counting the total.
- Which order `sort.Slice` leaves more than 12 bids in: it partitions them with the
  same comparator.
- Changes of the two fee parameters: they only change what later messages pay.
- Overflow of amounts: `sdk.Int` panics beyond 256 bits, which a handler turns
  into a failed message; amounts that large exist on no chain.

## Plan

`ProtoWire` with recursive functions in place of recursive operators, and
`RoundTrip` for one message: that a varint is read as it was written, for any
`WordBits`, then a field, then a message by induction over its fields.
