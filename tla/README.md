# RWperp: models and proofs

RWperp trades perpetual contracts on real-world assets (gold, oil, an index of
house prices) on the Casper chain. Two kinds of market exist: *daily* markets,
settled once a day at a price that an oracle finalizes, and *continuous* perps,
priced by a stream and meant to be kept near the asset's price by a funding
rate, which the code always computes as zero (run `factory_funding`). The
protocol is a set of Rust contracts under `contracts/`; JavaScript services
under `backend/` send the periodic deploys; an API server reads the chain for a
web frontend.

This directory holds TLA+ modules that model the contracts, the services, the
API server and the pages of the frontend that ask it, TLC configurations that
check them on small instances, and TLAPS proofs for every value of the
constants. `PROJECT.json` lists the components, the runs, the source lines that
each definition stands for, the hazards of the code and the theorems.

## How to read the models

* **Contracts: one entry point, one action.** A deploy runs alone on the chain;
  a revert, a panic or an overflow (`overflow-checks = true`, `panic = "abort"`
  in `Cargo.toml`) undoes all of it. An entry point is therefore one action, its
  checks are the guard, and a call that fails is a step that does not happen. A
  deploy that calls other contracts is still one action. What interleaves is
  deploys from any number of accounts, and the chain's blocks (`Tick`).
* **Services and server: what happens between two awaits is one action.** Timers,
  answers of the network, executions of deploys, faults and restarts are actions
  of their own, in any order that the code and the network permit.
* **Callers.** Contracts compare `get_caller()` with a stored key turned into an
  account, so a role is an account. In a nested call `get_caller()` is the
  account that sent the deploy. Names such as `SettlementContract` keep the
  source's words for what is, in the code, an account.
* **Time** in the contracts is counted in the unit their own constants use
  (seconds); the chain's block time is in milliseconds, and a deployment would
  have to convert. In the services it is relative (ages, time since the last
  payment), so behaviours may go on for ever and liveness can be stated.
* **What compiles.** The contracts lack some trait implementations and two error
  constants, and `settle_all_markets` calls itself through the caller's key. The
  evident meaning of the source is what is modelled. `settler.js` parses a
  placeholder for the contract's key, which throws; it is modelled as with a key
  filled in.
* **Parts that share nothing.** `Custody`, `Trading`, `Keepers` and `Web` compose
  modules whose code has no state in common but the block time. The variable
  `focus` names the part that runs while the others rest in one state; the product
  of independent parts would multiply states and add no case.
* **History variables** are marked `history:` where they are declared. They
  record what happened, for properties; no guard reads them.
* **Mutants.** A definition whose comment begins with `Mutant:` is not part of
  the model. It is a plausible bug of the definition below it, which the
  properties must notice when it takes that definition's place.

## Inventory

| Component | State | Operations | Talks to |
|---|---|---|---|
| Vault (`contracts/vault`) | per-user account, totals per kind, insurance fund, paused flag | deposits in two kinds, withdrawal of CSPR, lock, unlock with profit or loss, insurance fund, pause | called by position manager and settlement roles |
| Oracle (`contracts/oracle`) | validators, submissions, finalized prices, streamed price and its sequence, configuration | register, submit, aggregate, slash, configure, start and update a stream | read by settlement |
| Market factory (`contracts/market-factory`) | daily markets, perps, funding history, configuration | create and settle a daily market, create and price a perp, pay funding, configure | called by settlement; by the oracle and settlement accounts |
| Settlement (`contracts/settlement`) | time of the last settlement, records | settle one market, settle a batch, emergency settlement | calls oracle, factory, position manager |
| Position manager (`contracts/position-manager`) | positions | open, close, apply funding | calls nothing yet |
| Liquidity pool (`contracts/liquidity-pool`) | pool, LP accounts, withdrawal requests | add, request, execute, fees, trader results | calls nothing yet |
| Governance (`contracts/governance`) | stakes, proposals, votes | stake, unstake, propose, vote, execute | calls nothing yet |
| Yield farming (`contracts/yield-farming`) | pools, stakes, reward accumulators | create, stake, unstake, harvest | calls nothing yet |
| Social trading (`contracts/social-trading`) | leaders, copy relationships | register, copy, stop, mirror, fees, limits | position manager (stub) |
| Settlement keeper (`backend/settlement-keeper`) | schedule, retry timers | sends the daily batch | settlement |
| Daily validator (`backend/oracle-validator`) | schedule | sends the closing price of each asset | oracle |
| Funding keeper (`backend/services/funding-keeper.js`) | schedule or next due time | sends `pay_funding` for one perp after the other, every eight hours | factory |
| Price feed (`backend/services/oracle-validator.js`) | cache of the last price per asset, updates under way | fetches, checks and sends prices every few seconds | oracle |
| API server (`backend/api-server`) | Redis cache with expiry and its connection, price service | its routes, which read the contracts or the cache | reads the contracts; Redis |
| WebSocket server (in `api-server/src/index.js`) | subscriptions, a flag of life per connection | subscribe, unsubscribe, broadcast, heartbeat | frontend |
| Frontend (`frontend/`) | per page: filters, what is shown, fetches under way | fetch on a change, on a timer, after a button | API server |
| Deployment script | none of the protocol's | | |

### Behaviours that are hard

* **Orders of deploys nobody tries.** Locks in two kinds of collateral and a
  loss charged to the other kind; a slash between two submissions; a single
  settlement between two batches; funding applied between a liquidation test
  and a payout; the same market or farming pool created again; a withdrawal
  requested twice before the first is paid.
* **Atomic groups.** A batch settles several markets, opens their successors and
  writes a record for each, in one deploy with one block time; one deploy pays
  several withdrawals, each out of what the one before it left.
* **Time.** Gaps between batches, funding intervals, voting periods, delays and
  update intervals are counted from a stored time that several accounts can move.
* **Arithmetic.** Truncated division, clamps, a rate within a range, totals
  that must agree, amounts without a sign, accumulators rounded at every step.
* **Off chain.** A service takes a deploy that was sent for one that succeeded;
  timers overlap; a retry runs beside the next schedule; processes crash and
  forget; a read that failed looks like an item that is not there, and is
  cached; an older answer arrives after a newer one; a link dies without notice.

### What makes each component correct

* Vault: books close, claims reconcile with deposits, locks are backed.
* Oracle: a submission stands, a finalized price is what most sources say, a
  validator without a stake is inactive, the stream is paced.
* Factory: a result is final, funding is paid once an interval at the rate the
  formula gives.
* Settlement: batches are apart, every market closed is recorded and has a
  successor, an asset never stops trading.
* Positions: losses stay within collateral (as far as they fit i128), two sides
  cancel out, a closed position is final, a liquidation price is one.
* Pool: a token never loses worth to another provider, and who has the tokens can
  withdraw. Governance: what was executed had been carried, and no later vote
  undoes that (nothing in the code keeps a user from voting twice, so "one vote
  per stake" is not among the properties). Farming: rewards paid and owed are
  rewards the pool had, and nobody loses any.
* Services: every day is settled and retried, every interval is funded, funding
  goes on after faults, the feed does not go back in time unless a price is late,
  and is not stuck near the market.
* API server: answers are fresh, become whole after failures, and come. Sockets:
  the living are kept, the dead are dropped, who left hears nothing. Pages: show
  what was asked for, and do not stay behind.

## Modules

| Module | Models | Notes |
|---|---|---|
| `Vault` | `contracts/vault` | `Deposit` stands for both deposit entry points, `SettleProfit` and `SettleLoss` for the two branches of `unlock_and_settle`; U512 and i128 limits are constants |
| `MarginLedger` | what a margin account promises | equity and commitments only; abstract; the vault implements it |
| `BlockTime` | the block time that all contracts see | |
| `LiquidityPool` | `contracts/liquidity-pool` | executing the mature requests of a provider is a fold over his list, written as a recursive function |
| `Governance` | `contracts/governance` | amounts are RWP, `Day` the unit of locks |
| `YieldFarming` | `contracts/yield-farming`, one pool | the accumulator is scaled by `Precision` (10^18 in the code) |
| `Custody` | the four contracts that keep what users own | composition by `focus` |
| `Storage` | named keys of a contract | a map from bound names to values |
| `Arithmetic` | signed division, basis points | shared |
| `Oracle` | `contracts/oracle` | a list of prices is a sorted list: median and deviation do not see the order |
| `MarketFactory` | `contracts/market-factory` | a key is a tuple, `<<asset, date>>` or `<<"perp", asset>>` |
| `Trading` | oracle, factory and position manager | composition by `focus` |
| `Settlement` | `contracts/settlement` with the factory's daily part and the oracle's aggregates | instances of `MarketFactory` and `Oracle`; a batch applies its entries in order by a fold written as a recursive function |
| `PositionMath`, `PositionManager` | `contracts/position-manager` | `lib.rs` and the entry points; amounts are u128 and U512, cast to i128 as in the code (`AsI128` wraps), and what does not fit panics (the `...Fits` operators); `MaxI128` and `MaxU512` are constants |
| `DailyServices` | settlement keeper and daily validator | a tick is five minutes |
| `FundingKeeper` | funding keeper | both schedulers (cron, or a check once a minute), with and without keys; the factory is the time since an asset's last payment |
| `PriceFeed` | price feed, for one asset | prices and deploys carry the age of the market price they were read from, with no limit on the age of what waits (above `MaxAge` ages are one); answers without data and without a number are actions; the oracle is its interval and its limit |
| `Keepers` | the services together | composition by `focus`; fairness |
| `ApiRoutes` | `api-server/src/routes` and the clients they read with | each route is its reads, its time to live and what a failed read makes of it |
| `ApiServer` | request handlers, Redis and its reconnection, price service | data is what it was read as: how old it may be and whether a failure left anything out |
| `PriceSockets` | the WebSocket server | messages in order per connection; a link may die unnoticed |
| `WebPages` | five pages of the frontend that ask the API | fetches overlap; an answer is known by the wish it was asked with |
| `LeaderPages` | paging through `GET /api/social/leaders` | the leaders are the fixed ones of `social-client.js`; what they earned is drawn for every answer, so `minRoi` is where it lies against what they can earn: below, within or above |
| `Web` | server and frontend together | composition by `focus`; fairness |
| `MC*` | | accounts, assets, prices and routes for TLC |
| `CommonProofs` | | storage, sums over sets, induction over sets, division |
| `*Proofs` | | theorems; see below |

`Settlement` composes three contracts. Its deploys read the oracle's `aggregated`
and change the factory's `markets`; deploys sent to the factory and the oracle
directly (`CreateDailyMarket`, `AggregatePrices`) interleave with them. The
instances fix what daily settlement never touches (perps, validators, streams) at
a constant.

## Runs

The contract runs have no fairness: every deploy is somebody's choice and none
has to come. They say `CHECK_DEADLOCK FALSE`, because their bounds end every
behaviour. The runs of the services and of the server check for deadlock: their
time is relative and something can always happen.

Fairness is weak throughout and only of what the code or its platform does by
itself. `Keepers` assumes that timers fire, that an asynchronous step that was
started goes on (`CycleStep`, `ReadSource` or `ReceivePrice`, `SetTimer`), that
a deploy that was sent and not lost is executed, and that the funding keeper is
started again after a crash (a process manager; without it nothing can be
promised). `Web` assumes the server's timers, that a handler, an update of the
prices, a page's fetch end one way or another, that `reconnectStrategy` retries,
and that the server is started again. The code sets no time limit on its reads
of the node and the pages none on their fetches: that these end, with an answer
or an error, is the platform's doing (a connection that nobody serves is closed
some time), and so is the end of a fetch of the price feed. Faults are actions
without fairness: they may always happen, and none has to; Redis need not come
back. Fairness is stated per client and per starter of an update, since each is
an asynchronous function of its own. What makes faults come to an end is their
bound (`MaxFaults`, `MaxTroubles`, `MaxLost`) and, for the feed, `calm`: the
liveness properties say what holds after the last one, wherever in a behaviour
it falls.

| Run | Shows | Bounds and why they suffice |
|---|---|---|
| `custody` | `LedgerBalanced`, `CollateralBacked`, refinement of `MarginLedger` (`LedgerSpec`); `TotalsAddUp`, `NobodyDiluted`, `WithdrawalsHonoured`; `DecisionsStand`; `RewardsBacked`, `RewardsNeverLost`; types | Vault: one trader and three roles (no entry point touches two accounts), amounts 0..2, `MaxU512` 3 and `MaxI128` 2, small enough for additions to reach them. Pool: two providers, up to two requests each, results of -1 and 3, amounts that round. Governance: two voters, a quorum of three that takes both of them, a vote cast twice or somebody with three tokens, votes up to six so that voting again matters. Farming: two farmers, four changes of a stake, an accumulator with one decimal that rounds, a pool created twice. Four block times, one more than the longest sequence of delays |
| `vault_insurance` | violation: the insurance fund pays nothing | the vault alone, same bounds |
| `trading` | oracle: `SubmissionsStand`, `ValidatorsBacked`, `MedianResistsOutliers`, `FeedIsPaced`; factory: `ResultStands`, `FundingPaced`; positions: `LossBelowCollateral`, `ZeroSum`, `LongsFallAtLiquidationPrice`, `ClosedForGood` | Oracle: an admin who also validates and a second validator, lists of two and three prices finalized and single ones refused, a stake above and one below the slash, four blocks, prices at the limits of the deviations and past them. Factory: the four kinds of caller, two assets, price zero, two market creations on one date, an interval of two blocks out of four, so two payments fit and a third does not. Positions: two users, two positions of any kind, entry price zero, leverages inside and outside 1..10, exit prices at, just under and above the liquidation prices, rates of both signs that round, an i128 of 21 bits and a U512 of 31, small enough for a collateral whose loss wraps, whose size wraps in the funding, and whose product does not fit |
| `oracle_finalize` | violation: a price finalized from no submission | the oracle alone, same bounds |
| `factory_funding` | violation: a rate of zero where premium and interest are not | the factory alone, same bounds |
| `settlement` | `BatchesSpaced`, `AssetKeepsTrading`, types | one account with both roles (emergencies need it) and one without, two assets, two targets a day apart, up to four markets, batches of up to two entries, a gap of two blocks out of four |
| `settlement_records` | violation: one record for a batch of two | same |
| `positions_funding` | violation: a payout without funding | one position |
| `keepers` | `GapBounded`, `FundingGoesOn`; `PromptPriceAdvances`, `FeedRecovers`; `StartsAccounted`; types | Funding: two assets, an interval of three ticks, a cycle and a deploy that take up to one each, so a payment can be late, early and reverted; one fault (a crash, a failed send or a lost deploy) at any moment. Feed: three prices of which two are within the limits of each other and the third is not, a made-up price off the market, two updates open at once, an interval of two ticks and readings told apart up to one tick more, so that late ones overtake each other. Daily: two assets, three ticks a day with a retry after two, so a retry meets the next start; three starts |
| `keepers_funding` | violation: an interval without funding | same, by cron only |
| `web` | `FreshAnswers`, `WholeAgain`, `RequestsAnswered`; `LiveClientKept`, `DeadClientDropped`, `QuietWhenLeft`; `ShownAsAsked`, `PollCatchesUp`; `PagesCoverLeaders`; types | Server: every route is asked by one client, and one list and one single item by two clients at once; data no older than twelve ticks is told apart, up to two troubles (failed reads, a crash, Redis gone). Sockets: one connection (connections share nothing), two channels, two messages under way. Pages: two filters with two values, three fetches under way, two answers lost. Paging: pages smaller than, as large as and larger than the list, `minRoi` below, within and above what the leaders earn |
| `web_documented` | violation: markets that show prices older than documented | same |

Types of the oracle, the factory and the positions are proved and not checked
again in a run.

### What the violations say

* `vault_insurance`: the comment in `unlock_and_settle` and ARCHITECTURE.md say
  that the insurance fund covers an underwater account. The code sets the balance
  to zero; nothing ever leaves the fund.
* `oracle_finalize`: ARCHITECTURE.md asks for three of five validators.
  `aggregate_prices` takes its prices from the deploy.
* `settlement_records`: records are stored under the block time, so a batch keeps
  only its last one.
* `positions_funding`: the documents of the perps include funding in the payout;
  `close_position` does not.
* `factory_funding`: the comments in `calculate_funding_rate` and
  CONTINUOUS_PERPS_COMPLETE.md (28-31, 73-76, 200-204, 231-262) describe a rate
  that follows the premium of mark over index, with an interest of one basis point.
  Every entry point that prices a perp writes one price as both, so the premium is
  zero, and (0 + 1) / 3 is zero in integers: nobody ever pays funding.
  `FundingFollowsPremium` asks only for the sign of the rate; `FundingAlwaysFlat`
  proves that it stays zero.
* `web_documented`: the API server's README.md (456-457) says that prices and
  markets are kept for 30 seconds and positions for 10. `updatePrices` keeps the
  prices for 60, and an answer that was built from them is kept on top of that.
  `FreshAsDocumented` grants the documented times one after the other, and the
  time that an update and a request take, and is still violated when the update
  that should have replaced the prices is slow. `FreshAnswers` says what the code's
  own times allow.
* `keepers_funding`: the header of the keeper says that funding is paid every
  eight hours. A payment that is executed a little sooner after the last one than
  an interval (the last one was slow, or its cycle was) is reverted with
  `FUNDING_TOO_EARLY`; the keeper counted it as paid when it was sent, so the next
  one comes eight hours later. `GapBounded` shows that it gets no worse than two
  intervals and what a cycle and a deploy take.

### Remarks on the code

Noticed while modelling; the models do what the code does.

* `GET /api/social/leaders/:address` always answers 500: it calls
  `getUserPositions` of a module that does not export it. `sortBy=aum` throws
  when there is something to compare (the order returns a BigInt, which `sort` cannot
  take for a number), and
  `verified=false` filters as `true` does, since the string is truthy.
* A read of the chain that failed looks like an item that is missing, so a 404 or
  a shorter list may be a node that did not answer. The shorter list is cached; a
  404, and an empty list of positions, return before `setCached`.
* `GET /api/social/leaders` with a `minRoi` within what the leaders can earn filters
  others for each page, since their roi is drawn anew: a walk may give a leader twice
  or never. `PagesCoverLeaders` is about the other values.
* Positions: `calculate_pnl_with_funding` casts the result from u128 to i128, so
  that a loss above 2^127 - 1 becomes a profit, and `is_liquidated` ("Liquidation
  occurs if loss >= collateral", lib.rs:138) does not see it: a continuous position
  closes with a loss above its collateral. `LossBelowCollateral` exempts exactly
  these. `apply_funding` casts the size the same way, which changes the side that
  pays; results above u128 and products above the types panic.
* Price feed: a fetch has no time limit and a deploy lives for half an hour, so a
  price that is late by more than the oracle's interval may replace a newer one.
  `PromptPriceAdvances` is about those that are not.
* Price feed: when a source answers without data, or there is no key for it, the
  service makes up a price around a constant and sends it as any other; a quote
  without its price is parsed to NaN, which passes `validatePriceChange` and is
  cached, so that the next price is compared with nothing. A price of zero would be
  cached too and then refuse every other; the models assume that sources report
  positive ones. After a move of two to
  five percent the service caches prices that the oracle refuses, and neither
  learns of the other: `FeedRecovers` is about smaller moves.
* On the leaders page an older answer may come after a newer one and stay
  (`spoiled` in `WebPages`).
* Governance: a user may vote again and again, and staking again may shorten a
  lock. `DecisionsStand` says what remains true.
* Pool: `get_lp_token_price` counts fees and results twice, `add_fees` and
  `update_trader_pnl` take any caller, and a provider who requested more than he
  holds can execute none of his requests any more.
* Farming: the end time of a pool is never read, and `get_pending_rewards` leaves
  out what was pending already.

## Proofs

Each proof module extends the modules it is about. The assumptions are the named
`ASSUME`s of those modules: constants are natural numbers where the code has
unsigned ones, the widths of the integers are numbers of which i128 is within
U512, a reading older than the oracle's interval can be told from others
(`AgesToldApart`: above `MaxAge` ages are one), prices that a source reports or
the service makes up are positive, an interval is not zero, sets of users are
finite, there is a page size and a filter to ask for. TLC evaluates them in the
runs.

| Theorem | Says | Argument |
|---|---|---|
| `CustodyProofs!TypeCorrect` | all amounts of the vault stay in range | inductive; every addition has its overflow guard |
| `CustodyProofs!BooksAlwaysClose` | `LedgerBalanced` | inductive with the types |
| `CustodyProofs!LockedIsBacked` | `CollateralBacked` | inductive: a lock needs the amount free in one kind, a loss not above the release keeps the sum |
| `CustodyProofs!VaultImplementsLedger` | `LedgerSpec`: the vault implements `MarginLedger` | step by step: each vault action is one of the ledger or a stutter |
| `CustodyProofs!LedgerIsBacked` | the ledger's own promise | inductive on the abstract module |
| `CustodyProofs!ClaimsAlwaysReconcile` | `ClaimsReconcile`, for any set of users | a step changes one term of each sum (`SumAt`) |
| `CustodyProofs!CustodyKeepsTheVault` | the composition implements the vault's specification | a step of another contract stutters; so all that is proved of `Vault` holds in `Custody` |
| `CustodyProofs!NobodyEverDiluted` | `NobodyDiluted` | `PoolInv`: what the pool is worth per token, compared by cross-multiplication, does not fall when tokens are minted (`MintedFairly`) or one request is paid (`RetainedFairly`); the second is chained over the list of requests that one deploy pays, by induction on its length |
| `CustodyProofs!WithdrawalsAlwaysHonoured` | `WithdrawalsHonoured`, for any number of requests in one deploy | `PoolInv`: the pool has at least the tokens of each provider. What the requests ask for up to each place is a sum that grows along the list (`AskedSteps`), so the pool has the tokens for each in turn (`RequestsArePayable`). The guard of `execute_withdrawal` is named (`CanWithdraw`), which says what `ENABLED` would |
| `CustodyProofs!DecisionsAlwaysStand` | `DecisionsStand` | `GovernanceInv` adds that an executed proposal's period is over, after which no vote counts |
| `CustodyProofs!RewardsAlwaysBacked` | `RewardsBacked`, for any rates, times and farmers | `FarmCounts`: the potential "precision times pending rewards, plus staked amounts times the accumulator, minus precision times debts" is covered by the rewards there were up to the last update and one for each change of a stake; it adds that no debt exceeds the share it was taken from |
| `CustodyProofs!RewardsAreNeverLost` | `RewardsNeverLost` | the accumulator only grows (`SharesGrow`), and settling keeps what was earned (`SettledDue`) |
| `CustodyProofs!TotalsAlwaysAddUp` | `TotalsAddUp` in all four contracts, for any set of users | each contract's own invariant |
| `CustodyProofs!TypesAlwaysOK` | types of the four | the invariants above |
| `MarketFactoryProofs!TypeCorrect` | types, rates within ten percent | inductive; `FundingRate` is clamped |
| `MarketFactoryProofs!FundingAlwaysFlat` | `FundingIsFlat`: what `factory_funding` finds is so for ever | `FundingIsFlat` is not inductive: the next rate depends on the two prices. `FlatInv` adds that mark and index price are equal, from which the premium is zero, a third of one basis point is zero, and the rate stays zero |
| `MarketFactoryProofs!FundingAlwaysPaced` | `FundingPaced` | inductive; it contains that no payment is later than the perp's last one, which a new payment is an interval after |
| `MarketFactoryProofs!ResultAlwaysStands` | `ResultStands` | no invariant is needed: each action names a market that is not settled, or puts a new one in its place |
| `OracleProofs!TypeCorrect` | types | `ValidatorInv` and `RestTypeOK`; the latter adds that every stream has its counter, without which the next sequence number has no type. `MedianType`: every price list is sorted, so the list that `Sorted` chooses exists and its middle is a price |
| `OracleProofs!AlwaysActiveHaveStake` | `ActiveHaveStake` | `ValidatorInv`: inductive with the type of the stakes, which a slash reduces to no less than zero |
| `OracleProofs!AlwaysBacked` | `ValidatorsBacked` | `CounterInv` adds that the stored keys are finite: a submission counts one and stores one, a registration starts at zero, a slash leaves the counter |
| `OracleProofs!FeedAlwaysPaced` | `FeedIsPaced` | the path of farthest prices exists and is monotone in price and steps (`FarthestSteps`, `OnwardMonotone`, `FarthestMonotone`, which rest on `StepsArePartial`: an update takes away no more than the price); an update comes an interval later, so it has a step more |
| `OracleProofs!SubmissionsAlwaysStand` | `SubmissionsStand` | only a key that is not there yet is written |
| `OracleProofs!MedianAlwaysResists` | `MedianResistsOutliers`, for any number of prices | `SourcesInv`: what is final is the median of the stored list. Sorting permutes a list, so as many places of the sorted list as of the original are in a range (`SameTimes`, `SameCounts`); were the middle outside, half of them would be (`MiddleInside`, `MedianInside`) |
| `SettlementProofs!TypeCorrect` | `TypeOK`: records, markets, prices | inductive; a batch is a fold over its entries, whose intermediate maps of markets keep their type (`AfterSteps`, `EntryMarkets`) |
| `SettlementProofs!AssetsKeepTrading` | `AssetKeepsTrading`, for batches of any length | inductive with the types: an entry closes the market under its key and opens the next of its asset (`EntryMarkets`), so along the batch an asset that trades, or that an entry is for, keeps trading (`EntriesKeepTrading`) |
| `SettlementProofs!BatchesAlwaysSpaced`, `!LastAlwaysNewest` | `BatchesSpaced`, `LastIsNewestRecord` | neither is inductive alone: `ClockInv` adds that no batch is later than the last settlement and that one not later than the block |
| `PositionProofs!TradingKeepsItsParts` | `Trading` implements the specifications of oracle, factory and positions | a step of another contract stutters, and time passes for oracle and factory as in their own specifications; so what is proved of them holds in `Trading` |
| `PositionProofs!TypeCorrect` | types | inductive; an amount that does not fit is no step |
| `PositionProofs!LossAlwaysBelowCollateral` | `LossBelowCollateral` | `PositionInv` adds that a daily position has no funding, so the result that the liquidation test saw, where the cast keeps it, is the one paid out plus the funding (`ClosedAboveCollateral`); a closed position is never funded. A continuous loss above `MaxI128` is exempted by the property; nothing else is assumed of the amounts |
| `PositionProofs!AlwaysZeroSum` | `ZeroSum` for all prices and rates | a truncated division is odd in the amount divided (`TruncatedOdd`), so two opposite amounts round to opposite results |
| `PositionProofs!AlwaysClosedForGood` | `ClosedForGood` | every action names a position that is open, or changes none that is closed |
| `PositionProofs!LongsAlwaysFall` | `LongsFallAtLiquidationPrice` | from the types alone, for every leverage from 1 to 10 and every entry price: the factor loses at most what rounds the price down (`LongFactor`, `FallsFar`), and a loss divided by the entry price truncates to no less than the collateral (`LossDivided`) |
| `KeepersProofs!FeedAlwaysAdvances` | `PromptPriceAdvances` | `FeedAged`: the reading on chain is at least as old as its deploy, so that once the oracle's interval is over it is as old as any that was read within it. No delay is assumed; `AgesToldApart` only says that the saturated ages of the model tell such readings from older ones |
| `KeepersProofs!GapAlwaysBounded` | `GapBounded`, for any number of assets and any interval that a cycle and a delay fit in | `GapInv`: for an asset whose payments no fault has disturbed, either one has run since the last full hour of the schedule (`since` below the interval and the phase), or one is still to come, being ahead in the cycle (`Pending`) or sent (`SentFor`), and `since` is below two intervals and the phase |
| `KeepersProofs!StartsAlwaysAccounted` | `StartsAccounted`, for any delay of the retry | inductive with the type of the timers: a timer that is set counts one (`OneScheduled`), and time moves the timers along and starts what the first holds (`TimersPass`) |
| `KeepersProofs!TypeCorrect` | `TypeOK` of the three services | `FeedInv`, `GapInv` and `DailyInv`; no count of the settlement keeper outgrows its starts, by `StartsAccounted` |
| `WebProofs!TypeCorrect` | `TypeOK` of routes, sockets, pages and walk | `RedisTypes` with the ages of `AgeInv`, since entries take theirs from requests; `RouteTtl`: no route is kept for more than five minutes; `FewFetches` |
| `WebProofs!PagesAlwaysCover` | `PagesCoverLeaders`, for any sizes of pages and any `minFollowers` | `WalkInv`: where every answer filters the same leaders (`WalkedOver`), the client was given as many leaders as its offset moved past, and, in a fixed order, those in the places before it. There is one descending order (`SortedOnce`), because no two leaders have the same followers or reputation (`FieldsDiffer`), so all pages are cut from one list; what a page gives is counted by `PlacedCount` and added by `SumCounts` |
| `WebProofs!AnswersAreFresh` | `FreshAnswers`, for every route | `AgeInv` bounds the age of what is in the cache by the ticks it still has (`TicksOf`), and of what a request or an update carries by the time it has been under way; a restart or a reconnection only takes entries away |
| `WebProofs!WhoLeftHearsNothing` | `QuietWhenLeft` | `QuietInv`: when a confirmation of leaving is under way to a client who has not asked again, the server has stopped for him and sends no price behind it |
| `WebProofs!HeartbeatSparesTheLiving` | `LiveClientKept` | `SocketInv`: on a living link that is not marked alive the answer is under way or already late; nothing is under way on a dead one |
| `WebProofs!PagesShowWhatIsAsked` | `ShownAsAsked` | `PageInv`: the newest fetch carries the present wish, its first read is shown once it asks for the second, and once it is done its answers are shown, unless it was lost or overtaken |

Notes on the arguments:

* `PerpStep` (in `MarketFactoryProofs`) lists all that a step can do to one perp
  and its history; both funding invariants are proved from it alone.
* **Sums and lists.** The library's induction theorems take an operator as a
  parameter, which no installed prover instantiates. `CommonProofs` states
  induction for sets instead: a set of naturals that contains zero and is closed
  under successor contains all (`SetInduction`, by counting: were a number
  missing, the numbers up to it would map one to one into fewer), and the same for
  finite sets (`FiniteInduction`). From them come that the recursive function `Sum`
  exists (`SumUnfolds`), and how a sum changes with one term (`SumAt`), adds
  (`SumLinear`), grows (`SumMonotone`) and counts (`SumCounts`).
* **Recursion.** What a recursive function computes is proved in two steps: the
  function exists, since one defined by its value at zero and how each value
  follows from the last does (`RecursionExists`); then its equations hold, and a
  property goes along them by `SetInduction`. The models are written for that:
  the batch of `Settlement` runs over `DailyEntries`, a recursive function in
  place of `SelectSeq`, and the timers of the settlement keeper are counted by
  `RunsPending`. The orders of `LeaderPages` are a set of bijections in place of a
  sorting operator of the library, of which nothing can be proved.
* Some theorems state what no run checks any more: types, `ActiveHaveStake`,
  `LastIsNewestRecord`, `FundingIsFlat`, `ClaimsReconcile` (part of `TotalsAddUp`).
  The runs keep to what a proof does not settle, or what a mutant of the code shows best.

Only model-checked:

* liveness under fairness: `FundingGoesOn`, `FeedRecovers`, `WholeAgain`,
  `RequestsAnswered`, `DeadClientDropped`, `PollCatchesUp`. The provers do not
  handle `ENABLED`, which fairness is defined by.

Every invariant and every action property that a passing run checks is proved.

## Not modelled

* Social trading contract: its state never changes. `register_as_leader` asks for
  thirty days of trading, and the stub that reads the history returns the current
  block time as its beginning, so it always reverts; without a leader every other
  entry point reverts.
* Deployment script: builds and installs the contracts, once, by hand.
* Transfers of money, which the contracts do not contain yet.
* Getters, the name indexes of positions, the stored history of streamed prices,
  the settlement configuration, the time and amount of a deposit in the pool, the
  titles and kinds of proposals: nothing that changes state reads them.
* Prices above u128: `pay_funding` would panic on them.
* Farming: one pool. Pools share only the total of rewards distributed.
* API server: the contents of answers, the rate limiter of a library,
  `broadcastMarketUpdate` and `broadcastPositionUpdate` (never called), the route
  `positions/:address/history` (another route takes its requests).
* Services: logging, `settleSingleMarket` (never called), the average of several
  price sources, which is data.
* Frontend: pages that show constants, the wallet hook, the dialogue that opens a
  position, layout.

## Plan

1. *(done)* `Vault` against `MarginLedger`; runs `vault_insurance` and, now with
   the other contracts that keep what users own, `custody`; proofs of books,
   backing, sums and refinement.
2. *(done)* `Oracle`, `MarketFactory`, `Settlement`, `PositionManager`; their
   runs; proofs of funding, of the settlement clock and of positions.
3. *(done)* Settlement keeper and daily validator: schedules, retries, restarts.
4. *(done)* Funding keeper against the factory's interval; price feed against the
   oracle's limits; liveness after faults.
5. *(done)* `LiquidityPool`, `Governance`, `YieldFarming`, with their proofs.
6. *(not applicable)* Social trading: unreachable, see above.
7. *(done)* API server, its cache, the WebSocket server, and the pages that ask
   them; proofs of freshness, of the heartbeat, of silence and of pages.
8. *(done)* Proofs of what the runs check and no theorem stated: assets that keep
   trading, the median, withdrawals, retries, pages, and the types that were left.
9. *(left)* The keepers with `Settlement` and `MarketFactory` themselves as the
   chain, in place of the intervals that stand for them.
