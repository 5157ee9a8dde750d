----------------------------- MODULE Settlement -----------------------------
(***************************************************************************)
(* The settlement contract, contracts/settlement, with the contracts it    *)
(* calls: it takes a finalized price from the oracle, closes a daily       *)
(* market of the market factory at that price, writes a record and opens   *)
(* the next market, all within one deploy.  In a nested call get_caller()  *)
(* is the account that sent the deploy, so the factory's checks are made   *)
(* on that account.  settle_market_positions of the position manager is    *)
(* called too and does nothing yet.                                        *)
(***************************************************************************)
EXTENDS Integers, Sequences, FiniteSets, Storage, BlockTime

CONSTANTS
    Accounts,
    Admin,
    SettlementContract,     \* the account the factory takes settlements from
    Assets, Prices, Dates,
    Targets,                \* the target times a deploy can name
    Day,                    \* 86400 seconds
    MinGap,                 \* 82800 seconds, 23 hours
    Genesis,                \* the time of the first block considered
    MaxMarkets,             \* bound: daily markets created
    MaxBatch                \* bound: the length of a batch

ASSUME SettlementNumbers ==
    /\ {Day, MinGap, Genesis, MaxMarkets, MaxBatch} \subseteq Nat
    /\ Prices \subseteq Nat /\ Dates \subseteq Nat /\ Targets \subseteq Nat
    /\ 0 < MinGap /\ MinGap < Day /\ MinGap <= Genesis /\ Genesis <= MaxBlockTime

VARIABLES
    markets, markets_count, \* of the market factory
    aggregated,             \* of the oracle
    history,                \* block time -> MarketSettlement
    last_settlement,
    batches,                \* history: the times of the batches that settled a market
    opened,                 \* history: assets a daily market was opened for
    orphaned                \* history: assets a market of which closed by an
                            \* emergency or under the name of another asset

factoryVars == <<markets, markets_count>>
settlementVars == <<history, last_settlement>>
ghosts == <<batches, opened, orphaned>>
vars == <<blocktime, factoryVars, aggregated, settlementVars, ghosts>>

\* No configuration of the factory or of the oracle changes here, and the parts
\* of them that serve continuous perps are left out.
Factory == INSTANCE MarketFactory WITH
    OracleContract <- Admin, LeverageOptions <- {}, FundingInterval <- 1,
    max_leverage <- 10, perps <- NoKeys, funding_history <- NoKeys

PriceOracle == INSTANCE Oracle WITH
    OracleAccounts <- Accounts, OracleAdmin <- Admin,
    OracleSettlement <- SettlementContract, OracleAssets <- Assets,
    ClosingPrices <- Prices, FeedPrices <- {}, Stakes <- {}, MinStake <- 1, SlashAmount <- 1,
    SubmissionWindow <- 0, UpdateInterval <- 1, RealtimeMaxDeviation <- 0,
    MinValidatorsOptions <- {}, MaxDeviationOptions <- {}, MaxPrices <- 3,
    MaxValidators <- 0,
    config <- [min_validators |-> 3, max_price_deviation_bps |-> 500],
    validators <- NoKeys, validators_count <- 0, submissions <- NoKeys, sources <- NoKeys,
    realtime <- NoKeys, price_sequence <- NoKeys, anchor <- NoKeys

MarketKeys == Assets \X Nat

MarketSettlement == [key : MarketKeys, asset : Assets, price : Nat, target : Nat]

TypeOK ==
    /\ blocktime \in Genesis .. MaxBlockTime
    /\ IsMap(markets, MarketKeys, Factory!DailyMarket)
    /\ markets_count \in Nat
    /\ IsMap(aggregated, Assets \X Targets, PriceOracle!AggregatedPrice)
    /\ IsMap(history, Genesis .. blocktime, MarketSettlement)
    /\ last_settlement \in 0 .. blocktime
    /\ batches \subseteq Genesis .. blocktime
    /\ opened \subseteq Assets /\ orphaned \subseteq Assets

Init ==
    /\ blocktime = Genesis
    /\ markets = NoKeys
    /\ markets_count = 0
    /\ aggregated = NoKeys
    /\ history = NoKeys
    /\ last_settlement = 0
    /\ batches = {}
    /\ opened = {}
    /\ orphaned = {}

-----------------------------------------------------------------------------
\* One market of a deploy: its key, and the asset_type that comes with it, which
\* nothing compares with the asset of the key.
Entry(key, asset) == [key |-> key, asset |-> asset]

\* "tomorrow's open"
Successor(asset, target) == Factory!MarketKey(asset, target + Day)

\* Mutant: the next market is opened before this one is closed.
AfterEntryOpensFirst(ms, entry, price, target) ==
    Factory!Closed(Factory!Opened(ms, Successor(entry.asset, target), price),
                   entry.key, price)

AfterEntry(ms, entry, price, target) ==
    Factory!Opened(Factory!Closed(ms, entry.key, price),
                   Successor(entry.asset, target), price)

\* The markets after each of the entries, in their order.
AfterEntries(entries, target) ==
    LET after[i \in 0 .. Len(entries)] ==
            IF i = 0 THEN markets
            ELSE AfterEntry(after[i - 1], entries[i],
                            PriceOracle!GetPrice(entries[i].asset, target), target)
    IN after

\* Mutant: the gap is counted from the time of the price.
LastSettlementAtTarget(target) == target

LastSettlementAt(target) == blocktime

\* What settle_market does for each entry in turn.  The record is stored under
\* the block time: of the records of one deploy the last one stays.
Settle(caller, entries, target) ==
    LET after == AfterEntries(entries, target)
        last == entries[Len(entries)]
    IN /\ caller = SettlementContract
       /\ markets_count + Len(entries) <= MaxMarkets
       /\ \A i \in 1 .. Len(entries) :
             PriceOracle!PriceFinalized(entries[i].asset, target)
       /\ \A i \in 1 .. Len(entries) : Factory!CanClose(after[i - 1], entries[i].key)
       /\ markets' = after[Len(entries)]
       /\ markets_count' = markets_count + Len(entries)
       /\ history' = PutKey(history, blocktime,
              [key |-> last.key, asset |-> last.asset, target |-> target,
               price |-> PriceOracle!GetPrice(last.asset, target)])
       /\ last_settlement' = LastSettlementAt(target)
       /\ opened' = opened \cup {entries[i].asset : i \in 1 .. Len(entries)}
       /\ orphaned' = orphaned \cup
              {entries[i].key[1] : i \in {j \in 1 .. Len(entries) :
                                             entries[j].key[1] # entries[j].asset}}
       /\ UNCHANGED <<blocktime, aggregated>>

\* A continuous perp is refused.
SettleMarket(caller, entry, target) ==
    /\ ~ Factory!IsContinuous(entry.key)
    /\ Settle(caller, <<entry>>, target)
    /\ UNCHANGED batches

\* Mutant: the gap since the last settlement is not checked.
GapIgnored == blocktime >= last_settlement

GapPassed == blocktime >= last_settlement + MinGap

\* The entries of a list but for the continuous perps, which are skipped.  (A
\* function, since SelectSeq is one of the operators that nothing can be proved of.)
DailyEntries(list) ==
    LET daily[i \in 0 .. Len(list)] ==
            IF i = 0 THEN <<>>
            ELSE IF Factory!IsContinuous(list[i].key) THEN daily[i - 1]
            ELSE Append(daily[i - 1], list[i])
    IN daily[Len(list)]

\* With nothing but continuous perps in the list the deploy changes nothing.
SettleAllMarkets(caller, list, target) ==
    LET entries == DailyEntries(list)
    IN /\ GapPassed
       /\ entries # <<>>
       /\ Settle(caller, entries, target)
       /\ batches' = batches \cup {blocktime}

\* The admin closes a market at a price of his own.  The factory still asks for
\* the settlement account; there is no record and no successor.
EmergencySettle(caller, key, price) ==
    /\ caller = Admin
    /\ Factory!SettleDaily(caller, key, price)
    /\ orphaned' = orphaned \cup {key[1]}
    /\ UNCHANGED <<blocktime, aggregated, settlementVars, batches, opened>>

\* A deploy sent to the factory itself.
CreateDailyMarket(caller, asset, price, date) ==
    /\ Factory!CreateDaily(caller, asset, price, date)
    /\ opened' = opened \cup {asset}
    /\ UNCHANGED <<blocktime, aggregated, settlementVars, batches, orphaned>>

\* A deploy sent to the oracle itself.
AggregatePrices(caller, asset, target, prices) ==
    /\ PriceOracle!Finalize(caller, asset, target, prices)
    /\ UNCHANGED <<blocktime, factoryVars, settlementVars, ghosts>>

\* The chain makes its next block.
NextBlock ==
    /\ Tick
    /\ UNCHANGED <<factoryVars, aggregated, settlementVars, ghosts>>

\* What a deploy can list: the markets there are, and continuous perps.
Listable == DOMAIN markets \cup {Factory!PerpKey(asset) : asset \in Assets}

Lists ==
    LET entries == {Entry(key, asset) : key \in Listable, asset \in Assets}
    IN UNION {[1 .. n -> entries] : n \in 1 .. MaxBatch}

Next ==
    \/ \E caller \in Accounts, target \in Targets :
          \/ \E key \in Listable, asset \in Assets :
                SettleMarket(caller, Entry(key, asset), target)
          \/ \E list \in Lists : SettleAllMarkets(caller, list, target)
          \/ \E asset \in Assets, prices \in PriceOracle!PriceLists(Prices) :
                AggregatePrices(caller, asset, target, prices)
    \/ \E caller \in Accounts, price \in Prices :
          \/ \E key \in DOMAIN markets : EmergencySettle(caller, key, price)
          \/ \E asset \in Assets, date \in Dates :
                CreateDailyMarket(caller, asset, price, date)
    \/ NextBlock

Spec == Init /\ [][Next]_vars

-----------------------------------------------------------------------------
\* However batches and single settlements mix, two batches that settle anything
\* are 23 hours apart.
BatchesSpaced == \A s, t \in batches : s < t => t - s >= MinGap

\* The time of the last settlement, which the gap is counted from, is that of
\* the newest record.
LastIsNewestRecord ==
    IF DOMAIN history = {} THEN last_settlement = 0
    ELSE /\ last_settlement \in DOMAIN history
         /\ \A t \in DOMAIN history : t <= last_settlement

\* "Closes settled markets and opens new ones": once an asset has had a market
\* it always has one open, whatever is settled in whatever order, but for an
\* emergency or a settlement under the name of another asset.
AssetKeepsTrading ==
    \A asset \in opened \ orphaned :
        \E k \in DOMAIN markets : k[1] = asset /\ markets[k].is_active

\* "Store settlement record", ARCHITECTURE.md: a settlement leaves a record of
\* every market it closes.
EverySettlementRecorded ==
    [][history' # history =>
          \A k \in DOMAIN markets :
             ~ markets[k].is_settled /\ markets'[k].is_settled
                => \E t \in DOMAIN history' : history'[t].key = k]_vars
=============================================================================
