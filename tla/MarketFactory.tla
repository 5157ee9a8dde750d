---------------------------- MODULE MarketFactory ----------------------------
(***************************************************************************)
(* The market factory, contracts/market-factory.  A daily market is opened *)
(* for an asset and a date and settled once by the settlement contract; a  *)
(* continuous perp is opened once for an asset, takes prices from the      *)
(* oracle account and a funding rate every funding interval.               *)
(***************************************************************************)
EXTENDS Arithmetic, Storage, BlockTime

CONSTANTS
    Accounts,
    Admin, SettlementContract, OracleContract,  \* the roles init() stores
    Assets,             \* the asset types the contract knows
    Prices,             \* the prices a deploy can name
    Dates,              \* the market dates a deploy can name
    LeverageOptions,    \* the leverages update_config can be given
    FundingInterval,    \* 28800 seconds
    MaxMarkets          \* bound: daily markets created

ASSUME FactoryNumbers ==
    /\ Prices \subseteq Nat /\ Dates \subseteq Nat /\ LeverageOptions \subseteq Nat
    /\ {FundingInterval, MaxMarkets} \subseteq Nat
    /\ FundingInterval > 0

VARIABLES
    max_leverage,       \* of MarketConfig; no entry point reads the fees
    markets,            \* <<asset, market_date>> -> DailyMarket
    markets_count,
    perps,              \* asset -> ContinuousPerp
    funding_history     \* asset -> (time -> FundingRateData)

marketVars == <<markets, markets_count>>
perpVars == <<perps, funding_history>>
factoryState == <<max_leverage, marketVars, perpVars>>
factoryVars == <<blocktime, factoryState>>

\* market_{asset}_{date} and perp_{asset}
MarketKey(asset, date) == <<asset, date>>
PerpKey(asset) == <<"perp", asset>>

DailyMarket == [opening_price : Nat, settlement_price : Nat, max_leverage : Nat,
                is_settled : BOOLEAN, is_active : BOOLEAN]
ContinuousPerp == [index_price : Nat, mark_price : Nat, funding_rate : Int,
                   last_funding_time : Nat]

-----------------------------------------------------------------------------
\* verify_authorized_caller
Authorized == {Admin, SettlementContract}

\* Daily markets, as operators on a map of markets: the settlement contract
\* performs several of them within one deploy.

NewMarket(price) ==
    [opening_price |-> price, settlement_price |-> 0, max_leverage |-> max_leverage,
     is_settled |-> FALSE, is_active |-> TRUE]

\* The market that bore the key before, settled or not, is replaced.
Opened(ms, key, price) == PutKey(ms, key, NewMarket(price))

\* Mutant: a settled market can be settled again.
CanCloseAgain(ms, key) == HasKey(ms, key)

CanClose(ms, key) ==
    /\ HasKey(ms, key)
    /\ ms[key].is_active
    /\ ~ ms[key].is_settled

\* Nothing compares the time with the settlement time of the market.
Closed(ms, key, price) ==
    [ms EXCEPT ![key].settlement_price = price, ![key].is_settled = TRUE,
               ![key].is_active = FALSE]

\* get_market_settlement_mode looks at the prefix of the key.
IsContinuous(key) == key[1] = "perp"

\* What the two entry points do to the daily markets; the settlement contract
\* reaches them too.
CreateDaily(caller, asset, price, date) ==
    /\ caller \in Authorized
    /\ markets_count < MaxMarkets
    /\ markets' = Opened(markets, MarketKey(asset, date), price)
    /\ markets_count' = markets_count + 1

SettleDaily(caller, key, price) ==
    /\ caller = SettlementContract
    /\ CanClose(markets, key)
    /\ markets' = Closed(markets, key, price)
    /\ UNCHANGED markets_count

CreateDailyMarket(caller, asset, price, date) ==
    /\ CreateDaily(caller, asset, price, date)
    /\ UNCHANGED <<blocktime, max_leverage, perpVars>>

SettleMarket(caller, key, price) ==
    /\ SettleDaily(caller, key, price)
    /\ UNCHANGED <<blocktime, max_leverage, perpVars>>

LeverageAllowed(leverage) == 1 <= leverage /\ leverage <= 50

UpdateConfig(caller, leverage) ==
    /\ caller = Admin
    /\ LeverageAllowed(leverage)
    /\ max_leverage' = leverage
    /\ UNCHANGED <<blocktime, marketVars, perpVars>>

-----------------------------------------------------------------------------
\* Continuous perps.  is_active is set when a perp is created and never
\* cleared, so the checks on it always pass.

CreateContinuousPerp(caller, asset, price) ==
    /\ caller = Admin
    /\ ~ HasKey(perps, asset)
    /\ price # 0
    /\ perps' = PutKey(perps, asset,
           [index_price |-> price, mark_price |-> price, funding_rate |-> 0,
            last_funding_time |-> blocktime])
    /\ funding_history' = PutKey(funding_history, asset, NoKeys)
    /\ UNCHANGED <<blocktime, max_leverage, marketVars>>

\* current_price, index_price and mark_price all become the new price.
Priced(perp, price) == [perp EXCEPT !.index_price = price, !.mark_price = price]

UpdatePerpPrice(caller, asset, price) ==
    /\ caller = OracleContract
    /\ price # 0
    /\ HasKey(perps, asset)
    /\ perps' = [perps EXCEPT ![asset] = Priced(@, price)]
    /\ UNCHANGED <<blocktime, max_leverage, marketVars, funding_history>>

Clamp(rate) == IF rate > 1000 THEN 1000 ELSE IF rate < -1000 THEN -1000 ELSE rate

\* calculate_funding_rate: a third of the premium of the mark price in basis
\* points, plus an interest of one basis point, within ten percent.
Premium(perp) ==
    IF perp.index_price = 0 THEN 0
    ELSE Truncated((perp.mark_price - perp.index_price) * BasisPoints, perp.index_price)

FundingRate(perp) == Clamp(Truncated(Premium(perp) + 1, 3))

\* Mutant: the time of the last payment is not checked.
FundingDueAlways(asset) == blocktime >= perps[asset].last_funding_time

FundingDue(asset) == blocktime >= perps[asset].last_funding_time + FundingInterval

\* The rate is stored; the positions are charged by other deploys.
PayFunding(caller, asset) ==
    /\ caller \in Authorized
    /\ HasKey(perps, asset)
    /\ FundingDue(asset)
    /\ perps' = [perps EXCEPT ![asset].funding_rate = FundingRate(perps[asset]),
                              ![asset].last_funding_time = blocktime]
    /\ funding_history' = [funding_history EXCEPT
           ![asset] = PutKey(@, blocktime, FundingRate(perps[asset]))]
    /\ UNCHANGED <<blocktime, max_leverage, marketVars>>

\* The chain makes its next block.
FactoryTick == Tick /\ UNCHANGED factoryState

FactoryTypeOK ==
    /\ blocktime \in 0 .. MaxBlockTime
    /\ max_leverage \in 1 .. 50
    /\ IsMap(markets, Assets \X Dates, DailyMarket)
    /\ markets_count \in Nat
    /\ IsMap(perps, Assets, ContinuousPerp)
    /\ DOMAIN funding_history = DOMAIN perps
    /\ \A a \in DOMAIN perps : IsMap(funding_history[a], 0 .. blocktime, -1000 .. 1000)

FactoryInit ==
    /\ blocktime = 0
    /\ max_leverage = 10
    /\ markets = NoKeys
    /\ markets_count = 0
    /\ perps = NoKeys
    /\ funding_history = NoKeys

FactoryNext ==
    \/ \E caller \in Accounts :
          \/ \E asset \in Assets, price \in Prices :
                \/ \E date \in Dates : CreateDailyMarket(caller, asset, price, date)
                \/ CreateContinuousPerp(caller, asset, price)
                \/ UpdatePerpPrice(caller, asset, price)
          \/ \E key \in DOMAIN markets, price \in Prices : SettleMarket(caller, key, price)
          \/ \E leverage \in LeverageOptions : UpdateConfig(caller, leverage)
          \/ \E asset \in Assets : PayFunding(caller, asset)
    \/ FactoryTick

FactorySpec == FactoryInit /\ [][FactoryNext]_factoryVars

-----------------------------------------------------------------------------
\* A market settled once keeps its result until it is replaced by a new market
\* of the same asset and date.
ResultStands ==
    [][\A k \in DOMAIN markets :
          markets[k].is_settled =>
             /\ HasKey(markets', k)
             /\ markets'[k] # markets[k] =>
                   markets'[k].is_active /\ ~ markets'[k].is_settled]_factoryVars

\* The payments of one perp are a whole interval apart, and the newest is the
\* one the perp shows.
Paced(perp, history) ==
    LET times == DOMAIN history IN
    /\ \A s, t \in times : s < t => t - s >= FundingInterval
    /\ \A t \in times : t >= FundingInterval /\ t <= perp.last_funding_time
    /\ times # {} =>
          /\ perp.last_funding_time \in times
          /\ perp.funding_rate = history[perp.last_funding_time]

\* Whoever sends the deploys, an asset pays funding at most once in an interval,
\* counted from its creation; the newest payment is the one the perp shows.
FundingPaced == \A a \in DOMAIN perps : Paced(perps[a], funding_history[a])

Sign(n) == IF n > 0 THEN 1 ELSE IF n < 0 THEN -1 ELSE 0

\* "Interest rate component (fixed at 0.01% per 8 hours = 1 basis point)" and
\* "funding_rate = (premium + 0.01%) / 3", CONTINUOUS_PERPS_COMPLETE.md: whenever
\* funding is paid, the rate has the sign of the premium with the interest, so
\* that with mark and index equal the longs pay the interest.
FundingFollowsPremium ==
    [][\A a \in DOMAIN perps :
          perps'[a].last_funding_time # perps[a].last_funding_time
              => Sign(perps'[a].funding_rate) = Sign(Premium(perps[a]) + 1)]_factoryVars

\* What the code does instead: mark and index price always move together, so the
\* premium is nothing and the interest of one basis point is lost in the division
\* by three.  No sequence of prices and payments leads to a rate other than zero.
FundingIsFlat ==
    \A a \in DOMAIN perps :
        /\ perps[a].funding_rate = 0
        /\ \A t \in DOMAIN funding_history[a] : funding_history[a][t] = 0
=============================================================================
