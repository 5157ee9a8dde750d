------------------------- MODULE MarketFactoryProofs -------------------------
(***************************************************************************)
(* Type correctness of the market factory, and the two invariants of its   *)
(* funding: payments are a whole interval apart, and the rate is always    *)
(* zero.                                                                   *)
(***************************************************************************)
EXTENDS MarketFactory, CommonProofs

\* calculate_funding_rate never leaves ten percent.
LEMMA RateClamped == ASSUME NEW rate \in Int PROVE Clamp(rate) \in -1000 .. 1000
BY DEF Clamp

\* A division of integers by a natural number other than zero is an integer.
LEMMA TruncatedInt ==
    ASSUME NEW a \in Int, NEW b \in Nat, b # 0
    PROVE  Truncated(a, b) \in Int
BY DEF Truncated

\* The rate of a perp is a clamped one whatever its prices are.
LEMMA RateType ==
    ASSUME NEW perp \in ContinuousPerp
    PROVE  FundingRate(perp) \in -1000 .. 1000
<1>1. perp.index_price \in Nat /\ perp.mark_price \in Nat
  BY DEF ContinuousPerp
<1>2. Premium(perp) \in Int
  <2>1. CASE perp.index_price = 0
    BY <2>1 DEF Premium
  <2>2. CASE perp.index_price # 0
    <3>1. (perp.mark_price - perp.index_price) * BasisPoints \in Int
      BY <1>1 DEF BasisPoints
    <3>2. QED
      BY <1>1, <2>2, <3>1, TruncatedInt DEF Premium
  <2>3. QED
    BY <2>1, <2>2
<1>3. Truncated(Premium(perp) + 1, 3) \in Int
  BY <1>2, TruncatedInt
<1>4. QED
  BY <1>3, RateClamped DEF FundingRate

-----------------------------------------------------------------------------
\* A factory just installed has the types of its structs.
LEMMA InitType == FactoryInit => FactoryTypeOK
BY BlockTimesAreNaturals, FactoryNumbers, NoKeysEmpty DEF FactoryInit, FactoryTypeOK, FactoryNumbers

\* Every entry point of the factory keeps the types.
LEMMA StepType == FactoryTypeOK /\ [FactoryNext]_factoryVars => FactoryTypeOK'
<1> SUFFICES ASSUME FactoryTypeOK, [FactoryNext]_factoryVars PROVE FactoryTypeOK'
  OBVIOUS
<1>n. blocktime \in Nat /\ MaxBlockTime \in Nat /\ Prices \subseteq Nat
  BY BlockTimesAreNaturals, FactoryNumbers DEF FactoryNumbers, FactoryTypeOK
<1>m. max_leverage \in Nat
  <2>1. max_leverage \in 1 .. 50
    BY DEF FactoryTypeOK
  <2>2. QED
    BY <2>1
<1>l. LeverageOptions \subseteq Nat
  BY BlockTimesAreNaturals, FactoryNumbers DEF FactoryNumbers
<1>1. ASSUME NEW caller \in Accounts, NEW asset \in Assets, NEW price \in Prices,
             NEW date \in Dates, CreateDailyMarket(caller, asset, price, date)
      PROVE  FactoryTypeOK'
  <2>1. NewMarket(price) \in DailyMarket
    BY <1>n, <1>m DEF NewMarket, DailyMarket
  <2>2. MarketKey(asset, date) \in Assets \X Dates
    BY DEF MarketKey
  <2>3. markets' = PutKey(markets, MarketKey(asset, date), NewMarket(price))
    BY <1>1 DEF CreateDailyMarket, CreateDaily, Opened
  <2>4. IsMap(markets, Assets \X Dates, DailyMarket)
    BY DEF FactoryTypeOK
  <2>5. IsMap(markets', Assets \X Dates, DailyMarket)
    BY <2>1, <2>2, <2>3, <2>4, PutKeyIsMap
  <2>6. QED
    BY <1>1, <2>5 DEF CreateDailyMarket, CreateDaily, FactoryTypeOK, perpVars
<1>2. ASSUME NEW caller \in Accounts, NEW asset \in Assets, NEW price \in Prices,
             CreateContinuousPerp(caller, asset, price)
      PROVE  FactoryTypeOK'
  <2> DEFINE perp == [index_price |-> price, mark_price |-> price,
                      funding_rate |-> 0, last_funding_time |-> blocktime]
  <2>1. perp \in ContinuousPerp
    BY <1>n DEF ContinuousPerp
  <2>2. perps' = PutKey(perps, asset, perp)
        /\ funding_history' = PutKey(funding_history, asset, NoKeys)
    BY <1>2 DEF CreateContinuousPerp
  <2> HIDE DEF perp
  <2>3. IsMap(perps', Assets, ContinuousPerp)
    BY <2>1, <2>2, PutKeyIsMap DEF FactoryTypeOK
  <2>4. DOMAIN funding_history' = DOMAIN perps'
    BY <2>2 DEF PutKey, FactoryTypeOK
  <2>5. ASSUME NEW a \in DOMAIN perps'
        PROVE  IsMap(funding_history'[a], 0 .. blocktime', -1000 .. 1000)
    <3>1. CASE a = asset
      <4>1. funding_history'[a] = NoKeys
        BY <2>2, <3>1 DEF PutKey
      <4>2. QED
        BY <4>1, NoKeysEmpty
    <3>2. CASE a # asset
      <4>1. a \in DOMAIN perps /\ a \in DOMAIN funding_history
        BY <2>2, <3>2 DEF PutKey, FactoryTypeOK
      <4>2. funding_history'[a] = funding_history[a]
        BY <2>2, <3>2, <4>1 DEF PutKey
      <4>3. QED
        BY <1>2, <4>1, <4>2 DEF CreateContinuousPerp, FactoryTypeOK
    <3>3. QED
      BY <3>1, <3>2
  <2>6. QED
    BY <1>2, <2>3, <2>4, <2>5 DEF CreateContinuousPerp, marketVars, FactoryTypeOK
<1>3. ASSUME NEW caller \in Accounts, NEW asset \in Assets, NEW price \in Prices,
             UpdatePerpPrice(caller, asset, price)
      PROVE  FactoryTypeOK'
  <2>1. asset \in DOMAIN perps /\ perps[asset] \in ContinuousPerp
    BY <1>3 DEF UpdatePerpPrice, HasKey, FactoryTypeOK, IsMap
  <2>2. Priced(perps[asset], price) \in ContinuousPerp
    BY <1>n, <2>1 DEF Priced, ContinuousPerp
  <2>3. perps' = [perps EXCEPT ![asset] = Priced(perps[asset], price)]
    BY <1>3 DEF UpdatePerpPrice
  <2>4. IsMap(perps', Assets, ContinuousPerp)
    BY <2>1, <2>2, <2>3, UpdateIsMap DEF FactoryTypeOK
  <2>5. DOMAIN perps' = DOMAIN perps
    BY <2>3
  <2>6. QED
    BY <1>3, <2>4, <2>5 DEF UpdatePerpPrice, marketVars, FactoryTypeOK
<1>4. ASSUME NEW caller \in Accounts, NEW key \in DOMAIN markets, NEW price \in Prices,
             SettleMarket(caller, key, price)
      PROVE  FactoryTypeOK'
  <2>1. markets[key] \in DailyMarket
    BY DEF FactoryTypeOK, IsMap
  <2> DEFINE closed == [markets[key] EXCEPT !.settlement_price = price,
                            !.is_settled = TRUE, !.is_active = FALSE]
  <2>2. closed \in DailyMarket
    BY <1>n, <2>1 DEF DailyMarket
  <2>3. markets' = [markets EXCEPT ![key] = closed]
    BY <1>4 DEF SettleMarket, SettleDaily, Closed
  <2> HIDE DEF closed
  <2>4. IsMap(markets', Assets \X Dates, DailyMarket)
    BY <2>2, <2>3, UpdateIsMap DEF FactoryTypeOK
  <2>5. QED
    BY <1>4, <2>4 DEF SettleMarket, SettleDaily, perpVars, FactoryTypeOK
<1>5. ASSUME NEW caller \in Accounts, NEW leverage \in LeverageOptions,
             UpdateConfig(caller, leverage)
      PROVE  FactoryTypeOK'
  <2>1. max_leverage' \in 1 .. 50
    BY <1>l, <1>5 DEF UpdateConfig, LeverageAllowed
  <2>2. QED
    BY <1>5, <2>1 DEF UpdateConfig, marketVars, perpVars, FactoryTypeOK
<1>6. ASSUME NEW caller \in Accounts, NEW asset \in Assets, PayFunding(caller, asset)
      PROVE  FactoryTypeOK'
  <2> DEFINE rate == FundingRate(perps[asset])
             paid == [perps[asset] EXCEPT !.funding_rate = rate,
                                          !.last_funding_time = blocktime]
  <2>1. asset \in DOMAIN perps /\ perps[asset] \in ContinuousPerp
    BY <1>6 DEF PayFunding, HasKey, FactoryTypeOK, IsMap
  <2>2. rate \in -1000 .. 1000
    BY <2>1, RateType
  <2>3. perps' = [perps EXCEPT ![asset] = paid]
    BY <1>6 DEF PayFunding
  <2>4. funding_history'
            = [funding_history EXCEPT ![asset] = PutKey(funding_history[asset], blocktime, rate)]
    BY <1>6 DEF PayFunding
  <2> HIDE DEF rate
  <2>5. paid \in ContinuousPerp
    <3>1. rate \in Int
      BY <2>2
    <3>2. QED
      BY <1>n, <2>1, <3>1 DEF ContinuousPerp
  <2> HIDE DEF paid
  <2>6. IsMap(perps', Assets, ContinuousPerp) /\ DOMAIN perps' = DOMAIN perps
    BY <2>1, <2>3, <2>5, UpdateIsMap DEF FactoryTypeOK
  <2>7. IsMap(PutKey(funding_history[asset], blocktime, rate), 0 .. blocktime, -1000 .. 1000)
    <3>1. blocktime \in 0 .. blocktime
      BY <1>n
    <3>2. IsMap(funding_history[asset], 0 .. blocktime, -1000 .. 1000)
      BY <2>1 DEF FactoryTypeOK
    <3>3. QED
      BY <2>2, <3>1, <3>2 DEF PutKey, IsMap
  <2>8. \A a \in DOMAIN perps' : IsMap(funding_history'[a], 0 .. blocktime, -1000 .. 1000)
    BY <2>1, <2>4, <2>6, <2>7 DEF FactoryTypeOK
  <2>9. QED
    BY <1>6, <2>4, <2>6, <2>8 DEF PayFunding, marketVars, FactoryTypeOK
<1>7. ASSUME FactoryTick PROVE FactoryTypeOK'
  <2>1. 0 .. blocktime \subseteq 0 .. blocktime'
    BY <1>n, <1>7 DEF FactoryTick, Tick, factoryState
  <2>2. \A a \in DOMAIN perps : IsMap(funding_history[a], 0 .. blocktime', -1000 .. 1000)
    BY <2>1 DEF FactoryTypeOK, IsMap
  <2>3. QED
    BY <1>n, <1>7, <2>2 DEF FactoryTick, Tick, factoryState, marketVars, perpVars, FactoryTypeOK
<1>8. CASE UNCHANGED factoryVars
  BY <1>8 DEF factoryVars, factoryState, marketVars, perpVars, FactoryTypeOK
<1>9. QED
  BY <1>1, <1>2, <1>3, <1>4, <1>5, <1>6, <1>7, <1>8 DEF FactoryNext

\* Every reachable state of the market factory has the types of its structs.
THEOREM TypeCorrect == FactorySpec => []FactoryTypeOK
<1>1. QED
  BY InitType, StepType, PTL DEF FactorySpec

-----------------------------------------------------------------------------
\* The one perp that a payment leaves behind.
Paid(perp) == [perp EXCEPT !.funding_rate = FundingRate(perp), !.last_funding_time = blocktime]

\* All that a step can do to a perp and its history: nothing, create them,
\* price the perp, or pay.
LEMMA PerpStep ==
    ASSUME FactoryTypeOK, [FactoryNext]_factoryVars, NEW a \in DOMAIN perps'
    PROVE  \/ /\ a \in DOMAIN perps
              /\ perps'[a] = perps[a]
              /\ funding_history'[a] = funding_history[a]
           \/ /\ \E price \in Prices : perps'[a] =
                    [index_price |-> price, mark_price |-> price, funding_rate |-> 0,
                     last_funding_time |-> blocktime]
              /\ funding_history'[a] = NoKeys
           \/ /\ a \in DOMAIN perps
              /\ \E price \in Prices : perps'[a] = Priced(perps[a], price)
              /\ funding_history'[a] = funding_history[a]
           \/ /\ a \in DOMAIN perps
              /\ FundingDue(a)
              /\ perps'[a] = Paid(perps[a])
              /\ funding_history'[a] = PutKey(funding_history[a], blocktime, FundingRate(perps[a]))
<1>d. DOMAIN funding_history = DOMAIN perps
  BY DEF FactoryTypeOK
<1>1. ASSUME NEW caller \in Accounts, NEW asset \in Assets, NEW price \in Prices,
             NEW date \in Dates, CreateDailyMarket(caller, asset, price, date)
      PROVE  perpVars' = perpVars
  BY <1>1 DEF CreateDailyMarket
<1>2. ASSUME NEW caller \in Accounts, NEW key \in DOMAIN markets, NEW price \in Prices,
             SettleMarket(caller, key, price)
      PROVE  perpVars' = perpVars
  BY <1>2 DEF SettleMarket
<1>3. ASSUME NEW caller \in Accounts, NEW leverage \in LeverageOptions,
             UpdateConfig(caller, leverage)
      PROVE  perpVars' = perpVars
  BY <1>3 DEF UpdateConfig
<1>4. CASE perpVars' = perpVars
  BY <1>4 DEF perpVars
<1>5. ASSUME NEW caller \in Accounts, NEW asset \in Assets, NEW price \in Prices,
             CreateContinuousPerp(caller, asset, price)
      PROVE  \/ /\ a \in DOMAIN perps
                /\ perps'[a] = perps[a]
                /\ funding_history'[a] = funding_history[a]
             \/ /\ perps'[a] =
                      [index_price |-> price, mark_price |-> price, funding_rate |-> 0,
                       last_funding_time |-> blocktime]
                /\ funding_history'[a] = NoKeys
  <2> DEFINE perp == [index_price |-> price, mark_price |-> price,
                      funding_rate |-> 0, last_funding_time |-> blocktime]
  <2>1. perps' = PutKey(perps, asset, perp)
        /\ funding_history' = PutKey(funding_history, asset, NoKeys)
    BY <1>5 DEF CreateContinuousPerp
  <2> HIDE DEF perp
  <2>2. (a = asset => perps'[a] = perp) /\ (a # asset => a \in DOMAIN perps /\ perps'[a] = perps[a])
    BY <2>1 DEF PutKey
  <2>3. (a = asset => funding_history'[a] = NoKeys)
    BY <2>1 DEF PutKey
  <2>4. a # asset => funding_history'[a] = funding_history[a]
    BY <1>d, <2>1, <2>2 DEF PutKey
  <2>5. QED
    BY <2>2, <2>3, <2>4 DEF perp
<1>6. ASSUME NEW caller \in Accounts, NEW asset \in Assets, NEW price \in Prices,
             UpdatePerpPrice(caller, asset, price)
      PROVE  /\ a \in DOMAIN perps
             /\ perps'[a] = perps[a] \/ perps'[a] = Priced(perps[a], price)
             /\ funding_history'[a] = funding_history[a]
  <2>1. perps' = [perps EXCEPT ![asset] = Priced(perps[asset], price)]
        /\ funding_history' = funding_history
    BY <1>6 DEF UpdatePerpPrice
  <2>2. QED
    BY <2>1
<1>7. ASSUME NEW caller \in Accounts, NEW asset \in Assets, PayFunding(caller, asset)
      PROVE  \/ /\ a \in DOMAIN perps
                /\ perps'[a] = perps[a]
                /\ funding_history'[a] = funding_history[a]
             \/ /\ a \in DOMAIN perps
                /\ FundingDue(a)
                /\ perps'[a] = Paid(perps[a])
                /\ funding_history'[a]
                      = PutKey(funding_history[a], blocktime, FundingRate(perps[a]))
  <2>1. perps' = [perps EXCEPT ![asset] = Paid(perps[asset])] /\ FundingDue(asset)
    BY <1>7 DEF PayFunding, Paid
  <2>2. funding_history' = [funding_history EXCEPT
            ![asset] = PutKey(funding_history[asset], blocktime, FundingRate(perps[asset]))]
    BY <1>7 DEF PayFunding
  <2>3. a \in DOMAIN perps
    BY <2>1
  <2>4. CASE a = asset
    BY <1>d, <2>1, <2>2, <2>3, <2>4
  <2>5. CASE a # asset
    BY <1>d, <2>1, <2>2, <2>3, <2>5
  <2>6. QED
    BY <2>4, <2>5
<1>8. FactoryTick => perpVars' = perpVars
  BY DEF FactoryTick, Tick, factoryState
<1>9. UNCHANGED factoryVars => perpVars' = perpVars
  BY DEF factoryVars, factoryState
<1>10. QED
  BY <1>1, <1>2, <1>3, <1>4, <1>5, <1>6, <1>7, <1>8, <1>9 DEF FactoryNext

\* The proofs about a perp and its history need their types only.
LEMMA PerpTypes ==
    ASSUME FactoryTypeOK, NEW a \in DOMAIN perps
    PROVE  /\ perps[a] \in ContinuousPerp
           /\ DOMAIN funding_history[a] \subseteq Nat
           /\ \A t \in DOMAIN funding_history[a] : t <= blocktime
           /\ blocktime \in Nat
<1>1. IsMap(perps, Assets, ContinuousPerp)
  BY DEF FactoryTypeOK
<1>2. perps[a] \in ContinuousPerp
  BY <1>1 DEF IsMap
<1>3. IsMap(funding_history[a], 0 .. blocktime, -1000 .. 1000)
  BY DEF FactoryTypeOK
<1>4. DOMAIN funding_history[a] \subseteq 0 .. blocktime
  BY <1>3 DEF IsMap
<1>5. blocktime \in 0 .. MaxBlockTime
  BY DEF FactoryTypeOK
<1>6. QED
  BY <1>2, <1>4, <1>5

-----------------------------------------------------------------------------
\* What makes the rate zero: the premium is taken between two equal prices.
Flat(perp, history) ==
    /\ perp.mark_price = perp.index_price
    /\ perp.funding_rate = 0
    /\ \A t \in DOMAIN history : history[t] = 0

FlatInv == \A a \in DOMAIN perps : Flat(perps[a], funding_history[a])

\* One basis point of interest on no premium, divided by three, is nothing.
LEMMA FlatRate ==
    ASSUME NEW perp \in ContinuousPerp, perp.mark_price = perp.index_price
    PROVE  FundingRate(perp) = 0
<1>1. perp.index_price \in Nat
  BY DEF ContinuousPerp
<1>2. (perp.mark_price - perp.index_price) * BasisPoints = 0
  BY <1>1 DEF BasisPoints
<1>3. Premium(perp) = 0
  <2>1. CASE perp.index_price = 0
    BY <2>1 DEF Premium
  <2>2. CASE perp.index_price # 0
    BY <1>1, <1>2, <2>2 DEF Premium, Truncated
  <2>3. QED
    BY <2>1, <2>2
<1>4. Truncated(Premium(perp) + 1, 3) = 0
  BY <1>3 DEF Truncated
<1>5. QED
  BY <1>4 DEF FundingRate, Clamp

\* A step keeps every perp flat.
LEMMA StepFlat == FactoryTypeOK /\ FlatInv /\ [FactoryNext]_factoryVars => FlatInv'
<1> SUFFICES ASSUME FactoryTypeOK, FlatInv, [FactoryNext]_factoryVars, NEW a \in DOMAIN perps'
             PROVE  Flat(perps'[a], funding_history'[a])
  BY DEF FlatInv
<1>1. CASE /\ a \in DOMAIN perps
           /\ perps'[a] = perps[a]
           /\ funding_history'[a] = funding_history[a]
  BY <1>1 DEF FlatInv
<1>2. ASSUME NEW price \in Prices, funding_history'[a] = NoKeys,
             perps'[a] = [index_price |-> price, mark_price |-> price,
                          funding_rate |-> 0, last_funding_time |-> blocktime]
      PROVE  Flat(perps'[a], funding_history'[a])
  BY <1>2, NoKeysEmpty DEF Flat
<1>3. ASSUME a \in DOMAIN perps, funding_history'[a] = funding_history[a],
             NEW price \in Prices, perps'[a] = Priced(perps[a], price)
      PROVE  Flat(perps'[a], funding_history'[a])
  <2>1. Flat(perps[a], funding_history[a]) /\ perps[a] \in ContinuousPerp
    BY <1>3, PerpTypes DEF FlatInv
  <2>2. /\ perps'[a].mark_price = perps'[a].index_price
        /\ perps'[a].funding_rate = perps[a].funding_rate
    BY <1>3, <2>1 DEF Priced, ContinuousPerp
  <2>3. QED
    BY <1>3, <2>1, <2>2 DEF Flat
<1>4. ASSUME a \in DOMAIN perps, perps'[a] = Paid(perps[a]),
             funding_history'[a] = PutKey(funding_history[a], blocktime, FundingRate(perps[a]))
      PROVE  Flat(perps'[a], funding_history'[a])
  <2>1. Flat(perps[a], funding_history[a]) /\ perps[a] \in ContinuousPerp
    BY <1>4, PerpTypes DEF FlatInv
  <2>2. FundingRate(perps[a]) = 0
    BY <2>1, FlatRate DEF Flat
  <2>3. /\ perps'[a].mark_price = perps[a].mark_price
        /\ perps'[a].index_price = perps[a].index_price
        /\ perps'[a].funding_rate = 0
    BY <1>4, <2>1, <2>2 DEF Paid, ContinuousPerp
  <2>4. \A t \in DOMAIN funding_history'[a] : funding_history'[a][t] = 0
    BY <1>4, <2>1, <2>2 DEF PutKey, Flat
  <2>5. QED
    BY <2>1, <2>3, <2>4 DEF Flat
<1>5. QED
  BY <1>1, <1>2, <1>3, <1>4, PerpStep

\* calculate_funding_rate never returns a rate other than zero, whatever prices
\* the oracle account sends and however long the perps run.
THEOREM FundingAlwaysFlat == FactorySpec => []FundingIsFlat
<1>1. FactoryInit => FlatInv
  BY NoKeysEmpty DEF FactoryInit, FlatInv
<1>2. FlatInv => FundingIsFlat
  BY DEF FlatInv, Flat, FundingIsFlat
<1>3. FactorySpec => []FactoryTypeOK
  BY TypeCorrect
<1>4. QED
  BY <1>1, <1>2, <1>3, StepFlat, PTL DEF FactorySpec

-----------------------------------------------------------------------------
\* A step keeps the payments of every perp an interval apart.
LEMMA StepPaced == FactoryTypeOK /\ FundingPaced /\ [FactoryNext]_factoryVars => FundingPaced'
<1> SUFFICES ASSUME FactoryTypeOK, FundingPaced, [FactoryNext]_factoryVars, NEW a \in DOMAIN perps'
             PROVE  Paced(perps'[a], funding_history'[a])
  BY DEF FundingPaced
<1>n. FundingInterval \in Nat \ {0}
  BY BlockTimesAreNaturals, FactoryNumbers DEF FactoryNumbers
<1>1. CASE /\ a \in DOMAIN perps
           /\ perps'[a] = perps[a]
           /\ funding_history'[a] = funding_history[a]
  BY <1>1 DEF FundingPaced
<1>2. CASE funding_history'[a] = NoKeys
  BY <1>2, NoKeysEmpty DEF Paced
<1>3. ASSUME a \in DOMAIN perps, funding_history'[a] = funding_history[a],
             NEW price \in Prices, perps'[a] = Priced(perps[a], price)
      PROVE  Paced(perps'[a], funding_history'[a])
  <2>1. Paced(perps[a], funding_history[a]) /\ perps[a] \in ContinuousPerp
    BY <1>3, PerpTypes DEF FundingPaced
  <2>2. /\ perps'[a].last_funding_time = perps[a].last_funding_time
        /\ perps'[a].funding_rate = perps[a].funding_rate
    BY <1>3, <2>1 DEF Priced, ContinuousPerp
  <2>3. QED
    BY <1>3, <2>1, <2>2 DEF Paced
<1>4. ASSUME a \in DOMAIN perps, FundingDue(a), perps'[a] = Paid(perps[a]),
             funding_history'[a] = PutKey(funding_history[a], blocktime, FundingRate(perps[a]))
      PROVE  Paced(perps'[a], funding_history'[a])
  <2> DEFINE times == DOMAIN funding_history[a]
             last == perps[a].last_funding_time
             rate == FundingRate(perps[a])
  <2>1. /\ Paced(perps[a], funding_history[a])
        /\ perps[a] \in ContinuousPerp
        /\ times \subseteq Nat
        /\ blocktime \in Nat
    BY <1>4, PerpTypes DEF FundingPaced
  <2>2. last \in Nat
    BY <2>1 DEF ContinuousPerp
  <2>3. blocktime >= last + FundingInterval
    BY <1>4 DEF FundingDue
  <2>4. /\ \A s, t \in times : s < t => t - s >= FundingInterval
        /\ \A t \in times : t >= FundingInterval /\ t <= last
    BY <2>1 DEF Paced
  <2>5. /\ perps'[a].last_funding_time = blocktime
        /\ perps'[a].funding_rate = rate
    BY <1>4, <2>1 DEF Paid, ContinuousPerp
  <2>6. /\ DOMAIN funding_history'[a] = times \cup {blocktime}
        /\ funding_history'[a][blocktime] = rate
    BY <1>4 DEF PutKey
  <2> HIDE DEF times, last, rate
  <2>7. \A s, t \in times \cup {blocktime} : s < t => t - s >= FundingInterval
    BY <1>n, <2>1, <2>2, <2>3, <2>4
  <2>8. \A t \in times \cup {blocktime} : t >= FundingInterval /\ t <= blocktime
    BY <1>n, <2>1, <2>2, <2>3, <2>4
  <2>9. QED
    BY <2>5, <2>6, <2>7, <2>8 DEF Paced
<1>5. QED
  BY <1>1, <1>2, <1>3, <1>4, PerpStep

\* No order of pay_funding deploys, admin's and settlement contract's mixed,
\* pays an asset twice within an interval.
THEOREM FundingAlwaysPaced == FactorySpec => []FundingPaced
<1>1. FactoryInit => FundingPaced
  BY NoKeysEmpty DEF FactoryInit, FundingPaced
<1>2. FactorySpec => []FactoryTypeOK
  BY TypeCorrect
<1>3. QED
  BY <1>1, <1>2, StepPaced, PTL DEF FactorySpec

-----------------------------------------------------------------------------
\* No deploy changes the result of a settled market, short of opening a new
\* market of the same asset and date in its place.
THEOREM ResultAlwaysStands == FactorySpec => ResultStands
<1>1. [FactoryNext]_factoryVars =>
        [\A k \in DOMAIN markets :
            markets[k].is_settled =>
               /\ HasKey(markets', k)
               /\ markets'[k] # markets[k] =>
                     markets'[k].is_active /\ ~ markets'[k].is_settled]_factoryVars
  <2> SUFFICES ASSUME FactoryNext, NEW k \in DOMAIN markets, markets[k].is_settled
               PROVE  /\ HasKey(markets', k)
                      /\ markets'[k] # markets[k] =>
                            markets'[k].is_active /\ ~ markets'[k].is_settled
    OBVIOUS
  <2>1. ASSUME NEW caller \in Accounts, NEW asset \in Assets, NEW price \in Prices,
               NEW date \in Dates, CreateDailyMarket(caller, asset, price, date)
        PROVE  /\ HasKey(markets', k)
               /\ markets'[k] # markets[k] =>
                     markets'[k].is_active /\ ~ markets'[k].is_settled
    <3>1. markets' = PutKey(markets, MarketKey(asset, date), NewMarket(price))
      BY <2>1 DEF CreateDailyMarket, CreateDaily, Opened
    <3>2. NewMarket(price).is_active /\ ~ NewMarket(price).is_settled
      BY DEF NewMarket
    <3>3. QED
      BY <3>1, <3>2 DEF PutKey, HasKey
  <2>2. ASSUME NEW caller \in Accounts, NEW key \in DOMAIN markets, NEW price \in Prices,
               SettleMarket(caller, key, price)
        PROVE  HasKey(markets', k) /\ markets'[k] = markets[k]
    <3>1. key # k
      BY <2>2 DEF SettleMarket, SettleDaily, CanClose
    <3> DEFINE closed == [markets[key] EXCEPT !.settlement_price = price,
                              !.is_settled = TRUE, !.is_active = FALSE]
    <3>2. markets' = [markets EXCEPT ![key] = closed]
      BY <2>2 DEF SettleMarket, SettleDaily, Closed
    <3> HIDE DEF closed
    <3>3. QED
      BY <3>1, <3>2 DEF HasKey
  <2>3. ASSUME UNCHANGED markets PROVE HasKey(markets', k) /\ markets'[k] = markets[k]
    BY <2>3 DEF HasKey
  <2>4. ASSUME NEW caller \in Accounts, NEW leverage \in LeverageOptions,
               UpdateConfig(caller, leverage)
        PROVE  UNCHANGED markets
    BY <2>4 DEF UpdateConfig, marketVars
  <2>5. ASSUME NEW caller \in Accounts, NEW asset \in Assets, NEW price \in Prices,
               CreateContinuousPerp(caller, asset, price)
        PROVE  UNCHANGED markets
    BY <2>5 DEF CreateContinuousPerp, marketVars
  <2>6. ASSUME NEW caller \in Accounts, NEW asset \in Assets, NEW price \in Prices,
               UpdatePerpPrice(caller, asset, price)
        PROVE  UNCHANGED markets
    BY <2>6 DEF UpdatePerpPrice, marketVars
  <2>7. ASSUME NEW caller \in Accounts, NEW asset \in Assets, PayFunding(caller, asset)
        PROVE  UNCHANGED markets
    BY <2>7 DEF PayFunding, marketVars
  <2>8. FactoryTick => UNCHANGED markets
    BY DEF FactoryTick, Tick, factoryState, marketVars
  <2>9. QED
    BY <2>1, <2>2, <2>3, <2>4, <2>5, <2>6, <2>7, <2>8 DEF FactoryNext
<1>2. QED
  BY <1>1, PTL DEF FactorySpec, ResultStands
=============================================================================
