--------------------------- MODULE SettlementProofs ---------------------------
(***************************************************************************)
(* The settlement contract: its clock (the gap between batches and the key *)
(* of the newest record), the types of what it and the contracts it calls  *)
(* keep, and the markets it keeps open.  A batch is a fold over its        *)
(* entries: what it leaves is proved by induction over them.               *)
(***************************************************************************)
EXTENDS Settlement, CommonProofs

\* What the two invariants need of each other: no batch is later than the last
\* settlement, which is never later than the block.
ClockInv ==
    /\ blocktime \in Nat /\ last_settlement \in Nat
    /\ last_settlement <= blocktime
    /\ DOMAIN history \subseteq Nat /\ batches \subseteq Nat
    /\ \A t \in batches : t <= last_settlement
    /\ BatchesSpaced
    /\ LastIsNewestRecord

\* A settlement contract just installed has no batch and no record.
LEMMA InitClock == Init => ClockInv
BY BlockTimesAreNaturals, SettlementNumbers
   DEF SettlementNumbers, Init, ClockInv, NoKeys, BatchesSpaced, LastIsNewestRecord

\* A settlement moves the last settlement to the time of its block, which is
\* the time of the only record it adds.
LEMMA SettleMoves ==
    ASSUME NEW caller, NEW entries, NEW target, Settle(caller, entries, target)
    PROVE  /\ DOMAIN history' = DOMAIN history \cup {blocktime}
           /\ last_settlement' = blocktime
           /\ blocktime' = blocktime
BY DEF Settle, PutKey, LastSettlementAt

\* Every step keeps the clock.
LEMMA StepClock == ClockInv /\ [Next]_vars => ClockInv'
<1> SUFFICES ASSUME ClockInv, [Next]_vars PROVE ClockInv'
  OBVIOUS
<1>n. MinGap \in Nat \ {0}
  BY BlockTimesAreNaturals, SettlementNumbers DEF SettlementNumbers
<1>s. /\ blocktime \in Nat /\ last_settlement \in Nat /\ last_settlement <= blocktime
      /\ DOMAIN history \subseteq Nat /\ batches \subseteq Nat
      /\ \A t \in batches : t <= last_settlement
      /\ \A s, t \in batches : s < t => t - s >= MinGap
      /\ \A t \in DOMAIN history : t <= blocktime
  BY DEF ClockInv, BatchesSpaced, LastIsNewestRecord
<1>1. ASSUME NEW caller, NEW entry, NEW target, SettleMarket(caller, entry, target)
      PROVE  ClockInv'
  <2>1. /\ DOMAIN history' = DOMAIN history \cup {blocktime} /\ last_settlement' = blocktime
        /\ blocktime' = blocktime /\ batches' = batches
    BY <1>1, SettleMoves DEF SettleMarket
  <2>2. LastIsNewestRecord'
    BY <1>s, <2>1 DEF LastIsNewestRecord
  <2>3. BatchesSpaced'
    BY <1>s, <2>1 DEF BatchesSpaced
  <2>4. QED
    BY <1>s, <2>1, <2>2, <2>3 DEF ClockInv
<1>2. ASSUME NEW caller, NEW list, NEW target, SettleAllMarkets(caller, list, target)
      PROVE  ClockInv'
  <2>1. PICK entries : Settle(caller, entries, target)
    BY <1>2 DEF SettleAllMarkets
  <2>2. DOMAIN history' = DOMAIN history \cup {blocktime} /\ last_settlement' = blocktime /\ blocktime' = blocktime
    BY <2>1, SettleMoves
  <2>3. blocktime >= last_settlement + MinGap /\ batches' = batches \cup {blocktime}
    BY <1>2 DEF SettleAllMarkets, GapPassed
  <2>4. LastIsNewestRecord'
    BY <1>s, <2>2 DEF LastIsNewestRecord
  <2>5. \A s, t \in batches \cup {blocktime} : s < t => t - s >= MinGap
    BY <1>n, <1>s, <2>3
  <2>6. BatchesSpaced'
    BY <2>3, <2>5 DEF BatchesSpaced
  <2>7. QED
    BY <1>n, <1>s, <2>2, <2>3, <2>4, <2>6 DEF ClockInv
<1>3. ASSUME NEW caller, NEW key, NEW price, EmergencySettle(caller, key, price)
      PROVE  ClockInv'
  BY <1>3 DEF EmergencySettle, settlementVars, ClockInv, BatchesSpaced, LastIsNewestRecord
<1>4. ASSUME NEW caller, NEW asset, NEW price, NEW date,
             CreateDailyMarket(caller, asset, price, date)
      PROVE  ClockInv'
  BY <1>4 DEF CreateDailyMarket, settlementVars, ClockInv, BatchesSpaced, LastIsNewestRecord
<1>5. ASSUME NEW caller, NEW asset, NEW target, NEW prices,
             AggregatePrices(caller, asset, target, prices)
      PROVE  ClockInv'
  BY <1>5 DEF AggregatePrices, settlementVars, ghosts, ClockInv, BatchesSpaced,
              LastIsNewestRecord
<1>6. ASSUME NextBlock PROVE ClockInv'
  <2>1. /\ blocktime' = blocktime + 1 /\ history' = history /\ last_settlement' = last_settlement
        /\ batches' = batches
    BY <1>6 DEF NextBlock, Tick, settlementVars, ghosts
  <2>2. LastIsNewestRecord' /\ BatchesSpaced'
    BY <2>1 DEF ClockInv, BatchesSpaced, LastIsNewestRecord
  <2>3. QED
    BY <1>s, <2>1, <2>2 DEF ClockInv
<1>7. CASE UNCHANGED vars
  BY <1>7 DEF vars, settlementVars, ghosts, ClockInv, BatchesSpaced, LastIsNewestRecord
<1>8. QED
  BY <1>1, <1>2, <1>3, <1>4, <1>5, <1>6, <1>7, Zenon DEF Next

\* Single settlements in between or not, settle_all_markets never closes markets
\* twice within its gap of 23 hours.
THEOREM BatchesAlwaysSpaced == Spec => []BatchesSpaced
<1>1. ClockInv => BatchesSpaced
  BY DEF ClockInv
<1>2. QED
  BY <1>1, InitClock, StepClock, PTL DEF Spec

\* last_settlement, which the gap is counted from, is the key of the newest
\* record in every reachable state.
THEOREM LastAlwaysNewest == Spec => []LastIsNewestRecord
<1>1. ClockInv => LastIsNewestRecord
  BY DEF ClockInv
<1>2. QED
  BY <1>1, InitClock, StepClock, PTL DEF Spec

-----------------------------------------------------------------------------
\* The constants, as single facts.
LEMMA Numbers ==
    /\ Prices \subseteq Nat /\ Dates \subseteq Nat /\ Targets \subseteq Nat
    /\ Day \in Nat /\ Genesis \in Nat /\ MaxBlockTime \in Nat /\ Genesis <= MaxBlockTime
BY BlockTimesAreNaturals, SettlementNumbers DEF SettlementNumbers

\* The daily markets of the factory; the map operators of its instance are those
\* of this module.
IsMarkets(ms) == IsMap(ms, MarketKeys, Factory!DailyMarket)

MarketMaps == UNION {[K -> Factory!DailyMarket] : K \in SUBSET MarketKeys}

LEMMA MarketMapsAreMaps == \A ms : ms \in MarketMaps <=> IsMarkets(ms)
BY DEF MarketMaps, IsMarkets, IsMap

\* An asset has an open market.
Trading(ms, asset) == \E k \in DOMAIN ms : k[1] = asset /\ ms[k].is_active

\* What opening and closing a market do to the map.
OpensOne(ms, asset, key, after) ==
    /\ key \in MarketKeys /\ key[1] = asset
    /\ IsMarkets(after)
    /\ DOMAIN after = DOMAIN ms \cup {key}
    /\ after[key].is_active
    /\ \A k \in DOMAIN ms : k # key => after[k] = ms[k]

LEMMA OpenedMarkets ==
    ASSUME NEW ms, IsMarkets(ms), NEW asset \in Assets, NEW date \in Nat, NEW price \in Nat,
           NEW key, key = Factory!MarketKey(asset, date)
    PROVE  OpensOne(ms, asset, key, Factory!Opened(ms, key, price))
<1> DEFINE new == Factory!NewMarket(price)
<1>1. key \in MarketKeys /\ key[1] = asset
  BY DEF Factory!MarketKey, MarketKeys
<1>2. new \in Factory!DailyMarket /\ new.is_active
  BY DEF Factory!NewMarket, Factory!DailyMarket
<1>3. Factory!Opened(ms, key, price) = PutKey(ms, key, new)
  BY DEF Factory!Opened, Factory!PutKey, PutKey
<1> HIDE DEF new
<1>4. IsMarkets(PutKey(ms, key, new))
  BY <1>1, <1>2, PutKeyIsMap DEF IsMarkets
<1>5. /\ DOMAIN PutKey(ms, key, new) = DOMAIN ms \cup {key}
      /\ PutKey(ms, key, new)[key] = new
      /\ \A k \in DOMAIN ms : k # key => PutKey(ms, key, new)[k] = ms[k]
  BY DEF PutKey
<1> QED
  BY <1>1, <1>2, <1>3, <1>4, <1>5, Zenon DEF OpensOne

LEMMA ClosedMarkets ==
    ASSUME NEW ms, IsMarkets(ms), NEW key, NEW price \in Nat
    PROVE  /\ IsMarkets(Factory!Closed(ms, key, price))
           /\ DOMAIN Factory!Closed(ms, key, price) = DOMAIN ms
           /\ \A k \in DOMAIN ms : k # key => Factory!Closed(ms, key, price)[k] = ms[k]
<1> DEFINE closed == Factory!Closed(ms, key, price)
<1>1. ms \in [DOMAIN ms -> Factory!DailyMarket] /\ DOMAIN ms \subseteq MarketKeys
  BY DEF IsMarkets, IsMap
<1>2. DOMAIN closed = DOMAIN ms /\ \A k \in DOMAIN ms : k # key => closed[k] = ms[k]
  BY <1>1 DEF Factory!Closed
<1>3. closed \in [DOMAIN ms -> Factory!DailyMarket]
  BY <1>1 DEF Factory!Closed, Factory!DailyMarket
<1> HIDE DEF closed
<1>4. IsMarkets(closed)
  BY <1>1, <1>2, <1>3 DEF IsMarkets, IsMap
<1> QED
  BY <1>2, <1>4 DEF closed

\* A finalized price is a price.
FinalTypeOK == IsMap(aggregated, Assets \X Targets, PriceOracle!AggregatedPrice)

LEMMA FinalPrice ==
    ASSUME FinalTypeOK, NEW asset, NEW target, PriceOracle!PriceFinalized(asset, target)
    PROVE  /\ asset \in Assets /\ target \in Nat
           /\ PriceOracle!GetPrice(asset, target) \in Nat
BY Numbers DEF FinalTypeOK, IsMap, PriceOracle!PriceFinalized, PriceOracle!HasKey,
               PriceOracle!GetPrice, PriceOracle!AggregatedPrice

-----------------------------------------------------------------------------
\* The lists and the folds of a batch.

\* What remains of a list without the continuous perps are entries of it.
LEMMA DailyEntriesType ==
    ASSUME NEW E, NEW list \in Seq(E)
    PROVE  DailyEntries(list) \in Seq(E)
<1> DEFINE n == Len(list)
           On(daily, i) == IF Factory!IsContinuous(list[i].key) THEN daily
                           ELSE Append(daily, list[i])
           step == [i \in 1 .. n |-> [daily \in Seq(E) |-> On(daily, i)]]
           Is(f) == f = [i \in 0 .. n |-> IF i = 0 THEN <<>> ELSE On(f[i - 1], i)]
           V == Seq(E)
           none == <<>>
<1>1. n \in Nat /\ none \in V
  OBVIOUS
<1>2. \A i \in 1 .. n : \A daily \in V : On(daily, i) \in V
  OBVIOUS
<1> HIDE DEF On, V
<1>3. \A i \in 1 .. n : \A daily \in V : step[i][daily] = On(daily, i)
  BY DEF V
<1>4. step \in Steps(V, n)
  BY <1>2 DEF V, Steps
<1> HIDE DEF step, n, none
<1>5. PICK f \in [0 .. n -> V] :
         f[0] = none /\ \A i \in 1 .. n : f[i] = step[i][f[i - 1]]
  <2>1. PICK f : IsRecursion(f, V, none, n, step)
    BY <1>1, <1>4, RecursionExists
  <2> QED BY <2>1 DEF IsRecursion
<1>6. \A i \in 1 .. n : f[i] = On(f[i - 1], i)
  <2>1. \A i \in 1 .. n : i - 1 \in 0 .. n
    BY <1>1
  <2> QED BY <1>3, <1>5, <2>1
<1>7. Is(f)
  <2>1. f = [i \in 0 .. n |-> f[i]]
    BY <1>5
  <2>2. \A i \in 0 .. n : f[i] = IF i = 0 THEN <<>> ELSE On(f[i - 1], i)
    BY <1>1, <1>5, <1>6 DEF none
  <2> QED BY <2>1, <2>2
<1> DEFINE d == CHOOSE g : Is(g)
<1>8. Is(d)
  <2> HIDE DEF Is
  <2> QED BY <1>7
<1>9. DailyEntries(list) = d[n]
  BY DEF DailyEntries, On, n
<1> HIDE DEF d
<1>10. \A i \in 0 .. n : d[i] = IF i = 0 THEN <<>> ELSE On(d[i - 1], i)
  BY <1>8
<1>11. n \in {i \in Nat : i <= n => d[i] \in V}
  <2> DEFINE S == {i \in Nat : i <= n => d[i] \in V}
  <2>1. 0 \in S
    <3>1. 0 \in 0 .. n
      BY <1>1
    <3>2. d[0] = <<>>
      BY <1>10, <3>1
    <3> QED BY <1>1, <3>2 DEF none
  <2>2. ASSUME NEW i \in Nat, i \in S PROVE i + 1 \in S
    <3> SUFFICES ASSUME i + 1 <= n PROVE d[i + 1] \in V
      OBVIOUS
    <3>1. d[i] \in V /\ i + 1 \in 1 .. n /\ i + 1 # 0 /\ (i + 1) - 1 = i
      BY <1>1, <2>2
    <3> QED BY <1>1, <1>2, <1>10, <3>1
  <2> HIDE DEF S
  <2>3. n \in S
    BY <1>1, <2>1, <2>2, SetInduction
  <2> QED BY <2>3 DEF S
<1> QED
  BY <1>1, <1>9, <1>11 DEF V

\* A deploy that the settlement takes names assets, and prices that are final.
Settleable(entries, target) ==
    /\ Len(entries) \in Nat /\ Len(entries) > 0
    /\ \A i \in 1 .. Len(entries) :
          PriceOracle!PriceFinalized(entries[i].asset, target)

\* Closing one market at a price and opening the next for the asset that came
\* with it.
LEMMA EntryMarkets ==
    ASSUME FinalTypeOK, NEW ms, IsMarkets(ms), NEW entry, NEW target,
           PriceOracle!PriceFinalized(entry.asset, target),
           NEW price, price = PriceOracle!GetPrice(entry.asset, target)
    PROVE  /\ IsMarkets(AfterEntry(ms, entry, price, target))
           /\ Trading(AfterEntry(ms, entry, price, target), entry.asset)
           /\ \A asset : Trading(ms, asset) /\ entry.key[1] # asset
                => Trading(AfterEntry(ms, entry, price, target), asset)
<1> DEFINE closed == Factory!Closed(ms, entry.key, price)
           next == Successor(entry.asset, target)
           after == Factory!Opened(closed, next, price)
<1>1. entry.asset \in Assets /\ target + Day \in Nat /\ price \in Nat
  BY FinalPrice, Numbers
<1>2. /\ IsMarkets(closed) /\ DOMAIN closed = DOMAIN ms
      /\ \A k \in DOMAIN ms : k # entry.key => closed[k] = ms[k]
  BY <1>1, ClosedMarkets
<1>3. next = Factory!MarketKey(entry.asset, target + Day)
  BY DEF Successor
<1> HIDE DEF closed, next
<1>4. OpensOne(closed, entry.asset, next, after)
  <2> DEFINE date == target + Day
  <2>1. date \in Nat /\ next = Factory!MarketKey(entry.asset, date)
    BY <1>1, <1>3
  <2> HIDE DEF date
  <2> QED BY <1>1, <1>2, <2>1, OpenedMarkets
<1>5. AfterEntry(ms, entry, price, target) = after
  BY DEF AfterEntry, closed, next
<1> HIDE DEF after
<1>6. Trading(after, entry.asset)
  BY <1>4 DEF Trading, OpensOne
<1>7. ASSUME NEW asset, Trading(ms, asset), entry.key[1] # asset PROVE Trading(after, asset)
  <2>1. PICK k \in DOMAIN ms : k[1] = asset /\ ms[k].is_active
    BY <1>7 DEF Trading
  <2>2. k # entry.key
    BY <1>7, <2>1
  <2>3. k \in DOMAIN after /\ (k # next => after[k] = ms[k])
    BY <1>2, <1>4, <2>1, <2>2 DEF OpensOne
  <2>4. after[k].is_active
    BY <1>4, <2>1, <2>3 DEF OpensOne
  <2> QED BY <2>1, <2>3, <2>4 DEF Trading
<1> QED
  BY <1>4, <1>5, <1>6, <1>7 DEF OpensOne

\* The markets after each entry are markets, and each follows from the one
\* before it.
LEMMA AfterSteps ==
    ASSUME FinalTypeOK, IsMarkets(markets), NEW entries, NEW target,
           Settleable(entries, target)
    PROVE  /\ AfterEntries(entries, target)[0] = markets
           /\ \A i \in 1 .. Len(entries) :
                 AfterEntries(entries, target)[i] =
                     AfterEntry(AfterEntries(entries, target)[i - 1], entries[i],
                                PriceOracle!GetPrice(entries[i].asset, target), target)
           /\ \A i \in 0 .. Len(entries) : IsMarkets(AfterEntries(entries, target)[i])
<1> DEFINE n == Len(entries)
           On(ms, i) == AfterEntry(ms, entries[i],
                            PriceOracle!GetPrice(entries[i].asset, target), target)
           step == [i \in 1 .. n |-> [ms \in MarketMaps |-> On(ms, i)]]
           Is(f) == f = [i \in 0 .. n |-> IF i = 0 THEN markets ELSE On(f[i - 1], i)]
<1>1. n \in Nat /\ markets \in MarketMaps
  BY MarketMapsAreMaps DEF Settleable
<1>2. \A i \in 1 .. n : \A ms \in MarketMaps : On(ms, i) \in MarketMaps
  <2> SUFFICES ASSUME NEW i \in 1 .. n, NEW ms \in MarketMaps PROVE On(ms, i) \in MarketMaps
    OBVIOUS
  <2>1. PriceOracle!PriceFinalized(entries[i].asset, target) /\ IsMarkets(ms)
    BY MarketMapsAreMaps DEF Settleable
  <2>2. IsMarkets(On(ms, i))
    BY <2>1, EntryMarkets
  <2> QED BY <2>2, MarketMapsAreMaps
<1> HIDE DEF On
<1>3. \A i \in 1 .. n : \A ms \in MarketMaps : step[i][ms] = On(ms, i)
  OBVIOUS
<1>4. step \in Steps(MarketMaps, n)
  BY <1>2 DEF Steps
<1> HIDE DEF step, n
<1>5. PICK f \in [0 .. n -> MarketMaps] :
         f[0] = markets /\ \A i \in 1 .. n : f[i] = step[i][f[i - 1]]
  <2>1. PICK f : IsRecursion(f, MarketMaps, markets, n, step)
    BY <1>1, <1>4, RecursionExists
  <2> QED BY <2>1 DEF IsRecursion
<1>6. \A i \in 1 .. n : f[i] = On(f[i - 1], i)
  <2>1. \A i \in 1 .. n : i - 1 \in 0 .. n
    BY <1>1
  <2> QED BY <1>3, <1>5, <2>1
<1>7. Is(f)
  <2>1. f = [i \in 0 .. n |-> f[i]]
    BY <1>5
  <2>2. \A i \in 0 .. n : f[i] = IF i = 0 THEN markets ELSE On(f[i - 1], i)
    BY <1>1, <1>5, <1>6
  <2> QED BY <2>1, <2>2
<1> DEFINE after == CHOOSE g : Is(g)
<1>8. Is(after)
  <2> HIDE DEF Is
  <2> QED BY <1>7
<1>9. AfterEntries(entries, target) = after
  BY DEF AfterEntries, On, n
<1> HIDE DEF after
<1>10. \A i \in 0 .. n : after[i] = IF i = 0 THEN markets ELSE On(after[i - 1], i)
  BY <1>8
<1>11. after[0] = markets /\ \A i \in 1 .. n : after[i] = On(after[i - 1], i)
  <2>1. 0 \in 0 .. n /\ \A i \in 1 .. n : i \in 0 .. n /\ i # 0
    BY <1>1
  <2> QED BY <1>10, <2>1
<1>12. \A i \in 0 .. n : after[i] \in MarketMaps
  <2> DEFINE S == {i \in Nat : i <= n => after[i] \in MarketMaps}
  <2>1. 0 \in S
    BY <1>1, <1>11
  <2>2. ASSUME NEW i \in Nat, i \in S PROVE i + 1 \in S
    <3> SUFFICES ASSUME i + 1 <= n PROVE after[i + 1] \in MarketMaps
      OBVIOUS
    <3>1. after[i] \in MarketMaps /\ i + 1 \in 1 .. n /\ (i + 1) - 1 = i
      BY <1>1, <2>2
    <3> QED BY <1>2, <1>11, <3>1
  <2>3. Nat \subseteq S
    <3> HIDE DEF S
    <3> QED BY <2>1, <2>2, SetInduction
  <2> QED BY <1>1, <2>3
<1> QED
  BY <1>9, <1>11, <1>12, MarketMapsAreMaps DEF On, n

-----------------------------------------------------------------------------
\* What the oracle finalizes is a price.  The lists a deploy can carry are sorted
\* already, so there is a sorted list of the same prices.
LEMMA MedianType ==
    ASSUME NEW prices \in PriceOracle!PriceLists(Prices), Len(prices) > 0
    PROVE  PriceOracle!Median(prices) \in Nat /\ Len(prices) \in Nat
<1> DEFINE n == Len(prices)
           R == {prices[i] : i \in 1 .. n}
           sorted == PriceOracle!Sorted(prices)
<1>1. PICK m \in 0 .. 3 :
         /\ prices \in [1 .. m -> Prices]
         /\ \A i, j \in 1 .. m : i < j => prices[i] <= prices[j]
  BY DEF PriceOracle!PriceLists
<1>2. n = m /\ n \in Nat
  BY <1>1
<1>3. R \subseteq Nat
  BY <1>1, <1>2, Numbers
<1>4. prices \in [1 .. n -> R]
  BY <1>1, <1>2
<1>5. sorted \in [1 .. n -> R]
  <2> DEFINE Good(s) ==
                /\ \A i, j \in 1 .. n : i < j => s[i] <= s[j]
                /\ \A p \in R : PriceOracle!Cardinality({i \in 1 .. n : s[i] = p})
                                   = PriceOracle!Cardinality({i \in 1 .. n : prices[i] = p})
  <2>1. Good(prices)
    BY <1>1, <1>2
  <2>2. sorted = CHOOSE s \in [1 .. n -> R] : Good(s)
    BY DEF PriceOracle!Sorted
  <2> HIDE DEF R, Good, sorted
  <2> QED BY <1>4, <2>1, <2>2
<1>6. \A i \in 1 .. n : sorted[i] \in Nat
  <2> HIDE DEF R, sorted
  <2> QED BY <1>3, <1>5
<1>7. CASE n % 2 = 0
  <2>1. n \div 2 \in 1 .. n /\ n \div 2 + 1 \in 1 .. n
    BY <1>2, <1>7
  <2>2. (sorted[n \div 2] + sorted[n \div 2 + 1]) \div 2 \in Nat
    BY <1>6, <2>1
  <2>3. QED
    BY <1>2, <1>7, <2>2 DEF PriceOracle!Median
<1>8. CASE n % 2 # 0
  <2>1. n \div 2 + 1 \in 1 .. n
    BY <1>2, <1>8
  <2>2. QED
    BY <1>2, <1>6, <1>8, <2>1 DEF PriceOracle!Median
<1>9. QED
  BY <1>7, <1>8

LEMMA FinalizeKeepsTypes ==
    ASSUME FinalTypeOK, NEW caller, NEW asset \in Assets, NEW target \in Targets,
           NEW prices \in PriceOracle!PriceLists(Prices),
           PriceOracle!Finalize(caller, asset, target, prices)
    PROVE  FinalTypeOK'
<1> DEFINE final == [price |-> PriceOracle!Median(prices),
                     submissions_count |-> Len(prices) % 256]
<1>1. Len(prices) > 0
  BY DEF PriceOracle!Finalize
<1>2. PriceOracle!Median(prices) \in Nat /\ Len(prices) \in Nat
  BY <1>1, MedianType
<1>3. final \in PriceOracle!AggregatedPrice
  BY <1>2 DEF PriceOracle!AggregatedPrice
<1>4. aggregated' = PutKey(aggregated, <<asset, target>>, final)
  BY DEF PriceOracle!Finalize, PriceOracle!PutKey, PutKey
<1> HIDE DEF final
<1> QED
  BY <1>3, <1>4, PutKeyIsMap DEF FinalTypeOK

-----------------------------------------------------------------------------
\* The markets there are and the prices that are final.
LEMMA TypesOfCalls == TypeOK => IsMarkets(markets) /\ FinalTypeOK
BY DEF TypeOK, IsMarkets, FinalTypeOK

\* A deploy that settles names markets that exist and assets with a final price.
LEMMA SettledEntries ==
    ASSUME TypeOK, NEW caller, NEW entries, NEW target, Len(entries) \in Nat \ {0},
           Settle(caller, entries, target)
    PROVE  /\ Settleable(entries, target)
           /\ \A i \in 1 .. Len(entries) :
                 entries[i].key \in MarketKeys /\ entries[i].asset \in Assets
<1>1. Settleable(entries, target)
  BY DEF Settle, Settleable
<1>2. IsMarkets(markets) /\ FinalTypeOK
  BY TypesOfCalls
<1> SUFFICES ASSUME NEW i \in 1 .. Len(entries)
             PROVE  entries[i].key \in MarketKeys /\ entries[i].asset \in Assets
  BY <1>1
<1> DEFINE before == AfterEntries(entries, target)[i - 1]
<1>3. entries[i].asset \in Assets
  BY <1>1, <1>2, FinalPrice DEF Settleable
<1>4. IsMarkets(before)
  <2>1. i - 1 \in 0 .. Len(entries)
    OBVIOUS
  <2> QED BY <1>1, <1>2, <2>1, AfterSteps
<1>5. Factory!CanClose(before, entries[i].key)
  BY DEF Settle
<1> HIDE DEF before
<1>6. entries[i].key \in DOMAIN before
  BY <1>5 DEF Factory!CanClose, Factory!HasKey
<1> QED
  BY <1>3, <1>4, <1>6 DEF IsMarkets, IsMap

\* A settlement keeps the types.
LEMMA SettleKeepsTypes ==
    ASSUME TypeOK, NEW caller, NEW entries, NEW target, Len(entries) \in Nat \ {0},
           Settle(caller, entries, target), batches' \subseteq Genesis .. blocktime
    PROVE  TypeOK'
<1> DEFINE n == Len(entries)
           after == AfterEntries(entries, target)
           last == entries[n]
           record == [key |-> last.key, asset |-> last.asset, target |-> target,
                      price |-> PriceOracle!GetPrice(last.asset, target)]
<1>1. Settleable(entries, target) /\ IsMarkets(markets) /\ FinalTypeOK
  BY SettledEntries, TypesOfCalls
<1>2. \A i \in 1 .. n : entries[i].key \in MarketKeys /\ entries[i].asset \in Assets
  BY SettledEntries
<1>3. n \in 1 .. n /\ n \in 0 .. n
  OBVIOUS
<1>4. IsMarkets(markets')
  <2>1. IsMarkets(after[n])
    BY <1>1, <1>3, AfterSteps
  <2>2. markets' = after[n]
    BY DEF Settle
  <2> QED BY <2>1, <2>2
<1>5. PriceOracle!PriceFinalized(last.asset, target)
  BY <1>1, <1>3 DEF Settleable
<1>6. record \in MarketSettlement
  <2>1. last.key \in MarketKeys /\ last.asset \in Assets
    BY <1>2, <1>3
  <2>2. target \in Nat /\ PriceOracle!GetPrice(last.asset, target) \in Nat
    BY <1>1, <1>5, FinalPrice
  <2> HIDE DEF last
  <2> QED BY <2>1, <2>2 DEF MarketSettlement
<1>7. blocktime \in Nat /\ blocktime \in Genesis .. MaxBlockTime /\ blocktime \in Genesis .. blocktime
  BY Numbers DEF TypeOK
<1>8. IsMap(history', Genesis .. blocktime, MarketSettlement)
  <2>1. history' = PutKey(history, blocktime, record)
    BY DEF Settle
  <2>2. IsMap(history, Genesis .. blocktime, MarketSettlement)
    BY DEF TypeOK
  <2> HIDE DEF record
  <2> QED BY <1>6, <1>7, <2>1, <2>2, PutKeyIsMap
<1>9. /\ markets_count' \in Nat /\ last_settlement' = blocktime /\ blocktime' = blocktime
      /\ aggregated' = aggregated
  BY DEF Settle, TypeOK, LastSettlementAt
<1>10. opened' \subseteq Assets
  <2>1. opened' = opened \cup {entries[i].asset : i \in 1 .. n}
    BY DEF Settle
  <2> QED BY <1>2, <2>1 DEF TypeOK
<1>11. orphaned' \subseteq Assets
  <2>1. orphaned' = orphaned \cup {entries[i].key[1] : i \in {j \in 1 .. n :
                                             entries[j].key[1] # entries[j].asset}}
    BY DEF Settle
  <2>2. \A i \in 1 .. n : entries[i].key[1] \in Assets
    BY <1>2 DEF MarketKeys
  <2> QED BY <2>1, <2>2 DEF TypeOK
<1>12. last_settlement' \in 0 .. blocktime'
  BY <1>7, <1>9
<1>13. IsMap(history', Genesis .. blocktime', MarketSettlement) /\ batches' \subseteq Genesis .. blocktime'
  BY <1>8, <1>9
<1>14. IsMap(aggregated', Assets \X Targets, PriceOracle!AggregatedPrice)
  BY <1>1, <1>9 DEF FinalTypeOK
<1>15. blocktime' \in Genesis .. MaxBlockTime
  BY <1>7, <1>9
<1> QED
  BY <1>4, <1>9, <1>10, <1>11, <1>12, <1>13, <1>14, <1>15, Zenon DEF TypeOK, IsMarkets

\* What a batch settles of a list of entries: a sequence, empty or not.
LEMMA BatchEntries ==
    ASSUME NEW list \in Lists, DailyEntries(list) # <<>>
    PROVE  Len(DailyEntries(list)) \in Nat \ {0}
<1> DEFINE E == {Entry(key, asset) : key \in Listable, asset \in Assets}
<1>1. list \in Seq(E)
  <2>1. PICK n \in 1 .. MaxBatch : list \in [1 .. n -> E]
    BY DEF Lists
  <2>2. n \in Nat
    BY <2>1, BlockTimesAreNaturals, SettlementNumbers DEF SettlementNumbers
  <2> HIDE DEF E
  <2> QED BY <2>1, <2>2
<1> HIDE DEF E
<1>2. DailyEntries(list) \in Seq(E)
  BY <1>1, DailyEntriesType
<1> QED
  BY <1>2

LEMMA InitTypes == Init => TypeOK
<1> SUFFICES ASSUME Init PROVE TypeOK
  OBVIOUS
<1>1. /\ IsMap(markets, MarketKeys, Factory!DailyMarket)
      /\ IsMap(aggregated, Assets \X Targets, PriceOracle!AggregatedPrice)
      /\ IsMap(history, Genesis .. blocktime, MarketSettlement)
  BY NoKeysEmpty, Zenon DEF Init
<1>2. /\ blocktime \in Genesis .. MaxBlockTime /\ last_settlement \in 0 .. blocktime
      /\ markets_count \in Nat /\ batches = {} /\ opened = {} /\ orphaned = {}
  BY Numbers DEF Init
<1> QED
  BY <1>1, <1>2 DEF TypeOK

\* Every step keeps the types.
LEMMA StepTypes == TypeOK /\ [Next]_vars => TypeOK'
<1> SUFFICES ASSUME TypeOK, [Next]_vars PROVE TypeOK'
  OBVIOUS
<1>t. IsMarkets(markets) /\ FinalTypeOK
  BY TypesOfCalls
<1>1. ASSUME NEW caller, NEW entry, NEW target, SettleMarket(caller, entry, target)
      PROVE  TypeOK'
  <2> DEFINE entries == <<entry>>
  <2>1. Len(entries) \in Nat \ {0}
    OBVIOUS
  <2>2. Settle(caller, entries, target) /\ batches' \subseteq Genesis .. blocktime
    BY <1>1 DEF SettleMarket, TypeOK
  <2> HIDE DEF entries
  <2> QED BY <2>1, <2>2, SettleKeepsTypes
<1>2. ASSUME NEW caller, NEW list \in Lists, NEW target, SettleAllMarkets(caller, list, target)
      PROVE  TypeOK'
  <2> DEFINE entries == DailyEntries(list)
  <2>1. entries # <<>> /\ Settle(caller, entries, target)
    BY <1>2 DEF SettleAllMarkets
  <2>2. Len(entries) \in Nat \ {0}
    BY <2>1, BatchEntries
  <2>3. batches' \subseteq Genesis .. blocktime
    <3>1. batches' = batches \cup {blocktime}
      BY <1>2 DEF SettleAllMarkets
    <3> QED BY <3>1, Numbers DEF TypeOK
  <2> HIDE DEF entries
  <2> QED BY <2>1, <2>2, <2>3, SettleKeepsTypes
<1>3. ASSUME NEW caller, NEW key, NEW price \in Prices, EmergencySettle(caller, key, price)
      PROVE  TypeOK'
  <2>1. key \in DOMAIN markets /\ markets' = Factory!Closed(markets, key, price)
    BY <1>3 DEF EmergencySettle, Factory!SettleDaily, Factory!CanClose, Factory!HasKey
  <2>2. IsMarkets(markets')
    BY <1>t, <2>1, ClosedMarkets, Numbers
  <2>3. key[1] \in Assets
    BY <1>t, <2>1 DEF IsMarkets, IsMap, MarketKeys
  <2>4. orphaned' = orphaned \cup {key[1]}
    BY <1>3 DEF EmergencySettle
  <2>5. /\ blocktime' = blocktime /\ aggregated' = aggregated /\ history' = history
        /\ last_settlement' = last_settlement /\ batches' = batches /\ opened' = opened
        /\ markets_count' = markets_count
    BY <1>3 DEF EmergencySettle, settlementVars, Factory!SettleDaily
  <2> QED BY <2>2, <2>3, <2>4, <2>5 DEF TypeOK, IsMarkets
<1>4. ASSUME NEW caller, NEW asset \in Assets, NEW price \in Prices, NEW date \in Dates,
             CreateDailyMarket(caller, asset, price, date)
      PROVE  TypeOK'
  <2> DEFINE key == Factory!MarketKey(asset, date)
  <2>1. markets' = Factory!Opened(markets, key, price) /\ markets_count' = markets_count + 1
    BY <1>4 DEF CreateDailyMarket, Factory!CreateDaily
  <2>2. OpensOne(markets, asset, key, Factory!Opened(markets, key, price))
    BY <1>t, OpenedMarkets, Numbers
  <2>3. IsMarkets(markets')
    BY <2>1, <2>2 DEF OpensOne
  <2>4. opened' = opened \cup {asset}
    BY <1>4 DEF CreateDailyMarket
  <2>5. /\ blocktime' = blocktime /\ aggregated' = aggregated /\ history' = history
        /\ last_settlement' = last_settlement /\ batches' = batches /\ orphaned' = orphaned
    BY <1>4 DEF CreateDailyMarket, settlementVars
  <2> QED BY <2>1, <2>3, <2>4, <2>5 DEF TypeOK, IsMarkets
<1>5. ASSUME NEW caller, NEW asset \in Assets, NEW target \in Targets,
             NEW prices \in PriceOracle!PriceLists(Prices),
             AggregatePrices(caller, asset, target, prices)
      PROVE  TypeOK'
  <2>1. FinalTypeOK'
    BY <1>5, <1>t, FinalizeKeepsTypes DEF AggregatePrices
  <2>2. UNCHANGED <<blocktime, markets, markets_count, history, last_settlement, batches,
                    opened, orphaned>>
    BY <1>5 DEF AggregatePrices, factoryVars, settlementVars, ghosts
  <2> QED BY <2>1, <2>2 DEF TypeOK, FinalTypeOK
<1>6. ASSUME NextBlock PROVE TypeOK'
  <2>1. /\ blocktime < MaxBlockTime /\ blocktime' = blocktime + 1
        /\ UNCHANGED <<markets, markets_count, aggregated, history, last_settlement,
                       batches, opened, orphaned>>
    BY <1>6 DEF NextBlock, Tick, factoryVars, settlementVars, ghosts
  <2>2. blocktime' \in Genesis .. MaxBlockTime /\ last_settlement' \in 0 .. blocktime'
    BY <2>1, Numbers DEF TypeOK
  <2>3. Genesis .. blocktime \subseteq Genesis .. blocktime'
    BY <2>1, Numbers DEF TypeOK
  <2>4. IsMap(history', Genesis .. blocktime', MarketSettlement) /\ batches' \subseteq Genesis .. blocktime'
    BY <2>1, <2>3 DEF TypeOK, IsMap
  <2> QED BY <2>1, <2>2, <2>4, Zenon DEF TypeOK
<1>7. CASE UNCHANGED vars
  BY <1>7 DEF vars, factoryVars, settlementVars, ghosts, TypeOK
<1>8. QED
  BY <1>1, <1>2, <1>3, <1>4, <1>5, <1>6, <1>7, Zenon DEF Next

\* The contract, the factory's markets and the oracle's prices keep their shape
\* whatever deploys come in whatever order, batches and emergencies included.
THEOREM TypeCorrect == Spec => []TypeOK
BY InitTypes, StepTypes, PTL DEF Spec

-----------------------------------------------------------------------------
\* An asset that trades, or that one of the entries up to the i-th is for, trades
\* after the i-th, if no entry closes a market of it for another asset.
TradesOn(entries, asset) ==
    \A i \in 1 .. Len(entries) :
        entries[i].key[1] = asset => entries[i].asset = asset

LEMMA EntriesKeepTrading ==
    ASSUME TypeOK, NEW caller, NEW entries, NEW target, Len(entries) \in Nat \ {0},
           Settle(caller, entries, target), NEW asset, TradesOn(entries, asset),
           Trading(markets, asset) \/ \E i \in 1 .. Len(entries) : entries[i].asset = asset
    PROVE  Trading(markets', asset)
<1> DEFINE n == Len(entries)
           after == AfterEntries(entries, target)
           price(i) == PriceOracle!GetPrice(entries[i].asset, target)
           Due(i) == Trading(markets, asset) \/ \E j \in 1 .. i : entries[j].asset = asset
           S == {i \in Nat : i <= n /\ Due(i) => Trading(after[i], asset)}
<1>1. Settleable(entries, target) /\ IsMarkets(markets) /\ FinalTypeOK
  BY SettledEntries, TypesOfCalls
<1>2. after[0] = markets
  BY <1>1, AfterSteps
<1>3. ASSUME NEW i \in 1 .. n
      PROVE  /\ Trading(after[i], entries[i].asset)
             /\ Trading(after[i - 1], asset) /\ entries[i].key[1] # asset
                   => Trading(after[i], asset)
  <2>1. after[i] = AfterEntry(after[i - 1], entries[i], price(i), target)
    BY <1>1, AfterSteps
  <2>2. IsMarkets(after[i - 1])
    <3>1. i - 1 \in 0 .. n
      OBVIOUS
    <3> QED BY <1>1, <3>1, AfterSteps
  <2>3. PriceOracle!PriceFinalized(entries[i].asset, target)
    BY <1>1 DEF Settleable
  <2> DEFINE before == after[i - 1]
             entry == entries[i]
             p == price(i)
  <2>4. /\ IsMarkets(before) /\ after[i] = AfterEntry(before, entry, p, target)
        /\ PriceOracle!PriceFinalized(entry.asset, target)
        /\ p = PriceOracle!GetPrice(entry.asset, target)
    BY <2>1, <2>2, <2>3
  <2> HIDE DEF before, entry, p
  <2>5. /\ Trading(AfterEntry(before, entry, p, target), entry.asset)
        /\ \A a : Trading(before, a) /\ entry.key[1] # a
             => Trading(AfterEntry(before, entry, p, target), a)
    BY <1>1, <2>4, EntryMarkets
  <2> QED BY <2>4, <2>5 DEF before, entry
<1>4. markets' = after[n]
  BY DEF Settle
<1> HIDE DEF after, n
<1>5. 0 \in S
  BY <1>2
<1>6. ASSUME NEW i \in Nat, i \in S PROVE i + 1 \in S
  <2> SUFFICES ASSUME i + 1 <= n, Due(i + 1) PROVE Trading(after[i + 1], asset)
    OBVIOUS
  <2>1. n \in Nat
    BY DEF n
  <2>2. i + 1 \in 1 .. n /\ (i + 1) - 1 = i /\ i <= n
    BY <2>1
  <2>3. CASE entries[i + 1].asset = asset
    BY <1>3, <2>2, <2>3
  <2>4. CASE entries[i + 1].asset # asset
    <3>1. Due(i)
      <4>1. \A j \in 1 .. i + 1 : j = i + 1 \/ j \in 1 .. i
        OBVIOUS
      <4> QED BY <2>4, <4>1
    <3>2. Trading(after[i], asset)
      BY <1>6, <2>2, <3>1
    <3>3. entries[i + 1].key[1] # asset
      BY <2>2, <2>4 DEF TradesOn, n
    <3> QED BY <1>3, <2>2, <3>2, <3>3
  <2> QED BY <2>3, <2>4
<1>7. n \in S
  <2>1. n \in Nat
    BY DEF n
  <2> HIDE DEF S
  <2> QED BY <1>5, <1>6, <2>1, SetInduction
<1> QED
  BY <1>4, <1>7 DEF n

\* A settlement leaves every asset trading that had a market and was not
\* settled under the name of another.
LEMMA SettleKeepsTrading ==
    ASSUME TypeOK, AssetKeepsTrading, NEW caller, NEW entries, NEW target,
           Len(entries) \in Nat \ {0}, Settle(caller, entries, target)
    PROVE  AssetKeepsTrading'
<1> DEFINE n == Len(entries)
<1> SUFFICES ASSUME NEW asset \in opened' \ orphaned' PROVE Trading(markets', asset)
  BY DEF AssetKeepsTrading, Trading
<1>1. opened' = opened \cup {entries[i].asset : i \in 1 .. n}
  BY DEF Settle
<1>2. orphaned' = orphaned \cup {entries[i].key[1] : i \in {j \in 1 .. n :
                                           entries[j].key[1] # entries[j].asset}}
  BY DEF Settle
<1>3. TradesOn(entries, asset)
  <2> SUFFICES ASSUME NEW i \in 1 .. n, entries[i].key[1] = asset,
                      entries[i].asset # asset
               PROVE  FALSE
    BY DEF TradesOn
  <2>1. i \in {j \in 1 .. n : entries[j].key[1] # entries[j].asset}
    OBVIOUS
  <2> QED BY <1>2, <2>1
<1>4. Trading(markets, asset) \/ \E i \in 1 .. n : entries[i].asset = asset
  <2>1. CASE asset \in opened
    BY <1>2, <2>1 DEF AssetKeepsTrading, Trading
  <2>2. CASE asset \notin opened
    BY <1>1, <2>2
  <2> QED BY <2>1, <2>2
<1> QED
  BY <1>3, <1>4, EntriesKeepTrading

TradingInv == TypeOK /\ AssetKeepsTrading

LEMMA InitTrading == Init => TradingInv
<1>1. Init => AssetKeepsTrading
  BY DEF Init, AssetKeepsTrading
<1> QED
  BY <1>1, InitTypes DEF TradingInv

\* Every step keeps the assets trading.
LEMMA StepTrading == TradingInv /\ [Next]_vars => TradingInv'
<1> SUFFICES ASSUME TypeOK, AssetKeepsTrading, [Next]_vars PROVE AssetKeepsTrading'
  BY StepTypes DEF TradingInv
<1>t. IsMarkets(markets) /\ \A asset \in opened \ orphaned : Trading(markets, asset)
  BY TypesOfCalls DEF AssetKeepsTrading, Trading
<1>1. ASSUME NEW caller, NEW entry, NEW target, SettleMarket(caller, entry, target)
      PROVE  AssetKeepsTrading'
  <2> DEFINE entries == <<entry>>
  <2>1. Len(entries) \in Nat \ {0} /\ Settle(caller, entries, target)
    BY <1>1 DEF SettleMarket
  <2> HIDE DEF entries
  <2> QED BY <2>1, SettleKeepsTrading
<1>2. ASSUME NEW caller, NEW list \in Lists, NEW target, SettleAllMarkets(caller, list, target)
      PROVE  AssetKeepsTrading'
  <2> DEFINE entries == DailyEntries(list)
  <2>1. entries # <<>> /\ Settle(caller, entries, target)
    BY <1>2 DEF SettleAllMarkets
  <2>2. Len(entries) \in Nat \ {0}
    BY <2>1, BatchEntries
  <2> HIDE DEF entries
  <2> QED BY <2>1, <2>2, SettleKeepsTrading
<1>3. ASSUME NEW caller, NEW key, NEW price \in Prices, EmergencySettle(caller, key, price)
      PROVE  AssetKeepsTrading'
  <2>1. markets' = Factory!Closed(markets, key, price)
    BY <1>3 DEF EmergencySettle, Factory!SettleDaily
  <2>2. /\ DOMAIN markets' = DOMAIN markets
        /\ \A k \in DOMAIN markets : k # key => markets'[k] = markets[k]
    BY <1>t, <2>1, ClosedMarkets, Numbers
  <2>3. opened' = opened /\ orphaned' = orphaned \cup {key[1]}
    BY <1>3 DEF EmergencySettle
  <2> SUFFICES ASSUME NEW asset \in opened \ orphaned, asset # key[1]
               PROVE  Trading(markets', asset)
    BY <2>3 DEF AssetKeepsTrading, Trading
  <2>4. PICK k \in DOMAIN markets : k[1] = asset /\ markets[k].is_active
    BY <1>t DEF Trading
  <2>5. k # key
    BY <2>4
  <2> QED BY <2>2, <2>4, <2>5 DEF Trading
<1>4. ASSUME NEW caller, NEW asset \in Assets, NEW price \in Prices, NEW date \in Dates,
             CreateDailyMarket(caller, asset, price, date)
      PROVE  AssetKeepsTrading'
  <2> DEFINE key == Factory!MarketKey(asset, date)
  <2>1. markets' = Factory!Opened(markets, key, price)
    BY <1>4 DEF CreateDailyMarket, Factory!CreateDaily
  <2>2. OpensOne(markets, asset, key, markets')
    BY <1>t, <2>1, OpenedMarkets, Numbers
  <2>3. opened' = opened \cup {asset} /\ orphaned' = orphaned
    BY <1>4 DEF CreateDailyMarket
  <2> HIDE DEF key
  <2>4. Trading(markets', asset)
    BY <2>2 DEF Trading, OpensOne
  <2>5. ASSUME NEW a, Trading(markets, a) PROVE Trading(markets', a)
    BY <2>2, <2>4, <2>5 DEF Trading, OpensOne
  <2> SUFFICES ASSUME NEW a \in opened' \ orphaned' PROVE Trading(markets', a)
    BY DEF AssetKeepsTrading, Trading
  <2> QED BY <1>t, <2>3, <2>4, <2>5
<1>5. ASSUME NEW caller, NEW asset, NEW target, NEW prices,
             AggregatePrices(caller, asset, target, prices)
      PROVE  AssetKeepsTrading'
  BY <1>5 DEF AggregatePrices, factoryVars, ghosts, AssetKeepsTrading
<1>6. ASSUME NextBlock PROVE AssetKeepsTrading'
  BY <1>6 DEF NextBlock, Tick, factoryVars, ghosts, AssetKeepsTrading
<1>7. CASE UNCHANGED vars
  BY <1>7 DEF vars, factoryVars, ghosts, AssetKeepsTrading
<1>8. QED
  BY <1>1, <1>2, <1>3, <1>4, <1>5, <1>6, <1>7, Zenon DEF Next

\* Once an asset has had a daily market it always has an open one, whatever
\* batches settle in whatever order and under whatever keys, but for emergencies
\* and for markets settled under the name of another asset.
THEOREM AssetsKeepTrading == Spec => []AssetKeepsTrading
<1>1. TradingInv => AssetKeepsTrading
  BY DEF TradingInv
<1>2. QED
  BY <1>1, InitTrading, StepTrading, PTL DEF Spec
=============================================================================
