----------------------------- MODULE OracleProofs -----------------------------
(***************************************************************************)
(* Types of the oracle, the standing of its validators and of what they    *)
(* submitted, the pace of the feed, and what outliers can do to a median.  *)
(***************************************************************************)
EXTENDS Oracle, CommonProofs

\* The constants, as single facts.
LEMMA Numbers ==
    /\ ClosingPrices \subseteq Nat /\ FeedPrices \subseteq Nat /\ Stakes \subseteq Nat
    /\ MinStake \in Nat \ {0} /\ SlashAmount \in Nat /\ MaxPrices \in Nat
    /\ MaxBlockTime \in Nat
    /\ MinValidatorsOptions \subseteq Nat /\ MaxDeviationOptions \subseteq Nat
BY OracleNumbers, BlockTimesAreNaturals DEF OracleNumbers

-----------------------------------------------------------------------------
\* The lists a deploy can carry are sorted already, so there is a sorted list of
\* the same prices, and the median is a natural number.
LEMMA MedianType ==
    ASSUME NEW prices \in PriceLists(ClosingPrices), Len(prices) > 0
    PROVE  Median(prices) \in Nat /\ Len(prices) \in Nat
<1> DEFINE n == Len(prices)
           R == {prices[i] : i \in 1 .. n}
           Good(s) ==
              /\ \A i, j \in 1 .. n : i < j => s[i] <= s[j]
              /\ \A p \in R : Cardinality({i \in 1 .. n : s[i] = p})
                                 = Cardinality({i \in 1 .. n : prices[i] = p})
<1>1. PICK m \in 0 .. MaxPrices :
         /\ prices \in [1 .. m -> ClosingPrices]
         /\ \A i, j \in 1 .. m : i < j => prices[i] <= prices[j]
  BY DEF PriceLists
<1>2. n = m /\ n \in Nat
  BY <1>1, Numbers
<1>3. R \subseteq Nat
  BY <1>1, <1>2, Numbers
<1>4. prices \in [1 .. n -> R] /\ Good(prices)
  BY <1>1, <1>2
<1>5. Sorted(prices) = CHOOSE s \in [1 .. n -> R] : Good(s)
  BY DEF Sorted
<1> HIDE DEF R, Good
<1>6. Sorted(prices) \in [1 .. n -> R]
  BY <1>4, <1>5
<1>7. \A i \in 1 .. n : Sorted(prices)[i] \in Nat
  BY <1>3, <1>6
<1>8. CASE n % 2 = 0
  <2>1. n \div 2 \in 1 .. n /\ n \div 2 + 1 \in 1 .. n
    BY <1>2, <1>8
  <2>2. (Sorted(prices)[n \div 2] + Sorted(prices)[n \div 2 + 1]) \div 2 \in Nat
    BY <1>7, <2>1
  <2>3. QED
    BY <1>2, <1>8, <2>2 DEF Median
<1>9. CASE n % 2 # 0
  <2>1. n \div 2 + 1 \in 1 .. n
    BY <1>2, <1>9
  <2>2. QED
    BY <1>2, <1>7, <1>9, <2>1 DEF Median
<1>10. QED
  BY <1>8, <1>9

-----------------------------------------------------------------------------
\* A validator acts only with a stake: registering needs one, and the slash that
\* takes the last of it ends the validator.
ValidatorInv == IsMap(validators, OracleAccounts, Validator) /\ ActiveHaveStake

\* Nobody is registered with an oracle just installed.
LEMMA InitValidators == OracleInit => ValidatorInv
BY NoKeysEmpty DEF OracleInit, ValidatorInv, ActiveHaveStake

\* Registrations, submissions and slashes keep the validators in order.
LEMMA StepValidators == ValidatorInv /\ [OracleNext]_oracleVars => ValidatorInv'
<1> SUFFICES ASSUME ValidatorInv, [OracleNext]_oracleVars PROVE ValidatorInv'
  OBVIOUS
<1>i. /\ IsMap(validators, OracleAccounts, Validator)
      /\ \A v \in DOMAIN validators :
            /\ validators[v] \in Validator
            /\ validators[v].is_active <=> validators[v].stake > 0
  BY DEF ValidatorInv, ActiveHaveStake, IsMap
<1>1. ASSUME NEW caller \in OracleAccounts, NEW stake \in Stakes, RegisterValidator(caller, stake)
      PROVE  ValidatorInv'
  <2> DEFINE new == [stake |-> stake, is_active |-> TRUE, submissions_count |-> 0]
  <2>1. stake \in Nat \ {0}
    BY <1>1, Numbers DEF RegisterValidator
  <2>2. new \in Validator /\ (new.is_active <=> new.stake > 0)
    BY <2>1 DEF Validator
  <2>3. validators' = PutKey(validators, caller, new)
    BY <1>1 DEF RegisterValidator
  <2> HIDE DEF new
  <2>4. IsMap(validators', OracleAccounts, Validator)
    BY <1>i, <2>2, <2>3, PutKeyIsMap
  <2>5. ActiveHaveStake'
    BY <1>i, <2>2, <2>3 DEF ActiveHaveStake, PutKey
  <2>6. QED
    BY <2>4, <2>5 DEF ValidatorInv
<1>2. ASSUME NEW caller \in OracleAccounts, NEW asset \in OracleAssets, NEW price \in ClosingPrices,
             NEW target \in Targets, SubmitPrice(caller, asset, price, target)
      PROVE  ValidatorInv'
  <2>1. caller \in DOMAIN validators
    BY <1>2 DEF SubmitPrice, IsActive, HasKey
  <2>2. /\ Submitted(validators[caller]) \in Validator
        /\ Submitted(validators[caller]).stake = validators[caller].stake
        /\ Submitted(validators[caller]).is_active = validators[caller].is_active
    BY <1>i, <2>1 DEF Submitted, Validator
  <2>3. validators' = [validators EXCEPT ![caller] = Submitted(validators[caller])]
    BY <1>2 DEF SubmitPrice
  <2>4. IsMap(validators', OracleAccounts, Validator)
    BY <1>i, <2>1, <2>2, <2>3, UpdateIsMap
  <2>5. ActiveHaveStake'
    BY <1>i, <2>1, <2>2, <2>3 DEF ActiveHaveStake
  <2>6. QED
    BY <2>4, <2>5 DEF ValidatorInv
<1>3. ASSUME NEW caller \in OracleAccounts, NEW account \in OracleAccounts, SlashValidator(caller, account)
      PROVE  ValidatorInv'
  <2>1. account \in DOMAIN validators
    BY <1>3 DEF SlashValidator, HasKey
  <2> DEFINE v == validators[account]
  <2>2. v \in Validator /\ (v.is_active <=> v.stake > 0)
    BY <1>i, <2>1
  <2> HIDE DEF v
  <2>3. Slashed(v) \in Validator /\ (Slashed(v).is_active <=> Slashed(v).stake > 0)
    <3>1. CASE v.stake > SlashAmount
      <4>1. Slashed(v) = [v EXCEPT !.stake = v.stake - SlashAmount]
        BY <3>1 DEF Slashed
      <4>2. v.stake - SlashAmount \in Nat \ {0}
        BY <2>2, <3>1, Numbers DEF Validator
      <4>3. QED
        BY <2>2, <3>1, <4>1, <4>2, Numbers DEF Validator
    <3>2. CASE ~ (v.stake > SlashAmount)
      <4> DEFINE emptied == [v EXCEPT !.stake = 0]
      <4>1. emptied \in Validator /\ emptied.stake = 0
        BY <2>2 DEF Validator
      <4>2. Slashed(v) = [emptied EXCEPT !.is_active = FALSE]
        BY <3>2 DEF Slashed
      <4> HIDE DEF emptied
      <4>3. Slashed(v) \in Validator /\ Slashed(v).stake = 0 /\ Slashed(v).is_active = FALSE
        BY <4>1, <4>2 DEF Validator
      <4>4. QED
        BY <4>3
    <3>3. QED
      BY <3>1, <3>2
  <2>4. validators' = [validators EXCEPT ![account] = Slashed(v)]
    BY <1>3 DEF SlashValidator, v
  <2>5. IsMap(validators', OracleAccounts, Validator)
    BY <1>i, <2>1, <2>3, <2>4, UpdateIsMap
  <2>6. ActiveHaveStake'
    BY <1>i, <2>1, <2>3, <2>4 DEF ActiveHaveStake
  <2>7. QED
    BY <2>5, <2>6 DEF ValidatorInv
<1>4. ASSUME UNCHANGED validators PROVE ValidatorInv'
  BY <1>4 DEF ValidatorInv, ActiveHaveStake
<1>5. ASSUME NEW caller \in OracleAccounts, NEW asset \in OracleAssets, NEW target \in Targets,
             NEW prices \in PriceLists(ClosingPrices), AggregatePrices(caller, asset, target, prices)
      PROVE  UNCHANGED validators
  BY <1>5 DEF AggregatePrices
<1>6. ASSUME NEW caller \in OracleAccounts, NEW min, NEW max, UpdateOracleConfig(caller, min, max)
      PROVE  UNCHANGED validators
  BY <1>6 DEF UpdateOracleConfig
<1>7. ASSUME NEW caller \in OracleAccounts, NEW asset \in OracleAssets, NEW price \in FeedPrices,
             InitRealtimePrice(caller, asset, price)
      PROVE  UNCHANGED validators
  BY <1>7 DEF InitRealtimePrice
<1>8. ASSUME NEW caller \in OracleAccounts, NEW asset \in OracleAssets, NEW price \in FeedPrices,
             UpdateRealtimePrice(caller, asset, price)
      PROVE  UNCHANGED validators
  BY <1>8 DEF UpdateRealtimePrice
<1>9. OracleTick => UNCHANGED validators
  BY DEF OracleTick, Tick, oracleState
<1>10. UNCHANGED oracleVars => UNCHANGED validators
  BY DEF oracleVars, oracleState
<1>11. QED
  BY <1>1, <1>2, <1>3, <1>4, <1>5, <1>6, <1>7, <1>8, <1>9, <1>10 DEF OracleNext

\* However registrations and slashes follow each other, a validator is active
\* exactly while he has something at stake.
THEOREM AlwaysActiveHaveStake == OracleSpec => []ActiveHaveStake
<1>1. ValidatorInv => ActiveHaveStake
  BY DEF ValidatorInv
<1>2. QED
  BY <1>1, InitValidators, StepValidators, PTL DEF OracleSpec

-----------------------------------------------------------------------------
\* The types, but for the validators, who have an invariant of their own.  Every
\* stream has its counter.
RestTypeOK ==
    /\ blocktime \in 0 .. MaxBlockTime
    /\ config \in [min_validators : Nat, max_price_deviation_bps : Nat]
    /\ validators_count \in Nat
    /\ IsMap(submissions, OracleAssets \X OracleAccounts \X Targets, ClosingPrices)
    /\ IsMap(aggregated, OracleAssets \X Targets, AggregatedPrice)
    /\ DOMAIN sources = DOMAIN aggregated
    /\ IsMap(realtime, OracleAssets, RealtimePrice)
    /\ IsMap(price_sequence, OracleAssets, Nat)
    /\ DOMAIN price_sequence = DOMAIN realtime
    /\ IsMap(anchor, OracleAssets, [price : Nat, timestamp : Nat])

\* An oracle just installed has the types of its structs.
LEMMA InitRest == OracleInit => RestTypeOK
BY NoKeysEmpty, Numbers DEF OracleInit, RestTypeOK

\* Every entry point keeps them.
LEMMA StepRest == RestTypeOK /\ [OracleNext]_oracleVars => RestTypeOK'
<1> SUFFICES ASSUME RestTypeOK, [OracleNext]_oracleVars PROVE RestTypeOK'
  OBVIOUS
<1>n. blocktime \in Nat /\ MaxBlockTime \in Nat /\ validators_count \in Nat
  BY Numbers DEF RestTypeOK
<1>1. ASSUME NEW caller \in OracleAccounts, NEW stake \in Stakes, RegisterValidator(caller, stake)
      PROVE  RestTypeOK'
  BY <1>n, <1>1 DEF RegisterValidator, dailyVars, streamVars, RestTypeOK
<1>2. ASSUME NEW caller \in OracleAccounts, NEW asset \in OracleAssets, NEW price \in ClosingPrices,
             NEW target \in Targets, SubmitPrice(caller, asset, price, target)
      PROVE  RestTypeOK'
  <2>1. <<asset, caller, target>> \in OracleAssets \X OracleAccounts \X Targets
    OBVIOUS
  <2>2. submissions' = PutKey(submissions, <<asset, caller, target>>, price)
    BY <1>2 DEF SubmitPrice
  <2>3. IsMap(submissions, OracleAssets \X OracleAccounts \X Targets, ClosingPrices)
    BY DEF RestTypeOK
  <2>4. IsMap(submissions', OracleAssets \X OracleAccounts \X Targets, ClosingPrices)
    BY <2>1, <2>2, <2>3, PutKeyIsMap
  <2>5. QED
    BY <1>2, <2>4 DEF SubmitPrice, streamVars, RestTypeOK
<1>3. ASSUME NEW caller \in OracleAccounts, NEW asset \in OracleAssets, NEW target \in Targets,
             NEW prices \in PriceLists(ClosingPrices), AggregatePrices(caller, asset, target, prices)
      PROVE  RestTypeOK'
  <2> DEFINE price == [price |-> Median(prices), submissions_count |-> Len(prices) % 256]
             key == <<asset, target>>
  <2>1. Median(prices) \in Nat /\ Len(prices) \in Nat
    BY <1>3, MedianType DEF AggregatePrices, Finalize
  <2>2. price \in AggregatedPrice /\ key \in OracleAssets \X Targets
    BY <2>1 DEF AggregatedPrice
  <2>3. aggregated' = PutKey(aggregated, key, price) /\ sources' = PutKey(sources, key, prices)
    BY <1>3 DEF AggregatePrices, Finalize
  <2>4. IsMap(aggregated, OracleAssets \X Targets, AggregatedPrice)
        /\ DOMAIN sources = DOMAIN aggregated
    BY DEF RestTypeOK
  <2> HIDE DEF price, key
  <2>5. IsMap(aggregated', OracleAssets \X Targets, AggregatedPrice)
    BY <2>2, <2>3, <2>4, PutKeyIsMap
  <2>6. DOMAIN sources' = DOMAIN aggregated'
    BY <2>3, <2>4 DEF PutKey
  <2>7. QED
    BY <1>3, <2>5, <2>6 DEF AggregatePrices, streamVars, RestTypeOK
<1>4. ASSUME NEW caller \in OracleAccounts, NEW account \in OracleAccounts, SlashValidator(caller, account)
      PROVE  RestTypeOK'
  BY <1>4 DEF SlashValidator, dailyVars, streamVars, RestTypeOK
<1>5. ASSUME NEW caller \in OracleAccounts,
             NEW min \in MinValidatorsOptions \cup {config.min_validators},
             NEW max \in MaxDeviationOptions \cup {config.max_price_deviation_bps},
             UpdateOracleConfig(caller, min, max)
      PROVE  RestTypeOK'
  <2>1. config \in [min_validators : Nat, max_price_deviation_bps : Nat]
    BY DEF RestTypeOK
  <2>2. min \in Nat /\ max \in Nat
    BY <2>1, Numbers
  <2>3. config' \in [min_validators : Nat, max_price_deviation_bps : Nat]
    BY <1>5, <2>2 DEF UpdateOracleConfig
  <2>4. QED
    BY <1>5, <2>3 DEF UpdateOracleConfig, dailyVars, streamVars, RestTypeOK
<1>6. ASSUME NEW caller \in OracleAccounts, NEW asset \in OracleAssets, NEW price \in FeedPrices,
             InitRealtimePrice(caller, asset, price)
      PROVE  RestTypeOK'
  <2> DEFINE first == [price |-> price, timestamp |-> blocktime, validator |-> caller,
                       sequence_number |-> 0]
             start == [price |-> price, timestamp |-> blocktime]
  <2>1. first \in RealtimePrice /\ start \in [price : Nat, timestamp : Nat]
    BY <1>n, Numbers DEF RealtimePrice
  <2>2. /\ realtime' = PutKey(realtime, asset, first)
        /\ price_sequence' = PutKey(price_sequence, asset, 0)
        /\ anchor' = PutKey(anchor, asset, start)
    BY <1>6 DEF InitRealtimePrice
  <2> HIDE DEF first, start
  <2>3. /\ IsMap(realtime, OracleAssets, RealtimePrice)
        /\ IsMap(price_sequence, OracleAssets, Nat)
        /\ DOMAIN price_sequence = DOMAIN realtime
        /\ IsMap(anchor, OracleAssets, [price : Nat, timestamp : Nat])
    BY DEF RestTypeOK
  <2>4. IsMap(realtime', OracleAssets, RealtimePrice)
    BY <2>1, <2>2, <2>3, PutKeyIsMap
  <2>5. IsMap(price_sequence', OracleAssets, Nat)
    BY <2>2, <2>3, PutKeyIsMap
  <2>6. IsMap(anchor', OracleAssets, [price : Nat, timestamp : Nat])
    BY <2>1, <2>2, <2>3, PutKeyIsMap
  <2>7. DOMAIN price_sequence' = DOMAIN realtime'
    BY <2>2, <2>3 DEF PutKey
  <2>8. QED
    BY <1>6, <2>4, <2>5, <2>6, <2>7 DEF InitRealtimePrice, dailyVars, RestTypeOK
<1>7. ASSUME NEW caller \in OracleAccounts, NEW asset \in OracleAssets, NEW price \in FeedPrices,
             UpdateRealtimePrice(caller, asset, price)
      PROVE  RestTypeOK'
  <2> DEFINE sequence == NextSequence(asset)
             next == [price |-> price, timestamp |-> blocktime, validator |-> caller,
                      sequence_number |-> sequence]
  <2>1. /\ realtime' = [realtime EXCEPT ![asset] = next]
        /\ price_sequence' = [price_sequence EXCEPT ![asset] = sequence]
    BY <1>7 DEF UpdateRealtimePrice
  <2>2. /\ IsMap(realtime, OracleAssets, RealtimePrice) /\ IsMap(price_sequence, OracleAssets, Nat)
        /\ DOMAIN price_sequence = DOMAIN realtime
    BY DEF RestTypeOK
  <2>3. asset \in DOMAIN realtime /\ asset \in DOMAIN price_sequence
    BY <1>7, <2>2 DEF UpdateRealtimePrice, HasKey
  <2>4. sequence \in Nat
    BY <2>2, <2>3 DEF NextSequence, IsMap
  <2>5. next \in RealtimePrice
    BY <1>n, <2>4, Numbers DEF RealtimePrice
  <2> HIDE DEF next, sequence
  <2>6. IsMap(realtime', OracleAssets, RealtimePrice)
    BY <2>1, <2>2, <2>3, <2>5, UpdateIsMap
  <2>7. IsMap(price_sequence', OracleAssets, Nat)
    BY <2>1, <2>2, <2>3, <2>4, UpdateIsMap
  <2>8. DOMAIN price_sequence' = DOMAIN realtime'
    BY <2>1, <2>2
  <2>9. QED
    BY <1>7, <2>6, <2>7, <2>8 DEF UpdateRealtimePrice, dailyVars, RestTypeOK
<1>8. ASSUME OracleTick PROVE RestTypeOK'
  BY <1>n, <1>8 DEF OracleTick, Tick, oracleState, dailyVars, streamVars, RestTypeOK
<1>9. CASE UNCHANGED oracleVars
  BY <1>9 DEF oracleVars, oracleState, dailyVars, streamVars, RestTypeOK
<1>10. QED
  BY <1>1, <1>2, <1>3, <1>4, <1>5, <1>6, <1>7, <1>8, <1>9 DEF OracleNext

\* Everything the oracle stores has the type of its struct.
THEOREM TypeCorrect == OracleSpec => []OracleTypeOK
<1>1. ValidatorInv /\ RestTypeOK => OracleTypeOK
  BY DEF ValidatorInv, RestTypeOK, OracleTypeOK
<1>2. QED
  BY <1>1, InitValidators, StepValidators, InitRest, StepRest, PTL DEF OracleSpec

-----------------------------------------------------------------------------
\* The counters stay below what is stored; both are finite, so that they can be
\* counted.
CounterInv ==
    /\ IsFiniteSet(DOMAIN validators) /\ IsFiniteSet(DOMAIN submissions)
    /\ CountersBacked

\* Nothing is counted and nothing stored in an oracle just installed.
LEMMA InitCounters == OracleInit => CounterInv
BY NoKeysEmpty, FS_EmptySet DEF OracleInit, CounterInv, CountersBacked

\* What is stored of a validator can be counted, and never gets less when the
\* submissions grow.
LEMMA Stored ==
    ASSUME IsFiniteSet(DOMAIN submissions), IsFiniteSet(DOMAIN submissions'),
           DOMAIN submissions \subseteq DOMAIN submissions', NEW v
    PROVE  /\ IsFiniteSet(SubmissionsOf(v)) /\ IsFiniteSet(SubmissionsOf(v)')
           /\ Cardinality(SubmissionsOf(v)) \in Nat
           /\ Cardinality(SubmissionsOf(v)') \in Nat
           /\ Cardinality(SubmissionsOf(v)) <= Cardinality(SubmissionsOf(v)')
<1>1. IsFiniteSet(SubmissionsOf(v)) /\ IsFiniteSet(SubmissionsOf(v)')
  BY FS_Subset DEF SubmissionsOf
<1>2. SubmissionsOf(v) \subseteq SubmissionsOf(v)'
  BY DEF SubmissionsOf
<1>3. QED
  BY <1>1, <1>2, FS_Subset, FS_CardinalityType

\* A registration counts one validator and starts his counter at zero, a
\* submission counts one and stores one, a slash leaves the counter alone.
LEMMA StepCounters ==
    ASSUME ValidatorInv, RestTypeOK, CounterInv, [OracleNext]_oracleVars
    PROVE  CounterInv'
<1>i. /\ IsFiniteSet(DOMAIN validators) /\ IsFiniteSet(DOMAIN submissions)
      /\ Cardinality(DOMAIN validators) \in Nat /\ validators_count \in Nat
      /\ Cardinality(DOMAIN validators) <= validators_count
      /\ \A v \in DOMAIN validators :
            /\ validators[v] \in Validator
            /\ validators[v].submissions_count \in Nat
            /\ validators[v].submissions_count <= Cardinality(SubmissionsOf(v))
  BY FS_CardinalityType
     DEF CounterInv, CountersBacked, ValidatorInv, RestTypeOK, IsMap, Validator
<1>1. ASSUME NEW caller \in OracleAccounts, NEW stake \in Stakes, RegisterValidator(caller, stake)
      PROVE  CounterInv'
  <2> DEFINE new == [stake |-> stake, is_active |-> TRUE, submissions_count |-> 0]
  <2>1. /\ validators' = PutKey(validators, caller, new)
        /\ validators_count' = validators_count + 1 /\ submissions' = submissions
    BY <1>1 DEF RegisterValidator, dailyVars
  <2>2. new.submissions_count = 0
    OBVIOUS
  <2> HIDE DEF new
  <2>3. DOMAIN validators' = DOMAIN validators \cup {caller}
    BY <2>1, PutKeyBinds
  <2>4. /\ IsFiniteSet(DOMAIN validators')
        /\ Cardinality(DOMAIN validators') <= validators_count'
    <3> DEFINE D == DOMAIN validators
    <3>1. /\ IsFiniteSet(D \cup {caller})
          /\ Cardinality(D \cup {caller})
                = IF caller \in D THEN Cardinality(D) ELSE Cardinality(D) + 1
      BY <1>i, FS_AddElement
    <3>2. Cardinality(D) \in Nat /\ Cardinality(D) <= validators_count
      BY <1>i
    <3>3. DOMAIN validators' = D \cup {caller}
      BY <2>3
    <3> HIDE DEF D
    <3>4. QED
      BY <1>i, <2>1, <3>1, <3>2, <3>3
  <2>5. ASSUME NEW v \in DOMAIN validators'
        PROVE  (validators[v].submissions_count <= Cardinality(SubmissionsOf(v)))'
    <3>1. Cardinality(SubmissionsOf(v)') \in Nat /\ SubmissionsOf(v)' = SubmissionsOf(v)
      BY <1>i, <2>1, Stored DEF SubmissionsOf
    <3>2. CASE v = caller
      <4>1. validators'[v] = new
        BY <2>1, <2>3, <3>2 DEF PutKey
      <4>2. QED
        BY <2>2, <3>1, <4>1
    <3>3. CASE v # caller
      <4>1. v \in DOMAIN validators
        BY <2>3, <3>3
      <4>2. validators'[v] = validators[v]
        BY <2>1, <3>3, <4>1 DEF PutKey
      <4>3. QED
        BY <1>i, <3>1, <4>1, <4>2
    <3>4. QED
      BY <3>2, <3>3
  <2>6. QED
    BY <1>i, <2>1, <2>4, <2>5 DEF CounterInv, CountersBacked
<1>2. ASSUME NEW caller \in OracleAccounts, NEW asset \in OracleAssets, NEW price \in ClosingPrices,
             NEW target \in Targets, SubmitPrice(caller, asset, price, target)
      PROVE  CounterInv'
  <2> DEFINE k == <<asset, caller, target>>
  <2>1. /\ caller \in DOMAIN validators /\ k \notin DOMAIN submissions
        /\ submissions' = PutKey(submissions, k, price)
        /\ validators' = [validators EXCEPT ![caller] = Submitted(validators[caller])]
        /\ validators_count' = validators_count
    BY <1>2 DEF SubmitPrice, IsActive, HasKey, NotYetSubmitted
  <2>2. k[2] = caller
    OBVIOUS
  <2> HIDE DEF k
  <2>3. DOMAIN submissions' = DOMAIN submissions \cup {k}
    BY <2>1, PutKeyBinds
  <2>4. IsFiniteSet(DOMAIN submissions')
    BY <1>i, <2>3, FS_AddElement
  <2>5. DOMAIN validators' = DOMAIN validators
    BY <2>1
  <2>6. ASSUME NEW v \in DOMAIN validators'
        PROVE  (validators[v].submissions_count <= Cardinality(SubmissionsOf(v)))'
    <3>1. /\ Cardinality(SubmissionsOf(v)) \in Nat /\ Cardinality(SubmissionsOf(v)') \in Nat
          /\ Cardinality(SubmissionsOf(v)) <= Cardinality(SubmissionsOf(v)')
          /\ IsFiniteSet(SubmissionsOf(v))
      BY <1>i, <2>3, <2>4, Stored
    <3>2. CASE v = caller
      <4>1. validators'[v].submissions_count = validators[v].submissions_count + 1
        BY <1>i, <2>1, <3>2 DEF Submitted, Validator
      <4>2. SubmissionsOf(v)' = SubmissionsOf(v) \cup {k} /\ k \notin SubmissionsOf(v)
        BY <2>1, <2>2, <2>3, <3>2 DEF SubmissionsOf
      <4>3. Cardinality(SubmissionsOf(v)') = Cardinality(SubmissionsOf(v)) + 1
        BY <3>1, <4>2, FS_AddElement
      <4>4. QED
        BY <1>i, <2>5, <3>1, <4>1, <4>3
    <3>3. CASE v # caller
      <4>1. validators'[v] = validators[v]
        BY <2>1, <2>5, <3>3
      <4>2. QED
        BY <1>i, <2>5, <3>1, <4>1
    <3>4. QED
      BY <3>2, <3>3
  <2>7. QED
    BY <1>i, <2>1, <2>4, <2>5, <2>6 DEF CounterInv, CountersBacked
<1>3. ASSUME NEW caller \in OracleAccounts, NEW account \in OracleAccounts, SlashValidator(caller, account)
      PROVE  CounterInv'
  <2>1. /\ account \in DOMAIN validators
        /\ validators' = [validators EXCEPT ![account] = Slashed(validators[account])]
        /\ validators_count' = validators_count /\ submissions' = submissions
    BY <1>3 DEF SlashValidator, HasKey, dailyVars
  <2>2. DOMAIN validators' = DOMAIN validators
    BY <2>1
  <2>3. Slashed(validators[account]).submissions_count = validators[account].submissions_count
    BY <1>i, <2>1 DEF Slashed, Validator
  <2>4. \A v \in DOMAIN validators :
           validators'[v].submissions_count = validators[v].submissions_count
    BY <2>1, <2>3
  <2>5. \A v : SubmissionsOf(v)' = SubmissionsOf(v)
    BY <2>1 DEF SubmissionsOf
  <2>6. QED
    BY <1>i, <2>1, <2>2, <2>4, <2>5 DEF CounterInv, CountersBacked
<1>4. ASSUME UNCHANGED <<validators, validators_count, submissions>>
      PROVE  CounterInv'
  <2>1. \A v : SubmissionsOf(v)' = SubmissionsOf(v)
    BY <1>4 DEF SubmissionsOf
  <2>2. QED
    BY <1>i, <1>4, <2>1 DEF CounterInv, CountersBacked
<1>5. ASSUME NEW caller \in OracleAccounts, NEW asset \in OracleAssets, NEW target \in Targets,
             NEW prices \in PriceLists(ClosingPrices), AggregatePrices(caller, asset, target, prices)
      PROVE  UNCHANGED <<validators, validators_count, submissions>>
  BY <1>5 DEF AggregatePrices
<1>6. ASSUME NEW caller \in OracleAccounts, NEW min, NEW max, UpdateOracleConfig(caller, min, max)
      PROVE  UNCHANGED <<validators, validators_count, submissions>>
  BY <1>6 DEF UpdateOracleConfig, dailyVars
<1>7. ASSUME NEW caller \in OracleAccounts, NEW asset \in OracleAssets, NEW price \in FeedPrices,
             InitRealtimePrice(caller, asset, price)
      PROVE  UNCHANGED <<validators, validators_count, submissions>>
  BY <1>7 DEF InitRealtimePrice, dailyVars
<1>8. ASSUME NEW caller \in OracleAccounts, NEW asset \in OracleAssets, NEW price \in FeedPrices,
             UpdateRealtimePrice(caller, asset, price)
      PROVE  UNCHANGED <<validators, validators_count, submissions>>
  BY <1>8 DEF UpdateRealtimePrice, dailyVars
<1>9. OracleTick => UNCHANGED <<validators, validators_count, submissions>>
  BY DEF OracleTick, Tick, oracleState, dailyVars
<1>10. UNCHANGED oracleVars => UNCHANGED <<validators, validators_count, submissions>>
  BY DEF oracleVars, oracleState, dailyVars
<1>11. QED
  BY <1>1, <1>2, <1>3, <1>4, <1>5, <1>6, <1>7, <1>8, <1>9, <1>10 DEF OracleNext

\* However a validator registers, submits and is slashed, he acts with a stake
\* behind him and counts no submission that is not stored.
THEOREM AlwaysBacked == OracleSpec => []ValidatorsBacked
<1>1. ValidatorInv /\ CounterInv => ValidatorsBacked
  BY DEF ValidatorInv, CounterInv, ValidatorsBacked
<1>2. ValidatorInv /\ RestTypeOK /\ CounterInv /\ [OracleNext]_oracleVars => CounterInv'
  BY StepCounters
<1>3. QED
  BY <1>1, <1>2, InitValidators, StepValidators, InitRest, StepRest, InitCounters, PTL
     DEF OracleSpec

-----------------------------------------------------------------------------
\* No entry point ever removes or changes a submission: a validator cannot
\* correct a price, slashed and registered again or not.
THEOREM SubmissionsAlwaysStand == OracleSpec => SubmissionsStand
<1>1. [OracleNext]_oracleVars =>
        [\A k \in DOMAIN submissions :
            HasKey(submissions', k) /\ submissions'[k] = submissions[k]]_oracleVars
  <2> SUFFICES ASSUME OracleNext, NEW k \in DOMAIN submissions
               PROVE  HasKey(submissions', k) /\ submissions'[k] = submissions[k]
    OBVIOUS
  <2>1. ASSUME NEW caller \in OracleAccounts, NEW asset \in OracleAssets, NEW price \in ClosingPrices,
               NEW target \in Targets, SubmitPrice(caller, asset, price, target)
        PROVE  HasKey(submissions', k) /\ submissions'[k] = submissions[k]
    <3> DEFINE key == <<asset, caller, target>>
    <3>1. key \notin DOMAIN submissions /\ submissions' = PutKey(submissions, key, price)
      BY <2>1 DEF SubmitPrice, NotYetSubmitted, HasKey
    <3> HIDE DEF key
    <3>2. QED
      BY <3>1 DEF PutKey, HasKey
  <2>2. (UNCHANGED submissions) => HasKey(submissions', k) /\ submissions'[k] = submissions[k]
    BY DEF HasKey
  <2>3. ASSUME NEW caller \in OracleAccounts, NEW stake \in Stakes, RegisterValidator(caller, stake)
        PROVE  UNCHANGED submissions
    BY <2>3 DEF RegisterValidator, dailyVars
  <2>4. ASSUME NEW caller \in OracleAccounts, NEW account \in OracleAccounts,
               SlashValidator(caller, account)
        PROVE  UNCHANGED submissions
    BY <2>4 DEF SlashValidator, dailyVars
  <2>5. ASSUME NEW caller \in OracleAccounts, NEW asset \in OracleAssets, NEW target \in Targets,
               NEW prices \in PriceLists(ClosingPrices),
               AggregatePrices(caller, asset, target, prices)
        PROVE  UNCHANGED submissions
    BY <2>5 DEF AggregatePrices
  <2>6. ASSUME NEW caller \in OracleAccounts, NEW min, NEW max, UpdateOracleConfig(caller, min, max)
        PROVE  UNCHANGED submissions
    BY <2>6 DEF UpdateOracleConfig, dailyVars
  <2>7. ASSUME NEW caller \in OracleAccounts, NEW asset \in OracleAssets, NEW price \in FeedPrices,
               InitRealtimePrice(caller, asset, price)
        PROVE  UNCHANGED submissions
    BY <2>7 DEF InitRealtimePrice, dailyVars
  <2>8. ASSUME NEW caller \in OracleAccounts, NEW asset \in OracleAssets, NEW price \in FeedPrices,
               UpdateRealtimePrice(caller, asset, price)
        PROVE  UNCHANGED submissions
    BY <2>8 DEF UpdateRealtimePrice, dailyVars
  <2>9. OracleTick => UNCHANGED submissions
    BY DEF OracleTick, Tick, oracleState, dailyVars
  <2>10. QED
    BY <2>1, <2>2, <2>3, <2>4, <2>5, <2>6, <2>7, <2>8, <2>9 DEF OracleNext
<1>2. QED
  BY <1>1, PTL DEF OracleSpec, SubmissionsStand

-----------------------------------------------------------------------------
\* One update as far as it may go.
Onward(price, way) == price + way * Share(price, RealtimeMaxDeviation)

\* The recursive function of Farthest exists for every number of steps, and
\* its values do not depend on how many follow.
LEMMA FarthestSteps ==
    ASSUME NEW price, NEW way
    PROVE  /\ Farthest(price, 0, way) = price
           /\ \A n \in Nat : Farthest(price, n + 1, way) = Onward(Farthest(price, n, way), way)
<1> DEFINE On(x) == Onward(x, way)
           Is(f, m) == f = [k \in 0 .. m |-> IF k = 0 THEN price ELSE On(f[k - 1])]
           S == {m \in Nat : \E f : Is(f, m)}
           Path(m) == CHOOSE f : Is(f, m)
<1> HIDE DEF On
<1>1. 0 \in S
  <2>1. Is([k \in 0 .. 0 |-> price], 0)
    OBVIOUS
  <2> QED BY <2>1
<1>2. ASSUME NEW m \in Nat, m \in S PROVE m + 1 \in S
  <2>1. PICK f : Is(f, m)
    BY <1>2
  <2> DEFINE g == [k \in 0 .. m + 1 |-> IF k <= m THEN f[k] ELSE On(f[m])]
             h == [k \in 0 .. m + 1 |-> IF k = 0 THEN price ELSE On(g[k - 1])]
  <2>2. \A k \in 0 .. m : f[k] = IF k = 0 THEN price ELSE On(f[k - 1])
    BY <2>1
  <2>3. \A k \in 0 .. m + 1 : g[k] = IF k = 0 THEN price ELSE On(g[k - 1])
    <3> SUFFICES ASSUME NEW k \in 0 .. m + 1
                 PROVE  g[k] = IF k = 0 THEN price ELSE On(g[k - 1])
      OBVIOUS
    <3>1. CASE k = 0
      BY <2>2, <3>1
    <3>2. CASE k \in 1 .. m
      <4>1. k - 1 \in 0 .. m /\ g[k - 1] = f[k - 1] /\ g[k] = f[k]
        BY <3>2
      <4> QED BY <2>2, <3>2, <4>1
    <3>3. CASE k = m + 1
      <4>1. g[k - 1] = f[m] /\ k - 1 = m /\ k # 0
        BY <3>3
      <4> QED BY <3>3, <4>1
    <3> QED BY <3>1, <3>2, <3>3
  <2>4. g = h
    <3>1. g = [k \in 0 .. m + 1 |-> g[k]] /\ h = [k \in 0 .. m + 1 |-> h[k]]
      OBVIOUS
    <3>2. \A k \in 0 .. m + 1 : g[k] = h[k]
      BY <2>3
    <3> HIDE DEF g, h
    <3> QED BY <3>1, <3>2
  <2>5. Is(g, m + 1)
    BY <2>4
  <2> HIDE DEF g, Is
  <2> QED BY <2>5
<1>3. \A m \in Nat : Is(Path(m), m)
  <2> HIDE DEF Is
  <2>1. Nat \subseteq S
    <3> HIDE DEF S
    <3> QED BY <1>1, <1>2, SetInduction
  <2> QED BY <2>1
<1>4. \A m \in Nat : \A k \in 0 .. m :
          Path(m)[k] = IF k = 0 THEN price ELSE On(Path(m)[k - 1])
  <2> SUFFICES ASSUME NEW m \in Nat, NEW k \in 0 .. m
               PROVE  Path(m)[k] = IF k = 0 THEN price ELSE On(Path(m)[k - 1])
    OBVIOUS
  <2> DEFINE f == Path(m)
  <2>1. f = [i \in 0 .. m |-> IF i = 0 THEN price ELSE On(f[i - 1])]
    BY <1>3
  <2> HIDE DEF f
  <2>2. f[k] = IF k = 0 THEN price ELSE On(f[k - 1])
    BY <2>1
  <2> QED BY <2>2 DEF f
<1>5. \A m \in Nat : Farthest(price, m, way) = Path(m)[m]
  BY DEF Farthest, On, Onward
<1> HIDE DEF Path
<1>6. ASSUME NEW n \in Nat PROVE Path(n + 1)[n] = Path(n)[n]
  <2> DEFINE A == {k \in Nat : k <= n => Path(n + 1)[k] = Path(n)[k]}
  <2>1. 0 \in A
    BY <1>4
  <2>2. ASSUME NEW k \in Nat, k \in A PROVE k + 1 \in A
    <3> SUFFICES ASSUME k + 1 <= n PROVE Path(n + 1)[k + 1] = Path(n)[k + 1]
      OBVIOUS
    <3>1. Path(n + 1)[k] = Path(n)[k]
      BY <2>2
    <3>2. /\ k + 1 \in 0 .. n /\ k + 1 \in 0 .. n + 1 /\ k + 1 # 0 /\ (k + 1) - 1 = k
          /\ n + 1 \in Nat
      OBVIOUS
    <3>3. Path(n + 1)[k + 1] = On(Path(n + 1)[k]) /\ Path(n)[k + 1] = On(Path(n)[k])
      BY <1>4, <3>2
    <3> QED BY <3>1, <3>3
  <2>3. n \in A
    <3> HIDE DEF A
    <3> QED BY <2>1, <2>2, SetInduction
  <2> QED BY <2>3
<1>7. ASSUME NEW n \in Nat PROVE Path(n + 1)[n + 1] = On(Path(n)[n])
  <2>1. n + 1 \in Nat /\ n + 1 \in 0 .. n + 1 /\ n + 1 # 0 /\ (n + 1) - 1 = n
    OBVIOUS
  <2>2. Path(n + 1)[n + 1] = On(Path(n + 1)[n])
    BY <1>4, <2>1
  <2> QED BY <1>6, <2>2
<1>8. \A n \in Nat : n + 1 \in Nat
  OBVIOUS
<1>9. Path(0)[0] = price
  BY <1>4
<1> QED
  BY <1>5, <1>7, <1>8, <1>9 DEF On

\* A higher price may be moved further, both ways, and none below zero.
LEMMA OnwardMonotone ==
    ASSUME NEW a \in Nat, NEW b \in Nat, a <= b
    PROVE  /\ Share(a, RealtimeMaxDeviation) \in Nat
           /\ Share(a, RealtimeMaxDeviation) <= a
           /\ Onward(a, 1) = a + Share(a, RealtimeMaxDeviation)
           /\ Onward(a, -1) = a - Share(a, RealtimeMaxDeviation)
           /\ Onward(a, 1) <= Onward(b, 1) /\ Onward(a, -1) <= Onward(b, -1)
<1> DEFINE r == RealtimeMaxDeviation
           x == a * r
           y == b * r
           d == b - a
<1>1. r \in Nat /\ r <= 10000
  BY OracleNumbers, BlockTimesAreNaturals, StepsArePartial DEF OracleNumbers, StepsArePartial, BasisPoints
<1> HIDE DEF r
<1>2. x \in Nat /\ y \in Nat /\ x <= y /\ x <= a * 10000
  BY <1>1, SMT
<1>3. d \in Nat /\ y <= x + d * 10000
  <2>1. d \in Nat /\ b = a + d
    OBVIOUS
  <2> HIDE DEF d
  <2>2. y = x + d * r
    BY <1>1, <2>1, SMT
  <2>3. d * r <= d * 10000
    BY <1>1, <2>1, SMT
  <2> QED BY <1>1, <2>1, <2>2, <2>3, SMT
<1>4. Share(a, r) = x \div 10000 /\ Share(b, r) = y \div 10000
  BY DEF Share, BasisPoints
<1> HIDE DEF x, y
<1>5. /\ x \div 10000 \in Nat /\ y \div 10000 \in Nat /\ x \div 10000 <= y \div 10000
      /\ x \div 10000 <= a /\ y \div 10000 <= x \div 10000 + d
  BY <1>2, <1>3, SMT
<1>6. Share(a, r) \in Nat /\ Share(b, r) \in Nat
  BY <1>4, <1>5
<1>7. /\ Onward(a, 1) = a + Share(a, r) /\ Onward(b, 1) = b + Share(b, r)
      /\ Onward(a, -1) = a - Share(a, r) /\ Onward(b, -1) = b - Share(b, r)
  BY <1>6 DEF Onward, r
<1> QED
  BY <1>4, <1>5, <1>6, <1>7 DEF r

\* More steps lead no less far.
LEMMA FarthestMonotone ==
    ASSUME NEW price \in Nat, NEW m \in Nat
    PROVE  /\ Farthest(price, m, 1) \in Nat /\ Farthest(price, m, -1) \in Nat
           /\ \A n \in Nat : m <= n =>
                 /\ Farthest(price, m, 1) <= Farthest(price, n, 1)
                 /\ Farthest(price, n, -1) <= Farthest(price, m, -1)
<1> DEFINE Up(n) == Farthest(price, n, 1)
           Down(n) == Farthest(price, n, -1)
           S == {n \in Nat : Up(n) \in Nat /\ Down(n) \in Nat}
           T == {n \in Nat : m <= n => Up(m) <= Up(n) /\ Down(n) <= Down(m)}
<1>1. /\ Up(0) = price /\ Down(0) = price
      /\ \A n \in Nat : Up(n + 1) = Onward(Up(n), 1) /\ Down(n + 1) = Onward(Down(n), -1)
  BY FarthestSteps
<1> HIDE DEF Up, Down
<1>2. ASSUME NEW n \in Nat, Up(n) \in Nat, Down(n) \in Nat
      PROVE  /\ Up(n + 1) \in Nat /\ Up(n) <= Up(n + 1)
             /\ Down(n + 1) \in Nat /\ Down(n + 1) <= Down(n)
  <2>1. /\ Up(n + 1) = Up(n) + Share(Up(n), RealtimeMaxDeviation)
        /\ Share(Up(n), RealtimeMaxDeviation) \in Nat
    BY <1>1, <1>2, OnwardMonotone
  <2>2. /\ Down(n + 1) = Down(n) - Share(Down(n), RealtimeMaxDeviation)
        /\ Share(Down(n), RealtimeMaxDeviation) \in Nat
        /\ Share(Down(n), RealtimeMaxDeviation) <= Down(n)
    BY <1>1, <1>2, OnwardMonotone
  <2> QED BY <1>2, <2>1, <2>2
<1>3. \A n \in Nat : Up(n) \in Nat /\ Down(n) \in Nat
  <2>1. 0 \in S /\ \A n \in Nat : n \in S => n + 1 \in S
    BY <1>1, <1>2
  <2>2. Nat \subseteq S
    <3> HIDE DEF S
    <3> QED BY <2>1, SetInduction
  <2> QED BY <2>2
<1>4. \A n \in Nat : n \in T
  <2>1. 0 \in T
    BY <1>3
  <2>2. ASSUME NEW n \in Nat, n \in T PROVE n + 1 \in T
    <3>1. CASE m = n + 1
      BY <1>3, <3>1
    <3>2. CASE m <= n
      BY <1>2, <1>3, <2>2, <3>2
    <3>3. CASE m > n + 1
      BY <3>3
    <3> QED BY <3>1, <3>2, <3>3
  <2> HIDE DEF T
  <2> QED BY <2>1, <2>2, SetInduction
<1> QED
  BY <1>3, <1>4 DEF Up, Down

-----------------------------------------------------------------------------
\* A feed starts at its anchor and is never ahead of the block.
FeedInOrder ==
    /\ DOMAIN anchor = DOMAIN realtime
    /\ \A a \in DOMAIN realtime :
          anchor[a].timestamp <= realtime[a].timestamp /\ realtime[a].timestamp <= blocktime

PacedInv == FeedInOrder /\ FeedIsPaced

Paces(a) == (realtime[a].timestamp - anchor[a].timestamp) \div UpdateInterval

\* What FeedIsPaced says of one asset.
Paced(a) ==
    /\ realtime[a].sequence_number = price_sequence[a]
    /\ realtime[a].sequence_number <= Paces(a)
    /\ realtime[a].price <= Farthest(anchor[a].price, Paces(a), 1)
    /\ realtime[a].price >= Farthest(anchor[a].price, Paces(a), -1)

LEMMA PacedOfEach == FeedIsPaced <=> \A a \in DOMAIN realtime : Paced(a)
BY DEF FeedIsPaced, Paced, Paces

\* There is no feed in an oracle just installed.
LEMMA InitPaced == OracleInit => PacedInv
BY NoKeysEmpty DEF OracleInit, PacedInv, FeedInOrder, FeedIsPaced

\* An update comes an interval after the last price, so it has a step more to
\* go with.
LEMMA StepPaced ==
    ASSUME RestTypeOK, PacedInv, [OracleNext]_oracleVars
    PROVE  PacedInv'
<1>n. /\ UpdateInterval \in Nat \ {0} /\ RealtimeMaxDeviation \in Nat /\ blocktime \in Nat
      /\ MaxBlockTime \in Nat /\ FeedPrices \subseteq Nat
  BY OracleNumbers, BlockTimesAreNaturals DEF OracleNumbers, RestTypeOK
<1>t. \A a \in DOMAIN realtime :
         /\ realtime[a].price \in Nat /\ realtime[a].timestamp \in Nat
         /\ realtime[a].sequence_number \in Nat /\ price_sequence[a] \in Nat
         /\ anchor[a].price \in Nat /\ anchor[a].timestamp \in Nat
  BY DEF RestTypeOK, IsMap, RealtimePrice, PacedInv, FeedInOrder
<1>i. /\ DOMAIN anchor = DOMAIN realtime /\ DOMAIN price_sequence = DOMAIN realtime
      /\ \A a \in DOMAIN realtime :
            /\ anchor[a].timestamp <= realtime[a].timestamp
            /\ realtime[a].timestamp <= blocktime
            /\ Paced(a)
  BY PacedOfEach DEF PacedInv, FeedInOrder, RestTypeOK
<1>1. ASSUME NEW caller \in OracleAccounts, NEW asset \in OracleAssets, NEW price \in FeedPrices,
             InitRealtimePrice(caller, asset, price)
      PROVE  PacedInv'
  <2> DEFINE first == [price |-> price, timestamp |-> blocktime, validator |-> caller,
                       sequence_number |-> 0]
             start == [price |-> price, timestamp |-> blocktime]
  <2>1. /\ realtime' = PutKey(realtime, asset, first)
        /\ price_sequence' = PutKey(price_sequence, asset, 0)
        /\ anchor' = PutKey(anchor, asset, start) /\ blocktime' = blocktime
    BY <1>1 DEF InitRealtimePrice
  <2>2. /\ first.price = price /\ first.timestamp = blocktime /\ first.sequence_number = 0
        /\ start.price = price /\ start.timestamp = blocktime
    OBVIOUS
  <2> HIDE DEF first, start
  <2>3. DOMAIN realtime' = DOMAIN realtime \cup {asset} /\ DOMAIN anchor' = DOMAIN realtime'
    BY <1>i, <2>1 DEF PutKey
  <2>4. realtime'[asset] = first /\ anchor'[asset] = start /\ price_sequence'[asset] = 0
    BY <2>1 DEF PutKey
  <2>5. \A a \in DOMAIN realtime : a # asset =>
           /\ realtime'[a] = realtime[a] /\ anchor'[a] = anchor[a]
           /\ price_sequence'[a] = price_sequence[a]
    BY <1>i, <2>1 DEF PutKey
  <2>6. Paced(asset)'
    <3>1. Paces(asset)' = 0
      BY <1>n, <2>2, <2>4, SMT DEF Paces
    <3>2. Farthest(price, 0, 1) = price /\ Farthest(price, 0, -1) = price
      BY FarthestSteps
    <3>3. /\ realtime'[asset].price = price /\ realtime'[asset].sequence_number = 0
          /\ anchor'[asset].price = price /\ price \in Nat
      BY <1>n, <2>2, <2>4
    <3> QED BY <2>4, <3>1, <3>2, <3>3 DEF Paced
  <2>7. \A a \in DOMAIN realtime : a # asset => Paced(a)'
    BY <1>i, <2>5 DEF Paced, Paces
  <2>8. \A a \in DOMAIN realtime' :
           anchor'[a].timestamp <= realtime'[a].timestamp /\ realtime'[a].timestamp <= blocktime'
    BY <1>n, <1>i, <2>1, <2>2, <2>3, <2>4, <2>5
  <2>9. \A a \in DOMAIN realtime' : Paced(a)'
    BY <2>3, <2>6, <2>7
  <2>10. FeedIsPaced'
    BY <2>9 DEF FeedIsPaced, Paced, Paces
  <2> QED
    BY <2>3, <2>8, <2>10 DEF PacedInv, FeedInOrder
<1>2. ASSUME NEW caller \in OracleAccounts, NEW asset \in OracleAssets, NEW price \in FeedPrices,
             UpdateRealtimePrice(caller, asset, price)
      PROVE  PacedInv'
  <2> DEFINE next == [price |-> price, timestamp |-> blocktime, validator |-> caller,
                      sequence_number |-> NextSequence(asset)]
             p == realtime[asset].price
             s == Paces(asset)
             t == Paces(asset)'
             z == anchor[asset].price
  <2>1. /\ realtime' = [realtime EXCEPT ![asset] = next]
        /\ price_sequence' = [price_sequence EXCEPT ![asset] = NextSequence(asset)]
        /\ anchor' = anchor /\ blocktime' = blocktime /\ asset \in DOMAIN realtime
        /\ blocktime >= realtime[asset].timestamp + UpdateInterval
        /\ Distance(price, p) <= Share(p, RealtimeMaxDeviation)
    BY <1>2 DEF UpdateRealtimePrice, HasKey, UpdateDue
  <2>2. /\ next.price = price /\ next.timestamp = blocktime
        /\ next.sequence_number = NextSequence(asset)
    OBVIOUS
  <2> HIDE DEF next
  <2>3. /\ DOMAIN realtime' = DOMAIN realtime /\ realtime'[asset] = next
        /\ price_sequence'[asset] = price_sequence[asset] + 1
        /\ next.sequence_number = price_sequence[asset] + 1
    BY <1>i, <2>1, <2>2 DEF NextSequence
  <2>4. \A a \in DOMAIN realtime : a # asset =>
           realtime'[a] = realtime[a] /\ price_sequence'[a] = price_sequence[a]
    BY <1>i, <2>1
  <2>5. s \in Nat /\ t \in Nat /\ s + 1 <= t
    <3> DEFINE b == realtime[asset].timestamp - anchor[asset].timestamp
               c == blocktime - anchor[asset].timestamp
    <3>1. b \in Nat /\ c \in Nat /\ b + UpdateInterval <= c
      BY <1>n, <1>t, <1>i, <2>1
    <3>2. s = b \div UpdateInterval /\ t = c \div UpdateInterval
      BY <2>1, <2>2, <2>3 DEF Paces
    <3> HIDE DEF b, c, s, t
    <3>3. (b + UpdateInterval) \div UpdateInterval = b \div UpdateInterval + 1
      BY <1>n, <3>1, SMT
    <3>4. (b + UpdateInterval) \div UpdateInterval <= c \div UpdateInterval
      BY <1>n, <3>1, DivMono
    <3>5. b \div UpdateInterval \in Nat /\ c \div UpdateInterval \in Nat
      BY <1>n, <3>1, DivBelow
    <3> QED BY <3>2, <3>3, <3>4, <3>5
  <2>6. /\ p \in Nat /\ z \in Nat /\ price \in Nat
        /\ p <= Farthest(z, s, 1) /\ p >= Farthest(z, s, -1)
        /\ realtime[asset].sequence_number <= s
        /\ realtime[asset].sequence_number = price_sequence[asset]
        /\ price_sequence[asset] \in Nat
    BY <1>n, <1>t, <1>i, <2>1 DEF Paced
  <2> HIDE DEF p, s, t, z
  <2>7. price <= Onward(p, 1) /\ price >= Onward(p, -1)
    <3>1. /\ Onward(p, 1) = p + Share(p, RealtimeMaxDeviation)
          /\ Onward(p, -1) = p - Share(p, RealtimeMaxDeviation)
          /\ Share(p, RealtimeMaxDeviation) \in Nat
      BY <2>6, OnwardMonotone
    <3> QED BY <2>1, <2>6, <3>1 DEF Distance
  <2>8. /\ Farthest(z, s, 1) \in Nat /\ Farthest(z, s, -1) \in Nat
        /\ Farthest(z, s + 1, 1) = Onward(Farthest(z, s, 1), 1)
        /\ Farthest(z, s + 1, -1) = Onward(Farthest(z, s, -1), -1)
        /\ s + 1 \in Nat
    <3>1. Farthest(z, s, 1) \in Nat /\ Farthest(z, s, -1) \in Nat
      BY <2>5, <2>6, FarthestMonotone
    <3>2. Farthest(z, s + 1, 1) = Onward(Farthest(z, s, 1), 1)
      BY <2>5, FarthestSteps
    <3>3. Farthest(z, s + 1, -1) = Onward(Farthest(z, s, -1), -1)
      BY <2>5, FarthestSteps
    <3> QED BY <2>5, <3>1, <3>2, <3>3
  <2>9. /\ Onward(p, 1) <= Farthest(z, s + 1, 1)
        /\ Farthest(z, s + 1, -1) <= Onward(p, -1)
    BY <2>6, <2>8, OnwardMonotone
  <2>10. /\ Farthest(z, s + 1, 1) <= Farthest(z, t, 1)
         /\ Farthest(z, t, -1) <= Farthest(z, s + 1, -1)
         /\ Farthest(z, s + 1, 1) \in Nat /\ Farthest(z, s + 1, -1) \in Nat
         /\ Farthest(z, t, 1) \in Nat /\ Farthest(z, t, -1) \in Nat
    BY <2>5, <2>6, <2>8, FarthestMonotone
  <2>11. Onward(p, 1) \in Int /\ Onward(p, -1) \in Int
    BY <2>6, OnwardMonotone
  <2>12. price <= Farthest(z, t, 1) /\ price >= Farthest(z, t, -1)
    BY <2>6, <2>7, <2>9, <2>10, <2>11
  <2>13. Paced(asset)'
    <3>1. realtime'[asset].price = price /\ anchor'[asset].price = z
      BY <2>1, <2>2, <2>3 DEF z
    <3>2. realtime'[asset].sequence_number = price_sequence'[asset]
          /\ realtime'[asset].sequence_number <= t
      BY <2>3, <2>5, <2>6
    <3> QED BY <2>12, <3>1, <3>2 DEF Paced, t
  <2>14. \A a \in DOMAIN realtime : a # asset => Paced(a)'
    BY <1>i, <2>1, <2>4 DEF Paced, Paces
  <2>15. \A a \in DOMAIN realtime' :
            anchor'[a].timestamp <= realtime'[a].timestamp /\ realtime'[a].timestamp <= blocktime'
    <3> SUFFICES ASSUME NEW a \in DOMAIN realtime
                 PROVE  /\ anchor'[a].timestamp <= realtime'[a].timestamp
                        /\ realtime'[a].timestamp <= blocktime'
      BY <2>3
    <3>1. CASE a = asset
      BY <1>n, <1>t, <1>i, <2>1, <2>2, <2>3, <3>1
    <3>2. CASE a # asset
      BY <1>i, <2>1, <2>4, <3>2
    <3> QED BY <3>1, <3>2
  <2>16. \A a \in DOMAIN realtime' : Paced(a)'
    BY <2>3, <2>13, <2>14
  <2>17. FeedIsPaced'
    BY <2>16 DEF FeedIsPaced, Paced, Paces
  <2> QED
    BY <1>i, <2>1, <2>3, <2>15, <2>17 DEF PacedInv, FeedInOrder
<1>3. ASSUME UNCHANGED <<blocktime, streamVars>> PROVE PacedInv'
  <2>1. UNCHANGED <<blocktime, realtime, price_sequence, anchor>>
    BY <1>3 DEF streamVars
  <2> QED BY <2>1 DEF PacedInv, FeedInOrder, FeedIsPaced
<1>4. ASSUME OracleTick PROVE PacedInv'
  <2>1. blocktime' = blocktime + 1 /\ UNCHANGED <<realtime, price_sequence, anchor>>
    BY <1>4 DEF OracleTick, Tick, oracleState, streamVars
  <2>2. FeedIsPaced'
    BY <2>1 DEF PacedInv, FeedIsPaced
  <2> QED BY <1>n, <1>t, <1>i, <2>1, <2>2 DEF PacedInv, FeedInOrder
<1>5. ASSUME NEW caller \in OracleAccounts, NEW stake \in Stakes, RegisterValidator(caller, stake)
      PROVE  UNCHANGED <<blocktime, streamVars>>
  BY <1>5 DEF RegisterValidator
<1>6. ASSUME NEW caller \in OracleAccounts, NEW asset \in OracleAssets, NEW price \in ClosingPrices,
             NEW target \in Targets, SubmitPrice(caller, asset, price, target)
      PROVE  UNCHANGED <<blocktime, streamVars>>
  BY <1>6 DEF SubmitPrice
<1>7. ASSUME NEW caller \in OracleAccounts, NEW asset \in OracleAssets, NEW target \in Targets,
             NEW prices \in PriceLists(ClosingPrices), AggregatePrices(caller, asset, target, prices)
      PROVE  UNCHANGED <<blocktime, streamVars>>
  BY <1>7 DEF AggregatePrices
<1>8. ASSUME NEW caller \in OracleAccounts, NEW account \in OracleAccounts, SlashValidator(caller, account)
      PROVE  UNCHANGED <<blocktime, streamVars>>
  BY <1>8 DEF SlashValidator
<1>9. ASSUME NEW caller \in OracleAccounts, NEW min, NEW max, UpdateOracleConfig(caller, min, max)
      PROVE  UNCHANGED <<blocktime, streamVars>>
  BY <1>9 DEF UpdateOracleConfig
<1>10. UNCHANGED oracleVars => UNCHANGED <<blocktime, streamVars>>
  BY DEF oracleVars, oracleState
<1> QED
  BY <1>1, <1>2, <1>3, <1>4, <1>5, <1>6, <1>7, <1>8, <1>9, <1>10 DEF OracleNext

\* However many validators stream prices and however often, the feed moves one
\* permitted step for a whole interval at most, and its counters agree.
THEOREM FeedAlwaysPaced == OracleSpec => []FeedIsPaced
<1>1. PacedInv => FeedIsPaced
  BY DEF PacedInv
<1>2. RestTypeOK /\ PacedInv /\ [OracleNext]_oracleVars => PacedInv'
  BY StepPaced
<1>3. QED
  BY <1>1, <1>2, InitRest, StepRest, InitPaced, PTL DEF OracleSpec

-----------------------------------------------------------------------------
\* The median.  Sorting keeps how often each price occurs, and so how many of the
\* prices are in any set of them.
Times(s, n, Q) == {i \in 1 .. n : s[i] \in Q}

SameTimes(s, p, n, Qs) ==
    \A Q \in Qs : Cardinality(Times(s, n, Q)) = Cardinality(Times(p, n, Q))

LEMMA SameCounts ==
    ASSUME NEW n \in Nat, NEW R, IsFiniteSet(R), NEW s \in [1 .. n -> R],
           NEW p \in [1 .. n -> R],
           SameTimes(s, p, n, {{r} : r \in R})
    PROVE  SameTimes(s, p, n, SUBSET R)
<1> SUFFICES ASSUME NEW Q \in SUBSET R
             PROVE  Cardinality(Times(s, n, Q)) = Cardinality(Times(p, n, Q))
  BY DEF SameTimes
<1>1. ASSUME NEW f, NEW T \in SUBSET R, NEW x \in T
      PROVE  Cardinality(Times(f, n, T))
                = Cardinality(Times(f, n, T \ {x})) + Cardinality(Times(f, n, {x}))
  <2> DEFINE A == Times(f, n, T \ {x})
             B == Times(f, n, {x})
  <2>1. IsFiniteSet(A) /\ IsFiniteSet(B)
    <3>1. IsFiniteSet(1 .. n)
      BY FS_Interval
    <3> QED BY <3>1, FS_Subset DEF Times
  <2>2. A \cap B = {} /\ Times(f, n, T) = A \cup B
    BY DEF Times
  <2> HIDE DEF A, B
  <2>3. Cardinality(A \cup B) = Cardinality(A) + Cardinality(B) - Cardinality(A \cap B)
    BY <2>1, FS_Union
  <2>4. Cardinality(A) \in Nat /\ Cardinality(B) \in Nat /\ Cardinality(A \cap B) = 0
    BY <2>1, <2>2, FS_CardinalityType, FS_EmptySet
  <2>5. Cardinality(Times(f, n, T)) = Cardinality(A) + Cardinality(B)
    BY <2>2, <2>3, <2>4
  <2> QED BY <2>5 DEF A, B
<1> DEFINE P == {T \in SUBSET R : Cardinality(Times(s, n, T)) = Cardinality(Times(p, n, T))}
<1>2. {} \in P
  BY DEF Times
<1>3. ASSUME NEW T \in SUBSET R, T # {}, T \ {Picked(T)} \in P PROVE T \in P
  <2> DEFINE x == Picked(T)
  <2>1. x \in T
    BY <1>3 DEF Picked
  <2> HIDE DEF x
  <2>2. Cardinality(Times(s, n, T \ {x})) = Cardinality(Times(p, n, T \ {x}))
    BY <1>3 DEF x
  <2>3. Cardinality(Times(s, n, {x})) = Cardinality(Times(p, n, {x}))
    BY <2>1 DEF SameTimes
  <2>4. Cardinality(Times(s, n, T))
           = Cardinality(Times(s, n, T \ {x})) + Cardinality(Times(s, n, {x}))
    BY <1>1, <2>1
  <2>5. Cardinality(Times(p, n, T))
           = Cardinality(Times(p, n, T \ {x})) + Cardinality(Times(p, n, {x}))
    BY <1>1, <2>1
  <2> QED BY <2>2, <2>3, <2>4, <2>5
<1>4. IsFiniteSet(Q) /\ \A T \in SUBSET Q : T \in SUBSET R
  BY FS_Subset
<1>5. Q \in P
  <2> HIDE DEF P
  <2> QED BY <1>2, <1>3, <1>4, FiniteInduction
<1> QED
  BY <1>5

\* In a sorted list, a range that holds more than half of the list holds its
\* middle.
LEMMA MiddleInside ==
    ASSUME NEW n \in Nat, NEW s \in [1 .. n -> Nat],
           \A i, j \in 1 .. n : i < j => s[i] <= s[j],
           NEW low \in Nat, NEW high \in Nat,
           NEW count, count = Cardinality({i \in 1 .. n : low <= s[i] /\ s[i] <= high}),
           2 * count > n,
           NEW h \in 1 .. n, 2 * h >= n, 2 * (h - 1) <= n
    PROVE  low <= s[h] /\ s[h] <= high
<1> DEFINE Good == {i \in 1 .. n : low <= s[i] /\ s[i] <= high}
<1>1. ASSUME NEW a \in 1 .. n + 1, NEW b \in 0 .. n, Good \subseteq a .. b, a <= b + 1
      PROVE  count <= b - a + 1 /\ count \in Nat
  <2>1. IsFiniteSet(a .. b) /\ Cardinality(a .. b) = b - a + 1
    <3>1. a \in Int /\ b \in Int
      OBVIOUS
    <3>2. IsFiniteSet(a .. b) /\ Cardinality(a .. b) = IF a > b THEN 0 ELSE b - a + 1
      BY <3>1, FS_Interval
    <3> QED BY <1>1, <3>1, <3>2
  <2>2. IsFiniteSet(Good) /\ Cardinality(Good) <= Cardinality(a .. b)
    BY <1>1, <2>1, FS_Subset
  <2> QED BY <2>1, <2>2, FS_CardinalityType
<1>2. CASE s[h] < low
  <2>1. Good \subseteq h + 1 .. n
    <3> SUFFICES ASSUME NEW i \in Good, i <= h PROVE FALSE
      OBVIOUS
    <3>1. s[i] <= s[h]
      OBVIOUS
    <3> QED BY <1>2, <3>1
  <2>2. count <= n - h /\ count \in Nat
    BY <1>1, <2>1
  <2> QED BY <2>2
<1>3. CASE s[h] > high
  <2>1. Good \subseteq 1 .. h - 1
    <3> SUFFICES ASSUME NEW i \in Good, i >= h PROVE FALSE
      OBVIOUS
    <3>1. s[i] >= s[h]
      OBVIOUS
    <3> QED BY <1>3, <3>1
  <2>2. count <= h - 1 /\ count \in Nat
    BY <1>1, <2>1
  <2> QED BY <2>2
<1> QED
  BY <1>2, <1>3

\* The median of a list is in every range that most of the list is in.
LEMMA MedianInside ==
    ASSUME NEW prices \in PriceLists(ClosingPrices), Len(prices) > 0,
           NEW low \in ClosingPrices, NEW high \in ClosingPrices,
           2 * Cardinality({i \in 1 .. Len(prices) : low <= prices[i] /\ prices[i] <= high})
               > Len(prices)
    PROVE  low <= Median(prices) /\ Median(prices) <= high
<1> DEFINE n == Len(prices)
           R == {prices[i] : i \in 1 .. n}
           Good(s) ==
              /\ \A i, j \in 1 .. n : i < j => s[i] <= s[j]
              /\ \A p \in R : Cardinality({i \in 1 .. n : s[i] = p})
                                 = Cardinality({i \in 1 .. n : prices[i] = p})
           sorted == Sorted(prices)
           Between(s) == {i \in 1 .. n : low <= s[i] /\ s[i] <= high}
<1>1. PICK m \in 0 .. MaxPrices :
         /\ prices \in [1 .. m -> ClosingPrices]
         /\ \A i, j \in 1 .. m : i < j => prices[i] <= prices[j]
  BY DEF PriceLists
<1>2. n = m /\ n \in Nat
  BY <1>1, Numbers
<1>3. R \subseteq Nat /\ low \in Nat /\ high \in Nat
  BY <1>1, <1>2, Numbers
<1>4. prices \in [1 .. n -> R] /\ Good(prices)
  BY <1>1, <1>2
<1>5. sorted \in [1 .. n -> R] /\ Good(sorted)
  <2>1. sorted = CHOOSE s \in [1 .. n -> R] : Good(s)
    BY DEF Sorted
  <2> HIDE DEF R, Good, sorted
  <2> QED BY <1>4, <2>1
<1>6. IsFiniteSet(R)
  <2>1. IsFiniteSet(1 .. n)
    BY <1>2, FS_Interval
  <2>2. prices \in Surjection(1 .. n, R)
    BY <1>4 DEF Surjection
  <2> HIDE DEF R
  <2> QED BY <2>1, <2>2, FS_Surjection
<1>7. SameTimes(sorted, prices, n, {{r} : r \in R})
  <2> SUFFICES ASSUME NEW r \in R
               PROVE  Cardinality(Times(sorted, n, {r})) = Cardinality(Times(prices, n, {r}))
    BY DEF SameTimes
  <2>1. /\ Times(sorted, n, {r}) = {i \in 1 .. n : sorted[i] = r}
        /\ Times(prices, n, {r}) = {i \in 1 .. n : prices[i] = r}
    BY DEF Times
  <2> QED BY <1>5, <2>1
<1> DEFINE Q == {r \in R : low <= r /\ r <= high}
<1>8. Cardinality(Between(sorted)) = Cardinality(Between(prices))
  <2>1. Cardinality(Times(sorted, n, Q)) = Cardinality(Times(prices, n, Q))
    <3>1. Q \in SUBSET R
      OBVIOUS
    <3>2. prices \in [1 .. n -> R] /\ sorted \in [1 .. n -> R]
      BY <1>4, <1>5
    <3> HIDE DEF R, Q, sorted, n
    <3>3. SameTimes(sorted, prices, n, SUBSET R)
      BY <1>2, <1>6, <1>7, <3>2, SameCounts
    <3> QED BY <3>1, <3>3 DEF SameTimes
  <2>2. \A f \in [1 .. n -> R] : Times(f, n, Q) = Between(f)
    BY DEF Times
  <2> QED BY <1>4, <1>5, <2>1, <2>2
<1> DEFINE count == Cardinality(Between(sorted))
<1>9. 2 * count > n
  BY <1>8
<1>10. sorted \in [1 .. n -> Nat] /\ \A i, j \in 1 .. n : i < j => sorted[i] <= sorted[j]
  BY <1>3, <1>5
<1>11. ASSUME NEW h \in 1 .. n, 2 * h >= n, 2 * (h - 1) <= n
       PROVE  low <= sorted[h] /\ sorted[h] <= high /\ sorted[h] \in Nat
  <2>1. count = Cardinality({i \in 1 .. n : low <= sorted[i] /\ sorted[i] <= high})
    OBVIOUS
  <2> HIDE DEF count, sorted, n
  <2> QED BY <1>2, <1>3, <1>9, <1>10, <1>11, <2>1, MiddleInside
<1>12. Median(prices) = IF n % 2 = 0 THEN (sorted[n \div 2] + sorted[n \div 2 + 1]) \div 2
                        ELSE sorted[n \div 2 + 1]
  BY DEF Median
<1>13. n > 0
  OBVIOUS
<1> HIDE DEF sorted, n, R, Good, Between, Q, count
<1>14. CASE n % 2 = 0
  <2> DEFINE h == n \div 2
             a == sorted[h]
             b == sorted[h + 1]
  <2>1. h \in 1 .. n /\ 2 * h = n /\ h + 1 \in 1 .. n
    BY <1>2, <1>13, <1>14
  <2>2. low <= a /\ a <= high /\ a \in Nat
    BY <1>11, <2>1
  <2>3. low <= b /\ b <= high /\ b \in Nat
    <3>1. 2 * (h + 1) >= n /\ 2 * ((h + 1) - 1) <= n
      BY <1>2, <2>1
    <3> QED BY <1>11, <2>1, <3>1
  <2>4. Median(prices) = (a + b) \div 2
    BY <1>12, <1>14
  <2> HIDE DEF a, b
  <2> QED BY <1>3, <2>2, <2>3, <2>4
<1>15. CASE n % 2 # 0
  <2> DEFINE h == n \div 2 + 1
  <2>1. h \in 1 .. n /\ 2 * h >= n /\ 2 * (h - 1) <= n
    BY <1>2, <1>13, <1>15
  <2>2. low <= sorted[h] /\ sorted[h] <= high
    BY <1>11, <2>1
  <2> QED BY <1>12, <1>15, <2>2
<1> QED
  BY <1>14, <1>15

\* What is final is the median of what it was aggregated from.
SourcesInv ==
    \A k \in DOMAIN aggregated :
        /\ k \in DOMAIN sources
        /\ sources[k] \in PriceLists(ClosingPrices) /\ Len(sources[k]) > 0
        /\ aggregated[k].price = Median(sources[k])

LEMMA InitSources == OracleInit => SourcesInv
BY NoKeysEmpty DEF OracleInit, SourcesInv

\* Only aggregate_prices stores a final price, and its list with it.
LEMMA StepSources == SourcesInv /\ [OracleNext]_oracleVars => SourcesInv'
<1> SUFFICES ASSUME SourcesInv, [OracleNext]_oracleVars PROVE SourcesInv'
  OBVIOUS
<1>1. ASSUME NEW caller \in OracleAccounts, NEW asset \in OracleAssets, NEW target \in Targets,
             NEW prices \in PriceLists(ClosingPrices), AggregatePrices(caller, asset, target, prices)
      PROVE  SourcesInv'
  <2> DEFINE key == <<asset, target>>
             final == [price |-> Median(prices), submissions_count |-> Len(prices) % 256]
  <2>1. /\ aggregated' = PutKey(aggregated, key, final)
        /\ sources' = PutKey(sources, key, prices) /\ Len(prices) > 0
    BY <1>1 DEF AggregatePrices, Finalize
  <2>2. final.price = Median(prices)
    OBVIOUS
  <2> HIDE DEF key, final
  <2> SUFFICES ASSUME NEW k \in DOMAIN aggregated'
               PROVE  /\ k \in DOMAIN sources'
                      /\ sources'[k] \in PriceLists(ClosingPrices) /\ Len(sources'[k]) > 0
                      /\ aggregated'[k].price = Median(sources'[k])
    BY DEF SourcesInv
  <2>3. CASE k = key
    BY <2>1, <2>2, <2>3 DEF PutKey
  <2>4. CASE k # key
    <3>1. k \in DOMAIN aggregated
      BY <2>1, <2>4 DEF PutKey
    <3>2. k \in DOMAIN sources
      BY <3>1 DEF SourcesInv
    <3>3. aggregated'[k] = aggregated[k] /\ sources'[k] = sources[k] /\ k \in DOMAIN sources'
      BY <2>1, <2>4, <3>1, <3>2 DEF PutKey
    <3> QED BY <3>1, <3>3 DEF SourcesInv
  <2> QED BY <2>3, <2>4
<1>2. ASSUME UNCHANGED <<aggregated, sources>> PROVE SourcesInv'
  BY <1>2 DEF SourcesInv
<1>3. ASSUME NEW caller \in OracleAccounts, NEW stake \in Stakes, RegisterValidator(caller, stake)
      PROVE  UNCHANGED <<aggregated, sources>>
  BY <1>3 DEF RegisterValidator, dailyVars
<1>4. ASSUME NEW caller \in OracleAccounts, NEW asset \in OracleAssets, NEW price \in ClosingPrices,
             NEW target \in Targets, SubmitPrice(caller, asset, price, target)
      PROVE  UNCHANGED <<aggregated, sources>>
  BY <1>4 DEF SubmitPrice
<1>5. ASSUME NEW caller \in OracleAccounts, NEW account \in OracleAccounts, SlashValidator(caller, account)
      PROVE  UNCHANGED <<aggregated, sources>>
  BY <1>5 DEF SlashValidator, dailyVars
<1>6. ASSUME NEW caller \in OracleAccounts, NEW min, NEW max, UpdateOracleConfig(caller, min, max)
      PROVE  UNCHANGED <<aggregated, sources>>
  BY <1>6 DEF UpdateOracleConfig, dailyVars
<1>7. ASSUME NEW caller \in OracleAccounts, NEW asset \in OracleAssets, NEW price \in FeedPrices,
             InitRealtimePrice(caller, asset, price) \/ UpdateRealtimePrice(caller, asset, price)
      PROVE  UNCHANGED <<aggregated, sources>>
  BY <1>7 DEF InitRealtimePrice, UpdateRealtimePrice, dailyVars
<1>8. OracleTick \/ UNCHANGED oracleVars => UNCHANGED <<aggregated, sources>>
  BY DEF OracleTick, Tick, oracleState, oracleVars, oracleState, dailyVars
<1> QED
  BY <1>1, <1>2, <1>3, <1>4, <1>5, <1>6, <1>7, <1>8 DEF OracleNext

\* A finalized price lies in every range that most of the prices it was made from
\* lie in, however far off the others are.
THEOREM MedianAlwaysResists == OracleSpec => []MedianResistsOutliers
<1>1. SourcesInv => MedianResistsOutliers
  BY MedianInside DEF SourcesInv, MedianResistsOutliers
<1>2. QED
  BY <1>1, InitSources, StepSources, PTL DEF OracleSpec
=============================================================================
