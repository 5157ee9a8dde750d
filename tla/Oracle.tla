------------------------------- MODULE Oracle -------------------------------
(***************************************************************************)
(* The price oracle, contracts/oracle.  Validators register with a stake   *)
(* and submit a closing price for an asset and a target time; the admin or *)
(* the settlement contract finalizes the median; and for continuous perps  *)
(* validators stream prices that may move only so far and so often.  Each  *)
(* entry point is one action: a deploy that fails a check changes nothing. *)
(***************************************************************************)
EXTENDS Arithmetic, FiniteSets, Sequences, Storage, BlockTime

CONSTANTS
    OracleAccounts,         \* the accounts that can send a deploy
    OracleAdmin, OracleSettlement,  \* the roles init() stores
    OracleAssets,           \* asset types
    ClosingPrices,          \* the closing prices a deploy can name
    FeedPrices,             \* the streamed prices a deploy can name
    Targets,                \* the target times a deploy can name
    Stakes,                 \* the stakes a validator can offer
    MinStake, SlashAmount,  \* of OracleConfig, which no entry point changes
    SubmissionWindow, UpdateInterval, RealtimeMaxDeviation,
    MinValidatorsOptions,   \* the values update_config can be given
    MaxDeviationOptions,
    MaxPrices,              \* bound: the longest list given to aggregate_prices
    MaxValidators           \* bound: registrations considered

ASSUME OracleNumbers ==
    /\ ClosingPrices \cup FeedPrices \subseteq Nat /\ Targets \subseteq Nat /\ Stakes \subseteq Nat
    /\ {MinStake, SlashAmount, SubmissionWindow, UpdateInterval,
        RealtimeMaxDeviation, MaxPrices, MaxValidators} \subseteq Nat
    /\ MinStake > 0 /\ UpdateInterval > 0
    /\ MinValidatorsOptions \subseteq Nat /\ MaxDeviationOptions \subseteq Nat

\* 200 in the default configuration: an update takes no more from a price than
\* all of it.
ASSUME StepsArePartial == RealtimeMaxDeviation <= BasisPoints

VARIABLES
    config,             \* the fields of OracleConfig that change
    validators,         \* registered account -> OracleValidator
    validators_count,
    submissions,        \* <<asset, account, target>> -> the price submitted
    aggregated,         \* <<asset, target>> -> AggregatedPrice
    realtime,           \* asset -> RealtimePrice
    price_sequence,     \* asset -> the counter kept beside it
    sources,            \* history: <<asset, target>> -> the prices aggregated
    anchor              \* history: price and time of the last init_realtime_price

dailyVars == <<submissions, aggregated, sources>>
streamVars == <<realtime, price_sequence, anchor>>
oracleState == <<config, validators, validators_count, dailyVars, streamVars>>
oracleVars == <<blocktime, oracleState>>

Validator == [stake : Nat, is_active : BOOLEAN, submissions_count : Nat]
AggregatedPrice == [price : Nat, submissions_count : Nat]
RealtimePrice == [price : Nat, timestamp : Nat, validator : OracleAccounts,
                  sequence_number : Nat]

OracleTypeOK ==
    /\ blocktime \in 0 .. MaxBlockTime
    /\ config \in [min_validators : Nat, max_price_deviation_bps : Nat]
    /\ IsMap(validators, OracleAccounts, Validator)
    /\ validators_count \in Nat
    /\ IsMap(submissions, OracleAssets \X OracleAccounts \X Targets, ClosingPrices)
    /\ IsMap(aggregated, OracleAssets \X Targets, AggregatedPrice)
    /\ DOMAIN sources = DOMAIN aggregated
    /\ IsMap(realtime, OracleAssets, RealtimePrice)
    /\ IsMap(price_sequence, OracleAssets, Nat)
    /\ IsMap(anchor, OracleAssets, [price : Nat, timestamp : Nat])

OracleInit ==
    /\ blocktime = 0
    /\ config = [min_validators |-> 3, max_price_deviation_bps |-> 500]
    /\ validators = NoKeys
    /\ validators_count = 0
    /\ submissions = NoKeys
    /\ aggregated = NoKeys
    /\ sources = NoKeys
    /\ realtime = NoKeys
    /\ price_sequence = NoKeys
    /\ anchor = NoKeys

-----------------------------------------------------------------------------
\* Aggregation of a list of prices.

Sorted(prices) ==
    CHOOSE s \in [1 .. Len(prices) -> {prices[i] : i \in 1 .. Len(prices)}] :
        /\ \A i, j \in 1 .. Len(prices) : i < j => s[i] <= s[j]
        /\ \A p \in {prices[i] : i \in 1 .. Len(prices)} :
              Cardinality({i \in 1 .. Len(prices) : s[i] = p})
                  = Cardinality({i \in 1 .. Len(prices) : prices[i] = p})

\* Mutant: the element after the middle one.
MedianAbove(prices) ==
    LET n == Len(prices) IN
    IF n % 2 = 0 THEN (Sorted(prices)[n \div 2] + Sorted(prices)[n \div 2 + 1]) \div 2
                 ELSE Sorted(prices)[IF n = 1 THEN 1 ELSE n \div 2 + 2]

\* calculate_median, with indices from 1; it panics on an empty list.
Median(prices) ==
    LET n == Len(prices)
        s == Sorted(prices)
    IN IF n % 2 = 0 THEN (s[n \div 2] + s[n \div 2 + 1]) \div 2
                    ELSE s[n \div 2 + 1]

\* calculate_deviation: the largest distance from the median.
Deviation(prices, median) ==
    CHOOSE d \in {Distance(prices[i], median) : i \in 1 .. Len(prices)} :
        \A i \in 1 .. Len(prices) : Distance(prices[i], median) <= d

\* The lists of prices a deploy can carry, one for each multiset: the median
\* and the deviation look at nothing else.
PriceLists(P) ==
    UNION {{ps \in [1 .. n -> P] :
                \A i, j \in 1 .. n : i < j => ps[i] <= ps[j]} : n \in 0 .. MaxPrices}

-----------------------------------------------------------------------------
\* verify_authorized
OracleAuthorized == {OracleAdmin, OracleSettlement}

RegisterValidator(caller, stake) ==
    /\ validators_count < MaxValidators
    /\ stake >= MinStake
    /\ validators' = PutKey(validators, caller,
           [stake |-> stake, is_active |-> TRUE, submissions_count |-> 0])
    /\ validators_count' = validators_count + 1
    /\ UNCHANGED <<blocktime, config, dailyVars, streamVars>>

IsActive(account) == HasKey(validators, account) /\ validators[account].is_active

\* Mutant: a second submission replaces the first.
NotYetSubmittedIgnored(asset, account, target) == TRUE

NotYetSubmitted(asset, account, target) ==
    ~ HasKey(submissions, <<asset, account, target>>)

Submitted(v) == [v EXCEPT !.submissions_count = @ + 1]

\* Nothing keeps a validator from submitting before the target time.
SubmitPrice(caller, asset, price, target) ==
    /\ IsActive(caller)
    /\ blocktime <= target + SubmissionWindow
    /\ NotYetSubmitted(asset, caller, target)
    /\ submissions' = PutKey(submissions, <<asset, caller, target>>, price)
    /\ validators' = [validators EXCEPT ![caller] = Submitted(@)]
    /\ UNCHANGED <<blocktime, config, validators_count, aggregated, sources, streamVars>>

\* The prices come with the deploy: the stored submissions are not read, and
\* an earlier aggregate for the same asset and target is replaced.
Finalize(caller, asset, target, prices) ==
    LET median == Median(prices) IN
       /\ caller \in OracleAuthorized
       /\ Len(prices) > 0 /\ Len(prices) >= config.min_validators
       /\ Deviation(prices, median) <= Share(median, config.max_price_deviation_bps)
       /\ aggregated' = PutKey(aggregated, <<asset, target>>,
              [price |-> median, submissions_count |-> Len(prices) % 256])

AggregatePrices(caller, asset, target, prices) ==
    /\ Finalize(caller, asset, target, prices)
    /\ sources' = PutKey(sources, <<asset, target>>, prices)
    /\ UNCHANGED <<blocktime, config, validators, validators_count, submissions, streamVars>>

\* get_price reverts unless an aggregate was stored, and returns its price.
PriceFinalized(asset, target) == HasKey(aggregated, <<asset, target>>)
GetPrice(asset, target) == aggregated[<<asset, target>>].price

\* Mutant: the last slash leaves the validator active.
SlashedKeepsActive(v) ==
    [v EXCEPT !.stake = IF v.stake > SlashAmount THEN @ - SlashAmount ELSE 0]

Slashed(v) ==
    IF v.stake > SlashAmount THEN [v EXCEPT !.stake = @ - SlashAmount]
    ELSE [v EXCEPT !.stake = 0, !.is_active = FALSE]

SlashValidator(caller, account) ==
    /\ caller = OracleAdmin
    /\ HasKey(validators, account)
    /\ validators' = [validators EXCEPT ![account] = Slashed(@)]
    /\ UNCHANGED <<blocktime, config, validators_count, dailyVars, streamVars>>

\* An option left out keeps its value, as naming the value it has does.
UpdateOracleConfig(caller, min_validators, max_deviation) ==
    /\ caller = OracleAdmin
    /\ config' = [min_validators |-> min_validators,
                  max_price_deviation_bps |-> max_deviation]
    /\ UNCHANGED <<blocktime, validators, validators_count, dailyVars, streamVars>>

\* A second call for the same asset starts the feed and its sequence again.
InitRealtimePrice(caller, asset, price) ==
    /\ caller \in OracleAuthorized
    /\ price # 0
    /\ realtime' = PutKey(realtime, asset,
           [price |-> price, timestamp |-> blocktime, validator |-> caller,
            sequence_number |-> 0])
    /\ price_sequence' = PutKey(price_sequence, asset, 0)
    /\ anchor' = PutKey(anchor, asset, [price |-> price, timestamp |-> blocktime])
    /\ UNCHANGED <<blocktime, config, validators, validators_count, dailyVars>>

\* Mutant: an update may come again in the same interval.
UpdateDueAtOnce(asset) == blocktime >= realtime[asset].timestamp

UpdateDue(asset) == blocktime >= realtime[asset].timestamp + UpdateInterval

NextSequence(asset) == price_sequence[asset] + 1

UpdateRealtimePrice(caller, asset, price) ==
    /\ IsActive(caller)
    /\ price # 0
    /\ HasKey(realtime, asset)
    /\ UpdateDue(asset)
    /\ Distance(price, realtime[asset].price)
           <= Share(realtime[asset].price, RealtimeMaxDeviation)
    /\ price_sequence' = [price_sequence EXCEPT ![asset] = NextSequence(asset)]
    /\ realtime' = [realtime EXCEPT ![asset] =
           [price |-> price, timestamp |-> blocktime, validator |-> caller,
            sequence_number |-> NextSequence(asset)]]
    /\ UNCHANGED <<blocktime, config, validators, validators_count, dailyVars, anchor>>

\* The chain makes its next block.
OracleTick == Tick /\ UNCHANGED oracleState

OracleNext ==
    \/ \E caller \in OracleAccounts :
          \/ \E stake \in Stakes : RegisterValidator(caller, stake)
          \/ \E asset \in OracleAssets, price \in ClosingPrices, target \in Targets :
                SubmitPrice(caller, asset, price, target)
          \/ \E asset \in OracleAssets, target \in Targets, prices \in PriceLists(ClosingPrices) :
                AggregatePrices(caller, asset, target, prices)
          \/ \E account \in OracleAccounts : SlashValidator(caller, account)
          \/ \E min \in MinValidatorsOptions \cup {config.min_validators},
                max \in MaxDeviationOptions \cup {config.max_price_deviation_bps} :
                UpdateOracleConfig(caller, min, max)
          \/ \E asset \in OracleAssets, price \in FeedPrices :
                \/ InitRealtimePrice(caller, asset, price)
                \/ UpdateRealtimePrice(caller, asset, price)
    \/ OracleTick

OracleSpec == OracleInit /\ [][OracleNext]_oracleVars

-----------------------------------------------------------------------------
\* A finalized price stays within any range that most of the prices it was made
\* from are in: "Median pricing: Resistant to outliers", ARCHITECTURE.md.
MedianResistsOutliers ==
    \A k \in DOMAIN aggregated, low, high \in ClosingPrices :
        2 * Cardinality({i \in 1 .. Len(sources[k]) :
                            low <= sources[k][i] /\ sources[k][i] <= high})
                > Len(sources[k])
            => low <= aggregated[k].price /\ aggregated[k].price <= high

\* A validator acts only while he has something at stake, whatever the order
\* of registrations and slashes.
ActiveHaveStake ==
    \A v \in DOMAIN validators : validators[v].is_active <=> validators[v].stake > 0

SubmissionsOf(v) == {k \in DOMAIN submissions : k[2] = v}

\* The counter of a validator never claims submissions that are not stored,
\* also when he registers again after a slash.
CountersBacked ==
    /\ Cardinality(DOMAIN validators) <= validators_count
    /\ \A v \in DOMAIN validators :
          validators[v].submissions_count <= Cardinality(SubmissionsOf(v))

\* However he registers and is slashed, a validator acts with a stake behind him
\* and counts only submissions that are stored.
ValidatorsBacked == ActiveHaveStake /\ CountersBacked

\* What a validator submitted for an asset and a target stands for good.
SubmissionsStand ==
    [][\A k \in DOMAIN submissions :
          HasKey(submissions', k) /\ submissions'[k] = submissions[k]]_oracleVars

\* The price n updates away from a price when each goes as far up (1) or down
\* (-1) as it may.
Farthest(price, n, way) ==
    LET f[k \in 0 .. n] ==
            IF k = 0 THEN price
            ELSE f[k - 1] + way * Share(f[k - 1], RealtimeMaxDeviation)
    IN f[n]

\* However many validators stream prices, the feed moves no further than one
\* permitted step for every whole update interval since it was started, and its
\* two copies of the sequence number agree.
FeedIsPaced ==
    \A a \in DOMAIN realtime :
        LET steps == (realtime[a].timestamp - anchor[a].timestamp) \div UpdateInterval
        IN /\ realtime[a].sequence_number = price_sequence[a]
           /\ realtime[a].sequence_number <= steps
           /\ realtime[a].price <= Farthest(anchor[a].price, steps, 1)
           /\ realtime[a].price >= Farthest(anchor[a].price, steps, -1)

\* "Require minimum 3/5 validators to finalize", ARCHITECTURE.md: a finalized
\* price rests on as many submissions as it says.
FinalizedFromSubmissions ==
    \A k \in DOMAIN aggregated :
        aggregated[k].submissions_count
            <= Cardinality({s \in DOMAIN submissions : s[1] = k[1] /\ s[3] = k[2]})
=============================================================================
