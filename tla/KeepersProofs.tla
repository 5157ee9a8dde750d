---------------------------- MODULE KeepersProofs ----------------------------
(***************************************************************************)
(* A price executed promptly never replaces a newer one on the oracle, and *)
(* without faults no asset is longer without funding than two intervals, a *)
(* cycle and a delay, whatever the prices, the intervals and the delays.   *)
(* Every start of a settlement is one that was due or retried, and all     *)
(* three services keep their types.                                        *)
(***************************************************************************)
EXTENDS Keepers, CommonProofs

\* The constants of the feed, as single facts.
LEMMA FeedConstants ==
    /\ MarketPrices \subseteq Nat \ {0} /\ BasePrice \in Nat \ {0}
    /\ MockPrices \subseteq Nat \ {0}
    /\ FeedInterval \in Nat \ {0} /\ MaxAge \in Nat /\ FeedInterval < MaxAge
BY FeedNumbers, AgesToldApart DEF FeedNumbers, AgesToldApart

\* The reading on the chain is at least as old as the chain's last update.
FeedAged == chain.age >= chain.since

\* Time makes an age one more, or leaves it at the limit.
LEMMA AgeGrows ==
    ASSUME NEW limit \in Nat, NEW n \in 0 .. limit
    PROVE  UpTo(n, limit) \in 0 .. limit
BY DEF UpTo

FeedInv == FeedTypeOK /\ FeedAged

LEMMA FeedInitInv ==
    ASSUME FeedInit
    PROVE  FeedInv
<1>1. Asked(0) \in {Asked(n) : n \in 0 .. MaxAge}
  BY FeedConstants
<1>2. chain \in [price : AllPrices, age : 0 .. MaxAge, since : 0 .. FeedInterval]
  BY FeedConstants DEF FeedInit, AllPrices
<1>3. FeedAged
  BY FeedConstants DEF FeedInit, FeedAged
<1>4. updates \subseteq {Asked(n) : n \in 0 .. MaxAge}
  BY <1>1 DEF FeedInit
<1>5. timer \in 0 .. FeedInterval /\ submitted = {}
  BY FeedConstants DEF FeedInit, NotSet
<1>6. QED
  BY <1>2, <1>3, <1>4, <1>5 DEF FeedInit, FeedInv, FeedTypeOK

LEMMA FeedRestsInv ==
    ASSUME FeedRests
    PROVE  FeedInv
<1>1. chain \in [price : AllPrices, age : 0 .. MaxAge, since : 0 .. FeedInterval]
  BY FeedConstants DEF FeedRests, AllPrices
<1>2. FeedAged
  BY FeedConstants DEF FeedRests, FeedAged
<1>3. timer \in 0 .. FeedInterval /\ updates = {} /\ submitted = {}
  BY FeedConstants DEF FeedRests
<1>4. QED
  BY <1>1, <1>2, <1>3 DEF FeedRests, FeedInv, FeedTypeOK

LEMMA FeedNextInv ==
    ASSUME FeedInv, [FeedNext]_feedVars
    PROVE  FeedInv'
<1> USE FeedConstants
<1>1. CASE FeedTick
  <2>1. UNCHANGED <<market, calm, cache>> /\ timer' \in 0 .. FeedInterval
    <3>1. /\ UNCHANGED <<market, calm, cache>>
          /\ timer' = IF timer = NotSet THEN NotSet
                      ELSE IF timer = FeedInterval - 1 THEN 0 ELSE timer + 1
      BY <1>1 DEF FeedTick
    <3>2. timer \in 0 .. FeedInterval /\ NotSet = FeedInterval
      BY DEF FeedInv, FeedTypeOK, NotSet
    <3>3. CASE timer = NotSet
      BY <3>1, <3>2, <3>3
    <3>4. CASE timer # NotSet /\ timer = FeedInterval - 1
      BY <3>1, <3>2, <3>4
    <3>5. CASE timer # NotSet /\ timer # FeedInterval - 1
      BY <3>1, <3>2, <3>5
    <3>6. QED
      BY <3>1, <3>3, <3>4, <3>5
  <2> DEFINE age == UpTo(chain.age, MaxAge)
             ticks == UpTo(chain.since, FeedInterval)
  <2>7. chain \in [price : AllPrices, age : 0 .. MaxAge, since : 0 .. FeedInterval]
    BY DEF FeedInv, FeedTypeOK
  <2>8. age \in 0 .. MaxAge /\ ticks \in 0 .. FeedInterval
    BY <2>7 DEF UpTo
  <2>9. age >= ticks
    BY <2>7 DEF FeedInv, FeedAged, UpTo
  <2>10. chain' = [chain EXCEPT !.age = age, !.since = ticks]
    BY <1>1 DEF FeedTick
  <2> HIDE DEF age, ticks
  <2>2. chain' \in [price : AllPrices, age : 0 .. MaxAge, since : 0 .. FeedInterval]
    BY <2>7, <2>8, <2>10
  <2>3. FeedAged'
    BY <2>7, <2>9, <2>10 DEF FeedAged
  <2>4. updates' \subseteq {Asked(n) : n \in 0 .. MaxAge}
           \cup [price : MarketPrices, age : 0 .. MaxAge]
    <3>1. ASSUME NEW u \in updates
          PROVE  Older(u) \in {Asked(n) : n \in 0 .. MaxAge}
                     \cup [price : MarketPrices, age : 0 .. MaxAge]
      <4>1. CASE u \in [price : MarketPrices, age : 0 .. MaxAge]
        <5>1. Older(u) = [u EXCEPT !.age = UpTo(u.age, MaxAge)]
          BY DEF Older
        <5>2. UpTo(u.age, MaxAge) \in 0 .. MaxAge
          BY <4>1, AgeGrows
        <5>3. QED
          BY <4>1, <5>1, <5>2
      <4>2. ASSUME NEW n \in 0 .. MaxAge, u = Asked(n)
            PROVE  Older(u) \in {Asked(m) : m \in 0 .. MaxAge}
        <5>1. UpTo(n, MaxAge) \in 0 .. MaxAge
          BY AgeGrows
        <5>2. Older(u) = Asked(UpTo(n, MaxAge))
          BY <4>2 DEF Older, Asked
        <5>3. QED
          BY <5>1, <5>2
      <4>3. QED
        BY <4>1, <4>2 DEF FeedInv, FeedTypeOK
    <3>2. Asked(0) \in {Asked(n) : n \in 0 .. MaxAge}
      OBVIOUS
    <3>3. QED
      BY <1>1, <3>1, <3>2 DEF FeedTick
  <2>5. submitted' \subseteq
            [price : AllPrices, age : 0 .. MaxAge, fallback : BOOLEAN]
    <3>1. ASSUME NEW d \in submitted
          PROVE  Older(d) \in
                     [price : AllPrices, age : 0 .. MaxAge, fallback : BOOLEAN]
      <4>1. d \in [price : AllPrices, age : 0 .. MaxAge, fallback : BOOLEAN]
        BY DEF FeedInv, FeedTypeOK
      <4>2. Older(d) = [d EXCEPT !.age = UpTo(d.age, MaxAge)]
        BY DEF Older
      <4>3. UpTo(d.age, MaxAge) \in 0 .. MaxAge
        BY <4>1, AgeGrows
      <4>4. QED
        BY <4>1, <4>2, <4>3
    <3>2. QED
      BY <1>1, <3>1 DEF FeedTick
  <2>6. QED
    BY <2>1, <2>2, <2>3, <2>4, <2>5 DEF FeedInv, FeedTypeOK
<1>2. ASSUME NEW p \in MarketPrices, MarketMoves(p)
      PROVE  FeedInv'
  BY <1>2 DEF MarketMoves, FeedInv, FeedTypeOK, FeedAged
<1>3. CASE MarketRests
  BY <1>3 DEF MarketRests, FeedInv, FeedTypeOK, FeedAged
<1>4. ASSUME NEW u \in updates, ReadSource(u)
      PROVE  FeedInv'
  BY <1>4 DEF ReadSource, FeedInv, FeedTypeOK, FeedAged
<1>5. ASSUME NEW p \in AllPrices, NEW age \in 0 .. MaxAge,
             NEW fallback \in BOOLEAN, NEW u \in updates,
             updates' = updates \ {u}, TakePrice(p, age, fallback),
             UNCHANGED <<timer, market, calm, chain>>
      PROVE  FeedInv'
  <2>1. cache' \in AllPrices \cup {0}
    BY <1>5 DEF TakePrice, FeedInv, FeedTypeOK
  <2>2. submitted' \subseteq submitted \cup
            {[price |-> p, age |-> age, fallback |-> fallback]}
    BY <1>5 DEF TakePrice
  <2>3. QED
    BY <1>5, <2>1, <2>2 DEF FeedInv, FeedTypeOK, FeedAged
<1>6. ASSUME NEW u \in updates, ReceivePrice(u)
      PROVE  FeedInv'
  <2>1. u \in [price : MarketPrices, age : 0 .. MaxAge]
    BY <1>6 DEF ReceivePrice, FeedInv, FeedTypeOK, Asked
  <2>2. QED
    BY <1>5, <1>6, <2>1 DEF ReceivePrice, AllPrices
<1>7. ASSUME NEW u \in updates, FetchFails(u)
      PROVE  FeedInv'
  <2>1. (IF cache = 0 THEN BasePrice ELSE cache) \in AllPrices
    BY DEF FeedInv, FeedTypeOK, AllPrices
  <2>2. 0 \in 0 .. MaxAge /\ TRUE \in BOOLEAN
    OBVIOUS
  <2>3. /\ updates' = updates \ {u}
        /\ TakePrice(IF cache = 0 THEN BasePrice ELSE cache, 0, TRUE)
        /\ UNCHANGED <<timer, market, calm, chain>>
    BY <1>7 DEF FetchFails
  <2>4. QED
    BY <1>5, <2>1, <2>2, <2>3
<1>8. CASE SetTimer
  BY <1>8 DEF SetTimer, FeedInv, FeedTypeOK, FeedAged
<1>9. ASSUME NEW u \in updates, NEW p \in MockPrices, MocksPrice(u, p)
       PROVE  FeedInv'
  <2>1. p \in AllPrices /\ 0 \in 0 .. MaxAge /\ TRUE \in BOOLEAN
    BY DEF AllPrices
  <2>2. /\ updates' = updates \ {u}
        /\ TakePrice(p, 0, TRUE)
        /\ UNCHANGED <<timer, market, calm, chain>>
    BY <1>9 DEF MocksPrice
  <2>3. QED
    BY <1>5, <2>1, <2>2
<1>10. ASSUME NEW u \in updates, ReadsNoNumber(u)
       PROVE  FeedInv'
  BY <1>10 DEF ReadsNoNumber, FeedInv, FeedTypeOK, FeedAged
<1>11. ASSUME NEW d \in submitted, ExecutePrice(d)
      PROVE  FeedInv'
  BY <1>11 DEF ExecutePrice, FeedInv, FeedTypeOK, FeedAged
<1>12. CASE RestartFeed
  BY <1>12 DEF RestartFeed, FeedInv, FeedTypeOK, FeedAged, NotSet
<1>13. CASE UNCHANGED feedVars
  BY <1>13 DEF feedVars, FeedInv, FeedTypeOK, FeedAged
<1>14. QED
  BY <1>1, <1>2, <1>3, <1>4, <1>6, <1>7, <1>8, <1>9, <1>10, <1>11, <1>12, <1>13
     DEF FeedNext

\* A step of the services is one of the feed, or leaves it alone.
LEMMA FeedStep ==
    ASSUME [Next]_vars
    PROVE  [FeedNext]_feedVars
BY DEF Next, vars, FeedAlone, FundingAlone, DailyAlone, feedVars

LEMMA FeedInvariant == Spec => []FeedInv
<1>1. Init => FeedInv
  BY FeedInitInv, FeedRestsInv DEF Init
<1>2. FeedInv /\ [Next]_vars => FeedInv'
  BY FeedNextInv, FeedStep
<1>3. QED
  BY <1>1, <1>2, PTL DEF Spec

\* A price executed within the oracle's interval of its reading never replaces
\* one that was read later, for all prices, intervals and delays of the others,
\* however many updates overlap.  (updateAllPrices; update_realtime_price)
THEOREM FeedAlwaysAdvances == Spec => PromptPriceAdvances
<1>1. ASSUME FeedInv
      PROVE  \A d \in submitted :
                 ExecutePrice(d) /\ chain' # chain /\ ~d.fallback /\ d.age <= FeedInterval
                     => chain'.age <= chain.age
  <2>1. TAKE d \in submitted
  <2>2. HAVE ExecutePrice(d) /\ chain' # chain /\ ~d.fallback /\ d.age <= FeedInterval
  <2>3. chain.since >= FeedInterval /\ chain'.age = d.age
    BY <2>2 DEF ExecutePrice, OracleDue
  <2>4. d.age \in Nat
    BY <1>1, FeedConstants DEF FeedInv, FeedTypeOK
  <2>5. chain.age \in Nat /\ chain.since \in Nat /\ chain.age >= chain.since
    BY <1>1, FeedConstants DEF FeedInv, FeedTypeOK, FeedAged
  <2>6. QED
    BY <2>2, <2>3, <2>4, <2>5, FeedConstants
<1>2. FeedInv /\ [Next]_vars =>
          [\A d \in submitted :
               ExecutePrice(d) /\ chain' # chain /\ ~d.fallback /\ d.age <= FeedInterval
                   => chain'.age <= chain.age]_feedVars
  BY <1>1
<1>3. QED
  BY <1>2, FeedInvariant, PTL DEF Spec, PromptPriceAdvances

-----------------------------------------------------------------------------
\* The constants of the funding keeper, as single facts.
LEMMA FundingConstants ==
    /\ FundingAssets \in Nat \ {0} /\ Interval \in Nat \ {0} /\ MaxFaults \in Nat
    /\ MaxCycle \in Nat /\ MaxDelay \in Nat /\ MaxCycle + MaxDelay < Interval
    /\ RunImmediately \in SUBSET BOOLEAN
    /\ GapLimit = 2 * Interval + MaxCycle + MaxDelay /\ GapLimit \in Nat
    /\ Day = 3 * Interval /\ Day \in Nat \ {0}
    /\ PerpAssets = 1 .. FundingAssets
BY FundingNumbers DEF FundingNumbers, GapLimit, Day, PerpAssets

\* The ticks since the last hour that funding was due.
PhaseOf(time) ==
    IF time < Interval THEN time
    ELSE IF time < 2 * Interval THEN time - Interval ELSE time - 2 * Interval

LEMMA PhaseSteps ==
    ASSUME NEW c \in 0 .. Day - 1
    PROVE  /\ (c + 1) % Day \in 0 .. Day - 1
           /\ PhaseOf(c) \in 0 .. Interval - 1
           /\ PhaseOf(c) = Interval - 1 => PhaseOf((c + 1) % Day) = 0
           /\ PhaseOf(c) # Interval - 1 =>
                 /\ (c + 1) % Day \notin FundingHours
                 /\ PhaseOf((c + 1) % Day) = PhaseOf(c) + 1
           /\ PhaseOf(c) = Interval - 1 => (c + 1) % Day \in FundingHours
<1> DEFINE t == (c + 1) % Day
<1>1. Interval \in Nat \ {0} /\ Day = 3 * Interval /\ Day \in Nat \ {0} /\ c \in Nat
  BY FundingConstants
<1>2. t = IF c + 1 = Day THEN 0 ELSE c + 1
  <2>1. CASE c + 1 = Day
    BY <1>1, <2>1, SMT
  <2>2. CASE c + 1 < Day
    BY <1>1, <2>2, SMT
  <2> QED BY <1>1, <2>1, <2>2
<1> HIDE DEF t
<1>3. FundingHours = {0, Interval, 2 * Interval}
  BY DEF FundingHours
<1>4. /\ t \in 0 .. Day - 1
      /\ PhaseOf(c) \in 0 .. Interval - 1
      /\ PhaseOf(c) = Interval - 1 => PhaseOf(t) = 0 /\ t \in FundingHours
      /\ PhaseOf(c) # Interval - 1 =>
            t \notin FundingHours /\ PhaseOf(t) = PhaseOf(c) + 1
  BY <1>1, <1>2, <1>3, SMT DEF PhaseOf
<1> QED
  BY <1>4 DEF t

\* A cycle, and the cycles of a process that has just started.
LEMMA CycleTypes ==
    /\ NoCycle \in Cycle /\ NewCycle \in Cycle
    /\ \A immediate \in BOOLEAN :
          /\ Started(immediate) \in [Jobs -> Cycle]
          /\ Started(immediate)["cron"] = NoCycle
    /\ [j \in Jobs |-> NoCycle] \in [Jobs -> Cycle]
<1>1. NoCycle \in Cycle /\ NewCycle \in Cycle
  BY FundingConstants DEF Cycle, NewCycle
<1>2. QED
  BY <1>1 DEF Started, Jobs

\* What every step but those of time leaves of the types.
LEMMA FundingTypes ==
    ASSUME FundingTypeOK, [FundingNext]_fundingVars
    PROVE  FundingTypeOK'
<1>t. /\ clock \in 0 .. Day - 1
      /\ keeper \in [keys : BOOLEAN, scheduler : {"cron", "interval"}, up : BOOLEAN]
      /\ cycles \in [Jobs -> Cycle]
      /\ payments \subseteq [asset : PerpAssets, age : 0 .. MaxDelay]
      /\ since \in [PerpAssets -> 0 .. GapLimit]
      /\ disturbed \in [PerpAssets -> BOOLEAN]
      /\ faults \in 0 .. MaxFaults
  BY DEF FundingTypeOK
<1>a. \A j \in Jobs : /\ cycles[j].phase # "idle" =>
                           cycles[j] \in [asset : PerpAssets, phase : {"pay", "wait", "pause"},
                                          age : 0 .. MaxCycle]
  BY <1>t DEF Cycle, NoCycle
<1>1. CASE FundingTick
  <2>1. clock' \in 0 .. Day - 1
    BY <1>1, <1>t, PhaseSteps DEF FundingTick
  <2>2. \A j \in Jobs : Aged(j) \in Cycle
    <3> SUFFICES ASSUME NEW j \in Jobs PROVE Aged(j) \in Cycle
      OBVIOUS
    <3>1. CASE cycles[j] = NoCycle
      BY <3>1, CycleTypes DEF Aged
    <3>2. CASE cycles[j] # NoCycle
      <4>1. cycles[j] \in [asset : PerpAssets, phase : {"pay", "wait", "pause"},
                           age : 0 .. MaxCycle]
        BY <1>t, <3>2 DEF Cycle
      <4>2. cycles[j].age < MaxCycle
        BY <1>1, <3>2 DEF FundingTick
      <4>3. cycles[j].age + 1 \in 0 .. MaxCycle
        BY <4>1, <4>2, FundingConstants
      <4> QED BY <3>2, <4>1, <4>3 DEF Aged, Cycle
    <3> QED BY <3>1, <3>2
  <2>3. cycles' \in [Jobs -> Cycle]
    BY <1>1, <2>2, CycleTypes DEF FundingTick
  <2>4. disturbed' \in [PerpAssets -> BOOLEAN]
    BY <1>1, <1>t, Zenon DEF FundingTick
  <2>5. payments' \subseteq [asset : PerpAssets, age : 0 .. MaxDelay]
    <3> SUFFICES ASSUME NEW d \in payments
                 PROVE  [d EXCEPT !.age = @ + 1] \in [asset : PerpAssets, age : 0 .. MaxDelay]
      BY <1>1 DEF FundingTick
    <3>1. d.age < MaxDelay
      BY <1>1 DEF FundingTick
    <3>2. d \in [asset : PerpAssets, age : 0 .. MaxDelay]
      BY <1>t
    <3>3. d.age + 1 \in 0 .. MaxDelay
      BY <3>1, <3>2, FundingConstants
    <3> QED BY <3>2, <3>3
  <2>6. since' \in [PerpAssets -> 0 .. GapLimit]
    <3>1. \A a \in PerpAssets :
             (IF since[a] < GapLimit THEN since[a] + 1 ELSE GapLimit) \in 0 .. GapLimit
      BY <1>t, FundingConstants
    <3> QED BY <1>1, <3>1 DEF FundingTick
  <2>7. UNCHANGED <<keeper, faults>>
    BY <1>1 DEF FundingTick
  <2> QED
    BY <1>t, <2>1, <2>3, <2>4, <2>5, <2>6, <2>7 DEF FundingTypeOK
<1>2. ASSUME NEW j \in Jobs, PayFunding(j) PROVE FundingTypeOK'
  <2>1. cycles[j].phase = "pay"
    BY <1>2 DEF PayFunding, At
  <2>2. [cycles[j] EXCEPT !.phase = "wait"] \in Cycle /\ cycles[j].asset \in PerpAssets
    BY <1>a, <2>1 DEF Cycle
  <2>3. cycles' = [cycles EXCEPT ![j] = [cycles[j] EXCEPT !.phase = "wait"]]
    BY <1>2 DEF PayFunding
  <2>4. cycles' \in [Jobs -> Cycle]
    BY <1>t, <2>2, <2>3
  <2>5. payments' \subseteq [asset : PerpAssets, age : 0 .. MaxDelay]
    <3>1. 0 \in 0 .. MaxDelay
      BY FundingConstants
    <3>2. [asset |-> cycles[j].asset, age |-> 0] \in [asset : PerpAssets, age : 0 .. MaxDelay]
      BY <2>2, <3>1
    <3>3. payments' \subseteq payments \cup {[asset |-> cycles[j].asset, age |-> 0]}
      BY <1>2 DEF PayFunding
    <3> QED
      BY <1>t, <3>2, <3>3
  <2> QED
    BY <1>2, <1>t, <2>4, <2>5 DEF PayFunding, FundingTypeOK
<1>3. ASSUME NEW j \in Jobs, ApplyFundingBatch(j) PROVE FundingTypeOK'
  <2>1. cycles[j].phase = "wait"
    BY <1>3 DEF ApplyFundingBatch, At
  <2>2. [cycles[j] EXCEPT !.phase = "pause"] \in Cycle
    BY <1>a, <2>1 DEF Cycle
  <2>3. cycles' = [cycles EXCEPT ![j] = [cycles[j] EXCEPT !.phase = "pause"]]
    BY <1>3 DEF ApplyFundingBatch
  <2>4. cycles' \in [Jobs -> Cycle]
    BY <1>t, <2>2, <2>3
  <2> QED
    BY <1>3, <1>t, <2>4 DEF ApplyFundingBatch, FundingTypeOK
<1>4. ASSUME NEW j \in Jobs, NextAsset(j) PROVE FundingTypeOK'
  <2>1. cycles[j].phase = "pause"
    BY <1>4 DEF NextAsset, At
  <2>2. AfterPause(cycles[j]) \in Cycle
    <3>1. CASE cycles[j].asset = FundingAssets
      BY <3>1, CycleTypes DEF AfterPause
    <3>2. CASE cycles[j].asset # FundingAssets
      <4> DEFINE c == cycles[j]
      <4>1. c \in [asset : PerpAssets, phase : {"pay", "wait", "pause"}, age : 0 .. MaxCycle]
        BY <1>a, <2>1
      <4>2. c.asset + 1 \in PerpAssets
        BY <3>2, <4>1, FundingConstants
      <4>3. AfterPause(c) = [c EXCEPT !.asset = c.asset + 1, !.phase = "pay"]
        BY <3>2 DEF AfterPause
      <4> HIDE DEF c
      <4>4. AfterPause(c) \in Cycle
        BY <4>1, <4>2, <4>3 DEF Cycle
      <4> QED BY <4>4 DEF c
    <3> QED BY <3>1, <3>2
  <2>3. cycles' \in [Jobs -> Cycle]
    BY <1>4, <1>t, <2>2 DEF NextAsset
  <2> QED
    BY <1>4, <1>t, <2>3 DEF NextAsset, FundingTypeOK
<1>5. ASSUME NEW j \in Jobs, PayFundingFails(j) PROVE FundingTypeOK'
  <2>1. cycles[j].phase = "pay"
    BY <1>5 DEF PayFundingFails, At
  <2>2. [cycles[j] EXCEPT !.phase = "pause"] \in Cycle
    BY <1>a, <2>1 DEF Cycle
  <2>3. cycles' = [cycles EXCEPT ![j] = [cycles[j] EXCEPT !.phase = "pause"]]
    BY <1>5 DEF PayFundingFails
  <2>4. cycles' \in [Jobs -> Cycle]
    BY <1>t, <2>2, <2>3
  <2>5. faults' \in 0 .. MaxFaults
    BY <1>5, <1>t, FundingConstants DEF PayFundingFails, CanFail
  <2>6. disturbed' \in [PerpAssets -> BOOLEAN]
    BY <1>5, <1>t DEF PayFundingFails
  <2> QED
    BY <1>5, <1>t, <2>4, <2>5, <2>6 DEF PayFundingFails, FundingTypeOK
<1>6. ASSUME NEW d \in payments, ExecutePayFunding(d) PROVE FundingTypeOK'
  <2>1. since' \in [PerpAssets -> 0 .. GapLimit] /\ disturbed' \in [PerpAssets -> BOOLEAN]
    BY <1>6, <1>t, FundingConstants DEF ExecutePayFunding
  <2>2. payments' \subseteq payments /\ UNCHANGED <<clock, keeper, cycles, faults>>
    BY <1>6 DEF ExecutePayFunding, keeperVars
  <2> QED
    BY <1>t, <2>1, <2>2 DEF FundingTypeOK
<1>7. ASSUME NEW d \in payments, LosePayment(d) PROVE FundingTypeOK'
  <2>1. disturbed' \in [PerpAssets -> BOOLEAN] /\ faults' \in 0 .. MaxFaults
    BY <1>7, <1>t, FundingConstants DEF LosePayment, CanFail
  <2>2. payments' \subseteq payments /\ UNCHANGED <<clock, keeper, cycles, since>>
    BY <1>7 DEF LosePayment, keeperVars
  <2> QED
    BY <1>t, <2>1, <2>2 DEF FundingTypeOK
<1>8. CASE StopFundingKeeper
  <2>1. faults' \in 0 .. MaxFaults
    BY <1>8, <1>t, FundingConstants DEF StopFundingKeeper, CanFail
  <2>2. disturbed' \in [PerpAssets -> BOOLEAN]
    BY <1>8, <1>t, Zenon DEF StopFundingKeeper
  <2>3. cycles' \in [Jobs -> Cycle]
    BY <1>8, CycleTypes DEF StopFundingKeeper
  <2>4. keeper' \in [keys : BOOLEAN, scheduler : {"cron", "interval"}, up : BOOLEAN]
    BY <1>8, <1>t DEF StopFundingKeeper
  <2> QED
    BY <1>8, <1>t, <2>1, <2>2, <2>3, <2>4 DEF StopFundingKeeper, FundingTypeOK
<1>9. CASE StartFundingKeeper
  <2>1. cycles' \in [Jobs -> Cycle]
    BY <1>9, CycleTypes, FundingConstants DEF StartFundingKeeper
  <2>2. keeper' \in [keys : BOOLEAN, scheduler : {"cron", "interval"}, up : BOOLEAN]
    BY <1>9, <1>t DEF StartFundingKeeper
  <2> QED
    BY <1>9, <1>t, <2>1, <2>2 DEF StartFundingKeeper, FundingTypeOK
<1>10. CASE UNCHANGED fundingVars
  BY <1>10 DEF fundingVars, keeperVars, FundingTypeOK
<1> QED
  BY <1>1, <1>2, <1>3, <1>4, <1>5, <1>6, <1>7, <1>8, <1>9, <1>10 DEF FundingNext, CycleStep

-----------------------------------------------------------------------------
\* The cycle of the last hour has the asset still before it.
Pending(a) ==
    LET c == cycles["cron"] IN
    /\ c # NoCycle /\ c.age = PhaseOf(clock)
    /\ c.asset < a \/ (c.asset = a /\ c.phase = "pay")

\* It has sent its payment.
SentFor(a) ==
    \E d \in payments :
        d.asset = a /\ d.age <= PhaseOf(clock) /\ PhaseOf(clock) <= MaxCycle + d.age

\* Since the last hour a payment has run, whether it came too early or not; or
\* it is still to come, and one had run in the interval before.
InTime(a) ==
    \/ since[a] < Interval + PhaseOf(clock)
    \/ (Pending(a) \/ SentFor(a)) /\ since[a] < 2 * Interval + PhaseOf(clock)

GapInv ==
    /\ FundingTypeOK
    /\ ~keeper.up => cycles["cron"] = NoCycle
    /\ keeper.keys => \A a \in PerpAssets : disturbed[a] \/ InTime(a)

\* The types, one by one.
LEMMA FundingFacts ==
    ASSUME FundingTypeOK
    PROVE  /\ clock \in 0 .. Day - 1 /\ PhaseOf(clock) \in 0 .. Interval - 1
           /\ "cron" \in Jobs /\ DOMAIN cycles = Jobs
           /\ cycles["cron"] # NoCycle =>
                 cycles["cron"] \in [asset : PerpAssets, phase : {"pay", "wait", "pause"},
                                     age : 0 .. MaxCycle]
           /\ \A a \in PerpAssets : since[a] \in 0 .. GapLimit /\ disturbed[a] \in BOOLEAN
           /\ DOMAIN since = PerpAssets /\ DOMAIN disturbed = PerpAssets
           /\ \A d \in payments : d \in [asset : PerpAssets, age : 0 .. MaxDelay]
<1>1. PhaseOf(clock) \in 0 .. Interval - 1
  BY PhaseSteps DEF FundingTypeOK
<1>2. QED
  BY <1>1 DEF FundingTypeOK, Cycle, Jobs

\* In time is less than two intervals and what the network takes.
LEMMA InTimeBounds ==
    ASSUME FundingTypeOK, NEW a \in PerpAssets, InTime(a)
    PROVE  since[a] < GapLimit
<1> DEFINE p == PhaseOf(clock)
<1>1. /\ p \in 0 .. Interval - 1 /\ since[a] \in Nat
      /\ Interval \in Nat /\ MaxCycle \in Nat /\ MaxDelay \in Nat
      /\ GapLimit = 2 * Interval + MaxCycle + MaxDelay
  BY FundingFacts, FundingConstants
<1>2. CASE since[a] < Interval + p
  BY <1>1, <1>2
<1>3. CASE since[a] < 2 * Interval + p /\ Pending(a)
  <2>1. p \in 0 .. MaxCycle
    BY <1>3, FundingFacts DEF Pending
  <2> QED BY <1>1, <1>3, <2>1
<1>4. CASE since[a] < 2 * Interval + p /\ SentFor(a)
  <2>1. PICK d \in payments : p <= MaxCycle + d.age
    BY <1>4 DEF SentFor
  <2>2. d.age \in 0 .. MaxDelay
    BY <2>1, FundingFacts
  <2> QED BY <1>1, <1>4, <2>1, <2>2
<1>5. QED
  BY <1>2, <1>3, <1>4 DEF InTime

\* A step that leaves the time alone keeps an asset in time if it leaves alone
\* what is still to come for it.
LEMMA InTimeStays ==
    ASSUME NEW a, InTime(a), UNCHANGED <<clock, since[a]>>,
           Pending(a) => (Pending(a) \/ SentFor(a))', SentFor(a) => SentFor(a)'
    PROVE  InTime(a)'
<1>1. PhaseOf(clock)' = PhaseOf(clock) /\ since'[a] = since[a]
  BY DEF PhaseOf
<1>2. QED
  BY <1>1 DEF InTime

LEMMA GapStep ==
    ASSUME GapInv, [FundingNext]_fundingVars
    PROVE  GapInv'
<1>t. FundingTypeOK /\ FundingTypeOK'
  BY FundingTypes DEF GapInv
<1>f. /\ clock \in 0 .. Day - 1 /\ PhaseOf(clock) \in 0 .. Interval - 1
      /\ "cron" \in Jobs /\ DOMAIN cycles = Jobs
      /\ cycles["cron"] # NoCycle =>
            cycles["cron"] \in [asset : PerpAssets, phase : {"pay", "wait", "pause"},
                                age : 0 .. MaxCycle]
      /\ \A a \in PerpAssets : since[a] \in 0 .. GapLimit /\ disturbed[a] \in BOOLEAN
      /\ DOMAIN since = PerpAssets /\ DOMAIN disturbed = PerpAssets
      /\ \A d \in payments : d \in [asset : PerpAssets, age : 0 .. MaxDelay]
  BY <1>t, FundingFacts
<1>i. /\ ~keeper.up => cycles["cron"] = NoCycle
      /\ keeper.keys => \A a \in PerpAssets : disturbed[a] \/ InTime(a)
  BY DEF GapInv
<1>n. NoCycle.phase = "idle" /\ NoCycle.asset = 0
  BY DEF NoCycle
<1>1. CASE FundingTick
  <2> DEFINE time == (clock + 1) % Day
             p == PhaseOf(clock)
             q == PhaseOf(time)
  <2>1. /\ clock' = time /\ keeper' = keeper
        /\ payments' = {[d EXCEPT !.age = d.age + 1] : d \in payments}
        /\ since' = [a \in PerpAssets |->
                        IF since[a] < GapLimit THEN since[a] + 1 ELSE GapLimit]
        /\ \A d \in payments : d.age < MaxDelay
        /\ cycles["cron"] # NoCycle => cycles["cron"].age < MaxCycle
    BY <1>1, <1>f DEF FundingTick
  <2>2. PICK fires \in Fires(time) :
          /\ cycles' = [j \in Jobs |->
                 IF j = "cron" /\ fires THEN NewCycle ELSE Aged(j)]
          /\ disturbed' = [a \in PerpAssets |->
                 disturbed[a] \/ (time \in FundingHours /\ ~fires)]
    BY <1>1 DEF FundingTick
  <2>3. /\ p = Interval - 1 => q = 0 /\ time \in FundingHours
        /\ p # Interval - 1 => q = p + 1 /\ time \notin FundingHours
        /\ PhaseOf(clock)' = q
    BY <1>f, <2>1, PhaseSteps DEF PhaseOf
  <2>4. p \in 0 .. Interval - 1 /\ Interval \in Nat \ {0} /\ MaxCycle \in Nat
        /\ MaxDelay \in Nat /\ MaxCycle + MaxDelay < Interval
    BY <1>f, FundingConstants
  <2>5. ~keeper'.up => cycles'["cron"] = NoCycle
    <3> SUFFICES ASSUME ~keeper'.up PROVE cycles'["cron"] = NoCycle
      OBVIOUS
    <3>1. fires = FALSE /\ cycles["cron"] = NoCycle
      BY <1>i, <2>1, <2>2 DEF Fires
    <3> QED BY <1>f, <2>2, <3>1 DEF Aged
  <2> HIDE DEF time, p, q
  <2>6. ASSUME keeper'.keys, NEW a \in PerpAssets, ~disturbed'[a]
        PROVE  InTime(a)'
    <3>1. ~disturbed[a] /\ (time \in FundingHours => fires)
      BY <2>2, <2>6
    <3>2. InTime(a) /\ since[a] < GapLimit
      BY <1>t, <1>i, <2>1, <2>6, <3>1, InTimeBounds
    <3>3. since'[a] = since[a] + 1 /\ since[a] \in Nat
      BY <1>f, <2>1, <3>2, FundingConstants
    <3>4. CASE p = Interval - 1
      <4>1. ~Pending(a)
        BY <1>f, <2>1, <2>4, <3>4 DEF Pending, p
      <4>2. ~SentFor(a)
        <5> SUFFICES ASSUME NEW d \in payments, p <= MaxCycle + d.age PROVE FALSE
          BY DEF SentFor, p
        <5>1. d.age \in Nat /\ d.age < MaxDelay
          BY <1>f, <2>1
        <5> QED BY <2>4, <3>4, <5>1
      <4>3. since[a] < Interval + p
        BY <3>2, <4>1, <4>2 DEF InTime, p
      <4>4. q = 0 /\ fires
        BY <2>3, <3>1, <3>4
      <4>5. cycles'["cron"] = NewCycle
        BY <1>f, <2>2, <4>4
      <4>6. Pending(a)'
        <5>1. NewCycle.age = 0 /\ NewCycle.asset = 1 /\ NewCycle.phase = "pay"
              /\ NewCycle # NoCycle
          BY DEF NewCycle, NoCycle
        <5>2. a \in Nat /\ a >= 1
          BY FundingConstants
        <5> QED BY <2>3, <4>4, <4>5, <5>1, <5>2 DEF Pending
      <4>7. since'[a] < 2 * Interval + q
        BY <2>4, <3>3, <3>4, <4>3, <4>4
      <4> QED BY <2>3, <4>6, <4>7 DEF InTime
    <3>5. CASE p # Interval - 1
      <4>1. q = p + 1 /\ fires = FALSE
        BY <2>3, <2>2, <3>5 DEF Fires
      <4>2. Pending(a) => Pending(a)'
        <5> SUFFICES ASSUME Pending(a) PROVE Pending(a)'
          OBVIOUS
        <5> DEFINE c == cycles["cron"]
        <5>1. /\ c # NoCycle /\ c.age = p
              /\ c.asset < a \/ (c.asset = a /\ c.phase = "pay")
              /\ c \in [asset : PerpAssets, phase : {"pay", "wait", "pause"},
                        age : 0 .. MaxCycle]
          BY <1>f DEF Pending, p
        <5>2. cycles'["cron"] = [c EXCEPT !.age = c.age + 1]
          BY <1>f, <2>2, <4>1, <5>1 DEF Aged
        <5> HIDE DEF c
        <5>3. /\ cycles'["cron"].age = q /\ cycles'["cron"].asset = c.asset
              /\ cycles'["cron"].phase = c.phase
          BY <4>1, <5>1, <5>2
        <5>4. cycles'["cron"] # NoCycle
          BY <1>n, <5>1, <5>3
        <5> QED BY <2>3, <5>1, <5>3, <5>4 DEF Pending
      <4>3. SentFor(a) => SentFor(a)'
        <5> SUFFICES ASSUME SentFor(a) PROVE SentFor(a)'
          OBVIOUS
        <5>1. PICK d \in payments : d.asset = a /\ d.age <= p /\ p <= MaxCycle + d.age
          BY DEF SentFor, p
        <5> DEFINE e == [d EXCEPT !.age = d.age + 1]
        <5>2. e \in payments' /\ e.asset = a /\ e.age = d.age + 1 /\ d.age \in Nat
          BY <1>f, <2>1, <5>1
        <5> HIDE DEF e
        <5>3. e.age <= q /\ q <= MaxCycle + e.age
          BY <2>4, <4>1, <5>1, <5>2
        <5> QED BY <2>3, <5>2, <5>3 DEF SentFor
      <4>4. since[a] < Interval + p => since'[a] < Interval + q
        BY <2>4, <3>3, <4>1
      <4>5. since[a] < 2 * Interval + p => since'[a] < 2 * Interval + q
        BY <2>4, <3>3, <4>1
      <4> QED BY <2>3, <3>2, <4>2, <4>3, <4>4, <4>5 DEF InTime, p
    <3> QED BY <3>4, <3>5
  <2>7. keeper'.keys => \A a \in PerpAssets : disturbed'[a] \/ InTime(a)'
    BY <2>6
  <2> QED BY <1>t, <2>5, <2>7 DEF GapInv
<1>2. ASSUME NEW j \in Jobs, PayFunding(j) PROVE GapInv'
  <2> DEFINE c == cycles[j]
             next == [c EXCEPT !.phase = "wait"]
  <2>1. /\ c.phase = "pay" /\ keeper.up
        /\ cycles' = [cycles EXCEPT ![j] = next]
        /\ UNCHANGED <<clock, keeper, since, disturbed>>
        /\ payments' = payments \cup
               IF keeper.keys THEN {[asset |-> c.asset, age |-> 0]} ELSE {}
    BY <1>2 DEF PayFunding, At
  <2>2. ASSUME keeper.keys, NEW a \in PerpAssets, InTime(a) PROVE InTime(a)'
    <3>1. SentFor(a) => SentFor(a)'
      BY <2>1 DEF SentFor, PhaseOf
    <3>2. Pending(a) => (Pending(a) \/ SentFor(a))'
      <4> SUFFICES ASSUME Pending(a) PROVE (Pending(a) \/ SentFor(a))'
        OBVIOUS
      <4>p. PhaseOf(clock)' = PhaseOf(clock)
        BY <2>1 DEF PhaseOf
      <4>1. CASE j # "cron"
        <5>1. cycles'["cron"] = cycles["cron"]
          BY <2>1, <4>1
        <5> QED BY <4>p, <5>1 DEF Pending
      <4>2. CASE j = "cron" /\ c.asset = a
        <5> DEFINE d == [asset |-> a, age |-> 0]
        <5>1. d \in payments' /\ d.asset = a /\ d.age = 0
          BY <2>1, <2>2, <4>2
        <5> HIDE DEF d
        <5>2. c.age = PhaseOf(clock) /\ c.age \in 0 .. MaxCycle
          BY <1>f, <4>2 DEF Pending
        <5>3. 0 <= PhaseOf(clock) /\ PhaseOf(clock) <= MaxCycle + 0
          BY <5>2, FundingConstants
        <5> QED BY <4>p, <5>1, <5>3 DEF SentFor
      <4>3. CASE j = "cron" /\ c.asset # a
        <5>1. /\ c # NoCycle /\ c.age = PhaseOf(clock) /\ c.asset < a
              /\ c \in [asset : PerpAssets, phase : {"pay", "wait", "pause"},
                        age : 0 .. MaxCycle]
          BY <1>f, <4>3 DEF Pending
        <5> HIDE DEF c
        <5>2. next.age = c.age /\ next.asset = c.asset /\ next.phase = "wait"
          BY <5>1
        <5>3. cycles'["cron"] = next
          BY <1>f, <2>1, <4>3
        <5>4. next # NoCycle
          BY <1>n, <5>2
        <5> HIDE DEF next
        <5> QED BY <4>p, <5>1, <5>2, <5>3, <5>4 DEF Pending
      <4> QED BY <4>1, <4>2, <4>3
    <3>3. UNCHANGED <<clock, since[a]>>
      BY <2>1
    <3> QED BY <2>2, <3>1, <3>2, <3>3, InTimeStays
  <2> QED BY <1>t, <1>i, <2>1, <2>2 DEF GapInv
<1>3. ASSUME NEW j \in Jobs, ApplyFundingBatch(j) PROVE GapInv'
  <2> DEFINE c == cycles[j]
             next == [c EXCEPT !.phase = "pause"]
  <2>1. /\ c.phase = "wait" /\ keeper.up
        /\ cycles' = [cycles EXCEPT ![j] = next]
        /\ UNCHANGED <<clock, keeper, since, disturbed, payments>>
    BY <1>3 DEF ApplyFundingBatch, At
  <2>2. ASSUME NEW a \in PerpAssets, InTime(a) PROVE InTime(a)'
    <3>1. SentFor(a) => SentFor(a)'
      BY <2>1 DEF SentFor, PhaseOf
    <3>2. Pending(a) => Pending(a)'
      <4> SUFFICES ASSUME Pending(a) PROVE Pending(a)'
        OBVIOUS
      <4>p. PhaseOf(clock)' = PhaseOf(clock)
        BY <2>1 DEF PhaseOf
      <4>1. CASE j # "cron"
        <5>1. cycles'["cron"] = cycles["cron"]
          BY <2>1, <4>1
        <5> QED BY <4>p, <5>1 DEF Pending
      <4>2. CASE j = "cron"
        <5>1. /\ c # NoCycle /\ c.age = PhaseOf(clock) /\ c.asset < a
              /\ c \in [asset : PerpAssets, phase : {"pay", "wait", "pause"},
                        age : 0 .. MaxCycle]
          BY <1>f, <2>1, <4>2 DEF Pending
        <5> HIDE DEF c
        <5>2. next.age = c.age /\ next.asset = c.asset /\ next.phase = "pause"
          BY <5>1
        <5>3. cycles'["cron"] = next
          BY <1>f, <2>1, <4>2
        <5>4. next # NoCycle
          BY <1>n, <5>2
        <5> HIDE DEF next
        <5> QED BY <4>p, <5>1, <5>2, <5>3, <5>4 DEF Pending
      <4> QED BY <4>1, <4>2
    <3>3. UNCHANGED <<clock, since[a]>>
      BY <2>1
    <3> QED BY <2>2, <3>1, <3>2, <3>3, InTimeStays
  <2> QED BY <1>t, <1>i, <2>1, <2>2 DEF GapInv
<1>4. ASSUME NEW j \in Jobs, NextAsset(j) PROVE GapInv'
  <2> DEFINE c == cycles[j]
  <2>1. /\ c.phase = "pause" /\ keeper.up
        /\ cycles' = [cycles EXCEPT ![j] = AfterPause(c)]
        /\ UNCHANGED <<clock, keeper, since, disturbed, payments>>
    BY <1>4 DEF NextAsset, At
  <2>2. ASSUME NEW a \in PerpAssets, InTime(a) PROVE InTime(a)'
    <3>1. SentFor(a) => SentFor(a)'
      BY <2>1 DEF SentFor, PhaseOf
    <3>2. Pending(a) => Pending(a)'
      <4> SUFFICES ASSUME Pending(a) PROVE Pending(a)'
        OBVIOUS
      <4>p. PhaseOf(clock)' = PhaseOf(clock)
        BY <2>1 DEF PhaseOf
      <4>1. CASE j # "cron"
        <5>1. cycles'["cron"] = cycles["cron"]
          BY <2>1, <4>1
        <5> QED BY <4>p, <5>1 DEF Pending
      <4>2. CASE j = "cron"
        <5>1. /\ c # NoCycle /\ c.age = PhaseOf(clock) /\ c.asset < a
              /\ c \in [asset : PerpAssets, phase : {"pay", "wait", "pause"},
                        age : 0 .. MaxCycle]
          BY <1>f, <2>1, <4>2 DEF Pending
        <5> DEFINE next == [c EXCEPT !.asset = c.asset + 1, !.phase = "pay"]
        <5>a. c.asset \in Nat /\ a \in Nat /\ c.asset < FundingAssets
          BY <5>1, FundingConstants
        <5>2. cycles'["cron"] = next
          <6>1. AfterPause(c) = next
            BY <5>a DEF AfterPause
          <6> QED BY <1>f, <2>1, <4>2, <6>1
        <5> HIDE DEF c
        <5>3. next.age = c.age /\ next.asset = c.asset + 1 /\ next.phase = "pay"
          BY <5>1
        <5>4. next # NoCycle
          BY <1>n, <5>3
        <5>5. c.asset + 1 < a \/ c.asset + 1 = a
          BY <5>1, <5>a
        <5> HIDE DEF next
        <5> QED BY <4>p, <5>1, <5>2, <5>3, <5>4, <5>5 DEF Pending
      <4> QED BY <4>1, <4>2
    <3>3. UNCHANGED <<clock, since[a]>>
      BY <2>1
    <3> QED BY <2>2, <3>1, <3>2, <3>3, InTimeStays
  <2> QED BY <1>t, <1>i, <2>1, <2>2 DEF GapInv
<1>5. ASSUME NEW j \in Jobs, PayFundingFails(j) PROVE GapInv'
  <2> DEFINE c == cycles[j]
             next == [c EXCEPT !.phase = "pause"]
  <2>1. /\ c.phase = "pay" /\ keeper.up
        /\ cycles' = [cycles EXCEPT ![j] = next]
        /\ disturbed' = [disturbed EXCEPT ![c.asset] = TRUE]
        /\ UNCHANGED <<clock, keeper, since, payments>>
    BY <1>5 DEF PayFundingFails, At
  <2>2. ASSUME NEW a \in PerpAssets, InTime(a), ~disturbed'[a]
        PROVE  InTime(a)' /\ ~disturbed[a]
    <3>0. c.asset # a /\ ~disturbed[a]
      BY <1>f, <2>1, <2>2
    <3>1. SentFor(a) => SentFor(a)'
      BY <2>1 DEF SentFor, PhaseOf
    <3>2. Pending(a) => Pending(a)'
      <4> SUFFICES ASSUME Pending(a) PROVE Pending(a)'
        OBVIOUS
      <4>p. PhaseOf(clock)' = PhaseOf(clock)
        BY <2>1 DEF PhaseOf
      <4>1. CASE j # "cron"
        <5>1. cycles'["cron"] = cycles["cron"]
          BY <2>1, <4>1
        <5> QED BY <4>p, <5>1 DEF Pending
      <4>2. CASE j = "cron"
        <5>1. /\ c # NoCycle /\ c.age = PhaseOf(clock) /\ c.asset < a
              /\ c \in [asset : PerpAssets, phase : {"pay", "wait", "pause"},
                        age : 0 .. MaxCycle]
          BY <1>f, <3>0, <4>2 DEF Pending
        <5> HIDE DEF c
        <5>2. next.age = c.age /\ next.asset = c.asset /\ next.phase = "pause"
          BY <5>1
        <5>3. cycles'["cron"] = next
          BY <1>f, <2>1, <4>2
        <5>4. next # NoCycle
          BY <1>n, <5>2
        <5> HIDE DEF next
        <5> QED BY <4>p, <5>1, <5>2, <5>3, <5>4 DEF Pending
      <4> QED BY <4>1, <4>2
    <3>3. UNCHANGED <<clock, since[a]>>
      BY <2>1
    <3> QED BY <2>2, <3>0, <3>1, <3>2, <3>3, InTimeStays
  <2>3. \A a \in PerpAssets : ~disturbed'[a] => ~disturbed[a]
    BY <1>f, <2>1
  <2>4. keeper'.keys => \A a \in PerpAssets : disturbed'[a] \/ InTime(a)'
    BY <1>i, <2>1, <2>2, <2>3
  <2> QED BY <1>t, <1>i, <2>1, <2>4 DEF GapInv
<1>6. ASSUME NEW d \in payments, ExecutePayFunding(d) PROVE GapInv'
  <2> DEFINE early == since[d.asset] < Interval
  <2>1. /\ payments' = payments \ {d}
        /\ since' = IF early THEN since ELSE [since EXCEPT ![d.asset] = 0]
        /\ disturbed' = IF early THEN disturbed
                        ELSE [disturbed EXCEPT ![d.asset] = FALSE]
        /\ UNCHANGED <<clock, keeper, cycles>>
    BY <1>6 DEF ExecutePayFunding, keeperVars
  <2>2. PhaseOf(clock)' = PhaseOf(clock)
    BY <2>1 DEF PhaseOf
  <2>3. InTime(d.asset)'
    <3>1. d.asset \in PerpAssets
      BY <1>f
    <3>2. since'[d.asset] < Interval
      BY <1>f, <2>1, <3>1, FundingConstants
    <3>3. since'[d.asset] \in Nat /\ PhaseOf(clock) \in Nat /\ Interval \in Nat
      BY <1>f, <2>1, <3>1, FundingConstants
    <3> QED BY <2>2, <3>2, <3>3 DEF InTime
  <2>4. ASSUME NEW a \in PerpAssets, a # d.asset, InTime(a) PROVE InTime(a)'
    <3>1. SentFor(a) => SentFor(a)'
      BY <2>1, <2>2, <2>4 DEF SentFor
    <3>2. Pending(a) => Pending(a)'
      BY <2>1, <2>2 DEF Pending
    <3>3. UNCHANGED <<clock, since[a]>>
      BY <1>f, <2>1, <2>4
    <3> QED BY <2>4, <3>1, <3>2, <3>3, InTimeStays
  <2>5. \A a \in PerpAssets : a # d.asset => disturbed'[a] = disturbed[a]
    BY <1>f, <2>1
  <2>6. keeper'.keys => \A a \in PerpAssets : disturbed'[a] \/ InTime(a)'
    BY <1>i, <2>1, <2>3, <2>4, <2>5
  <2> QED BY <1>t, <1>i, <2>1, <2>6 DEF GapInv
<1>7. ASSUME NEW d \in payments, LosePayment(d) PROVE GapInv'
  <2>1. /\ payments' = payments \ {d}
        /\ disturbed' = [disturbed EXCEPT ![d.asset] = TRUE]
        /\ UNCHANGED <<clock, keeper, cycles, since>>
    BY <1>7 DEF LosePayment, keeperVars
  <2>2. PhaseOf(clock)' = PhaseOf(clock)
    BY <2>1 DEF PhaseOf
  <2>3. disturbed'[d.asset] = TRUE
    BY <1>f, <2>1
  <2>4. ASSUME NEW a \in PerpAssets, a # d.asset, InTime(a) PROVE InTime(a)'
    <3>1. SentFor(a) => SentFor(a)'
      BY <2>1, <2>2, <2>4 DEF SentFor
    <3>2. Pending(a) => Pending(a)'
      BY <2>1, <2>2 DEF Pending
    <3>3. UNCHANGED <<clock, since[a]>>
      BY <2>1
    <3> QED BY <2>4, <3>1, <3>2, <3>3, InTimeStays
  <2>5. \A a \in PerpAssets : a # d.asset => disturbed'[a] = disturbed[a]
    BY <1>f, <2>1
  <2>6. keeper'.keys => \A a \in PerpAssets : disturbed'[a] \/ InTime(a)'
    BY <1>i, <2>1, <2>3, <2>4, <2>5
  <2> QED BY <1>t, <1>i, <2>1, <2>6 DEF GapInv
<1>8. CASE StopFundingKeeper
  <2>1. /\ keeper' = [keeper EXCEPT !.up = FALSE]
        /\ cycles' = [j \in Jobs |-> NoCycle]
        /\ disturbed' = [a \in PerpAssets |->
               disturbed[a] \/ \E j \in Jobs : cycles[j] # NoCycle]
        /\ UNCHANGED <<clock, payments, since>>
    BY <1>8 DEF StopFundingKeeper
  <2>2. keeper'.keys = keeper.keys /\ cycles'["cron"] = NoCycle
    BY <1>t, <1>f, <2>1 DEF FundingTypeOK
  <2>3. ASSUME NEW a \in PerpAssets, InTime(a), ~disturbed'[a]
        PROVE  InTime(a)'
    <3>1. cycles["cron"] = NoCycle
      BY <1>f, <2>1, <2>3
    <3>2. ~Pending(a)
      BY <3>1 DEF Pending
    <3>3. SentFor(a) => SentFor(a)'
      BY <2>1 DEF SentFor, PhaseOf
    <3>4. UNCHANGED <<clock, since[a]>>
      BY <2>1
    <3> QED BY <2>3, <3>2, <3>3, <3>4, InTimeStays
  <2>4. \A a \in PerpAssets : ~disturbed'[a] => ~disturbed[a]
    BY <2>1
  <2>5. keeper'.keys => \A a \in PerpAssets : disturbed'[a] \/ InTime(a)'
    BY <1>i, <2>2, <2>3, <2>4
  <2> QED BY <1>t, <2>2, <2>5 DEF GapInv
<1>9. CASE StartFundingKeeper
  <2>1. /\ ~keeper.up /\ keeper' = [keeper EXCEPT !.up = TRUE]
        /\ UNCHANGED <<clock, payments, since, disturbed>>
    BY <1>9 DEF StartFundingKeeper
  <2>2. keeper'.keys = keeper.keys /\ keeper'.up
    BY <1>t, <2>1 DEF FundingTypeOK
  <2>3. cycles["cron"] = NoCycle
    BY <1>i, <2>1
  <2>4. ASSUME NEW a \in PerpAssets, InTime(a) PROVE InTime(a)'
    <3>1. ~Pending(a)
      BY <2>3 DEF Pending
    <3>2. SentFor(a) => SentFor(a)'
      BY <2>1 DEF SentFor, PhaseOf
    <3>3. UNCHANGED <<clock, since[a]>>
      BY <2>1
    <3> QED BY <2>4, <3>1, <3>2, <3>3, InTimeStays
  <2>5. keeper'.keys => \A a \in PerpAssets : disturbed'[a] \/ InTime(a)'
    BY <1>i, <2>1, <2>2, <2>4
  <2> QED BY <1>t, <2>2, <2>5 DEF GapInv
<1>10. CASE UNCHANGED fundingVars
  <2>1. UNCHANGED <<clock, keeper, cycles, payments, since, disturbed>>
    BY <1>10 DEF fundingVars, keeperVars
  <2>2. \A a \in PerpAssets : InTime(a) => InTime(a)'
    BY <2>1 DEF InTime, Pending, SentFor, PhaseOf
  <2> QED BY <1>t, <1>i, <2>1, <2>2 DEF GapInv
<1> QED
  BY <1>1, <1>2, <1>3, <1>4, <1>5, <1>6, <1>7, <1>8, <1>9, <1>10 DEF FundingNext, CycleStep

\* A step of the services is one of the funding keeper, or leaves it alone.
LEMMA FundingStep ==
    ASSUME [Next]_vars
    PROVE  [FundingNext]_fundingVars
BY DEF Next, vars, FeedAlone, FundingAlone, DailyAlone, fundingVars, keeperVars

LEMMA GapInit ==
    ASSUME Init
    PROVE  GapInv
<1>1. CASE FundingInit
  <2>1. /\ clock \in 0 .. Day - 1
        /\ keeper \in [keys : BOOLEAN, scheduler : {"cron", "interval"}, up : BOOLEAN]
        /\ keeper.up
        /\ payments = {} /\ faults \in 0 .. MaxFaults
        /\ disturbed = [a \in PerpAssets |-> TRUE]
    BY <1>1, FundingConstants DEF FundingInit
  <2>2. cycles \in [Jobs -> Cycle]
    BY <1>1, CycleTypes, FundingConstants DEF FundingInit
  <2>3. since \in [PerpAssets -> 0 .. GapLimit]
    <3>1. 0 \in 0 .. GapLimit /\ Interval \in 0 .. GapLimit
      BY FundingConstants
    <3> QED BY <1>1, <3>1 DEF FundingInit
  <2> QED BY <2>1, <2>2, <2>3 DEF GapInv, FundingTypeOK
<1>2. CASE FundingRests
  <2>1. /\ clock \in 0 .. Day - 1
        /\ keeper \in [keys : BOOLEAN, scheduler : {"cron", "interval"}, up : BOOLEAN]
        /\ ~keeper.keys /\ payments = {} /\ faults \in 0 .. MaxFaults
        /\ disturbed \in [PerpAssets -> BOOLEAN]
    BY <1>2, FundingConstants DEF FundingRests
  <2>2. cycles \in [Jobs -> Cycle] /\ cycles["cron"] = NoCycle
    BY <1>2, CycleTypes DEF FundingRests
  <2>3. since \in [PerpAssets -> 0 .. GapLimit]
    BY <1>2, FundingConstants DEF FundingRests
  <2> QED BY <2>1, <2>2, <2>3 DEF GapInv, FundingTypeOK
<1>3. QED
  BY <1>1, <1>2 DEF Init

LEMMA GapInvariant == Spec => []GapInv
<1>1. Init => GapInv
  BY GapInit
<1>2. GapInv /\ [Next]_vars => GapInv'
  BY GapStep, FundingStep
<1>3. QED
  BY <1>1, <1>2, PTL DEF Spec

\* Nothing the schedules, slow cycles and slow blocks do keeps an asset without
\* funding for longer than two intervals and what the network takes, for any
\* number of assets and any interval.  (main, executeFundingCycle)
THEOREM GapAlwaysBounded == Spec => []GapBounded
<1>1. GapInv => GapBounded
  BY InTimeBounds DEF GapInv, GapBounded
<1>2. QED
  BY <1>1, GapInvariant, PTL

-----------------------------------------------------------------------------
\* The daily services.  The constants, as single facts.
LEMMA DailyConstants ==
    /\ DailyAssets \in Nat \ {0} /\ DayLength \in Nat \ {0}
    /\ RetryDelay \in Nat \ {0} /\ MaxStarts \in Nat \ {0}
BY DailyNumbers DEF DailyNumbers

\* The runs pending are counted up timer after timer.
Delays == [1 .. RetryDelay -> Nat]

IsCount(f, timers) ==
    /\ f \in [0 .. RetryDelay -> Nat]
    /\ f[0] = 0
    /\ \A k \in 1 .. RetryDelay : f[k] = f[k - 1] + timers[k]

LEMMA PendingCounts ==
    ASSUME NEW timers \in Delays
    PROVE  \E f : IsCount(f, timers) /\ RunsPending(timers) = f[RetryDelay]
<1> DEFINE n == RetryDelay
           V == Nat
           step == [k \in 1 .. n |-> [c \in V |-> c + timers[k]]]
           Is(f) == f = [k \in 0 .. n |-> IF k = 0 THEN 0 ELSE f[k - 1] + timers[k]]
<1>1. n \in Nat /\ \A k \in 1 .. n : timers[k] \in Nat
  BY DailyConstants DEF Delays
<1>2. step \in Steps(V, n) /\ \A k \in 1 .. n, c \in V : step[k][c] = c + timers[k]
  BY <1>1 DEF Steps
<1> HIDE DEF step, V, n
<1>3. PICK f : IsRecursion(f, V, 0, n, step)
  <2>1. 0 \in V
    BY DEF V
  <2> QED BY <1>1, <1>2, <2>1, RecursionExists
<1>4. f \in [0 .. n -> V] /\ f[0] = 0 /\ \A k \in 1 .. n : f[k] = step[k][f[k - 1]]
  BY <1>3 DEF IsRecursion
<1>5. \A k \in 1 .. n : f[k] = f[k - 1] + timers[k]
  <2>1. \A k \in 1 .. n : k - 1 \in 0 .. n
    BY <1>1
  <2> QED BY <1>2, <1>4, <2>1
<1>6. Is(f)
  <2>1. f = [k \in 0 .. n |-> f[k]]
    BY <1>4
  <2>2. \A k \in 0 .. n : f[k] = IF k = 0 THEN 0 ELSE f[k - 1] + timers[k]
    BY <1>1, <1>4, <1>5
  <2> QED BY <2>1, <2>2
<1> DEFINE sum == CHOOSE g : Is(g)
<1>7. Is(sum)
  <2> HIDE DEF Is
  <2> QED BY <1>6
<1>8. RunsPending(timers) = sum[n]
  BY DEF RunsPending, n
<1> HIDE DEF sum
<1>9. \A k \in 0 .. n : sum[k] = IF k = 0 THEN 0 ELSE sum[k - 1] + timers[k]
  BY <1>7
<1>10. sum[0] = 0 /\ \A k \in 1 .. n : sum[k] = sum[k - 1] + timers[k]
  <2>1. 0 \in 0 .. n /\ \A k \in 1 .. n : k \in 0 .. n /\ k # 0
    BY <1>1
  <2> QED BY <1>9, <2>1
<1>11. \A k \in 0 .. n : sum[k] = f[k]
  <2> DEFINE S == {k \in Nat : k <= n => sum[k] = f[k]}
  <2>1. 0 \in S
    BY <1>4, <1>10
  <2>2. ASSUME NEW k \in Nat, k \in S PROVE k + 1 \in S
    <3> SUFFICES ASSUME k + 1 <= n PROVE sum[k + 1] = f[k + 1]
      OBVIOUS
    <3>1. k + 1 \in 1 .. n /\ (k + 1) - 1 = k /\ k <= n
      BY <1>1
    <3> QED BY <1>5, <1>10, <2>2, <3>1
  <2>3. Nat \subseteq S
    <3> HIDE DEF S
    <3> QED BY <2>1, <2>2, SetInduction
  <2> QED BY <1>1, <2>3
<1>12. n \in 0 .. n
  BY <1>1
<1> QED
  BY <1>4, <1>5, <1>8, <1>11, <1>12 DEF IsCount, V, n

\* Two ways to count the runs pending agree.
LEMMA PendingIs ==
    ASSUME NEW timers \in Delays, NEW f, IsCount(f, timers)
    PROVE  RunsPending(timers) = f[RetryDelay]
<1>1. PICK g : IsCount(g, timers) /\ RunsPending(timers) = g[RetryDelay]
  BY PendingCounts
<1>2. RetryDelay \in Nat
  BY DailyConstants
<1> DEFINE S == {k \in Nat : k <= RetryDelay => f[k] = g[k]}
<1>3. 0 \in S
  BY <1>1 DEF IsCount
<1>4. ASSUME NEW k \in Nat, k \in S PROVE k + 1 \in S
  <2> SUFFICES ASSUME k + 1 <= RetryDelay PROVE f[k + 1] = g[k + 1]
    OBVIOUS
  <2>1. k + 1 \in 1 .. RetryDelay /\ (k + 1) - 1 = k /\ k <= RetryDelay
    BY <1>2
  <2> QED BY <1>1, <1>4, <2>1 DEF IsCount
<1>5. RetryDelay \in S
  <2> HIDE DEF S
  <2> QED BY <1>2, <1>3, <1>4, SetInduction
<1> QED
  BY <1>1, <1>5

\* The runs pending are a number, and a timer holds no more of them.
LEMMA PendingType ==
    ASSUME NEW timers \in Delays
    PROVE  /\ RunsPending(timers) \in Nat
           /\ \A k \in 1 .. RetryDelay : timers[k] <= RunsPending(timers)
<1> DEFINE n == RetryDelay
<1>1. PICK f : IsCount(f, timers) /\ RunsPending(timers) = f[n]
  BY PendingCounts
<1>2. n \in Nat /\ \A k \in 1 .. n : timers[k] \in Nat
  BY DailyConstants DEF Delays
<1> DEFINE S == {m \in Nat : m <= n => \A k \in 1 .. m : timers[k] <= f[m]}
<1>3. 0 \in S
  OBVIOUS
<1>4. ASSUME NEW m \in Nat, m \in S PROVE m + 1 \in S
  <2> SUFFICES ASSUME m + 1 <= n, NEW k \in 1 .. m + 1 PROVE timers[k] <= f[m + 1]
    OBVIOUS
  <2>1. m + 1 \in 1 .. n /\ m \in 0 .. n /\ (m + 1) - 1 = m /\ k \in 1 .. n
    BY <1>2
  <2>2. f[m + 1] = f[m] + timers[m + 1] /\ f[m] \in Nat /\ timers[m + 1] \in Nat
    BY <1>1, <1>2, <2>1 DEF IsCount
  <2>3. k = m + 1 \/ timers[k] <= f[m]
    BY <1>4, <2>1
  <2> QED BY <1>2, <2>1, <2>2, <2>3
<1>5. n \in S
  <2> HIDE DEF S
  <2> QED BY <1>2, <1>3, <1>4, SetInduction
<1>6. n \in 0 .. n
  BY <1>2
<1> QED
  BY <1>1, <1>2, <1>5, <1>6 DEF IsCount

\* No runs are pending when no timer is set.
LEMMA NonePending == NoTimers \in Delays /\ RunsPending(NoTimers) = 0
<1> DEFINE f == [k \in 0 .. RetryDelay |-> 0]
<1>1. NoTimers \in Delays
  BY DEF NoTimers, Delays
<1>2. IsCount(f, NoTimers) /\ f[RetryDelay] = 0
  BY DailyConstants DEF IsCount, NoTimers
<1> HIDE DEF f
<1> QED
  BY <1>1, <1>2, PendingIs

\* Scheduling a run adds one.
LEMMA OneScheduled ==
    ASSUME NEW timers \in Delays
    PROVE  Scheduled(timers) \in Delays /\ RunsPending(Scheduled(timers)) = RunsPending(timers) + 1
<1> DEFINE n == RetryDelay
           later == Scheduled(timers)
<1>1. PICK f : IsCount(f, timers) /\ RunsPending(timers) = f[n]
  BY PendingCounts
<1>2. n \in Nat \ {0} /\ n \in 1 .. n /\ \A k \in 1 .. n : timers[k] \in Nat
  BY DailyConstants DEF Delays
<1>3. later \in Delays /\ later[n] = timers[n] + 1 /\ \A k \in 1 .. n : k # n => later[k] = timers[k]
  BY <1>2 DEF Scheduled, Delays
<1> HIDE DEF later
<1> DEFINE g == [k \in 0 .. n |-> IF k = n THEN f[n] + 1 ELSE f[k]]
<1>4. f \in [0 .. n -> Nat] /\ f[0] = 0 /\ \A k \in 1 .. n : f[k] = f[k - 1] + timers[k]
  BY <1>1 DEF IsCount
<1>5. g \in [0 .. n -> Nat] /\ g[0] = 0 /\ g[n] = f[n] + 1
  BY <1>2, <1>4
<1>6. ASSUME NEW k \in 1 .. n PROVE g[k] = g[k - 1] + later[k]
  <2>1. k - 1 \in 0 .. n /\ k - 1 # n /\ k \in 0 .. n
    BY <1>2
  <2>2. g[k - 1] = f[k - 1] /\ g[k] = IF k = n THEN f[n] + 1 ELSE f[k]
    BY <2>1
  <2>3. f[k] = f[k - 1] + timers[k] /\ f[k - 1] \in Nat /\ timers[k] \in Nat
    BY <1>2, <1>4, <2>1
  <2> HIDE DEF g
  <2> QED BY <1>3, <2>2, <2>3
<1> HIDE DEF g
<1>7. IsCount(g, later)
  BY <1>5, <1>6 DEF IsCount
<1> QED
  BY <1>1, <1>3, <1>5, <1>7, PendingIs DEF later

\* When time passes the runs of the first timer are not pending any more.
Passed(timers) == [k \in 1 .. RetryDelay |-> IF k < RetryDelay THEN timers[k + 1] ELSE 0]

LEMMA TimersPass ==
    ASSUME NEW timers \in Delays
    PROVE  Passed(timers) \in Delays /\ RunsPending(Passed(timers)) = RunsPending(timers) - timers[1]
<1> DEFINE n == RetryDelay
           later == Passed(timers)
<1>1. PICK f : IsCount(f, timers) /\ RunsPending(timers) = f[n]
  BY PendingCounts
<1>2. n \in Nat \ {0} /\ 1 \in 1 .. n /\ \A k \in 1 .. n : timers[k] \in Nat
  BY DailyConstants DEF Delays
<1>3. /\ later \in Delays
      /\ \A k \in 1 .. n : later[k] = IF k < n THEN timers[k + 1] ELSE 0
  BY <1>2 DEF Passed, Delays
<1> HIDE DEF later
<1>4. f \in [0 .. n -> Nat] /\ f[0] = 0 /\ \A k \in 1 .. n : f[k] = f[k - 1] + timers[k]
  BY <1>1 DEF IsCount
<1>5. f[1] = timers[1]
  BY <1>2, <1>4
<1>6. \A k \in 1 .. n : f[1] <= f[k]
  <2> DEFINE S == {k \in Nat : k + 1 <= n => f[1] <= f[k + 1]}
  <2>1. 0 \in S
    BY <1>2, <1>4
  <2>2. ASSUME NEW k \in Nat, k \in S PROVE k + 1 \in S
    <3> SUFFICES ASSUME k + 2 <= n PROVE f[1] <= f[k + 2]
      OBVIOUS
    <3>1. k + 2 \in 1 .. n /\ k + 1 \in 0 .. n /\ (k + 2) - 1 = k + 1 /\ 1 \in 0 .. n
      BY <1>2
    <3>2. f[k + 2] = f[k + 1] + timers[k + 2] /\ timers[k + 2] \in Nat /\ f[k + 1] \in Nat
      BY <1>2, <1>4, <3>1
    <3>3. f[1] <= f[k + 1] /\ f[1] \in Nat
      BY <1>2, <1>4, <2>2, <3>1
    <3> QED BY <3>2, <3>3
  <2>3. Nat \subseteq S
    <3> HIDE DEF S
    <3> QED BY <2>1, <2>2, SetInduction
  <2> SUFFICES ASSUME NEW k \in 1 .. n PROVE f[1] <= f[k]
    OBVIOUS
  <2>4. k - 1 \in S /\ (k - 1) + 1 = k /\ k <= n
    BY <1>2, <2>3
  <2> QED BY <2>4
<1> DEFINE g == [k \in 0 .. n |-> IF k = n THEN f[n] - f[1] ELSE f[k + 1] - f[1]]
<1>7. g \in [0 .. n -> Nat] /\ g[n] = f[n] - f[1]
  <2>1. \A k \in 0 .. n : k # n => k + 1 \in 1 .. n
    BY <1>2
  <2>2. \A k \in 1 .. n : f[k] - f[1] \in Nat
    BY <1>2, <1>4, <1>6
  <2>3. n \in 1 .. n /\ n \in 0 .. n
    BY <1>2
  <2> QED BY <2>1, <2>2, <2>3
<1>8. g[0] = 0
  BY <1>2, <1>4
<1>9. ASSUME NEW k \in 1 .. n PROVE g[k] = g[k - 1] + later[k]
  <2>1. k - 1 \in 0 .. n /\ k - 1 # n /\ (k - 1) + 1 = k /\ k \in 0 .. n
    BY <1>2
  <2>2. g[k - 1] = f[k] - f[1] /\ f[k] \in Nat /\ f[1] \in Nat
    BY <1>2, <1>4, <2>1
  <2>3. CASE k = n
    <3>1. g[k] = f[k] - f[1] /\ later[k] = 0
      BY <1>3, <2>1, <2>3
    <3> HIDE DEF g
    <3> QED BY <2>2, <3>1
  <2>4. CASE k # n
    <3>1. k + 1 \in 1 .. n /\ (k + 1) - 1 = k
      BY <1>2, <2>4
    <3>2. f[k + 1] = f[k] + timers[k + 1] /\ timers[k + 1] \in Nat
      BY <1>2, <1>4, <3>1
    <3>3. g[k] = f[k + 1] - f[1] /\ later[k] = timers[k + 1]
      BY <1>2, <1>3, <2>1, <2>4
    <3> HIDE DEF g
    <3> QED BY <2>2, <3>2, <3>3
  <2> QED BY <2>3, <2>4
<1> HIDE DEF g
<1>10. IsCount(g, later)
  BY <1>7, <1>8, <1>9 DEF IsCount
<1> QED
  BY <1>1, <1>3, <1>5, <1>7, <1>10, PendingIs DEF later

\* The keeper: its counts add up and are bounded by the starts.
SettlerInv ==
    /\ settler \in [up : BOOLEAN, settling : Nat, timers : Delays,
                    starts : Counts, sent : Nat]
    /\ StartsAccounted

\* What is counted of the starts is no more than they are.
LEMMA SettlerTypes ==
    ASSUME SettlerInv
    PROVE  settler \in [up : BOOLEAN, settling : Counts,
                        timers : [1 .. RetryDelay -> Counts],
                        starts : Counts, sent : Counts]
<1> DEFINE timers == settler.timers
<1>1. /\ settler.settling \in Nat /\ settler.sent \in Nat /\ timers \in Delays
      /\ settler.starts \in Counts
      /\ settler.starts = settler.sent + settler.settling + RunsPending(timers)
  BY DEF SettlerInv, StartsAccounted
<1>2. settler = [up |-> settler.up, settling |-> settler.settling, timers |-> timers,
                 starts |-> settler.starts, sent |-> settler.sent] /\ settler.up \in BOOLEAN
  BY DEF SettlerInv
<1> HIDE DEF timers
<1>3. RunsPending(timers) \in Nat /\ \A k \in 1 .. RetryDelay : timers[k] <= RunsPending(timers)
  BY <1>1, PendingType
<1>4. MaxStarts \in Nat
  BY DailyConstants
<1>5. settler.settling \in Counts /\ settler.sent \in Counts
  BY <1>1, <1>3, <1>4 DEF Counts
<1>6. timers \in [1 .. RetryDelay -> Counts]
  <2>1. \A k \in 1 .. RetryDelay : timers[k] \in Counts
    BY <1>1, <1>3, <1>4 DEF Counts, Delays
  <2> QED BY <1>1, <2>1 DEF Delays
<1> QED
  BY <1>1, <1>2, <1>5, <1>6

\* A keeper that starts counts the run it starts with, if any; one that stops
\* forgets them all.
LEMMA SettlerBegins ==
    ASSUME settler = Stopped \/ \E atOnce \in BOOLEAN : settler = SettlerStarted(atOnce)
    PROVE  SettlerInv
<1>1. NoTimers \in Delays /\ RunsPending(NoTimers) = 0 /\ MaxStarts \in Nat \ {0}
  BY NonePending, DailyConstants
<1>2. PICK up \in BOOLEAN, n \in {0, 1} :
         settler = [up |-> up, settling |-> n, timers |-> NoTimers, starts |-> n, sent |-> 0]
  BY DEF Stopped, SettlerStarted
<1> QED
  BY <1>1, <1>2 DEF SettlerInv, StartsAccounted, Counts

\* The counts of a keeper that add up.
LEMMA SettlerCounts ==
    ASSUME NEW up \in BOOLEAN, NEW settling \in Nat, NEW timers \in Delays,
           NEW starts \in Counts, NEW sent \in Nat,
           starts = sent + settling + RunsPending(timers),
           settler' = [up |-> up, settling |-> settling, timers |-> timers,
                       starts |-> starts, sent |-> sent]
    PROVE  SettlerInv'
BY DEF SettlerInv, StartsAccounted

\* The runs move from the timers to the network and back, and each is counted
\* once wherever it is.
LEMMA SettlerStep ==
    ASSUME SettlerInv, [DailyNext]_dailyVars
    PROVE  SettlerInv'
<1> DEFINE timers == settler.timers
           pending == RunsPending(timers)
<1>1. /\ settler \in [up : BOOLEAN, settling : Nat, timers : Delays,
                      starts : Counts, sent : Nat]
      /\ settler.settling \in Nat /\ settler.sent \in Nat /\ timers \in Delays
      /\ settler.starts = settler.sent + settler.settling + pending
      /\ settler.starts \in Nat
  BY DailyConstants DEF SettlerInv, StartsAccounted, Counts
<1>2. pending \in Nat /\ \A k \in 1 .. RetryDelay : timers[k] <= pending /\ timers[k] \in Nat
  BY <1>1, PendingType DEF Delays
<1>n. 1 \in 1 .. RetryDelay /\ MaxStarts \in Nat
  BY DailyConstants
<1>u. /\ settler.up \in BOOLEAN
      /\ settler = [up |-> settler.up, settling |-> settler.settling, timers |-> timers,
                    starts |-> settler.starts, sent |-> settler.sent]
  BY <1>1
<1> HIDE DEF timers, pending
<1>3. CASE DailyTick
  <2> DEFINE cron == IF settler.up /\ (hour + 1) % DayLength = SettlementHour THEN 1 ELSE 0
             later == Passed(timers)
             settling == settler.settling + timers[1] + cron
             starts == settler.starts + cron
  <2>1. starts <= MaxStarts /\ cron \in {0, 1}
    BY <1>3 DEF DailyTick
  <2>2. settler' = [settler EXCEPT !.settling = settling, !.timers = later,
                                   !.starts = starts]
    BY <1>3 DEF DailyTick, Passed, timers
  <2> HIDE DEF cron, later
  <2>3. later \in Delays /\ RunsPending(later) = pending - timers[1]
    BY <1>1, TimersPass DEF later, pending
  <2>4. settling \in Nat /\ starts \in Counts
    BY <1>1, <1>2, <1>n, <2>1 DEF Counts
  <2>5. starts = settler.sent + settling + RunsPending(later)
    BY <1>1, <1>2, <1>n, <2>1, <2>3
  <2> HIDE DEF settling, starts
  <2>6. settler' = [up |-> settler.up, settling |-> settling, timers |-> later,
                    starts |-> starts, sent |-> settler.sent]
    BY <1>u, <2>2
  <2> QED BY <1>1, <1>u, <2>3, <2>4, <2>5, <2>6, SettlerCounts
<1>4. CASE SettlementSent
  <2> DEFINE settling == settler.settling - 1
             sent == settler.sent + 1
  <2>1. settler.settling > 0 /\ settler' = [settler EXCEPT !.settling = settling, !.sent = sent]
    BY <1>4 DEF SettlementSent
  <2>2. settling \in Nat /\ sent \in Nat
    BY <1>1, <2>1
  <2>3. settler.starts = sent + settling + RunsPending(timers)
    BY <1>1, <1>2, <2>1 DEF pending
  <2> HIDE DEF settling, sent
  <2>4. settler' = [up |-> settler.up, settling |-> settling, timers |-> timers,
                    starts |-> settler.starts, sent |-> sent]
    <3>1. /\ settler' \in [up : BOOLEAN, settling : Nat, timers : Delays,
                           starts : Counts, sent : Nat]
          /\ settler'.settling = settling /\ settler'.sent = sent
          /\ settler'.up = settler.up /\ settler'.starts = settler.starts
          /\ settler'.timers = settler.timers
      BY <1>1, <2>1, <2>2
    <3> QED BY <3>1 DEF timers
  <2> QED BY <1>1, <1>u, <2>2, <2>3, <2>4, SettlerCounts
<1>5. CASE SettlementFails
  <2> DEFINE settling == settler.settling - 1
             later == Scheduled(timers)
  <2>1. settler.settling > 0
        /\ settler' = [settler EXCEPT !.settling = settling, !.timers = later]
    BY <1>5 DEF SettlementFails, timers
  <2> HIDE DEF later
  <2>2. later \in Delays /\ RunsPending(later) = pending + 1
    BY <1>1, OneScheduled DEF later, pending
  <2>3. settling \in Nat /\ settler.starts = settler.sent + settling + RunsPending(later)
    BY <1>1, <1>2, <2>1, <2>2
  <2> HIDE DEF settling
  <2>4. settler' = [up |-> settler.up, settling |-> settling, timers |-> later,
                    starts |-> settler.starts, sent |-> settler.sent]
    BY <1>u, <2>1
  <2> QED BY <1>1, <1>u, <2>2, <2>3, <2>4, SettlerCounts
<1>6. CASE settler' = Stopped \/ \E atOnce \in BOOLEAN : settler' = SettlerStarted(atOnce)
  <2>1. NoTimers \in Delays /\ RunsPending(NoTimers) = 0 /\ MaxStarts \in Nat \ {0}
    BY NonePending, DailyConstants
  <2>2. PICK up \in BOOLEAN, n \in {0, 1} :
           settler' = [up |-> up, settling |-> n, timers |-> NoTimers, starts |-> n,
                       sent |-> 0]
    BY <1>6 DEF Stopped, SettlerStarted
  <2> QED BY <2>1, <2>2 DEF SettlerInv, StartsAccounted, Counts
<1>7. CASE settler' = settler
  BY <1>7 DEF SettlerInv, StartsAccounted
<1>8. StopSettler \/ StartSettler
         => settler' = Stopped \/ \E atOnce \in BOOLEAN : settler' = SettlerStarted(atOnce)
  BY DEF StopSettler, StartSettler
<1>9. (\E r \in {"cron", "startup"} : SubmitAssetPrice(r)) \/ StopValidator \/ StartValidator
         \/ UNCHANGED dailyVars
         => settler' = settler
  BY DEF SubmitAssetPrice, StopValidator, StartValidator, dailyVars
<1> QED
  BY <1>3, <1>4, <1>5, <1>6, <1>7, <1>8, <1>9 DEF DailyNext

\* The validator: its runs are at an asset or done.
Validator == [up : BOOLEAN, failed : SUBSET (1 .. DailyAssets),
              runs : [{"cron", "startup"} -> 0 .. DailyAssets]]

ValidatorInv == hour \in 0 .. DayLength - 1 /\ validator \in Validator

LEMMA ValidatorTypes ==
    \A atOnce \in BOOLEAN :
        /\ ValidatorStarted(atOnce) \in Validator
        /\ [ValidatorStarted(atOnce) EXCEPT !.up = FALSE] \in Validator
<1> SUFFICES ASSUME NEW atOnce \in BOOLEAN
             PROVE  /\ ValidatorStarted(atOnce) \in Validator
                    /\ [ValidatorStarted(atOnce) EXCEPT !.up = FALSE] \in Validator
  OBVIOUS
<1> DEFINE first == IF atOnce THEN 1 ELSE 0
           runs == [cron |-> 0, startup |-> first]
<1>1. first \in 0 .. DailyAssets /\ 0 \in 0 .. DailyAssets
  BY DailyConstants
<1> HIDE DEF first
<1>2. runs \in [{"cron", "startup"} -> 0 .. DailyAssets]
  BY <1>1
<1>3. ValidatorStarted(atOnce) = [up |-> TRUE, failed |-> {}, runs |-> runs]
  BY DEF ValidatorStarted, first
<1> HIDE DEF runs
<1>4. ValidatorStarted(atOnce) \in Validator
  BY <1>2, <1>3 DEF Validator
<1> QED
  BY <1>4 DEF Validator

LEMMA ValidatorStep ==
    ASSUME ValidatorInv, [DailyNext]_dailyVars
    PROVE  ValidatorInv'
<1>1. /\ hour \in 0 .. DayLength - 1 /\ validator \in Validator
      /\ DailyAssets \in Nat \ {0} /\ DayLength \in Nat \ {0}
  BY DailyConstants DEF ValidatorInv
<1>2. CASE DailyTick
  <2>1. /\ hour' = (hour + 1) % DayLength
        /\ validator' = validator \/ validator' = [validator EXCEPT !.runs["cron"] = 1]
    BY <1>2 DEF DailyTick
  <2>2. hour' \in 0 .. DayLength - 1
    BY <1>1, <2>1
  <2>3. [validator EXCEPT !.runs["cron"] = 1] \in Validator
    BY <1>1 DEF Validator
  <2> QED BY <1>1, <2>1, <2>2, <2>3 DEF ValidatorInv
<1>3. ASSUME NEW r \in {"cron", "startup"}, SubmitAssetPrice(r) PROVE ValidatorInv'
  <2> DEFINE asset == validator.runs[r]
             next == IF asset = DailyAssets THEN 0 ELSE asset + 1
             before == IF asset = 1 THEN {} ELSE validator.failed
  <2>1. asset > 0 /\ asset \in 0 .. DailyAssets /\ before \in SUBSET (1 .. DailyAssets)
    BY <1>1, <1>3 DEF SubmitAssetPrice, Validator
  <2>2. PICK lost \in {{}, {asset}} :
           validator' = [validator EXCEPT !.runs[r] = next, !.failed = before \cup lost]
    BY <1>3 DEF SubmitAssetPrice
  <2>3. hour' = hour
    BY <1>3 DEF SubmitAssetPrice
  <2>4. next \in 0 .. DailyAssets /\ before \cup lost \in SUBSET (1 .. DailyAssets)
    BY <1>1, <2>1, <2>2
  <2> DEFINE failed == before \cup lost
  <2>5. validator' = [validator EXCEPT !.runs[r] = next, !.failed = failed]
    BY <2>2
  <2>6. failed \in SUBSET (1 .. DailyAssets)
    BY <2>4
  <2> HIDE DEF next, failed
  <2>7. validator' \in Validator
    BY <1>1, <2>4, <2>5, <2>6 DEF Validator
  <2> QED BY <1>1, <2>3, <2>7 DEF ValidatorInv
<1>4. CASE StopValidator \/ StartValidator
  BY <1>1, <1>4, ValidatorTypes DEF StopValidator, StartValidator, ValidatorInv
<1>5. CASE UNCHANGED <<hour, validator>>
  BY <1>1, <1>5 DEF ValidatorInv
<1>6. SettlementSent \/ SettlementFails \/ StopSettler \/ StartSettler \/ UNCHANGED dailyVars
         => UNCHANGED <<hour, validator>>
  BY DEF SettlementSent, SettlementFails, StopSettler, StartSettler, dailyVars
<1> QED
  BY <1>2, <1>3, <1>4, <1>5, <1>6 DEF DailyNext

DailyInv == SettlerInv /\ ValidatorInv

\* A step of the services is one of the daily ones, or leaves them alone.
LEMMA DailyStep ==
    ASSUME [Next]_vars
    PROVE  [DailyNext]_dailyVars
BY DEF Next, vars, FeedAlone, FundingAlone, DailyAlone, dailyVars

LEMMA DailyInvariant == Spec => []DailyInv
<1>1. Init => DailyInv
  <2> SUFFICES ASSUME DailyInit \/ DailyRests PROVE DailyInv
    BY DEF Init
  <2>1. SettlerInv
    BY SettlerBegins DEF DailyInit, DailyRests
  <2>2. ValidatorInv
    <3>1. validator \in Validator
      BY ValidatorTypes, Zenon DEF DailyInit, DailyRests
    <3>2. hour \in 0 .. DayLength - 1
      <4>1. hour \in 0 .. DayLength - 1 \/ hour = 0
        BY Zenon DEF DailyInit, DailyRests
      <4> QED BY <4>1, DailyConstants
    <3> QED BY <3>1, <3>2 DEF ValidatorInv
  <2> QED BY <2>1, <2>2 DEF DailyInv
<1>2. DailyInv /\ [Next]_vars => DailyInv'
  BY SettlerStep, ValidatorStep, DailyStep DEF DailyInv
<1>3. QED
  BY <1>1, <1>2, PTL DEF Spec

\* Every settlement started is sent, on its way or waiting for its retry, and
\* counted once, for any delay and any number of starts.  (runDailySettlement)
THEOREM StartsAlwaysAccounted == Spec => []StartsAccounted
<1>1. DailyInv => StartsAccounted
  BY DEF DailyInv, SettlerInv
<1>2. QED
  BY <1>1, DailyInvariant, PTL

\* The three services keep the types of what they hold, however often they stop
\* and start: no count outgrows the starts.
THEOREM TypeCorrect == Spec => []TypeOK
<1>1. DailyInv => DailyTypeOK
  BY SettlerTypes DEF DailyInv, ValidatorInv, Validator, DailyTypeOK
<1>2. GapInv /\ FeedInv /\ DailyInv => TypeOK
  BY <1>1 DEF GapInv, FeedInv, TypeOK
<1>3. QED
  BY <1>2, GapInvariant, FeedInvariant, DailyInvariant, PTL
=============================================================================
