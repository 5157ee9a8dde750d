------------------------------- MODULE PriceFeed -------------------------------
(***************************************************************************)
(* The price feed, backend/services/oracle-validator.js, for one asset.  A *)
(* timer starts an update every interval, also while earlier ones still    *)
(* wait for their answers; an answer is compared with a cache, written to  *)
(* it and sent to the oracle, which takes a price only some time after the *)
(* last one and only near it.  No update waits for the result of a deploy. *)
(* Prices and deploys carry the age of the market price they were read     *)
(* from: no fetch has a time limit and a deploy may wait for half an hour, *)
(* so the ages have none either, but above MaxAge they are not told apart. *)
(* Updates or deploys that agree in everything are counted once.           *)
(***************************************************************************)
EXTENDS FiniteSets, Naturals

CONSTANTS
    MarketPrices,       \* the prices a source can report, all positive
    BasePrice,          \* the constant used when a source fails first of all
    MockPrices,         \* the prices made up when an answer has no data
    FeedInterval,       \* ticks between updates: UPDATE_INTERVAL of the
                        \*   service, realtime_update_interval of the oracle
    ServiceBps, ReasonableBps, OracleBps,   \* the 2 %, 5 % and 2 % limits
    MaxAge,             \* bound: the age that stands for itself and all above
    MaxOpen             \* bound: updates and deploys under way together

ASSUME FeedNumbers ==
    /\ MarketPrices \cup {BasePrice} \cup MockPrices \subseteq Nat \ {0}
    /\ FeedInterval \in Nat \ {0} /\ {MaxAge, MaxOpen} \subseteq Nat
    /\ {ServiceBps, ReasonableBps, OracleBps} \subseteq Nat

\* A reading that is older than the oracle's interval can be told from others.
ASSUME AgesToldApart == FeedInterval < MaxAge

VARIABLES
    timer,              \* ticks since the timer was set or fired
    market,             \* the price that the source reports now
    calm,               \* the market has come to rest, and from now on the source
                        \*   answers with prices and deploys are sent
    updates,            \* updates waiting for their price
    cache,              \* priceCache: 0 before the first price
    submitted,          \* deploys sent and not yet executed
    chain               \* the oracle's price, the age of its reading and the
                        \*   ticks since it was written

feedVars == <<timer, market, calm, updates, cache, submitted, chain>>

AllPrices == MarketPrices \cup {BasePrice} \cup MockPrices
NotSet == FeedInterval                      \* of timer: main awaits the first update
Asked(n) == [price |-> 0, age |-> n]        \* the source was not read yet
UnderWay == Cardinality(updates) + Cardinality(submitted)

FeedTypeOK ==
    /\ timer \in 0 .. FeedInterval
    /\ market \in MarketPrices /\ calm \in BOOLEAN
    /\ updates \subseteq {Asked(n) : n \in 0 .. MaxAge}
           \cup [price : MarketPrices, age : 0 .. MaxAge]
    /\ cache \in AllPrices \cup {0}
    /\ submitted \subseteq
           [price : AllPrices, age : 0 .. MaxAge, fallback : BOOLEAN]
    /\ chain \in [price : AllPrices, age : 0 .. MaxAge, since : 0 .. FeedInterval]

\* init_realtime_price was called some time before; main starts an update.
FeedInit ==
    /\ timer = NotSet /\ market \in MarketPrices /\ calm = FALSE
    /\ updates = {Asked(0)}
    /\ cache = 0 /\ submitted = {}
    /\ \E p \in MarketPrices :
          chain = [price |-> p, age |-> MaxAge, since |-> FeedInterval]

Distance(p, q) == IF p > q THEN p - q ELSE q - p

\* Mutant: a change of just two percent is already excessive.
StrictChange(new) == cache = 0 \/ Distance(new, cache) * 10000 < ServiceBps * cache

\* validatePriceChange: the first price, at most two percent, or below five.
ValidChange(new) ==
    \/ cache = 0
    \/ Distance(new, cache) * 10000 <= ServiceBps * cache
    \/ Distance(new, cache) * 10000 < ReasonableBps * cache

UpTo(n, limit) == IF n < limit THEN n + 1 ELSE limit
Older(x) == [x EXCEPT !.age = UpTo(@, MaxAge)]

\* Time passes, whatever still waits; the timer may fire.
FeedTick ==
    LET fires == timer = FeedInterval - 1 IN
    /\ fires => UnderWay < MaxOpen
    /\ timer' = IF timer = NotSet THEN NotSet ELSE IF fires THEN 0 ELSE timer + 1
    /\ updates' = {Older(u) : u \in updates} \cup
                      IF fires THEN {Asked(0)} ELSE {}
    /\ submitted' = {Older(d) : d \in submitted}
    /\ chain' = [chain EXCEPT !.age = UpTo(@, MaxAge),
                              !.since = UpTo(@, FeedInterval)]
    /\ UNCHANGED <<market, calm, cache>>

\* main sets the timer when the first update is done.
SetTimer ==
    /\ timer = NotSet /\ updates = {}
    /\ timer' = 0
    /\ UNCHANGED <<market, calm, updates, cache, submitted, chain>>

MarketMoves(p) ==
    /\ ~calm
    /\ market' = p
    /\ UNCHANGED <<timer, calm, updates, cache, submitted, chain>>

MarketRests ==
    /\ ~calm /\ calm' = TRUE
    /\ UNCHANGED <<timer, market, updates, cache, submitted, chain>>

\* The source reads the market for one of the fetch functions.
ReadSource(u) ==
    /\ u.price = 0
    /\ updates' = (updates \ {u}) \cup {[price |-> market, age |-> 0]}
    /\ UNCHANGED <<timer, market, calm, cache, submitted, chain>>

\* The rest of an update, from the price on: a price that changed too much is
\* skipped; another one is cached before it is known to be sent, and sent
\* (submitPriceUpdate) unless putDeploy throws, which is only logged.
TakePrice(p, age, fallback) ==
    IF ~ValidChange(p) THEN UNCHANGED <<cache, submitted>>
    ELSE /\ cache' = p
         /\ \/ submitted' = submitted \cup
                   {[price |-> p, age |-> age, fallback |-> fallback]}
            \/ ~calm /\ UNCHANGED submitted

\* The answer of a source arrives; answers overtake each other.
ReceivePrice(u) ==
    /\ u.price # 0
    /\ updates' = updates \ {u}
    /\ TakePrice(u.price, u.age, FALSE)
    /\ UNCHANGED <<timer, market, calm, chain>>

\* A fetch throws: the update goes on with the cached price, or a constant.
FetchFails(u) ==
    /\ ~calm
    /\ updates' = updates \ {u}
    /\ TakePrice(IF cache = 0 THEN BasePrice ELSE cache, 0, TRUE)
    /\ UNCHANGED <<timer, market, calm, chain>>

\* A source answers without data, or there is no key to ask it with: the update
\* goes on with a price made up around the constant.
MocksPrice(u, p) ==
    /\ ~calm /\ u.price = 0
    /\ updates' = updates \ {u}
    /\ TakePrice(p, 0, TRUE)
    /\ UNCHANGED <<timer, market, calm, chain>>

\* A quote without its price is parsed to NaN.  No comparison refuses that, and
\* cached it refuses nothing and is no fallback, as if nothing were cached; the
\* deploy cannot be built from it.
ReadsNoNumber(u) ==
    /\ ~calm /\ u.price = 0
    /\ updates' = updates \ {u}
    /\ cache' = 0
    /\ UNCHANGED <<timer, market, calm, submitted, chain>>

\* Mutant: the oracle does not limit how often a price is updated.
AlwaysDue == TRUE

\* update_realtime_price: UPDATE_TOO_FREQUENT.
OracleDue == chain.since >= FeedInterval

\* update_realtime_price: PRICE_DEVIATION_TOO_HIGH.
OracleNear(p) == Distance(p, chain.price) <= (chain.price * OracleBps) \div 10000

\* A block executes a deploy, or reverts it; nobody learns which.
ExecutePrice(d) ==
    /\ submitted' = submitted \ {d}
    /\ chain' = IF OracleDue /\ OracleNear(d.price)
                THEN [price |-> d.price, age |-> d.age, since |-> 0]
                ELSE chain
    /\ UNCHANGED <<timer, market, calm, updates, cache>>

\* The service restarts with an empty cache and an update at once.
RestartFeed ==
    /\ ~calm /\ Cardinality(submitted) < MaxOpen
    /\ timer' = NotSet /\ cache' = 0 /\ updates' = {Asked(0)}
    /\ UNCHANGED <<market, calm, submitted, chain>>

FeedNext ==
    \/ FeedTick
    \/ \E p \in MarketPrices : MarketMoves(p)
    \/ MarketRests
    \/ SetTimer
    \/ \E u \in updates :
          \/ ReadSource(u) \/ ReceivePrice(u) \/ FetchFails(u) \/ ReadsNoNumber(u)
          \/ \E p \in MockPrices : MocksPrice(u, p)
    \/ \E d \in submitted : ExecutePrice(d)
    \/ RestartFeed

-----------------------------------------------------------------------------
\* A price that is executed within the oracle's interval of its reading never
\* replaces one that was read later, though updates overlap and neither answers
\* nor deploys keep their order: what the interval is worth to the service.  A
\* price that takes longer may.  (updateAllPrices, setInterval)
PromptPriceAdvances ==
    [][\A d \in submitted :
          ExecutePrice(d) /\ chain' # chain /\ ~d.fallback /\ d.age <= FeedInterval
              => chain'.age <= chain.age]_feedVars

\* All the prices on the way and in the cache are within two percent of the
\* market's, and the market is within two percent of the oracle's.
WithinReach ==
    LET Close(p, q) == Distance(p, q) * 10000 <= OracleBps * q IN
    /\ Close(market, chain.price)
    /\ cache # 0 => Close(market, cache)
    /\ \A x \in updates \cup submitted : x.price \in {0, market, chain.price}

\* When the market comes to rest so near, the oracle's price becomes the
\* market's, whatever was under way.  This says nothing of a larger move, after
\* which the service and the oracle may refuse all prices for good.
\* (validatePriceChange, updateAllPrices; update_realtime_price)
FeedRecovers == (calm /\ WithinReach) ~> (chain.price = market)
=============================================================================
