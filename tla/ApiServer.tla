------------------------------ MODULE ApiServer ------------------------------
(***************************************************************************)
(* backend/api-server: the handlers of its routes, the cache in Redis, and *)
(* the service that reads the oracle's prices into that cache every thirty *)
(* seconds.  A tick is those thirty seconds.  All that happens between two *)
(* awaits is one action; a request and an update of the prices can be      *)
(* overtaken at each await.  One route is asked at a time: routes share    *)
(* nothing but the prices.  Data is what it was read as: how old it may    *)
(* be, and whether a failure of the node left anything out of it.          *)
(***************************************************************************)
EXTENDS ApiRoutes, FiniteSets

CONSTANTS
    Clients,            \* who asks; a client has one request at a time
    Shared,             \* bound: the routes that all clients ask; the others
                        \*   are asked by one of them
    Unit,               \* seconds in a tick
    PriceTtl,           \* seconds that updatePrices keeps the prices for
    MaxRetries,         \* reconnections to Redis before giving up
    MaxOpen,            \* bound: ticks that a request or an update takes
    MaxAge,             \* bound: ages are counted up to it
    MaxTroubles         \* bound: failed reads, lost connections and crashes

ASSUME ApiNumbers ==
    /\ Clients # {} /\ {Unit, PriceTtl} \subseteq Nat \ {0}
    /\ {MaxRetries, MaxOpen, MaxAge, MaxTroubles} \subseteq Nat

ASSUME SharedRoutes == Shared \subseteq DOMAIN Routes

VARIABLES
    route,              \* the route that is asked
    up,                 \* whether the server runs
    redis,              \* its connection, and the retries of a lost one
    cache,              \* the entries in Redis
    requests,           \* per client
    updates,            \* runs of updatePrices
    troubles            \* counts what went wrong

apiVars == <<route, up, redis, cache, requests, updates, troubles>>

Ticks(seconds) == (seconds + Unit - 1) \div Unit
Ages == 0 .. MaxAge
Older(age) == IF age < MaxAge THEN age + 1 ELSE age
Oldest(a, b) == IF a > b THEN a ELSE b

This == Routes[route]
AllReads(r) == 1 .. Len(Routes[r].reads)
ReadsPrices == \E i \in AllReads(route) :
                   "cached" \in This.reads[i].does.well

Timer == "timer"        \* whose updates are setInterval's
NoEntry == [left |-> 0, age |-> 0, whole |-> TRUE]
Longest == Oldest(300, PriceTtl)    \* seconds that any entry is kept for
Entries == [left : 0 .. Ticks(Longest), age : Ages, whole : BOOLEAN]

\* status is what was answered, left the reads that remain to be done.
NoRequest == [stage |-> "none", status |-> 0, left |-> {}, open |-> 0,
              age |-> 0, whole |-> TRUE]
Stages == {"none", "lookup", "reading", "pricing", "storing", "answered"}
Requests == [stage : Stages, status : {0, 200, 400, 404, 500},
             left : SUBSET AllReads(route), open : 0 .. MaxOpen,
             age : Ages, whole : BOOLEAN]

NewUpdate(by) == [by |-> by, done |-> FALSE, open |-> 0, age |-> 0,
                  whole |-> TRUE]
Updates == [by : Clients \cup {Timer}, done : BOOLEAN, open : 0 .. MaxOpen,
            age : Ages, whole : BOOLEAN]

Connected == [status |-> "ready", retries |-> 0]

ApiTypeOK ==
    /\ route \in DOMAIN Routes /\ up \in BOOLEAN
    /\ redis \in [status : {"ready", "retrying", "lost"},
                  retries : 0 .. MaxRetries + 1]
    /\ cache \in [{"answer", "prices"} -> Entries]
    /\ requests \in [Clients -> Requests]
    /\ updates \subseteq Updates
    /\ troubles \in 0 .. MaxTroubles

\* The updates that setInterval starts.  Without a read of the prices they make
\* no difference to a route, and are left out.
Started == IF ReadsPrices THEN {NewUpdate(Timer)} ELSE {}

\* The servers are listening, and the first update of the prices begins.
ApiInit ==
    /\ route \in DOMAIN Routes /\ up = TRUE
    /\ redis = Connected
    /\ cache = [k \in {"answer", "prices"} |-> NoEntry]
    /\ requests = [c \in Clients |-> NoRequest]
    /\ updates = Started
    /\ troubles = 0

Open(c) == requests[c].stage \notin {"none", "answered"}
Trouble == troubles < MaxTroubles /\ troubles' = troubles + 1

\* getCached, setCached: while the client reconnects, commands wait; when it
\* gave up they fail at once, and the callers go on without the cache.
CacheAnswers == redis.status # "retrying"
Kept(key) == redis.status = "ready" /\ cache[key].left > 0

\* Mutant: setCached without the ttl, which keeps an entry for REDIS_TTL.
DefaultTtl(key, data, seconds) ==
    IF redis.status = "ready"
    THEN [cache EXCEPT ![key] = [left |-> Ticks(300), age |-> data.age,
                                 whole |-> data.whole]]
    ELSE cache

Stored(key, data, seconds) ==
    IF redis.status = "ready"
    THEN [cache EXCEPT ![key] = [left |-> Ticks(seconds), age |-> data.age,
                                 whole |-> data.whole]]
    ELSE cache

\* Mutant: SET in place of SETEX.
KeptForGood(entry) ==
    IF entry.left = 0 THEN NoEntry ELSE [entry EXCEPT !.age = Older(@)]

\* A tick in the life of an entry.
Aged(entry) ==
    IF entry.left <= 1 THEN NoEntry
    ELSE [entry EXCEPT !.left = @ - 1, !.age = Older(@)]

\* Thirty seconds pass: entries grow old and expire, and setInterval starts an
\* update, whether or not the last one is done.
ApiTick ==
    /\ CacheAnswers
    /\ \A c \in Clients : Open(c) => requests[c].open < MaxOpen
    /\ \A u \in updates : u.open < MaxOpen
    /\ cache' = [k \in DOMAIN cache |-> Aged(cache[k])]
    /\ requests' = [c \in Clients |->
           IF Open(c) THEN [requests[c] EXCEPT !.open = @ + 1, !.age = Older(@)]
           ELSE requests[c]]
    /\ updates' = {[u EXCEPT !.open = @ + 1, !.age = Older(@)] : u \in updates}
                  \cup (IF up THEN Started ELSE {})
    /\ UNCHANGED <<route, up, redis, troubles>>

-----------------------------------------------------------------------------
Becomes(c, r) == requests' = [requests EXCEPT ![c] = r]
Answered(r, status) == [r EXCEPT !.stage = "answered", !.status = status,
                                 !.left = {}]

\* All reads are done: the answer is stored first, if the route keeps it.
Computed(r) ==
    IF This.ttl = 0 THEN Answered(r, 200) ELSE [r EXCEPT !.stage = "storing"]

\* The next read is done with r as its outcome.
After(r, i) ==
    LET rest == r.left \ {i}
        gone == [r EXCEPT !.stage = "reading", !.left = rest]
    IN IF rest = {} THEN Computed(gone) ELSE gone

\* A route that keeps nothing, and has nothing to read, answers at once.
Begun(r) ==
    LET all == [r EXCEPT !.stage = "reading", !.left = AllReads(route)]
    IN IF all.left = {} THEN Computed(all) ELSE all

\* A request: refused by its address or for want of a contract hash, or taken.
Ask(c) ==
    LET new == [NoRequest EXCEPT !.stage = "lookup"]
    IN /\ up /\ ~Open(c)
       /\ \/ This.ttl > 0 /\ Becomes(c, new)
          \/ This.ttl = 0 /\ Becomes(c, Begun(new))
          \/ This.checked /\ Becomes(c, Answered(new, IF This.ttl > 0 THEN 400
                                                      ELSE 500))
       /\ UNCHANGED <<route, up, redis, cache, updates, troubles>>

\* const cached = await getCached(cacheKey)
LookUp(c) ==
    LET r == requests[c]
        entry == cache["answer"]
    IN /\ r.stage = "lookup" /\ CacheAnswers
       /\ \/ /\ Kept("answer")
             /\ Becomes(c, Answered([r EXCEPT !.age = entry.age,
                                              !.whole = entry.whole], 200))
          \/ ~Kept("answer") /\ Becomes(c, Begun([r EXCEPT !.age = 0]))
       /\ UNCHANGED <<route, up, redis, cache, updates, troubles>>

\* The reads that can be next: all of a Promise.all, else the first.
NextReads(r) ==
    IF This.joined THEN r.left
    ELSE {i \in r.left : \A j \in r.left : i <= j}

\* Mutant: the catch of a handler does not call next(error).
Unanswered(r) == r

\* catch (error) { next(error) }, and the error handler of index.js.
Threw(r) == Answered(r, 500)

\* What the handler makes of the outcome of read i.
Outcome(r, i, what) ==
    CASE what = "throw" -> Threw(r)
      [] what = "none" /\ This.reads[i].absent = "missing" -> Answered(r, 404)
      [] what = "none" /\ This.reads[i].absent = "empty" -> Answered(r, 200)
      [] OTHER -> After(r, i)

\* A read of the chain that the node answers, or that it fails.
ReadChain(c) ==
    LET r == requests[c]
    IN /\ r.stage = "reading"
       /\ \E i \in NextReads(r) :
             LET may == This.reads[i].does
             IN \/ /\ \E what \in may.well \ {"cached"} :
                        Becomes(c, Outcome(r, i, what))
                   /\ UNCHANGED troubles
                \/ /\ \E what \in may.ill \ {"cached"} :
                        Becomes(c, Outcome([r EXCEPT !.whole =
                                      @ /\ what \notin {"none", "part"}], i, what))
                   /\ Trouble
       /\ UNCHANGED <<route, up, redis, cache, updates>>

\* getCachedPrices: those of the cache, or an update of the handler's own.
UsePrices(c) ==
    LET r == requests[c]
        entry == cache["prices"]
    IN /\ r.stage = "reading" /\ CacheAnswers
       /\ \E i \in NextReads(r) :
             /\ "cached" \in This.reads[i].does.well
             /\ \/ /\ Kept("prices")
                   /\ Becomes(c, After([r EXCEPT
                          !.age = Oldest(@, entry.age),
                          !.whole = @ /\ entry.whole], i))
                   /\ UNCHANGED updates
                \/ /\ ~Kept("prices")
                   /\ Becomes(c, [r EXCEPT !.stage = "pricing"])
                   /\ updates' = updates \cup
                          {[NewUpdate(c) EXCEPT !.open = r.open]}
       /\ UNCHANGED <<route, up, redis, cache, troubles>>

\* await setCached(cacheKey, response, ttl), and the answer.
Store(c) ==
    LET r == requests[c]
    IN /\ r.stage = "storing" /\ CacheAnswers
       /\ cache' = Stored("answer", r, This.ttl)
       /\ Becomes(c, Answered(r, 200))
       /\ UNCHANGED <<route, up, redis, updates, troubles>>

Handle(c) == LookUp(c) \/ ReadChain(c) \/ UsePrices(c) \/ Store(c)

-----------------------------------------------------------------------------
\* getCurrentOraclePrices: an asset whose read fails is left out.
ReadPrices(u) ==
    /\ u \in updates /\ ~u.done
    /\ \/ /\ UNCHANGED troubles
          /\ updates' = (updates \ {u}) \cup {[u EXCEPT !.done = TRUE]}
       \/ /\ Trouble
          /\ updates' = (updates \ {u}) \cup
                            {[u EXCEPT !.done = TRUE, !.whole = FALSE]}
    /\ UNCHANGED <<route, up, redis, cache, requests>>

\* The prices are cached, and a handler that waits for them goes on.
StorePrices(u) ==
    /\ u \in updates /\ u.done /\ CacheAnswers
    /\ updates' = updates \ {u}
    /\ cache' = Stored("prices", u, PriceTtl)
    /\ IF u.by = Timer THEN UNCHANGED requests
       ELSE LET r == requests[u.by]
            IN \E i \in NextReads(r) :
                  Becomes(u.by, After([r EXCEPT !.age = Oldest(@, u.age),
                                                !.whole = @ /\ u.whole], i))
    /\ UNCHANGED <<route, up, redis, troubles>>

UpdatePrices(u) == ReadPrices(u) \/ StorePrices(u)

-----------------------------------------------------------------------------
LoseRedis ==
    /\ up /\ redis.status = "ready" /\ Trouble
    /\ redis' = [status |-> "retrying", retries |-> 0]
    /\ UNCHANGED <<route, up, cache, requests, updates>>

Reconnect ==
    /\ redis.status = "retrying" /\ redis' = Connected
    /\ UNCHANGED <<route, up, cache, requests, updates, troubles>>

\* Mutant: the strategy has no limit.
NeverOver(retries) == FALSE

Over(retries) == retries > MaxRetries

\* reconnectStrategy: another try, or an error that closes the client.
RetryRedis ==
    /\ redis.status = "retrying"
    /\ redis' = IF Over(redis.retries)
                THEN [status |-> "lost", retries |-> 0]
                ELSE [redis EXCEPT !.retries = @ + 1]
    /\ UNCHANGED <<route, up, cache, requests, updates, troubles>>

\* SIGTERM, SIGINT or a crash: process.exit.  Redis keeps its entries.
Exit ==
    /\ up /\ Trouble
    /\ up' = FALSE /\ redis' = Connected
    /\ requests' = [c \in Clients |-> NoRequest] /\ updates' = {}
    /\ UNCHANGED <<route, cache>>

\* The server is started with Redis there; without it, it exits again.
Boot ==
    /\ ~up /\ up' = TRUE /\ updates' = Started
    /\ UNCHANGED <<route, redis, cache, requests, troubles>>

Lone == CHOOSE c \in Clients : TRUE
Askers == IF route \in Shared THEN Clients ELSE {Lone}

ApiNext ==
    \/ ApiTick
    \/ \E c \in Askers : Ask(c) \/ Handle(c)
    \/ \E u \in updates : UpdatePrices(u)
    \/ LoseRedis \/ Reconnect \/ RetryRedis
    \/ Exit \/ Boot

-----------------------------------------------------------------------------
\* How old the prices of an answer may be, and the answer itself.
PricesFresh == Ticks(PriceTtl) - 1 + MaxOpen
MadeFresh == (IF ReadsPrices THEN PricesFresh ELSE 0) + MaxOpen
AnswerFresh ==
    MadeFresh + (IF This.ttl = 0 THEN 0 ELSE Ticks(This.ttl) - 1)

\* No answer shows the chain as it was longer ago than the code keeps the
\* prices and the answers of the route, one after the other, and the time that
\* a request and an update take: not when requests overtake each other, nor
\* over a restart.  For the prices that is longer than the documentation says:
\* see FreshAsDocumented.  (setCached, the handlers of routes/)
FreshAnswers ==
    \A c \in Clients :
        requests[c].stage = "answered" => requests[c].age <= AnswerFresh

\* Seconds that README.md says prices, and these answers, are kept for.
DocumentedPriceTtl == 30
DocumentedTtl == [markets |-> 30, market |-> 30, positions |-> 10, position |-> 10]

\* The documentation's word for it: markets and positions show prices no older
\* than those seconds, one after the other, and the time that a request and an
\* update take.  The code does not keep to it: it keeps the prices for sixty
\* seconds.  (README.md "Caching", updatePrices)
FreshAsDocumented ==
    route \in DOMAIN DocumentedTtl => \A c \in Clients :
        requests[c].stage = "answered" =>
            requests[c].age <= (Ticks(DocumentedPriceTtl) - 1 + MaxOpen)
                               + (Ticks(DocumentedTtl[route]) - 1 + MaxOpen)

\* What a failure of the node left out of an answer or of the prices is not
\* handed from entry to entry: once reads stop failing, the cache holds whole
\* data for good.  (casper-client.js, the handlers of routes/)
WholeAgain == <>[](\A k \in DOMAIN cache : cache[k].whole)

\* Every request is answered unless the server stops, also when Redis does not
\* come back.  (the handlers of routes/, reconnectStrategy)
RequestsAnswered == \A c \in Clients : Open(c) ~> ~Open(c)
=============================================================================
