----------------------------- MODULE LeaderPages -----------------------------
(***************************************************************************)
(* GET /api/social/leaders page by page: a client asks with the same       *)
(* filters and order, moves offset by limit, and stops when hasMore is     *)
(* false.  The leaders are the fixed ones of social-client.js; what they   *)
(* earned (roi) is drawn anew for every answer, so that an order by it     *)
(* changes between two pages, and so does who earned minRoi.               *)
(***************************************************************************)
EXTENDS FiniteSets, Functions, Sequences

CONSTANTS
    Limits,             \* sizes of a page
    Followers           \* values of minFollowers

ASSUME LimitNumbers ==
    /\ Limits \subseteq Nat \ {0} /\ Followers \subseteq Nat
    /\ Limits # {} /\ Followers # {}

VARIABLES
    query,              \* sortBy, verified, minFollowers, minRoi and limit
    offset,             \* of the next page
    seen,               \* how often the client was given each leader
    ended               \* hasMore was false

walkVars == <<query, offset, seen, ended>>

\* getMockLeaders
MockLeaders == <<
    [followers |-> 245, reputation |-> 850, verified |-> TRUE],
    [followers |-> 412, reputation |-> 920, verified |-> TRUE],
    [followers |-> 89, reputation |-> 720, verified |-> FALSE],
    [followers |-> 178, reputation |-> 780, verified |-> TRUE],
    [followers |-> 523, reputation |-> 950, verified |-> TRUE]>>
Everyone == DOMAIN MockLeaders

\* verified is a string of the query, and all but the empty one are true:
\* "false" asks for the verified leaders too.
Verified == {"", "true", "false"}

\* Where minRoi lies against what the leaders of a timeframe can earn: all of
\* them pass it (0, the default), none does (or it is no number), or any may.
MinRois == {"below", "within", "above"}

Queries == [sortBy : {"roi", "followers", "reputation"}, verified : Verified,
            minFollowers : Followers, minRoi : MinRois, limit : Limits]

\* The leaders that can have passed minRoi in an answer.
Draws == CASE query.minRoi = "below" -> {Everyone}
           [] query.minRoi = "above" -> {{}}
           [] OTHER -> SUBSET Everyone

\* filtered, where earners passed minRoi.
Matching(earners) ==
    {l \in earners : /\ MockLeaders[l].followers >= query.minFollowers
                     /\ query.verified # "" => MockLeaders[l].verified}

WalkTypeOK ==
    /\ query \in Queries
    /\ offset \in Nat /\ seen \in [Everyone -> Nat] /\ ended \in BOOLEAN

WalkInit ==
    /\ query \in Queries
    /\ offset = 0 /\ seen = [l \in Everyone |-> 0] /\ ended = FALSE

Field(l) == IF query.sortBy = "followers" THEN MockLeaders[l].followers
            ELSE MockLeaders[l].reputation

\* The orders that an answer can have: any by roi, else a descending one.
Sorted(earners) ==
    {list \in Bijection(1 .. Cardinality(Matching(earners)), Matching(earners)) :
        query.sortBy # "roi" => \A i, j \in DOMAIN list :
            i < j => Field(list[i]) >= Field(list[j])}

\* Mutant: slice(offset, limit), which takes an end and not a length.
SlicedTo(list, from, limit) ==
    SubSeq(list, from + 1, IF limit < Len(list) THEN limit ELSE Len(list))

\* filtered.slice(offset, offset + limit)
Sliced(list, from, limit) ==
    SubSeq(list, from + 1,
           IF from + limit < Len(list) THEN from + limit ELSE Len(list))

HasMore(from, limit, total) == from + limit < total

NextPage ==
    /\ ~ended
    /\ \E earners \in Draws : \E list \in Sorted(earners) :
          LET given == Sliced(list, offset, query.limit)
          IN /\ seen' = [l \in Everyone |-> seen[l] +
                            IF \E i \in DOMAIN given : given[i] = l THEN 1 ELSE 0]
             /\ ended' = ~HasMore(offset, query.limit, Len(list))
    /\ offset' = offset + query.limit
    /\ UNCHANGED query

\* The client begins again, with any query.
WalkAgain ==
    /\ ended /\ query' \in Queries
    /\ offset' = 0 /\ seen' = [l \in Everyone |-> 0] /\ ended' = FALSE

-----------------------------------------------------------------------------
\* A client that walks to the end is given as many leaders as match, and with
\* an order that stays the same each of them once: no page overlaps another and
\* none is left out at an end.  It is so when every answer filters the same
\* leaders: a minRoi within what they earn lets others pass for each page, and
\* a leader may then be given twice, or never.
\* (GET /api/social/leaders, pagination)
PagesCoverLeaders ==
    ended => \A earners \in Draws : Draws = {earners} =>
        /\ SumFunction(seen) = Cardinality(Matching(earners))
        /\ query.sortBy # "roi" => \A l \in Everyone :
               seen[l] = IF l \in Matching(earners) THEN 1 ELSE 0
=============================================================================
