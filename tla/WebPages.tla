------------------------------- MODULE WebPages -------------------------------
(***************************************************************************)
(* The pages of the frontend that ask the API server.  perps and perp      *)
(* (perps/[asset]) ask every thirty seconds, whether or not the last       *)
(* answer is there; leaders and leader (social/leaders/[address]) ask      *)
(* whenever the user changes what is to be shown; myCopies asks again      *)
(* after each of its buttons.  While they load, leader and myCopies show   *)
(* nothing to click on, and leaders its filters.  No page cancels a        *)
(* request or looks at which one an answer belongs to.  One page is open   *)
(* at a time.                                                              *)
(***************************************************************************)
EXTENDS FiniteSets, Naturals

CONSTANTS
    Whos,               \* filters of leaders, addresses of leader
    Spans,              \* timeframes
    MaxFetches,         \* bound: fetches under way
    MaxNewer,           \* bound: fetches that are counted as newer than one
    MaxLost             \* bound: answers that are errors or do not come

ASSUME PageNumbers ==
    /\ {MaxFetches, MaxNewer} \subseteq Nat \ {0} /\ MaxLost \in Nat
    /\ Whos # {} /\ Spans # {}

VARIABLES
    page,               \* the open page
    asked,              \* what its state says is to be shown
    fetches,            \* under way: what for, how many began since, and the
                        \*   read it is at
    shown,              \* per read: the fetch whose answer is shown
    loading,            \* the spinner is shown
    spoiled,            \* the newest fetch was lost, or overtaken by an older
    lost                \* counts the errors

pageVars == <<page, asked, fetches, shown, loading, spoiled, lost>>

Pages == {"perps", "perp", "leaders", "leader", "myCopies"}
Polled == page \in {"perps", "perp"}
Reads == IF page = "perp" THEN 1 .. 2 ELSE 1 .. 1   \* markets, fundingHistory

Wishes == [who : Whos, span : Spans]
Fetch == [for : Wishes, newer : 0 .. MaxNewer, read : 1 .. 2]
NewFetch(wish) == [for |-> wish, newer |-> 0, read |-> 1]

Nothing == [any |-> FALSE, for |-> CHOOSE w \in Wishes : TRUE, newer |-> 0]
Shown == [any : BOOLEAN, for : Wishes, newer : 0 .. MaxNewer]

PageTypeOK ==
    /\ page \in Pages /\ asked \in Wishes
    /\ fetches \subseteq Fetch /\ Cardinality(fetches) <= MaxFetches
    /\ shown \in [1 .. 2 -> Shown]
    /\ loading \in BOOLEAN /\ spoiled \in BOOLEAN /\ lost \in 0 .. MaxLost

\* useState and the first useEffect of a page.
Opened ==
    /\ page' \in Pages /\ asked' \in Wishes
    /\ fetches' = {NewFetch(asked')}
    /\ shown' = [i \in 1 .. 2 |-> Nothing]
    /\ loading' = TRUE /\ spoiled' = FALSE

PageInit ==
    /\ page \in Pages /\ asked \in Wishes
    /\ fetches = {NewFetch(asked)}
    /\ shown = [i \in 1 .. 2 |-> Nothing]
    /\ loading = TRUE /\ spoiled = FALSE /\ lost = 0

\* Another page is opened: the interval is cleared, and nothing is shown of
\* answers that still come.
Visit == Opened /\ UNCHANGED lost

Newer(n) == IF n < MaxNewer THEN n + 1 ELSE n

\* A fetch for wish begins beside those under way.
Starts(wish) ==
    /\ Cardinality(fetches) < MaxFetches
    /\ \A f \in fetches : f.newer < MaxNewer
    /\ fetches' = {[f EXCEPT !.newer = Newer(@)] : f \in fetches}
                  \cup {NewFetch(wish)}
    /\ shown' = [i \in 1 .. 2 |-> [shown[i] EXCEPT !.newer = Newer(@)]]
    /\ spoiled' = FALSE

\* Mutant: the effect leaves the timeframe out of its dependencies.
DependsOnAddress(old, new) == page = "leaders" \/ new.who # old.who

\* The dependencies of the effect: filters is a new object each time, address
\* and timeframe are compared.
Depends(old, new) == page = "leaders" \/ new # old

\* Behind if (loading): a page that has its answer shows its buttons.
ShowsButtons == ~loading /\ shown[1].any

\* The user sets a filter, or picks a timeframe for the leader, and the effect
\* fetches.
Change(wish) ==
    /\ \/ page = "leaders"
       \/ page = "leader" /\ ShowsButtons /\ wish.who = asked.who
    /\ asked' = wish
    /\ \/ Depends(asked, wish) /\ Starts(wish) /\ loading' = TRUE
       \/ ~Depends(asked, wish) /\ UNCHANGED <<fetches, shown, loading, spoiled>>
    /\ UNCHANGED <<page, lost>>

\* handlePauseCopy, handleResumeCopy, handleStopCopy: an alert, and a fetch.
Refresh ==
    /\ page = "myCopies" /\ ShowsButtons /\ Starts(asked) /\ loading' = TRUE
    /\ UNCHANGED <<page, asked, lost>>

\* setInterval(fetch, 30000)
Poll ==
    /\ Polled /\ Starts(asked)
    /\ UNCHANGED <<page, asked, loading, lost>>

\* finally { setLoading(false) }
Ended(f) == fetches' = fetches \ {f} /\ loading' = FALSE

Continued(f) ==
    IF f.read + 1 \in Reads
    THEN /\ fetches' = (fetches \ {f}) \cup {[f EXCEPT !.read = @ + 1]}
         /\ UNCHANGED loading
    ELSE Ended(f)

NewestUnderWay == \E g \in fetches : g.newer = 0

\* Mutant: an answer is taken only by a page that has none.
FirstKept(old, f) ==
    IF old.any THEN old ELSE [any |-> TRUE, for |-> f.for, newer |-> f.newer]

\* setMarkets, setPerpData, setFundingHistory, setLeaders, setProfile, setCopies
Replaced(old, f) == [any |-> TRUE, for |-> f.for, newer |-> f.newer]

\* A successful answer replaces what is shown, whatever that is.
Answer(f) ==
    /\ f \in fetches /\ Continued(f)
    /\ shown' = [shown EXCEPT ![f.read] = Replaced(@, f)]
    /\ spoiled' = (spoiled \/ (f.newer > 0 /\ ~NewestUnderWay))
    /\ UNCHANGED <<page, asked, lost>>

\* An answer that is an error: what is shown stays, and the next read is done.
AnswerError(f) ==
    /\ f \in fetches /\ lost < MaxLost /\ lost' = lost + 1
    /\ Continued(f)
    /\ spoiled' = (spoiled \/ f.newer = 0)
    /\ UNCHANGED <<page, asked, shown>>

\* fetch or json throws: the other read is not done.
FetchThrows(f) ==
    /\ f \in fetches /\ lost < MaxLost /\ lost' = lost + 1
    /\ Ended(f)
    /\ spoiled' = (spoiled \/ f.newer = 0)
    /\ UNCHANGED <<page, asked, shown>>

PageNext ==
    \/ Visit
    \/ \E w \in Wishes : Change(w)
    \/ Refresh \/ Poll
    \/ \E f \in fetches : Answer(f) \/ AnswerError(f) \/ FetchThrows(f)

-----------------------------------------------------------------------------
\* When nothing is under way, the answer to the newest fetch came and no older
\* one came after it, the page shows what its filters, timeframe and address
\* say, however many fetches overlapped.  (fetchLeaders, fetchProfile)
ShownAsAsked ==
    (fetches = {} /\ ~spoiled) =>
        \A i \in Reads : shown[i].any /\ shown[i].for = asked

\* A page that polls is never stuck with an old answer, after one that was
\* overtaken or lost: again and again what it shows of each read is of one of
\* the newest fetches that can be under way at a time.  (perps, perps/[asset])
PollCatchesUp ==
    \A i \in 1 .. 2 :
        []<>(Polled /\ i \in Reads => shown[i].newer < MaxFetches)
=============================================================================
