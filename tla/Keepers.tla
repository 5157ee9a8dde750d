------------------------------- MODULE Keepers -------------------------------
(***************************************************************************)
(* The services under backend/ that send the periodic deploys.  They share *)
(* nothing but the chain and their deploys go to different entry points,   *)
(* so each is explored with the others at rest: focus names the one that   *)
(* runs.                                                                   *)
(***************************************************************************)
EXTENDS DailyServices, FundingKeeper, PriceFeed

VARIABLE focus          \* the service that runs

vars == <<focus, fundingVars, feedVars, dailyVars>>

TypeOK == FundingTypeOK /\ FeedTypeOK /\ DailyTypeOK

FundingRests ==
    /\ clock = 0 /\ payments = {} /\ faults = 0
    /\ keeper = [keys |-> FALSE, scheduler |-> "cron", up |-> FALSE]
    /\ cycles = Started(FALSE)
    /\ since = [a \in PerpAssets |-> 0]
    /\ disturbed = [a \in PerpAssets |-> FALSE]

FeedRests ==
    /\ timer = 0 /\ calm = FALSE /\ cache = 0
    /\ updates = {} /\ submitted = {}
    /\ market \in MarketPrices /\ \A p \in MarketPrices : market <= p
    /\ chain = [price |-> market, age |-> 0, since |-> 0]

DailyRests ==
    /\ hour = 0 /\ settler = Stopped
    /\ validator = [ValidatorStarted(FALSE) EXCEPT !.up = FALSE]

Init ==
    \/ focus = "funding" /\ FundingInit /\ FeedRests /\ DailyRests
    \/ focus = "feed" /\ FundingRests /\ FeedInit /\ DailyRests
    \/ focus = "daily" /\ FundingRests /\ FeedRests /\ DailyInit

FundingAlone == focus = "funding" /\ UNCHANGED <<focus, feedVars, dailyVars>>
FeedAlone == focus = "feed" /\ UNCHANGED <<focus, fundingVars, dailyVars>>
DailyAlone == focus = "daily" /\ UNCHANGED <<focus, fundingVars, feedVars>>

Next ==
    \/ FundingNext /\ FundingAlone
    \/ FeedNext /\ FeedAlone
    \/ DailyNext /\ DailyAlone

\* Timers fire, processes are started again, the network answers and blocks
\* are made.  Faults are not ruled out by it.
Fairness ==
    /\ WF_vars(FundingTick /\ FundingAlone)
    /\ WF_vars((\E j \in Jobs : CycleStep(j)) /\ FundingAlone)
    /\ WF_vars((\E d \in payments : ExecutePayFunding(d)) /\ FundingAlone)
    /\ WF_vars(StartFundingKeeper /\ FundingAlone)
    /\ WF_vars(FeedTick /\ FeedAlone)
    /\ WF_vars(SetTimer /\ FeedAlone)
    /\ WF_vars((\E u \in updates : ReadSource(u) \/ ReceivePrice(u)) /\ FeedAlone)
    /\ WF_vars((\E d \in submitted : ExecutePrice(d)) /\ FeedAlone)

Spec == Init /\ [][Next]_vars /\ Fairness
-----------------------------------------------------------------------------
\* "Triggers funding rate calculations and payments every 8 hours": without a
\* fault, the time between two payments is an interval and what the network
\* takes.  (funding-keeper.js, header)
FundedEveryInterval ==
    keeper.keys =>
        \A a \in PerpAssets :
            disturbed[a] \/ since[a] <= Interval + MaxCycle + MaxDelay
=============================================================================
