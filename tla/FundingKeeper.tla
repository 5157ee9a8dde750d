---------------------------- MODULE FundingKeeper ----------------------------
(***************************************************************************)
(* The funding keeper, backend/services/funding-keeper.js.  Three cron     *)
(* jobs (or a check once a minute) start a cycle at 00:00, 08:00 and 16:00 *)
(* UTC; a cycle sends pay_funding for one asset after the other.  A deploy *)
(* that was sent counts as paid: nobody reads its result.  The market      *)
(* factory, seen here as the time since an asset's last payment, reverts   *)
(* one that comes before the funding interval is over.  Time is relative,  *)
(* so a behaviour may go on for ever.                                      *)
(***************************************************************************)
EXTENDS FiniteSets, Naturals

CONSTANTS
    FundingAssets,      \* PERP_ASSETS in the order of their types, 1 .. n
    Interval,           \* ticks in a funding interval: eight hours
    MaxCycle,           \* the network: ticks that a cycle may take
    MaxDelay,           \* the network: ticks between sending and execution
    RunImmediately,     \* the values that RUN_IMMEDIATELY may have at a start
    MaxFaults           \* bound: crashes, failed sends and lost deploys

ASSUME FundingNumbers ==
    /\ FundingAssets \in Nat \ {0}
    /\ Interval \in Nat \ {0} /\ MaxFaults \in Nat
    /\ RunImmediately \in SUBSET BOOLEAN \ {{}}
    /\ MaxCycle \in Nat /\ MaxDelay \in Nat /\ MaxCycle + MaxDelay < Interval

VARIABLES
    clock,              \* the time of day
    keeper,             \* keys: a key was loaded; scheduler; up: it runs
    cycles,             \* the cycle that cron started, the one at startup
    payments,           \* pay_funding deploys sent and not yet executed
    since,              \* asset -> ticks since its last_funding_time
    disturbed,          \* history: asset -> no payment was executed yet, or a
                        \*   fault may have cost one since the last
    faults              \* bound: faults so far

keeperVars == <<keeper, cycles>>
fundingVars == <<clock, keeperVars, payments, since, disturbed, faults>>

PerpAssets == 1 .. FundingAssets
Day == 3 * Interval
GapLimit == 2 * Interval + MaxCycle + MaxDelay   \* since stops counting here

NoCycle == [asset |-> 0, phase |-> "idle", age |-> 0]
NewCycle == [asset |-> 1, phase |-> "pay", age |-> 0]
Cycle == {NoCycle} \cup
    [asset : PerpAssets, phase : {"pay", "wait", "pause"}, age : 0 .. MaxCycle]
Jobs == {"cron", "startup"}

FundingTypeOK ==
    /\ clock \in 0 .. Day - 1
    /\ keeper \in [keys : BOOLEAN, scheduler : {"cron", "interval"}, up : BOOLEAN]
    /\ cycles \in [Jobs -> Cycle]
    /\ payments \subseteq [asset : PerpAssets, age : 0 .. MaxDelay]
    /\ since \in [PerpAssets -> 0 .. GapLimit]
    /\ disturbed \in [PerpAssets -> BOOLEAN]
    /\ faults \in 0 .. MaxFaults

\* main: the jobs are scheduled, and RUN_IMMEDIATELY starts a cycle at once.
Started(immediate) ==
    [j \in Jobs |-> IF j = "startup" /\ immediate THEN NewCycle ELSE NoCycle]

\* The perps were created, or funded, just now or longer ago.
FundingInit ==
    /\ clock \in 0 .. Day - 1
    /\ \E keys \in BOOLEAN, s \in {"cron", "interval"} :
          keeper = [keys |-> keys, scheduler |-> s, up |-> TRUE]
    /\ \E immediate \in RunImmediately : cycles = Started(immediate)
    /\ payments = {}
    /\ \E n \in {0, Interval} : since = [a \in PerpAssets |-> n]
    /\ disturbed = [a \in PerpAssets |-> TRUE]
    /\ faults = 0

\* Mutant: the job of 16:00 is missing.
FundingHoursTwice == {0, Interval}

\* The hours of the cron expressions.
FundingHours == {0, Interval, 2 * Interval}

\* What the schedulers do at a time of day.  A cron job fires.  The check
\* every sixty seconds may find no minute zero: its period drifts.
Fires(time) ==
    IF time \notin FundingHours \/ ~keeper.up THEN {FALSE}
    ELSE IF keeper.scheduler = "cron" THEN {TRUE}
    ELSE BOOLEAN

Aged(job) ==
    IF cycles[job] = NoCycle THEN NoCycle
    ELSE [cycles[job] EXCEPT !.age = @ + 1]

\* Time passes, no faster than the network's limits allow.
FundingTick ==
    LET time == (clock + 1) % Day IN
    /\ \A j \in Jobs : cycles[j].age < MaxCycle \/ cycles[j] = NoCycle
    /\ \A d \in payments : d.age < MaxDelay
    /\ clock' = time
    /\ \E fires \in Fires(time) :
          /\ cycles' = [j \in Jobs |->
                 IF j = "cron" /\ fires THEN NewCycle ELSE Aged(j)]
          /\ disturbed' = [a \in PerpAssets |->
                 disturbed[a] \/ (time \in FundingHours /\ ~fires)]
    /\ payments' = {[d EXCEPT !.age = @ + 1] : d \in payments}
    /\ since' = [a \in PerpAssets |->
                    IF since[a] < GapLimit THEN since[a] + 1 ELSE GapLimit]
    /\ UNCHANGED <<keeper, faults>>

CanFail == faults < MaxFaults /\ faults' = faults + 1
At(j, phase) == keeper.up /\ cycles[j].phase = phase

\* payFunding: the deploy is sent, or without keys only said to be, and the
\* cycle waits five seconds for it to finalize.
PayFunding(j) ==
    /\ At(j, "pay")
    /\ payments' = payments \cup
           IF keeper.keys THEN {[asset |-> cycles[j].asset, age |-> 0]} ELSE {}
    /\ cycles' = [cycles EXCEPT ![j].phase = "wait"]
    /\ UNCHANGED <<clock, keeper, since, disturbed, faults>>

\* payFunding, when putDeploy throws: the asset is left for the next cycle.
PayFundingFails(j) ==
    /\ At(j, "pay") /\ keeper.keys /\ CanFail
    /\ cycles' = [cycles EXCEPT ![j].phase = "pause"]
    /\ disturbed' = [disturbed EXCEPT ![cycles[j].asset] = TRUE]
    /\ UNCHANGED <<clock, keeper, payments, since>>

\* applyFundingBatch: sent or not, the cycle goes on, whatever became of the
\* payment; the entry point it calls changes nothing.
ApplyFundingBatch(j) ==
    /\ At(j, "wait")
    /\ cycles' = [cycles EXCEPT ![j].phase = "pause"]
    /\ UNCHANGED <<clock, keeper, payments, since, disturbed, faults>>

\* Mutant: the cycle ends with its first asset.
FirstAssetOnly(c) == NoCycle

\* Mutant: the loop goes one past the last asset.
OnePastTheLast(c) ==
    IF c.asset > FundingAssets THEN NoCycle
    ELSE [c EXCEPT !.asset = @ + 1, !.phase = "pay"]

\* The loop of executeFundingCycle over the assets.
AfterPause(c) ==
    IF c.asset = FundingAssets THEN NoCycle
    ELSE [c EXCEPT !.asset = @ + 1, !.phase = "pay"]

\* executeFundingCycle: two seconds later the next asset, after the last none.
NextAsset(j) ==
    /\ At(j, "pause")
    /\ cycles' = [cycles EXCEPT ![j] = AfterPause(@)]
    /\ UNCHANGED <<clock, keeper, payments, since, disturbed, faults>>

\* The factory's pay_funding runs: FUNDING_TOO_EARLY, or the asset is funded.
ExecutePayFunding(d) ==
    LET early == since[d.asset] < Interval IN
    /\ payments' = payments \ {d}
    /\ since' = IF early THEN since ELSE [since EXCEPT ![d.asset] = 0]
    /\ disturbed' = IF early THEN disturbed
                    ELSE [disturbed EXCEPT ![d.asset] = FALSE]
    /\ UNCHANGED <<clock, keeperVars, faults>>

\* A deploy expires before a block takes it.
LosePayment(d) ==
    /\ CanFail
    /\ payments' = payments \ {d}
    /\ disturbed' = [disturbed EXCEPT ![d.asset] = TRUE]
    /\ UNCHANGED <<clock, keeperVars, since>>

\* The process ends, also by SIGINT or SIGTERM: nothing of a cycle is kept.
StopFundingKeeper ==
    /\ keeper.up /\ CanFail
    /\ keeper' = [keeper EXCEPT !.up = FALSE]
    /\ cycles' = [j \in Jobs |-> NoCycle]
    /\ disturbed' = [a \in PerpAssets |->
           disturbed[a] \/ \E j \in Jobs : cycles[j] # NoCycle]
    /\ UNCHANGED <<clock, payments, since>>

StartFundingKeeper ==
    /\ ~keeper.up
    /\ keeper' = [keeper EXCEPT !.up = TRUE]
    /\ \E immediate \in RunImmediately : cycles' = Started(immediate)
    /\ UNCHANGED <<clock, payments, since, disturbed, faults>>

CycleStep(j) == PayFunding(j) \/ ApplyFundingBatch(j) \/ NextAsset(j)

FundingNext ==
    \/ FundingTick
    \/ \E j \in Jobs : CycleStep(j) \/ PayFundingFails(j)
    \/ \E d \in payments : ExecutePayFunding(d) \/ LosePayment(d)
    \/ StopFundingKeeper
    \/ StartFundingKeeper

-----------------------------------------------------------------------------
\* An asset is funded at most two intervals after its last payment, a cycle and
\* the delay of a deploy aside, as long as cron schedules and no crash, failed
\* send or lost deploy intervened, although a payment that comes seconds early is
\* reverted and not repeated.  (main, payFunding; pay_funding of the factory)
GapBounded ==
    keeper.keys =>
        \A a \in PerpAssets : disturbed[a] \/ since[a] < GapLimit

\* Every asset is funded again and again: faults that come to an end leave no
\* asset behind.  (executeFundingCycle, main)
FundingGoesOn ==
    keeper.keys /\ keeper.scheduler = "cron" =>
        \A a \in PerpAssets : []<>(since[a] = 0)
=============================================================================
