---------------------------- MODULE DailyServices ----------------------------
(***************************************************************************)
(* The two services of the daily markets: backend/oracle-validator, which  *)
(* at 00:00 sends the price of each asset to the oracle, and               *)
(* backend/settlement-keeper, which at 00:05 sends one deploy that settles *)
(* every market, and tries again five minutes after a deploy that could    *)
(* not be sent.  Both forget everything when their process ends.           *)
(***************************************************************************)
EXTENDS FiniteSets, Naturals

CONSTANTS
    DailyAssets,        \* the number of assets that prices are sent for
    DayLength,          \* ticks of five minutes in a day
    RetryDelay,         \* ticks until a settlement is tried again
    MaxStarts           \* bound: settlements started by cron or at startup

ASSUME DailyNumbers ==
    {DailyAssets, DayLength, RetryDelay, MaxStarts} \subseteq Nat \ {0}

VARIABLES
    hour,               \* the time of day
    settler,            \* the keeper: up; settling, runs that wait for
                        \*   putDeploy; timers, the runs that are due in 1, 2,
                        \*   .. ticks; starts and sent, history since it is up
    validator           \* up; runs, the submissions in progress; failed, the
                        \*   assets of the last one that could not be sent

dailyVars == <<hour, settler, validator>>

NoTimers == [k \in 1 .. RetryDelay |-> 0]
Stopped == [up |-> FALSE, settling |-> 0, timers |-> NoTimers,
            starts |-> 0, sent |-> 0]
Counts == 0 .. MaxStarts

DailyTypeOK ==
    /\ hour \in 0 .. DayLength - 1
    /\ settler \in [up : BOOLEAN, settling : Counts,
                    timers : [1 .. RetryDelay -> Counts],
                    starts : Counts, sent : Counts]
    /\ validator \in [up : BOOLEAN, failed : SUBSET (1 .. DailyAssets),
           runs : [{"cron", "startup"} -> 0 .. DailyAssets]]

\* init: RUN_ON_STARTUP starts a settlement at once.
SettlerStarted(atOnce) ==
    LET n == IF atOnce THEN 1 ELSE 0
    IN [Stopped EXCEPT !.up = TRUE, !.settling = n, !.starts = n]

\* init: the number of the asset that the run at startup is at, 0 for none.
ValidatorStarted(atOnce) ==
    [up |-> TRUE, failed |-> {},
     runs |-> [cron |-> 0, startup |-> IF atOnce THEN 1 ELSE 0]]

DailyInit ==
    /\ hour \in 0 .. DayLength - 1
    /\ \E atOnce \in BOOLEAN : settler = SettlerStarted(atOnce)
    /\ \E atOnce \in BOOLEAN : validator = ValidatorStarted(atOnce)

SettlementHour == 1     \* five minutes after the submission
SubmissionHour == 0

\* Time passes: timers run down and start their runs, cron starts another.
\* Between two ticks a submission is done with its assets.
DailyTick ==
    LET time == (hour + 1) % DayLength
        cron == IF settler.up /\ time = SettlementHour THEN 1 ELSE 0
    IN /\ settler.starts + cron <= MaxStarts
       /\ \A r \in DOMAIN validator.runs : validator.runs[r] = 0
       /\ hour' = time
       /\ settler' = [settler EXCEPT
              !.settling = @ + settler.timers[1] + cron,
              !.timers = [k \in 1 .. RetryDelay |->
                             IF k < RetryDelay THEN @[k + 1] ELSE 0],
              !.starts = @ + cron]
       /\ validator' = IF validator.up /\ time = SubmissionHour
                       THEN [validator EXCEPT !.runs["cron"] = 1]
                       ELSE validator

\* settleAllMarkets: the deploy for all the markets was sent.  What becomes of
\* it on chain is not asked.
SettlementSent ==
    /\ settler.settling > 0
    /\ settler' = [settler EXCEPT !.settling = @ - 1, !.sent = @ + 1]
    /\ UNCHANGED <<hour, validator>>

\* Mutant: the retry is scheduled by the run and by its caller.
ScheduledTwice(timers) == [timers EXCEPT ![RetryDelay] = @ + 2]

\* setTimeout(runDailySettlement, ...)
Scheduled(timers) == [timers EXCEPT ![RetryDelay] = @ + 1]

\* settleAllMarkets threw, by the key, the hash or the node.
SettlementFails ==
    /\ settler.settling > 0
    /\ settler' = [settler EXCEPT !.settling = @ - 1,
                                  !.timers = Scheduled(@)]
    /\ UNCHANGED <<hour, validator>>

\* SIGINT, a crash, or a failed health check before anything is scheduled.
StopSettler ==
    /\ settler.up /\ settler' = Stopped
    /\ UNCHANGED <<hour, validator>>

StartSettler ==
    /\ ~settler.up
    /\ \E atOnce \in BOOLEAN : settler' = SettlerStarted(atOnce)
    /\ UNCHANGED <<hour, validator>>

\* submitAssetPrice for the next asset of a run: sent, or failed for good, and
\* the run goes on.  The price is the source's, or a constant when that fails.
SubmitAssetPrice(r) ==
    LET asset == validator.runs[r]
        next == IF asset = DailyAssets THEN 0 ELSE asset + 1
        before == IF asset = 1 THEN {} ELSE validator.failed
    IN /\ asset > 0
       /\ \E lost \in {{}, {asset}} :
             validator' = [validator EXCEPT !.runs[r] = next,
                                            !.failed = before \cup lost]
       /\ UNCHANGED <<hour, settler>>

StopValidator ==
    /\ validator.up
    /\ validator' = [ValidatorStarted(FALSE) EXCEPT !.up = FALSE]
    /\ UNCHANGED <<hour, settler>>

StartValidator ==
    /\ ~validator.up
    /\ \E atOnce \in BOOLEAN : validator' = ValidatorStarted(atOnce)
    /\ UNCHANGED <<hour, settler>>

DailyNext ==
    \/ DailyTick
    \/ SettlementSent \/ SettlementFails
    \/ StopSettler \/ StartSettler
    \/ \E r \in {"cron", "startup"} : SubmitAssetPrice(r)
    \/ StopValidator \/ StartValidator

-----------------------------------------------------------------------------
\* The runs that some timers will start.
RunsPending(timers) ==
    LET sum[k \in 0 .. RetryDelay] ==
            IF k = 0 THEN 0 ELSE sum[k - 1] + timers[k]
    IN sum[RetryDelay]

\* Every settlement that was started was sent, is being sent or waits for its
\* retry, exactly once: none is forgotten and none multiplies, however retries
\* of one day run into the start of the next.  (runDailySettlement)
StartsAccounted ==
    settler.starts = settler.sent + settler.settling + RunsPending(settler.timers)
=============================================================================
