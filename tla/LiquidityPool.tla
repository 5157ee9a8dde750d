--------------------------- MODULE LiquidityPool ---------------------------
(***************************************************************************)
(* The liquidity pool, contracts/liquidity-pool.  Providers buy LP tokens, *)
(* each a share of the pool; fees and the results of traders change what   *)
(* a token is worth.  A withdrawal is requested first and executed after a *)
(* delay; a request sets nothing aside.  The transfers of money are not    *)
(* written in the contract yet.                                            *)
(***************************************************************************)
EXTENDS BlockTime, FiniteSets, Sequences, Functions

CONSTANTS
    Providers,          \* the accounts that provide liquidity
    LpAmounts,          \* the amounts a deploy can name
    Results,            \* the results of traders that can be reported
    MinLiquidity,       \* the smallest deposit
    WithdrawalDelay,
    MaxPool,            \* bound: the liquidity, far below what U512 holds
    MaxTokens,          \* bound: the LP tokens, likewise
    MaxBooked,          \* bound: the fees and the results summed up
    MaxRequests         \* bound: the requests that are open

ASSUME PoolNumbers ==
    /\ MinLiquidity \in Nat /\ WithdrawalDelay \in Nat /\ MaxPool \in Nat
    /\ LpAmounts \subseteq Nat /\ Results \subseteq Int
    /\ IsFiniteSet(Providers)

VARIABLES
    pool,
    lp_tokens,              \* lp_tokens[u]: the LP tokens of a provider
    withdrawal_requests     \* withdrawal_requests[u]: in order of request

poolVars == <<pool, lp_tokens, withdrawal_requests>>

WithdrawalRequest == [amount : Nat, unlock_time : Nat]

PoolTypeOK ==
    /\ pool \in [total_liquidity : 0 .. MaxPool, total_lp_tokens : Nat,
                 total_fees_earned : Nat, trader_pnl : Int]
    /\ lp_tokens \in [Providers -> Nat]
    /\ withdrawal_requests \in [Providers -> Seq(WithdrawalRequest)]

\* The provider get_or_create_lp returns for an account without one has no
\* tokens and no requests.
PoolInit ==
    /\ pool = [total_liquidity |-> 0, total_lp_tokens |-> 0,
               total_fees_earned |-> 0, trader_pnl |-> 0]
    /\ lp_tokens = [u \in Providers |-> 0]
    /\ withdrawal_requests = [u \in Providers |-> <<>>]

-----------------------------------------------------------------------------
\* Mutant: the share is rounded up.
MintedRoundedUp(amount) ==
    IF pool.total_lp_tokens = 0 THEN amount
    ELSE ((amount * pool.total_lp_tokens) \div pool.total_liquidity) + 1

\* The tokens a deposit buys.
Minted(amount) ==
    IF pool.total_lp_tokens = 0 THEN amount
    ELSE (amount * pool.total_lp_tokens) \div pool.total_liquidity

\* A pool that has tokens and nothing else divides by zero.
AddLiquidity(u, amount) ==
    /\ amount >= MinLiquidity
    /\ pool.total_lp_tokens # 0 => pool.total_liquidity # 0
    /\ pool.total_liquidity + amount <= MaxPool
    /\ pool.total_lp_tokens + Minted(amount) <= MaxTokens
    /\ pool' = [pool EXCEPT !.total_liquidity = @ + amount,
                            !.total_lp_tokens = @ + Minted(amount)]
    /\ lp_tokens' = [lp_tokens EXCEPT ![u] = @ + Minted(amount)]
    /\ UNCHANGED withdrawal_requests

RequestWithdrawal(u, amount) ==
    /\ amount <= lp_tokens[u]
    /\ SumFunction([v \in Providers |-> Len(withdrawal_requests[v])]) < MaxRequests
    /\ withdrawal_requests' = [withdrawal_requests EXCEPT
         ![u] = Append(@, [amount |-> amount,
                           unlock_time |-> blocktime + WithdrawalDelay])]
    /\ UNCHANGED <<pool, lp_tokens>>

IsMature(request) == request.unlock_time <= blocktime

\* What a request is paid out of a pool.
CsprFor(p, request) ==
    (request.amount * p.total_liquidity) \div p.total_lp_tokens

Paid(p, request) ==
    [p EXCEPT !.total_liquidity = @ - CsprFor(p, request),
              !.total_lp_tokens = @ - request.amount]

\* The pool and the requests that are kept, after each of the requests in turn:
\* a mature one is paid out of what the ones before it left.
Retained(requests) ==
    LET after[k \in 0 .. Len(requests)] ==
            IF k = 0 THEN [pool |-> pool, kept |-> <<>>]
            ELSE IF IsMature(requests[k])
                 THEN [after[k - 1] EXCEPT !.pool = Paid(@, requests[k])]
                 ELSE [after[k - 1] EXCEPT !.kept = Append(@, requests[k])]
    IN after

\* Mutant: the tokens that were paid stay with the provider.
TokensKept(u, withdrawn) == lp_tokens

TokensLeft(u, withdrawn) == [lp_tokens EXCEPT ![u] = @ - withdrawn]

\* A subtraction below zero panics, and so does a division by it: the pool must
\* have the tokens for each mature request in turn.
Payable(requests) ==
    \A k \in 1 .. Len(requests) :
        IsMature(requests[k]) =>
            /\ Retained(requests)[k - 1].pool.total_lp_tokens # 0
            /\ requests[k].amount <= Retained(requests)[k - 1].pool.total_lp_tokens

Remaining(requests) == Retained(requests)[Len(requests)]

Withdrawn(requests) == pool.total_lp_tokens - Remaining(requests).pool.total_lp_tokens

CanWithdraw(u) ==
    /\ Payable(withdrawal_requests[u])
    /\ Withdrawn(withdrawal_requests[u]) # 0
    /\ Withdrawn(withdrawal_requests[u]) <= lp_tokens[u]

\* All mature requests are paid or, when the pool or the provider has not the
\* tokens for them any more, none is.
ExecuteWithdrawal(u) ==
    LET requests == withdrawal_requests[u]
    IN /\ CanWithdraw(u)
       /\ pool' = Remaining(requests).pool
       /\ lp_tokens' = TokensLeft(u, Withdrawn(requests))
       /\ withdrawal_requests' = [withdrawal_requests EXCEPT ![u] = Remaining(requests).kept]

\* Whoever calls: verify_authorized finds out and does nothing.
AddFees(amount) ==
    /\ pool.total_liquidity + amount <= MaxPool
    /\ pool.total_fees_earned + amount <= MaxBooked
    /\ pool' = [pool EXCEPT !.total_fees_earned = @ + amount,
                            !.total_liquidity = @ + amount]
    /\ UNCHANGED <<lp_tokens, withdrawal_requests>>

\* What traders won the pool lost, and no more than it had.
UpdateTraderPnl(pnl) ==
    /\ pool.total_liquidity - pnl <= MaxPool
    /\ pool.trader_pnl + pnl \in -MaxBooked .. MaxBooked
    /\ pool' = [pool EXCEPT !.trader_pnl = @ + pnl,
                            !.total_liquidity = IF pnl > @ THEN 0 ELSE @ - pnl]
    /\ UNCHANGED <<lp_tokens, withdrawal_requests>>

PoolNext ==
    \/ \E u \in Providers, amount \in LpAmounts :
          \/ AddLiquidity(u, amount) /\ UNCHANGED blocktime
          \/ RequestWithdrawal(u, amount) /\ UNCHANGED blocktime
    \/ \E u \in Providers : ExecuteWithdrawal(u) /\ UNCHANGED blocktime
    \/ \E amount \in LpAmounts : AddFees(amount) /\ UNCHANGED blocktime
    \/ \E pnl \in Results : UpdateTraderPnl(pnl) /\ UNCHANGED blocktime
    \/ Tick /\ UNCHANGED poolVars

-----------------------------------------------------------------------------
\* The tokens that providers hold are the tokens that share the pool.
TokensAddUp == SumFunction(lp_tokens) = pool.total_lp_tokens

\* What the open requests of a provider ask for in all.
Requested(u) ==
    LET open == withdrawal_requests[u]
    IN SumFunction([k \in DOMAIN open |-> open[k].amount])

\* Who asks for no more than he has can withdraw once a request is mature:
\* although nothing is set aside, neither the withdrawals of others nor the
\* results of traders leave the pool without the tokens he is paid for.
WithdrawalsHonoured ==
    \A u \in Providers :
        (/\ Requested(u) <= lp_tokens[u]
         /\ \E k \in DOMAIN withdrawal_requests[u] :
               IsMature(withdrawal_requests[u][k])
         /\ \A k \in DOMAIN withdrawal_requests[u] :
               withdrawal_requests[u][k].amount # 0)
           => CanWithdraw(u)

\* A token never loses worth but by what traders win: no deposit or withdrawal
\* of one provider, and no rounding in it, costs the others anything.
NobodyDiluted ==
    [][(pool.total_lp_tokens # 0 /\ pool'.trader_pnl <= pool.trader_pnl)
          => pool'.total_liquidity * pool.total_lp_tokens
                >= pool.total_liquidity * pool'.total_lp_tokens]_poolVars
=============================================================================
