------------------------------- MODULE Vault -------------------------------
(***************************************************************************)
(* The collateral vault, contracts/vault.  Each user has one account with  *)
(* a balance for each kind of collateral and a single amount locked for    *)
(* open positions, whatever the kind it was locked from.  A deploy runs    *)
(* alone and a revert or an arithmetic overflow undoes all of it, so every *)
(* entry point is one action whose guard is the conjunction of the checks  *)
(* it passes.  The transfers of money in and out are not written in the    *)
(* contract yet and are not modelled.                                      *)
(***************************************************************************)
EXTENDS Integers, FiniteSets, Functions

CONSTANTS
    Accounts,           \* the accounts that can send a deploy
    Users,              \* those that hold collateral
    Admin, PositionManager, SettlementContract,   \* the roles init() stores
    Amounts,            \* the amounts a deploy can name
    MaxU512,            \* the largest U512: additions past it panic
    MaxI128             \* the largest i128: likewise for realized_pnl

ASSUME RolesAreAccounts ==
    /\ Users \subseteq Accounts /\ IsFiniteSet(Users)
    /\ {Admin, PositionManager, SettlementContract} \subseteq Accounts

\* Amounts past i128 are left out: `as i128` would wrap them.
ASSUME WidthsAreNaturals ==
    /\ MaxU512 \in Nat /\ MaxI128 \in Nat
    /\ Amounts \subseteq 0 .. MaxI128

CSPR == "CSPR"
Stablecoin == "Stablecoin"
CollateralType == {CSPR, Stablecoin}

VARIABLES
    paused,
    balance,            \* balance[u]: cspr_balance and stablecoin_balance
    locked_collateral,
    total_deposited,
    total_withdrawn,
    realized_pnl,
    type_deposited,     \* TOTAL_CSPR_DEPOSITED and TOTAL_STABLECOIN_DEPOSITED
    insurance_fund,
    shortfall,          \* history: losses no balance was left to pay, by user
    overdrawn           \* history: users who lost more than a position released

accountVars == <<balance, locked_collateral, total_deposited,
                 total_withdrawn, realized_pnl>>
history == <<shortfall, overdrawn>>
vars == <<paused, accountVars, type_deposited, insurance_fund, history>>

TypeOK ==
    /\ paused \in BOOLEAN
    /\ balance \in [Users -> [CollateralType -> 0 .. MaxU512]]
    /\ locked_collateral \in [Users -> 0 .. MaxU512]
    /\ total_deposited \in [Users -> 0 .. MaxU512]
    /\ total_withdrawn \in [Users -> 0 .. MaxU512]
    /\ realized_pnl \in [Users -> -MaxI128 .. MaxI128]
    /\ type_deposited \in [CollateralType -> 0 .. MaxU512]
    /\ insurance_fund \in [CollateralType -> 0 .. MaxU512]
    /\ shortfall \in [Users -> Nat]
    /\ overdrawn \subseteq Users

-----------------------------------------------------------------------------
\* The account get_or_create_user_account returns for a user without one is
\* all zeros, the same as an account nothing happened to.
Init ==
    /\ paused = FALSE
    /\ balance = [u \in Users |-> [t \in CollateralType |-> 0]]
    /\ locked_collateral = [u \in Users |-> 0]
    /\ total_deposited = [u \in Users |-> 0]
    /\ total_withdrawn = [u \in Users |-> 0]
    /\ realized_pnl = [u \in Users |-> 0]
    /\ type_deposited = [t \in CollateralType |-> 0]
    /\ insurance_fund = [t \in CollateralType |-> 0]
    /\ shortfall = [u \in Users |-> 0]
    /\ overdrawn = {}

\* The additions a deploy performs stay within U512.
Fits(a, b) == a + b <= MaxU512

\* What balance t can still be withdrawn or locked.  The code subtracts
\* in U512, so a negative difference is a panic, which every use guards.
\* Mutant: the locked part is counted as free.
UnlockedIgnoringLocks(u, t) == balance[u][t]
Unlocked(u, t) == balance[u][t] - locked_collateral[u]

\* Mutant: both totals take the amount.
DepositCountedTwice(u, t, amount) ==
    /\ ~paused
    /\ amount # 0
    /\ Fits(balance[u][t], amount) /\ Fits(total_deposited[u], amount)
    /\ \A s \in CollateralType : Fits(type_deposited[s], amount)
    /\ balance' = [balance EXCEPT ![u][t] = @ + amount]
    /\ total_deposited' = [total_deposited EXCEPT ![u] = @ + amount]
    /\ type_deposited' = [s \in CollateralType |-> type_deposited[s] + amount]
    /\ UNCHANGED <<paused, locked_collateral, total_withdrawn, realized_pnl,
                   insurance_fund, history>>

\* deposit_cspr and deposit_stablecoin
Deposit(u, t, amount) ==
    /\ ~paused
    /\ amount # 0
    /\ Fits(balance[u][t], amount)
    /\ Fits(total_deposited[u], amount)
    /\ Fits(type_deposited[t], amount)
    /\ balance' = [balance EXCEPT ![u][t] = @ + amount]
    /\ total_deposited' = [total_deposited EXCEPT ![u] = @ + amount]
    /\ type_deposited' = [type_deposited EXCEPT ![t] = @ + amount]
    /\ UNCHANGED <<paused, locked_collateral, total_withdrawn, realized_pnl,
                   insurance_fund, history>>

\* Mutant: total_withdrawn is not updated.
WithdrawUnrecorded(u, amount) ==
    /\ ~paused
    /\ amount # 0
    /\ Unlocked(u, CSPR) >= 0
    /\ amount <= Unlocked(u, CSPR)
    /\ balance' = [balance EXCEPT ![u][CSPR] = @ - amount]
    /\ UNCHANGED <<paused, locked_collateral, total_deposited, total_withdrawn,
                   realized_pnl, type_deposited, insurance_fund, history>>

\* There is no entry point that pays stablecoin out.
WithdrawCspr(u, amount) ==
    /\ ~paused
    /\ amount # 0
    /\ Unlocked(u, CSPR) >= 0
    /\ amount <= Unlocked(u, CSPR)
    /\ Fits(total_withdrawn[u], amount)
    /\ balance' = [balance EXCEPT ![u][CSPR] = @ - amount]
    /\ total_withdrawn' = [total_withdrawn EXCEPT ![u] = @ + amount]
    /\ UNCHANGED <<paused, locked_collateral, total_deposited, realized_pnl,
                   type_deposited, insurance_fund, history>>

LockCollateral(caller, u, t, amount) ==
    /\ caller = PositionManager
    /\ Unlocked(u, t) >= 0
    /\ amount <= Unlocked(u, t)
    /\ locked_collateral' = [locked_collateral EXCEPT ![u] = @ + amount]
    /\ UNCHANGED <<paused, balance, total_deposited, total_withdrawn,
                   realized_pnl, type_deposited, insurance_fund, history>>

\* unlock_and_settle with is_profit
SettleProfit(caller, u, t, locked_amount, pnl_amount) ==
    /\ caller = SettlementContract
    /\ locked_amount <= locked_collateral[u]
    /\ Fits(balance[u][t], pnl_amount)
    /\ realized_pnl[u] + pnl_amount <= MaxI128
    /\ locked_collateral' = [locked_collateral EXCEPT ![u] = @ - locked_amount]
    /\ balance' = [balance EXCEPT ![u][t] = @ + pnl_amount]
    /\ realized_pnl' = [realized_pnl EXCEPT ![u] = @ + pnl_amount]
    /\ UNCHANGED <<paused, total_deposited, total_withdrawn, type_deposited,
                   insurance_fund, history>>

\* Mutant: the clamp is forgotten.
ChargedInFull(u, t, loss) == loss

\* What a loss takes from the balance it is charged to.
Charged(u, t, loss) == IF loss > balance[u][t] THEN balance[u][t] ELSE loss

\* unlock_and_settle without is_profit.  The comment in the code says that
\* the insurance fund covers an underwater account; the code clamps the
\* balance at zero and touches no fund.  realized_pnl takes the whole loss.
SettleLoss(caller, u, t, locked_amount, pnl_amount) ==
    /\ caller = SettlementContract
    /\ locked_amount <= locked_collateral[u]
    /\ realized_pnl[u] - pnl_amount >= -MaxI128
    /\ locked_collateral' = [locked_collateral EXCEPT ![u] = @ - locked_amount]
    /\ balance' = [balance EXCEPT ![u][t] = @ - Charged(u, t, pnl_amount)]
    /\ realized_pnl' = [realized_pnl EXCEPT ![u] = @ - pnl_amount]
    /\ shortfall' = [shortfall EXCEPT
                       ![u] = @ + (pnl_amount - Charged(u, t, pnl_amount))]
    /\ overdrawn' = IF pnl_amount > locked_amount
                    THEN overdrawn \cup {u} ELSE overdrawn
    /\ UNCHANGED <<paused, total_deposited, total_withdrawn, type_deposited,
                   insurance_fund>>

\* verify_authorized
Authorized == {Admin, PositionManager, SettlementContract}

AddToInsuranceFund(caller, t, amount) ==
    /\ caller \in Authorized
    /\ Fits(insurance_fund[t], amount)
    /\ insurance_fund' = [insurance_fund EXCEPT ![t] = @ + amount]
    /\ UNCHANGED <<paused, accountVars, type_deposited, history>>

SetPaused(caller, value) ==
    /\ caller = Admin
    /\ paused' = value
    /\ UNCHANGED <<accountVars, type_deposited, insurance_fund, history>>

\* A user deploys for himself; a role's deploy names the user it is about.
Next ==
    \/ \E u \in Users, amount \in Amounts :
          \/ \E t \in CollateralType : Deposit(u, t, amount)
          \/ WithdrawCspr(u, amount)
    \/ \E caller \in Accounts, u \in Users, t \in CollateralType, amount \in Amounts :
          \/ LockCollateral(caller, u, t, amount)
          \/ \E locked_amount \in Amounts :
                \/ SettleProfit(caller, u, t, locked_amount, amount)
                \/ SettleLoss(caller, u, t, locked_amount, amount)
    \/ \E caller \in Accounts, t \in CollateralType, amount \in Amounts :
          AddToInsuranceFund(caller, t, amount)
    \/ \E caller \in Accounts, value \in BOOLEAN : SetPaused(caller, value)

Spec == Init /\ [][Next]_vars

-----------------------------------------------------------------------------
equity == [u \in Users |-> balance[u][CSPR] + balance[u][Stablecoin]]

\* The books of every account close: what it holds and what it took out is
\* what it put in and what it won, plus the losses nobody paid.  This is what
\* withdrawals, locks, releases and clamped losses must keep true together.
BooksClose(u) ==
    equity[u] + total_withdrawn[u]
        = total_deposited[u] + realized_pnl[u] + shortfall[u]

LedgerBalanced == \A u \in Users : BooksClose(u)

\* Over all accounts, what the users can claim is the money the totals say came
\* in, less what went out, plus what was won and what nobody paid: the totals
\* per kind and the accounts, written apart, tell the same story.
ClaimsReconcile ==
    SumFunction(equity)
        = SumFunction(type_deposited) - SumFunction(total_withdrawn)
            + SumFunction(realized_pnl) + SumFunction(shortfall)

\* The collateral locked for a user's positions lies in one of his balances,
\* although a lock does not remember its kind and withdrawals look at CSPR
\* only, unless a position lost more than it released.
CollateralBacked ==
    \A u \in Users \ overdrawn :
        \E t \in CollateralType : locked_collateral[u] <= balance[u][t]

\* "Insurance fund for underwater positions", docs ARCHITECTURE.md: when a user
\* cannot pay the loss of a position and the fund could, the fund is charged.
InsuranceFundCoversUnderwater ==
    [][\A u \in Users :
          LET unpaid == shortfall'[u] - shortfall[u] IN
          (/\ locked_collateral'[u] < locked_collateral[u]
           /\ unpaid > 0
           /\ \A t \in CollateralType : insurance_fund[t] >= unpaid)
              => insurance_fund' # insurance_fund]_vars

Ledger == INSTANCE MarginLedger WITH committed <- locked_collateral

\* The vault implements the margin ledger.
LedgerSpec == Ledger!Spec
=============================================================================
