--------------------------- MODULE CustodyProofs ---------------------------
(***************************************************************************)
(* For any set of users, any amounts and any integer widths: the vault's   *)
(* types, books and backing, and that it implements the margin ledger; for *)
(* any providers, voters and farmers, any times and rates: no provider is  *)
(* diluted, decisions stand, rewards are neither lost nor made up, and     *)
(* every total a contract keeps is the sum of its parts.                   *)
(***************************************************************************)
EXTENDS Custody, CommonProofs

USE DEF CSPR, Stablecoin, CollateralType, accountVars, history

-----------------------------------------------------------------------------
LEMMA AmountsNat == Amounts \subseteq Nat
BY WidthsAreNaturals

\* What a loss takes is a part of the balance and of the loss.
LEMMA ChargedBound ==
    ASSUME TypeOK, NEW u \in Users, NEW t \in CollateralType, NEW loss \in Nat
    PROVE  /\ Charged(u, t, loss) \in 0 .. loss
           /\ Charged(u, t, loss) <= balance[u][t]
           /\ balance[u][t] - Charged(u, t, loss) \in 0 .. MaxU512
BY WidthsAreNaturals, SMT DEF TypeOK, Charged

\* Every variable of the vault keeps its type, in particular no balance and
\* no lock ever leaves the range of U512: the check of
\* contracts/vault/src/main.rs that comes before each subtraction is enough.
THEOREM TypeCorrect == Spec => []TypeOK
<1>1. Init => TypeOK
  <2>1. 0 \in 0 .. MaxU512 /\ 0 \in -MaxI128 .. MaxI128 /\ 0 \in Nat
    BY WidthsAreNaturals
  <2>2. [t \in CollateralType |-> 0] \in [CollateralType -> 0 .. MaxU512]
    BY <2>1
  <2>3. Init => balance \in [Users -> [CollateralType -> 0 .. MaxU512]]
    BY <2>2, Zenon DEF Init
  <2>4. Init => paused \in BOOLEAN /\ overdrawn \subseteq Users
    BY DEF Init
  <2>5. Init => /\ type_deposited \in [CollateralType -> 0 .. MaxU512]
                /\ insurance_fund \in [CollateralType -> 0 .. MaxU512]
    BY <2>2 DEF Init
  <2> QED
    BY <2>1, <2>3, <2>4, <2>5 DEF Init, TypeOK
<1>2. TypeOK /\ [Next]_vars => TypeOK'
  <2> SUFFICES ASSUME TypeOK, [Next]_vars
               PROVE  TypeOK'
    OBVIOUS
  <2> USE WidthsAreNaturals
  <2>1. ASSUME NEW u \in Users, NEW t \in CollateralType, NEW n \in Amounts,
               Deposit(u, t, n)
        PROVE  TypeOK'
    BY <2>1, SMT DEF Deposit, Fits, TypeOK
  <2>2. ASSUME NEW u \in Users, NEW n \in Amounts, WithdrawCspr(u, n)
        PROVE  TypeOK'
    BY <2>2, SMT DEF WithdrawCspr, Fits, Unlocked, TypeOK
  <2>3. ASSUME NEW c \in Accounts, NEW u \in Users, NEW t \in CollateralType,
               NEW n \in Amounts, LockCollateral(c, u, t, n)
        PROVE  TypeOK'
    BY <2>3, SMT DEF LockCollateral, Unlocked, TypeOK
  <2>4. ASSUME NEW c \in Accounts, NEW u \in Users, NEW t \in CollateralType,
               NEW n \in Amounts, NEW released \in Amounts,
               SettleProfit(c, u, t, released, n)
        PROVE  TypeOK'
    BY <2>4, SMT DEF SettleProfit, Fits, TypeOK
  <2>5. ASSUME NEW c \in Accounts, NEW u \in Users, NEW t \in CollateralType,
               NEW n \in Amounts, NEW released \in Amounts,
               SettleLoss(c, u, t, released, n)
        PROVE  TypeOK'
    <3>1. n \in Nat /\ released \in Nat
      OBVIOUS
    <3>2. /\ Charged(u, t, n) \in 0 .. n
          /\ balance[u][t] - Charged(u, t, n) \in 0 .. MaxU512
      BY <3>1, ChargedBound
    <3> QED
      BY <2>5, <3>1, <3>2, SMT DEF SettleLoss, TypeOK
  <2>6. ASSUME NEW c \in Accounts, NEW t \in CollateralType, NEW n \in Amounts,
               AddToInsuranceFund(c, t, n)
        PROVE  TypeOK'
    BY <2>6, SMT DEF AddToInsuranceFund, Fits, TypeOK
  <2>7. ASSUME NEW c \in Accounts, NEW value \in BOOLEAN, SetPaused(c, value)
        PROVE  TypeOK'
    BY <2>7, Zenon DEF SetPaused, TypeOK
  <2>8. CASE UNCHANGED vars
    BY <2>8, Zenon DEF vars, TypeOK
  <2> QED
    BY <2>1, <2>2, <2>3, <2>4, <2>5, <2>6, <2>7, <2>8, Zenon DEF Next
<1> QED
  BY <1>1, <1>2, PTL DEF Spec

-----------------------------------------------------------------------------
\* No balance exceeds the equity.
LEMMA EquityType ==
    ASSUME TypeOK
    PROVE  /\ equity \in [Users -> Nat]
           /\ \A u \in Users, t \in CollateralType : balance[u][t] <= equity[u]
<1>1. \A u \in Users : \A t \in CollateralType : balance[u][t] \in Nat
  BY WidthsAreNaturals, SMT DEF TypeOK
<1> QED
  BY <1>1, SMT DEF equity

\* The equity of a user moves with the balance that moves.
LEMMA EquityGrows ==
    ASSUME TypeOK, NEW u \in Users, NEW t \in CollateralType, NEW n \in Nat,
           balance' = [balance EXCEPT ![u][t] = @ + n]
    PROVE  equity' = [equity EXCEPT ![u] = @ + n]
<1>1. equity \in [Users -> Nat]
  BY EquityType
<1>2. ASSUME NEW v \in Users
      PROVE  equity'[v] = IF v = u THEN equity[u] + n ELSE equity[v]
  <2>1. balance \in [Users -> [CollateralType -> Int]]
    BY SMT DEF TypeOK
  <2>2. balance'[v] = IF v = u THEN [balance[u] EXCEPT ![t] = @ + n]
                                ELSE balance[v]
    BY <2>1, Zenon
  <2>3. balance[v] \in [CollateralType -> Int]
    BY <2>1, Zenon
  <2>4. balance'[v][CSPR] + balance'[v][Stablecoin]
          = (balance[v][CSPR] + balance[v][Stablecoin])
              + (IF v = u THEN n ELSE 0)
    <3>1. CASE v = u /\ t = CSPR
      BY <3>1, <2>2, <2>3, SMT
    <3>2. CASE v = u /\ t = Stablecoin
      BY <3>2, <2>2, <2>3, SMT
    <3>3. CASE v # u
      BY <3>3, <2>2, <2>3, SMT
    <3> QED
      BY <3>1, <3>2, <3>3
  <2> QED
    BY <1>1, <2>4, SMT DEF equity
<1> QED
  BY <1>1, <1>2, Zenon DEF equity

LEMMA EquityShrinks ==
    ASSUME TypeOK, NEW u \in Users, NEW t \in CollateralType, NEW n \in Nat,
           balance' = [balance EXCEPT ![u][t] = @ - n]
    PROVE  equity' = [equity EXCEPT ![u] = @ - n]
<1>1. equity \in [Users -> Nat]
  BY EquityType
<1>2. ASSUME NEW v \in Users
      PROVE  equity'[v] = IF v = u THEN equity[u] - n ELSE equity[v]
  <2>1. balance \in [Users -> [CollateralType -> Int]]
    BY SMT DEF TypeOK
  <2>2. balance'[v] = IF v = u THEN [balance[u] EXCEPT ![t] = @ - n]
                                ELSE balance[v]
    BY <2>1, Zenon
  <2>3. balance[v] \in [CollateralType -> Int]
    BY <2>1, Zenon
  <2>4. balance'[v][CSPR] + balance'[v][Stablecoin]
          = (balance[v][CSPR] + balance[v][Stablecoin])
              - (IF v = u THEN n ELSE 0)
    <3>1. CASE v = u /\ t = CSPR
      BY <3>1, <2>2, <2>3, SMT
    <3>2. CASE v = u /\ t = Stablecoin
      BY <3>2, <2>2, <2>3, SMT
    <3>3. CASE v # u
      BY <3>3, <2>2, <2>3, SMT
    <3> QED
      BY <3>1, <3>2, <3>3
  <2> QED
    BY <1>1, <2>4, SMT DEF equity
<1> QED
  BY <1>1, <1>2, Zenon DEF equity

\* The books of every account close, whatever is clamped: deposits, winnings
\* and unpaid losses on one side, holdings and withdrawals on the other.
THEOREM BooksAlwaysClose == Spec => []LedgerBalanced
<1>1. Init => LedgerBalanced
  BY SMT DEF Init, LedgerBalanced, BooksClose, equity
<1>2. TypeOK /\ LedgerBalanced /\ [Next]_vars => LedgerBalanced'
  <2> SUFFICES ASSUME TypeOK, LedgerBalanced, [Next]_vars, NEW w \in Users
               PROVE  BooksClose(w)'
    BY DEF LedgerBalanced
  <2>0. /\ BooksClose(w)
        /\ equity \in [Users -> Nat] /\ Amounts \subseteq Nat
        /\ total_deposited \in [Users -> Nat] /\ total_withdrawn \in [Users -> Nat]
        /\ realized_pnl \in [Users -> Int] /\ shortfall \in [Users -> Nat]
    BY EquityType, AmountsNat, WidthsAreNaturals, SMT DEF LedgerBalanced, TypeOK
  <2>1. ASSUME NEW u \in Users, NEW t \in CollateralType, NEW n \in Amounts,
               Deposit(u, t, n)
        PROVE  BooksClose(w)'
    <3>1. equity' = [equity EXCEPT ![u] = @ + n]
      BY <2>1, AmountsNat, EquityGrows DEF Deposit
    <3> QED
      BY <2>0, <2>1, <3>1, SMT DEF Deposit, BooksClose
  <2>2. ASSUME NEW u \in Users, NEW n \in Amounts, WithdrawCspr(u, n)
        PROVE  BooksClose(w)'
    <3>1. equity' = [equity EXCEPT ![u] = @ - n]
      BY <2>2, AmountsNat, EquityShrinks DEF WithdrawCspr
    <3> QED
      BY <2>0, <2>2, <3>1, SMT DEF WithdrawCspr, BooksClose
  <2>3. ASSUME NEW c \in Accounts, NEW u \in Users, NEW t \in CollateralType,
               NEW n \in Amounts, LockCollateral(c, u, t, n)
        PROVE  BooksClose(w)'
    BY <2>0, <2>3 DEF LockCollateral, BooksClose, equity
  <2>4. ASSUME NEW c \in Accounts, NEW u \in Users, NEW t \in CollateralType,
               NEW n \in Amounts, NEW released \in Amounts,
               SettleProfit(c, u, t, released, n)
        PROVE  BooksClose(w)'
    <3>1. equity' = [equity EXCEPT ![u] = @ + n]
      BY <2>4, AmountsNat, EquityGrows DEF SettleProfit
    <3> QED
      BY <2>0, <2>4, <3>1, SMT DEF SettleProfit, BooksClose
  <2>5. ASSUME NEW c \in Accounts, NEW u \in Users, NEW t \in CollateralType,
               NEW n \in Amounts, NEW released \in Amounts,
               SettleLoss(c, u, t, released, n)
        PROVE  BooksClose(w)'
    <3>1. PICK charged \in 0 .. n : charged = Charged(u, t, n)
      BY AmountsNat, ChargedBound
    <3>2. equity' = [equity EXCEPT ![u] = @ - charged]
      <4>1. balance' = [balance EXCEPT ![u][t] = @ - charged]
        BY <2>5, <3>1, Zenon DEF SettleLoss
      <4>2. charged \in Nat
        BY <3>1
      <4> QED
        BY <4>1, <4>2, EquityShrinks
    <3>3. /\ shortfall' = [shortfall EXCEPT ![u] = @ + (n - charged)]
          /\ realized_pnl' = [realized_pnl EXCEPT ![u] = @ - n]
          /\ UNCHANGED <<total_deposited, total_withdrawn>>
      <4>1. shortfall' = [shortfall EXCEPT ![u] = @ + (n - charged)]
        BY <2>5, <3>1, Zenon DEF SettleLoss
      <4>2. realized_pnl' = [realized_pnl EXCEPT ![u] = @ - n]
        BY <2>5, Zenon DEF SettleLoss
      <4>3. UNCHANGED <<total_deposited, total_withdrawn>>
        BY <2>5, Zenon DEF SettleLoss
      <4> QED
        BY <4>1, <4>2, <4>3
    <3> QED
      BY <2>0, <3>1, <3>2, <3>3, SMT DEF BooksClose
  <2>6. ASSUME NEW c \in Accounts, NEW t \in CollateralType, NEW n \in Amounts,
               AddToInsuranceFund(c, t, n)
        PROVE  BooksClose(w)'
    BY <2>0, <2>6 DEF AddToInsuranceFund, BooksClose, equity
  <2>7. ASSUME NEW c \in Accounts, NEW value \in BOOLEAN, SetPaused(c, value)
        PROVE  BooksClose(w)'
    BY <2>0, <2>7 DEF SetPaused, BooksClose, equity
  <2>8. CASE UNCHANGED vars
    BY <2>0, <2>8 DEF vars, BooksClose, equity
  <2> QED
    BY <2>1, <2>2, <2>3, <2>4, <2>5, <2>6, <2>7, <2>8, Zenon DEF Next
<1> QED
  BY <1>1, <1>2, TypeCorrect, PTL DEF Spec

-----------------------------------------------------------------------------
\* What the totals per kind say came in is what the accounts say.
DepositsReconcile == SumFunction(total_deposited) = SumFunction(type_deposited)

LEMMA SetsAreFinite == IsFiniteSet(Users) /\ IsFiniteSet(CollateralType)
<1>1. IsFiniteSet({CSPR} \cup {Stablecoin})
  BY FS_Singleton, FS_AddElement
<1>2. CollateralType = {CSPR} \cup {Stablecoin}
  OBVIOUS
<1> QED
  BY <1>1, <1>2, RolesAreAccounts

\* The totals a vault keeps, as functions to integers.
LEMMA TotalsType ==
    ASSUME TypeOK
    PROVE  /\ total_deposited \in [Users -> Int] /\ type_deposited \in [CollateralType -> Int]
           /\ equity \in [Users -> Int] /\ total_withdrawn \in [Users -> Int]
           /\ realized_pnl \in [Users -> Int] /\ shortfall \in [Users -> Int]
BY EquityType, WidthsAreNaturals, SMT DEF TypeOK

\* No account can claim what the totals do not have: for any users, kinds and
\* amounts, the claims add up to what came in less what went out, corrected by
\* results and by the losses nobody paid.
THEOREM ClaimsAlwaysReconcile == Spec => []ClaimsReconcile
<1>1. Init => DepositsReconcile
  <2> SUFFICES ASSUME Init PROVE DepositsReconcile
    OBVIOUS
  <2>1. total_deposited \in [Users -> {0}] /\ type_deposited \in [CollateralType -> {0}]
    BY DEF Init
  <2> QED
    BY <2>1, SetsAreFinite, SumZero DEF DepositsReconcile
<1>2. TypeOK /\ TypeOK' /\ DepositsReconcile /\ [Next]_vars => DepositsReconcile'
  <2> SUFFICES ASSUME TypeOK, TypeOK', DepositsReconcile, [Next]_vars
               PROVE  DepositsReconcile'
    OBVIOUS
  <2>t. /\ total_deposited \in [Users -> Int] /\ total_deposited' \in [Users -> Int]
        /\ type_deposited \in [CollateralType -> Int]
        /\ type_deposited' \in [CollateralType -> Int]
    BY TotalsType, WidthsAreNaturals, SMT DEF TypeOK
  <2>1. ASSUME NEW u \in Users, NEW t \in CollateralType, NEW n \in Amounts,
               Deposit(u, t, n)
        PROVE  DepositsReconcile'
    <3>1. /\ total_deposited' = [total_deposited EXCEPT ![u] = @ + n]
          /\ type_deposited' = [type_deposited EXCEPT ![t] = @ + n]
          /\ n \in Nat
      BY <2>1, AmountsNat DEF Deposit
    <3>2. SumFunction(total_deposited')
            = SumFunction(total_deposited) + (total_deposited'[u] - total_deposited[u])
      <4>1. \A v \in Users : v # u => total_deposited'[v] = total_deposited[v]
        BY <2>t, <3>1
      <4> QED
        BY <2>t, <4>1, SetsAreFinite, SumAt, Zenon
    <3>3. SumFunction(type_deposited')
            = SumFunction(type_deposited) + (type_deposited'[t] - type_deposited[t])
      <4>1. \A v \in CollateralType : v # t => type_deposited'[v] = type_deposited[v]
        BY <2>t, <3>1
      <4> QED
        BY <2>t, <4>1, SetsAreFinite, SumAt, Zenon
    <3>4. /\ total_deposited'[u] - total_deposited[u] = n
          /\ type_deposited'[t] - type_deposited[t] = n
      BY <2>t, <3>1
    <3> QED
      BY <3>2, <3>3, <3>4 DEF DepositsReconcile
  <2>2. CASE UNCHANGED <<total_deposited, type_deposited>>
    BY <2>2 DEF DepositsReconcile
  <2>3. CASE UNCHANGED vars
    BY <2>2, <2>3 DEF vars
  <2> QED
    BY <2>1, <2>2, <2>3 DEF Next, WithdrawCspr, LockCollateral, SettleProfit,
                            SettleLoss, AddToInsuranceFund, SetPaused
<1>3. TypeOK /\ LedgerBalanced /\ DepositsReconcile => ClaimsReconcile
  <2> SUFFICES ASSUME TypeOK, LedgerBalanced, DepositsReconcile PROVE ClaimsReconcile
    OBVIOUS
  <2> DEFINE held == [u \in Users |-> equity[u] + 1 * total_withdrawn[u]]
             won == [u \in Users |-> total_deposited[u] + 1 * realized_pnl[u]]
             owed == [u \in Users |-> won[u] + 1 * shortfall[u]]
  <2>1. held \in [Users -> Int] /\ won \in [Users -> Int] /\ owed \in [Users -> Int]
    BY TotalsType
  <2>2. held = owed
    <3>1. \A u \in Users : held[u] = owed[u]
      BY TotalsType DEF LedgerBalanced, BooksClose
    <3> QED BY <3>1
  <2>3. SumFunction(held) = SumFunction(equity) + 1 * SumFunction(total_withdrawn)
    <3>1. \A u \in Users : held[u] = equity[u] + 1 * total_withdrawn[u]
      OBVIOUS
    <3>2. held \in [Users -> Int]
      BY <2>1
    <3> HIDE DEF held
    <3> QED BY <3>1, <3>2, TotalsType, SetsAreFinite, SumLinear
  <2>4. SumFunction(won) = SumFunction(total_deposited) + 1 * SumFunction(realized_pnl)
    BY <2>1, TotalsType, SetsAreFinite, SumLinear
  <2>5. SumFunction(owed) = SumFunction(won) + 1 * SumFunction(shortfall)
    <3>1. \A u \in Users : owed[u] = won[u] + 1 * shortfall[u]
      OBVIOUS
    <3>2. won \in [Users -> Int] /\ owed \in [Users -> Int]
      BY <2>1
    <3> HIDE DEF won, owed
    <3> QED BY <3>1, <3>2, TotalsType, SetsAreFinite, SumLinear
  <2>6. /\ SumFunction(equity) \in Int /\ SumFunction(total_withdrawn) \in Int
        /\ SumFunction(total_deposited) \in Int /\ SumFunction(realized_pnl) \in Int
        /\ SumFunction(shortfall) \in Int
    BY TotalsType, SetsAreFinite, SumType
  <2> HIDE DEF held, won, owed
  <2>7. SumFunction(held) = SumFunction(owed)
    BY <2>2
  <2>8. SumFunction(equity) = SumFunction(total_deposited) - SumFunction(total_withdrawn)
                                + SumFunction(realized_pnl) + SumFunction(shortfall)
    BY <2>3, <2>4, <2>5, <2>6, <2>7
  <2> QED
    BY <2>8 DEF ClaimsReconcile, DepositsReconcile
<1> QED
  BY <1>1, <1>2, <1>3, TypeCorrect, BooksAlwaysClose, PTL DEF Spec

-----------------------------------------------------------------------------
\* Collateral that backs open positions lies in one of the user's balances:
\* the withdrawal and lock checks of the vault, made on one balance each, keep
\* it there until a position loses more than it releases.
THEOREM LockedIsBacked == Spec => []CollateralBacked
<1>1. Init => CollateralBacked
  BY SMT DEF Init, CollateralBacked
<1>2. TypeOK /\ CollateralBacked /\ [Next]_vars => CollateralBacked'
  <2> SUFFICES ASSUME TypeOK, CollateralBacked, [Next]_vars,
                      NEW w \in Users, w \notin overdrawn'
               PROVE  (\E t \in CollateralType :
                          locked_collateral[w] <= balance[w][t])'
    BY DEF CollateralBacked
  <2> DEFINE KeptBack(s) == locked_collateral[w] <= balance[w][s]
  <2>0. /\ Amounts \subseteq Nat
        /\ locked_collateral \in [Users -> Nat]
        /\ balance \in [Users -> [CollateralType -> Nat]]
    BY AmountsNat, WidthsAreNaturals, SMT DEF TypeOK
  <2>a. overdrawn \subseteq overdrawn'
    BY SMT DEF Next, vars, Deposit, WithdrawCspr, LockCollateral, SettleProfit,
               SettleLoss, AddToInsuranceFund, SetPaused
  <2>b. PICK s \in CollateralType : KeptBack(s)
    BY <2>a DEF CollateralBacked
  <2>c. balance[w] \in [CollateralType -> Nat] /\ locked_collateral[w] \in Nat
    BY <2>0, Zenon
  <2>1. ASSUME NEW u \in Users, NEW t \in CollateralType, NEW n \in Amounts,
               Deposit(u, t, n)
        PROVE  KeptBack(s)'
    BY <2>0, <2>b, <2>c, <2>1, SMT DEF Deposit
  <2>2. ASSUME NEW u \in Users, NEW n \in Amounts, WithdrawCspr(u, n)
        PROVE  \E t \in CollateralType : KeptBack(t)'
    BY <2>0, <2>b, <2>c, <2>2, SMT DEF WithdrawCspr, Unlocked
  <2>3. ASSUME NEW c \in Accounts, NEW u \in Users, NEW t \in CollateralType,
               NEW n \in Amounts, LockCollateral(c, u, t, n)
        PROVE  \E r \in CollateralType : KeptBack(r)'
    BY <2>0, <2>b, <2>c, <2>3, SMT DEF LockCollateral, Unlocked
  <2>4. ASSUME NEW c \in Accounts, NEW u \in Users, NEW t \in CollateralType,
               NEW n \in Amounts, NEW released \in Amounts,
               SettleProfit(c, u, t, released, n)
        PROVE  KeptBack(s)'
    BY <2>0, <2>b, <2>c, <2>4, SMT DEF SettleProfit
  <2>5. ASSUME NEW c \in Accounts, NEW u \in Users, NEW t \in CollateralType,
               NEW n \in Amounts, NEW released \in Amounts,
               SettleLoss(c, u, t, released, n)
        PROVE  KeptBack(s)'
    <3>1. PICK charged \in 0 .. n : charged = Charged(u, t, n)
      BY AmountsNat, ChargedBound
    <3>2. u = w => n <= released
      <4>1. u = w => ~ (n > released)
        BY <2>5, Zenon DEF SettleLoss
      <4> QED
        BY <2>0, <4>1
    <3>3. /\ released <= locked_collateral[u]
          /\ locked_collateral' = [locked_collateral EXCEPT ![u] = @ - released]
          /\ balance' = [balance EXCEPT ![u][t] = @ - charged]
      <4>1. balance' = [balance EXCEPT ![u][t] = @ - charged]
        BY <2>5, <3>1, Zenon DEF SettleLoss
      <4> QED
        BY <2>5, <4>1, Zenon DEF SettleLoss
    <3> QED
      BY <2>0, <2>b, <2>c, <3>1, <3>2, <3>3, SMT
  <2>6. ASSUME NEW c \in Accounts, NEW t \in CollateralType, NEW n \in Amounts,
               AddToInsuranceFund(c, t, n)
        PROVE  KeptBack(s)'
    BY <2>b, <2>6 DEF AddToInsuranceFund
  <2>7. ASSUME NEW c \in Accounts, NEW value \in BOOLEAN, SetPaused(c, value)
        PROVE  KeptBack(s)'
    BY <2>b, <2>7 DEF SetPaused
  <2>8. CASE UNCHANGED vars
    BY <2>b, <2>8 DEF vars
  <2> QED
    BY <2>1, <2>2, <2>3, <2>4, <2>5, <2>6, <2>7, <2>8, Zenon DEF Next
<1> QED
  BY <1>1, <1>2, TypeCorrect, PTL DEF Spec

-----------------------------------------------------------------------------
\* The vault implements the margin ledger: no step of it pays out or commits
\* money that backs a position, and none charges more than the loss.
THEOREM VaultImplementsLedger == Spec => LedgerSpec
<1>1. Init => Ledger!Init
  BY SMT DEF Init, Ledger!Init, equity
<1>2. TypeOK /\ [Next]_vars => [Ledger!Next]_Ledger!vars
  <2> SUFFICES ASSUME TypeOK, [Next]_vars
               PROVE  [Ledger!Next]_Ledger!vars
    OBVIOUS
  <2>0. /\ Amounts \subseteq Nat
        /\ equity \in [Users -> Nat] /\ locked_collateral \in [Users -> Nat]
        /\ \A u \in Users, t \in CollateralType :
              balance[u][t] \in Nat /\ balance[u][t] <= equity[u]
    BY EquityType, AmountsNat, WidthsAreNaturals, SMT DEF TypeOK
  <2>1. ASSUME NEW u \in Users, NEW t \in CollateralType, NEW n \in Amounts,
               Deposit(u, t, n)
        PROVE  Ledger!Next
    <3>1. equity' = [equity EXCEPT ![u] = @ + n]
      BY <2>0, <2>1, EquityGrows DEF Deposit
    <3>2. Ledger!Credit(u, n)
      BY <2>1, <3>1, Zenon DEF Deposit, Ledger!Credit
    <3> QED
      BY <3>2, Zenon DEF Ledger!Next
  <2>2. ASSUME NEW u \in Users, NEW n \in Amounts, WithdrawCspr(u, n)
        PROVE  Ledger!Next
    <3>1. equity' = [equity EXCEPT ![u] = @ - n]
      BY <2>0, <2>2, EquityShrinks DEF WithdrawCspr
    <3>2. locked_collateral[u] + n <= equity[u]
      BY <2>0, <2>2, SMT DEF WithdrawCspr, Unlocked
    <3>3. Ledger!Pay(u, n)
      BY <2>2, <3>1, <3>2, Zenon DEF WithdrawCspr, Ledger!Pay
    <3> QED
      BY <3>3, Zenon DEF Ledger!Next
  <2>3. ASSUME NEW c \in Accounts, NEW u \in Users, NEW t \in CollateralType,
               NEW n \in Amounts, LockCollateral(c, u, t, n)
        PROVE  Ledger!Next
    <3>1. locked_collateral[u] + n <= equity[u]
      BY <2>0, <2>3, SMT DEF LockCollateral, Unlocked
    <3>2. equity' = equity
      BY <2>3 DEF LockCollateral, equity
    <3>3. Ledger!Commit(u, n)
      BY <2>3, <3>1, <3>2, Zenon DEF LockCollateral, Ledger!Commit
    <3> QED
      BY <3>3, Zenon DEF Ledger!Next
  <2>4. ASSUME NEW c \in Accounts, NEW u \in Users, NEW t \in CollateralType,
               NEW n \in Amounts, NEW released \in Amounts,
               SettleProfit(c, u, t, released, n)
        PROVE  Ledger!Next
    <3>1. equity' = [equity EXCEPT ![u] = @ + n]
      BY <2>0, <2>4, EquityGrows DEF SettleProfit
    <3>2. Ledger!Gain(u, released, n)
      BY <2>4, <3>1, Zenon DEF SettleProfit, Ledger!Gain
    <3> QED
      BY <3>2, Zenon DEF Ledger!Next
  <2>5. ASSUME NEW c \in Accounts, NEW u \in Users, NEW t \in CollateralType,
               NEW n \in Amounts, NEW released \in Amounts,
               SettleLoss(c, u, t, released, n)
        PROVE  Ledger!Next
    <3>1. PICK charged \in 0 .. n : charged = Charged(u, t, n)
      BY <2>0, ChargedBound
    <3>2. charged \in Nat /\ charged <= equity[u]
      <4>1. charged <= balance[u][t]
        BY <2>0, <3>1, ChargedBound
      <4> QED
        BY <2>0, <3>1, <4>1, SMT
    <3>3. balance' = [balance EXCEPT ![u][t] = @ - charged]
      BY <2>5, <3>1, Zenon DEF SettleLoss
    <3>4. equity' = [equity EXCEPT ![u] = @ - charged]
      BY <3>2, <3>3, EquityShrinks
    <3>5. Ledger!Lose(u, released, n)
      BY <2>5, <3>1, <3>2, <3>4, Zenon DEF SettleLoss, Ledger!Lose
    <3> QED
      BY <3>5, Zenon DEF Ledger!Next
  <2>6. ASSUME NEW c \in Accounts, NEW t \in CollateralType, NEW n \in Amounts,
               AddToInsuranceFund(c, t, n)
        PROVE  UNCHANGED Ledger!vars
    BY <2>6 DEF AddToInsuranceFund, Ledger!vars, equity
  <2>7. ASSUME NEW c \in Accounts, NEW value \in BOOLEAN, SetPaused(c, value)
        PROVE  UNCHANGED Ledger!vars
    BY <2>7 DEF SetPaused, Ledger!vars, equity
  <2>8. CASE UNCHANGED vars
    BY <2>8 DEF vars, Ledger!vars, equity
  <2> QED
    BY <2>1, <2>2, <2>3, <2>4, <2>5, <2>6, <2>7, <2>8, Zenon DEF Next
<1> QED
  BY <1>1, <1>2, TypeCorrect, PTL DEF Spec, LedgerSpec, Ledger!Spec

\* What the margin ledger is for: an account that never lost more on a position
\* than it released can give back the collateral of all its positions.
THEOREM LedgerIsBacked == Ledger!Spec => []Ledger!Backed
<1> DEFINE Inv == Ledger!TypeOK /\ Ledger!Backed
<1> USE AmountsNat
<1>1. Ledger!Init => Inv
  BY SMT DEF Ledger!Init, Ledger!TypeOK, Ledger!Backed
<1>2. Inv /\ [Ledger!Next]_Ledger!vars => Inv'
  <2> SUFFICES ASSUME Inv, [Ledger!Next]_Ledger!vars
               PROVE  Inv'
    OBVIOUS
  <2> USE DEF Ledger!TypeOK, Ledger!Backed
  <2>1. ASSUME NEW u \in Users, NEW n \in Amounts, Ledger!Credit(u, n)
        PROVE  Inv'
    BY <2>1, SMT DEF Ledger!Credit
  <2>2. ASSUME NEW u \in Users, NEW n \in Amounts, Ledger!Pay(u, n)
        PROVE  Inv'
    BY <2>2, SMT DEF Ledger!Pay
  <2>3. ASSUME NEW u \in Users, NEW n \in Amounts, Ledger!Commit(u, n)
        PROVE  Inv'
    BY <2>3, SMT DEF Ledger!Commit
  <2>4. ASSUME NEW u \in Users, NEW n \in Amounts, NEW released \in Amounts,
               Ledger!Gain(u, released, n)
        PROVE  Inv'
    BY <2>4, SMT DEF Ledger!Gain
  <2>5. ASSUME NEW u \in Users, NEW n \in Amounts, NEW released \in Amounts,
               Ledger!Lose(u, released, n)
        PROVE  Inv'
    BY <2>5, SMT DEF Ledger!Lose
  <2>6. CASE UNCHANGED Ledger!vars
    BY <2>6, SMT DEF Ledger!vars
  <2> QED
    BY <2>1, <2>2, <2>3, <2>4, <2>5, <2>6, Zenon DEF Ledger!Next
<1> QED
  BY <1>1, <1>2, PTL DEF Ledger!Spec

-----------------------------------------------------------------------------
\* What the deploys to the other contracts leave alone of the vault.
THEOREM CustodyKeepsTheVault == CustodySpec => Spec
<1>1. CustodyInit => Init
  BY DEF CustodyInit
<1>2. [CustodyNext]_custodyVars => [Next]_vars
  <2>1. UNCHANGED custodyVars => UNCHANGED vars
    BY DEF custodyVars
  <2> QED
    BY <2>1 DEF CustodyNext
<1> QED
  BY <1>1, <1>2, PTL DEF CustodySpec, Spec

-----------------------------------------------------------------------------
\* The liquidity pool.  Its records, without the bounds.
Wealth == [total_liquidity : Nat, total_lp_tokens : Nat,
           total_fees_earned : Nat, trader_pnl : Int]

\* The definition of Retained defines a function: it holds of what it returns.
LEMMA RetainedSteps ==
    ASSUME NEW requests, Len(requests) \in Nat
    PROVE  /\ Retained(requests)[0] = [pool |-> pool, kept |-> <<>>]
           /\ \A k \in 1 .. Len(requests) :
                 Retained(requests)[k] =
                   IF IsMature(requests[k])
                   THEN [Retained(requests)[k - 1] EXCEPT !.pool = Paid(@, requests[k])]
                   ELSE [Retained(requests)[k - 1] EXCEPT !.kept = Append(@, requests[k])]
<1> DEFINE n == Len(requests)
           Next1(r, k) == IF IsMature(requests[k])
                         THEN [r EXCEPT !.pool = Paid(@, requests[k])]
                         ELSE [r EXCEPT !.kept = Append(@, requests[k])]
           Start == [pool |-> pool, kept |-> <<>>]
           Is(f, m) == f = [k \in 0 .. m |-> IF k = 0 THEN Start ELSE Next1(f[k - 1], k)]
           S == {m \in Nat : \E f : Is(f, m)}
<1> HIDE DEF Next1, Start
<1>1. 0 \in S
  <2>1. Is([k \in 0 .. 0 |-> Start], 0)
    OBVIOUS
  <2> QED BY <2>1
<1>2. ASSUME NEW m \in Nat, m \in S PROVE m + 1 \in S
  <2>1. PICK f : Is(f, m)
    BY <1>2
  <2> DEFINE g == [k \in 0 .. m + 1 |-> IF k <= m THEN f[k] ELSE Next1(f[m], m + 1)]
  <2>2. \A k \in 0 .. m : f[k] = IF k = 0 THEN Start ELSE Next1(f[k - 1], k)
    BY <2>1
  <2>3. \A k \in 0 .. m + 1 : g[k] = IF k = 0 THEN Start ELSE Next1(g[k - 1], k)
    <3> SUFFICES ASSUME NEW k \in 0 .. m + 1
                 PROVE  g[k] = IF k = 0 THEN Start ELSE Next1(g[k - 1], k)
      OBVIOUS
    <3>1. CASE k = 0
      BY <2>2, <3>1
    <3>2. CASE k \in 1 .. m
      <4>1. k - 1 \in 0 .. m /\ g[k - 1] = f[k - 1] /\ g[k] = f[k]
        BY <3>2
      <4> QED BY <2>2, <3>2, <4>1
    <3>3. CASE k = m + 1
      <4>1. g[k - 1] = f[m] /\ k - 1 = m /\ k # 0
        BY <3>3
      <4> QED BY <3>3, <4>1
    <3> QED BY <3>1, <3>2, <3>3
  <2>4. Is(g, m + 1)
    <3> DEFINE h == [k \in 0 .. m + 1 |-> IF k = 0 THEN Start ELSE Next1(g[k - 1], k)]
    <3>1. DOMAIN g = 0 .. m + 1 /\ DOMAIN h = 0 .. m + 1
      OBVIOUS
    <3>2. \A k \in 0 .. m + 1 : g[k] = h[k]
      BY <2>3
    <3>3. g = h
      <4>1. g = [k \in DOMAIN g |-> g[k]] /\ h = [k \in DOMAIN h |-> h[k]]
        OBVIOUS
      <4> HIDE DEF g, h
      <4> QED BY <4>1, <3>1, <3>2
    <3> QED BY <3>3
  <2> HIDE DEF g, Is
  <2> QED BY <2>4
<1>3. n \in S
  <2> HIDE DEF S
  <2> QED BY <1>1, <1>2, SetInduction
<1>4. PICK f : Is(f, n)
  BY <1>3
<1>5. Retained(requests) = CHOOSE f1 : Is(f1, n)
  BY DEF Retained, Next1, Start
<1>6. Is(Retained(requests), n)
  <2> HIDE DEF Is
  <2> QED BY <1>4, <1>5
<1> DEFINE r == Retained(requests)
<1> HIDE DEF r
<1>7. r = [k \in 0 .. n |-> IF k = 0 THEN Start ELSE Next1(r[k - 1], k)]
  BY <1>6 DEF r
<1>8. r[0] = Start /\ \A k \in 1 .. n : r[k] = Next1(r[k - 1], k)
  BY <1>7
<1> QED
  BY <1>8 DEF r, Next1, Start

\* Paying a request leaves the tokens of the others worth no less.
LEMMA PaidFairly ==
    ASSUME NEW p \in Wealth, NEW request \in WithdrawalRequest,
           p.total_lp_tokens # 0, request.amount <= p.total_lp_tokens
    PROVE  /\ Paid(p, request) \in Wealth
           /\ Paid(p, request).total_liquidity * p.total_lp_tokens
                 >= p.total_liquidity * Paid(p, request).total_lp_tokens
           /\ Paid(p, request).total_lp_tokens = p.total_lp_tokens - request.amount
           /\ Paid(p, request).total_liquidity <= p.total_liquidity
<1> DEFINE L == p.total_liquidity
           T == p.total_lp_tokens
           q == request.amount
           c == CsprFor(p, request)
<1>1. L \in Nat /\ T \in Nat \ {0} /\ q \in Nat /\ q <= T
  BY DEF Wealth, WithdrawalRequest
<1>2. c = (q * L) \div T
  BY DEF CsprFor
<1>3. /\ Paid(p, request) = [p EXCEPT !.total_liquidity = L - c,
                                      !.total_lp_tokens = T - q]
  BY DEF Paid
<1> HIDE DEF L, T, q, c
<1>4. q * L \in Nat
  BY <1>1, SMT
<1>5. c \in Nat /\ c * T <= q * L
  BY <1>1, <1>2, <1>4, DivBelow
<1>6. q * L <= T * L
  BY <1>1, SMT
<1>7. c <= L
  <2>1. c * T <= L * T
    BY <1>1, <1>5, <1>6, SMT
  <2>2. c > L => c * T > L * T
    BY <1>1, <1>5, SMT
  <2> QED BY <2>1, <2>2, <1>1, <1>5, <1>6, SMT
<1>8. (L - c) * T >= L * (T - q)
  <2>1. (L - c) * T = L * T - c * T /\ L * (T - q) = L * T - q * L
    BY <1>1, <1>5, SMT
  <2> QED BY <2>1, <1>1, <1>5, SMT
<1>9. L - c \in Nat /\ T - q \in Nat
  BY <1>1, <1>5, <1>7
<1>10. /\ Paid(p, request) \in Wealth
       /\ Paid(p, request).total_liquidity = L - c
       /\ Paid(p, request).total_lp_tokens = T - q
  BY <1>3, <1>9 DEF Wealth
<1>11. L - c <= L
  BY <1>1, <1>5
<1> QED
  BY <1>8, <1>10, <1>11 DEF L, T, q

\* Worth is compared across products, and the comparison is transitive.
LEMMA WorthTransitive ==
    ASSUME NEW l0 \in Nat, NEW t0 \in Nat, NEW l1 \in Nat, NEW t1 \in Nat \ {0},
           NEW l2 \in Nat, NEW t2 \in Nat,
           l1 * t0 >= l0 * t1, l2 * t1 >= l1 * t2
    PROVE  l2 * t0 >= l0 * t2
<1>1. (l2 * t1) * t0 >= (l1 * t2) * t0
  BY SMT
<1>2. (l1 * t0) * t2 >= (l0 * t1) * t2
  BY SMT
<1>3. (l2 * t0) * t1 >= (l0 * t2) * t1
  BY <1>1, <1>2, SMT
<1>4. l2 * t0 \in Nat /\ l0 * t2 \in Nat
  BY SMT
<1> DEFINE a == l2 * t0
           b == l0 * t2
<1> HIDE DEF a, b
<1>5. a \in Nat /\ b \in Nat /\ a * t1 >= b * t1
  BY <1>3, <1>4 DEF a, b
<1>6. a < b => a * t1 < b * t1
  BY <1>5, SMT
<1>7. a >= b
  BY <1>5, <1>6, SMT
<1> QED
  BY <1>7 DEF a, b

Retaining == [pool : Wealth, kept : Seq(WithdrawalRequest)]

\* Paying a list of requests keeps the types and dilutes nobody.
LEMMA RetainedFairly ==
    ASSUME pool \in Wealth, NEW requests \in Seq(WithdrawalRequest), Payable(requests),
           NEW k \in 0 .. Len(requests)
    PROVE  /\ Retained(requests)[k] \in Retaining
           /\ Retained(requests)[k].pool.total_liquidity * pool.total_lp_tokens
                 >= pool.total_liquidity * Retained(requests)[k].pool.total_lp_tokens
           /\ Retained(requests)[k].pool.total_liquidity <= pool.total_liquidity
<1> DEFINE n == Len(requests)
           r == Retained(requests)
           Fair(p) == p.total_liquidity * pool.total_lp_tokens
                        >= pool.total_liquidity * p.total_lp_tokens
           Less(p) == p.total_liquidity <= pool.total_liquidity
           Good(j) == r[j] \in Retaining /\ Fair(r[j].pool) /\ Less(r[j].pool)
           S == {m \in Nat : m <= n => Good(m)}
<1> HIDE DEF r
<1>1. n \in Nat /\ \A m \in 1 .. n : requests[m] \in WithdrawalRequest
  OBVIOUS
<1>2. /\ r[0] = [pool |-> pool, kept |-> <<>>]
      /\ \A m \in 1 .. n :
            r[m] = IF IsMature(requests[m])
                   THEN [r[m - 1] EXCEPT !.pool = Paid(@, requests[m])]
                   ELSE [r[m - 1] EXCEPT !.kept = Append(@, requests[m])]
  BY <1>1, RetainedSteps DEF r
<1>3. 0 \in S
  <2>1. <<>> \in Seq(WithdrawalRequest)
    OBVIOUS
  <2>2. r[0] \in Retaining /\ r[0].pool = pool
    BY <1>2, <2>1 DEF Retaining
  <2>3. Fair(pool) /\ Less(pool)
    BY SMT DEF Wealth
  <2> QED BY <2>2, <2>3
<1>4. ASSUME NEW m \in Nat, m \in S PROVE m + 1 \in S
  <2> SUFFICES ASSUME m + 1 <= n PROVE Good(m + 1)
    OBVIOUS
  <2> DEFINE request == requests[m + 1]
             p == r[m].pool
  <2>1. m + 1 \in 1 .. n /\ (m + 1) - 1 = m /\ m <= n
    BY <1>1
  <2>2. Good(m) /\ request \in WithdrawalRequest
    BY <1>1, <1>4, <2>1
  <2>3. p \in Wealth /\ r[m].kept \in Seq(WithdrawalRequest)
    BY <2>2 DEF Retaining
  <2>4. CASE IsMature(request)
    <3>1. p.total_lp_tokens # 0 /\ request.amount <= p.total_lp_tokens
      BY <2>1, <2>4 DEF Payable, r
    <3>2. r[m + 1] = [r[m] EXCEPT !.pool = Paid(p, request)]
      BY <1>2, <2>1, <2>4
    <3> HIDE DEF request, p
    <3>3. /\ Paid(p, request) \in Wealth
          /\ Paid(p, request).total_liquidity * p.total_lp_tokens
               >= p.total_liquidity * Paid(p, request).total_lp_tokens
          /\ Paid(p, request).total_liquidity <= p.total_liquidity
      BY <2>2, <2>3, <3>1, PaidFairly
    <3>4. r[m + 1] \in Retaining /\ r[m + 1].pool = Paid(p, request)
      BY <2>2, <2>3, <3>2, <3>3 DEF Retaining, p
    <3>5. Fair(Paid(p, request))
      <4>1. /\ pool.total_liquidity \in Nat /\ pool.total_lp_tokens \in Nat
            /\ p.total_liquidity \in Nat /\ p.total_lp_tokens \in Nat \ {0}
            /\ Paid(p, request).total_liquidity \in Nat
            /\ Paid(p, request).total_lp_tokens \in Nat
        BY <2>3, <3>1, <3>3 DEF Wealth
      <4>2. p.total_liquidity * pool.total_lp_tokens >= pool.total_liquidity * p.total_lp_tokens
        BY <2>2 DEF p
      <4> DEFINE l0 == pool.total_liquidity
                 t0 == pool.total_lp_tokens
                 l1 == p.total_liquidity
                 t1 == p.total_lp_tokens
                 l2 == Paid(p, request).total_liquidity
                 t2 == Paid(p, request).total_lp_tokens
      <4> HIDE DEF l0, t0, l1, t1, l2, t2
      <4>3. /\ l0 \in Nat /\ t0 \in Nat /\ l1 \in Nat /\ t1 \in Nat \ {0}
            /\ l2 \in Nat /\ t2 \in Nat
            /\ l1 * t0 >= l0 * t1 /\ l2 * t1 >= l1 * t2
        BY <3>3, <4>1, <4>2 DEF l0, t0, l1, t1, l2, t2
      <4>4. l2 * t0 >= l0 * t2
        BY <4>3, WorthTransitive
      <4> QED BY <4>4 DEF l0, t0, l2, t2
    <3>6. Less(Paid(p, request))
      <4>1. p.total_liquidity <= pool.total_liquidity
        BY <2>2 DEF p
      <4> QED BY <2>3, <3>3, <4>1 DEF Wealth
    <3> QED BY <3>4, <3>5, <3>6
  <2>5. CASE ~ IsMature(request)
    <3>1. r[m + 1] = [r[m] EXCEPT !.kept = Append(@, request)]
      BY <1>2, <2>1, <2>5
    <3>2. Append(r[m].kept, request) \in Seq(WithdrawalRequest)
      BY <2>2, <2>3
    <3>3. r[m + 1] \in Retaining /\ r[m + 1].pool = p
      BY <2>2, <3>1, <3>2 DEF Retaining
    <3> QED BY <2>2, <3>3
  <2> QED BY <2>4, <2>5
<1>5. k \in S
  <2> HIDE DEF S
  <2>1. k \in Nat
    BY <1>1
  <2> QED BY <1>3, <1>4, <2>1, SetInduction
<1> QED
  BY <1>1, <1>5 DEF r

\* A deposit buys no more than its share.
LEMMA MintedFairly ==
    ASSUME pool \in Wealth, NEW amount \in Nat,
           pool.total_lp_tokens # 0 => pool.total_liquidity # 0
    PROVE  /\ Minted(amount) \in Nat
           /\ pool.total_lp_tokens # 0 =>
                (pool.total_liquidity + amount) * pool.total_lp_tokens
                  >= pool.total_liquidity * (pool.total_lp_tokens + Minted(amount))
<1> DEFINE L == pool.total_liquidity
           T == pool.total_lp_tokens
           c == Minted(amount)
<1>1. L \in Nat /\ T \in Nat
  BY DEF Wealth
<1>2. c = IF T = 0 THEN amount ELSE (amount * T) \div L
  BY DEF Minted
<1>3. T # 0 => L # 0
  OBVIOUS
<1> SUFFICES /\ c \in Nat
             /\ T # 0 => (L + amount) * T >= L * (T + c)
  OBVIOUS
<1> HIDE DEF L, T, c
<1>4. CASE T = 0
  BY <1>2, <1>4
<1>5. CASE T # 0
  <2>1. amount * T \in Nat
    BY <1>1, SMT
  <2>2. c \in Nat /\ c * L <= amount * T
    BY <1>1, <1>2, <1>3, <1>5, <2>1, DivBelow
  <2>3. (L + amount) * T = L * T + amount * T /\ L * (T + c) = L * T + c * L
    BY <1>1, <2>2, SMT
  <2> QED BY <2>2, <2>3, <1>1, SMT
<1> QED
  BY <1>4, <1>5

\* Everything about the pool that a deploy keeps: types, and that the tokens
\* held are the tokens counted.
PoolInv == blocktime \in 0 .. MaxBlockTime /\ PoolTypeOK /\ TokensAddUp

\* What a step may do to the worth of a token.
PoolFair ==
    (pool.total_lp_tokens # 0 /\ pool'.trader_pnl <= pool.trader_pnl)
       => pool'.total_liquidity * pool.total_lp_tokens
            >= pool.total_liquidity * pool'.total_lp_tokens

\* Nobody has tokens of a pool just installed.
LEMMA InitPool == CustodyInit => PoolInv
<1> SUFFICES ASSUME CustodyInit PROVE PoolInv
  OBVIOUS
<1>1. MaxPool \in Nat /\ MaxBlockTime \in Nat /\ IsFiniteSet(Providers)
  BY PoolNumbers, BlockTimesAreNaturals DEF PoolNumbers
<1>2. lp_tokens \in [Providers -> {0}] /\ pool.total_lp_tokens = 0
  BY DEF CustodyInit, PoolInit
<1>3. TokensAddUp
  BY <1>1, <1>2, SumZero DEF TokensAddUp
<1>4. PoolTypeOK
  <2>1. <<>> \in Seq(WithdrawalRequest) /\ 0 \in 0 .. MaxPool /\ 0 \in Nat /\ 0 \in Int
    BY <1>1
  <2> QED
    BY <2>1 DEF CustodyInit, PoolInit, PoolTypeOK
<1> QED
  BY <1>1, <1>3, <1>4 DEF CustodyInit, PoolInv

\* The tokens of one provider move as those of the pool do.
LEMMA TokensMove ==
    ASSUME TokensAddUp, lp_tokens \in [Providers -> Nat], NEW u \in Providers,
           NEW m \in Int, lp_tokens[u] + m \in Nat,
           lp_tokens' = [lp_tokens EXCEPT ![u] = lp_tokens[u] + m],
           pool.total_lp_tokens \in Nat,
           pool'.total_lp_tokens = pool.total_lp_tokens + m
    PROVE  lp_tokens' \in [Providers -> Nat] /\ TokensAddUp'
<1>1. lp_tokens' \in [Providers -> Nat] /\ lp_tokens'[u] - lp_tokens[u] = m
  OBVIOUS
<1>2. \A v \in Providers : v # u => lp_tokens'[v] = lp_tokens[v]
  OBVIOUS
<1>3. lp_tokens \in [Providers -> Int] /\ lp_tokens' \in [Providers -> Int]
  BY <1>1
<1>4. IsFiniteSet(Providers)
  BY PoolNumbers DEF PoolNumbers
<1>5. SumFunction(lp_tokens') = SumFunction(lp_tokens) + (lp_tokens'[u] - lp_tokens[u])
  <2> DEFINE f == lp_tokens
             g == lp_tokens'
  <2>1. /\ f \in [Providers -> Int] /\ g \in [Providers -> Int]
        /\ \A v \in Providers : v # u => g[v] = f[v]
    BY <1>2, <1>3
  <2> HIDE DEF f, g
  <2>2. SumFunction(g) = SumFunction(f) + (g[u] - f[u])
    BY <1>4, <2>1, SumAt, Zenon
  <2> QED
    BY <2>2 DEF f, g
<1> QED
  BY <1>1, <1>5 DEF TokensAddUp

\* Each deploy keeps types and totals and dilutes nobody.
LEMMA StepPool == PoolInv /\ [CustodyNext]_custodyVars => PoolInv' /\ PoolFair
<1> SUFFICES ASSUME PoolInv, [CustodyNext]_custodyVars PROVE PoolInv' /\ PoolFair
  OBVIOUS
<1>n. /\ LpAmounts \subseteq Nat /\ Results \subseteq Int /\ WithdrawalDelay \in Nat
      /\ MaxPool \in Nat /\ MaxBlockTime \in Nat
  BY PoolNumbers, BlockTimesAreNaturals DEF PoolNumbers
<1>t. /\ blocktime \in 0 .. MaxBlockTime /\ blocktime \in Nat
      /\ pool \in [total_liquidity : 0 .. MaxPool, total_lp_tokens : Nat,
                   total_fees_earned : Nat, trader_pnl : Int]
      /\ lp_tokens \in [Providers -> Nat]
      /\ withdrawal_requests \in [Providers -> Seq(WithdrawalRequest)]
      /\ TokensAddUp
  BY <1>n DEF PoolInv, PoolTypeOK
<1>w. /\ pool \in Wealth /\ pool.total_liquidity \in 0 .. MaxPool
      /\ pool.total_liquidity \in Nat /\ pool.total_lp_tokens \in Nat
      /\ pool.total_fees_earned \in Nat /\ pool.trader_pnl \in Int
  BY <1>n, <1>t DEF Wealth
<1>s. ASSUME pool' = pool PROVE PoolFair
  BY <1>w, <1>s, SMT DEF PoolFair
<1>k. ASSUME pool'.total_lp_tokens = pool.total_lp_tokens, lp_tokens' = lp_tokens
      PROVE  TokensAddUp'
  BY <1>t, <1>k DEF TokensAddUp
<1>u. ASSUME UNCHANGED poolVars, blocktime' \in 0 .. MaxBlockTime PROVE PoolInv' /\ PoolFair
  BY <1>t, <1>u, <1>s, <1>k DEF PoolInv, PoolTypeOK, poolVars
<1>1. ASSUME NEW u \in Providers, NEW amount \in LpAmounts, AddLiquidity(u, amount),
             UNCHANGED blocktime
      PROVE  PoolInv' /\ PoolFair
  <2>1. amount \in Nat /\ (pool.total_lp_tokens # 0 => pool.total_liquidity # 0)
    BY <1>n, <1>1 DEF AddLiquidity
  <2> DEFINE m == Minted(amount)
             liquidity == pool.total_liquidity + amount
             tokens == pool.total_lp_tokens + m
  <2>2. /\ m \in Nat
        /\ pool.total_lp_tokens # 0 =>
             liquidity * pool.total_lp_tokens >= pool.total_liquidity * tokens
    BY <1>w, <2>1, MintedFairly
  <2>3. /\ pool' = [pool EXCEPT !.total_liquidity = liquidity, !.total_lp_tokens = tokens]
        /\ lp_tokens' = [lp_tokens EXCEPT ![u] = lp_tokens[u] + m]
        /\ withdrawal_requests' = withdrawal_requests
        /\ liquidity <= MaxPool
    BY <1>1 DEF AddLiquidity
  <2> HIDE DEF m
  <2>4. liquidity \in 0 .. MaxPool /\ tokens \in Nat /\ lp_tokens[u] + m \in Nat
    BY <1>n, <1>t, <1>w, <2>1, <2>2, <2>3
  <2>5. tokens = pool.total_lp_tokens + m /\ m \in Int
    BY <2>2
  <2> HIDE DEF liquidity, tokens
  <2>6. /\ pool' \in [total_liquidity : 0 .. MaxPool, total_lp_tokens : Nat,
                      total_fees_earned : Nat, trader_pnl : Int]
        /\ pool'.total_liquidity = liquidity
        /\ pool'.total_lp_tokens = tokens
    BY <1>t, <2>3, <2>4
  <2>7. lp_tokens' \in [Providers -> Nat] /\ TokensAddUp'
    BY <1>t, <1>w, <2>3, <2>4, <2>5, <2>6, TokensMove
  <2> QED
    BY <1>t, <1>1, <2>2, <2>3, <2>6, <2>7 DEF PoolInv, PoolTypeOK, PoolFair
<1>2. ASSUME NEW u \in Providers, NEW amount \in LpAmounts, RequestWithdrawal(u, amount),
             UNCHANGED blocktime
      PROVE  PoolInv' /\ PoolFair
  <2> DEFINE request == [amount |-> amount, unlock_time |-> blocktime + WithdrawalDelay]
  <2>1. request \in WithdrawalRequest
    BY <1>t, <1>n DEF WithdrawalRequest
  <2>2. withdrawal_requests' =
          [withdrawal_requests EXCEPT ![u] = Append(withdrawal_requests[u], request)]
    BY <1>2 DEF RequestWithdrawal
  <2> HIDE DEF request
  <2>3. withdrawal_requests[u] \in Seq(WithdrawalRequest)
    BY <1>t
  <2>4. Append(withdrawal_requests[u], request) \in Seq(WithdrawalRequest)
    BY <2>1, <2>3
  <2>5. withdrawal_requests' \in [Providers -> Seq(WithdrawalRequest)]
    BY <1>t, <2>2, <2>4
  <2>6. pool' = pool /\ lp_tokens' = lp_tokens
    BY <1>2 DEF RequestWithdrawal
  <2> QED
    BY <1>t, <1>s, <1>k, <1>2, <2>5, <2>6 DEF PoolInv, PoolTypeOK
<1>3. ASSUME NEW u \in Providers, ExecuteWithdrawal(u), UNCHANGED blocktime
      PROVE  PoolInv' /\ PoolFair
  <2> DEFINE requests == withdrawal_requests[u]
             last == Retained(requests)[Len(requests)]
             withdrawn == pool.total_lp_tokens - last.pool.total_lp_tokens
  <2>1. requests \in Seq(WithdrawalRequest) /\ Len(requests) \in 0 .. Len(requests)
    BY <1>t
  <2>2. /\ Payable(requests)
        /\ pool' = last.pool
        /\ withdrawal_requests' = [withdrawal_requests EXCEPT ![u] = last.kept]
        /\ withdrawn <= lp_tokens[u]
        /\ lp_tokens' = [lp_tokens EXCEPT ![u] = lp_tokens[u] - withdrawn]
    BY <1>3 DEF ExecuteWithdrawal, CanWithdraw, Withdrawn, Remaining, TokensLeft
  <2>3. /\ last \in Retaining
        /\ last.pool.total_liquidity * pool.total_lp_tokens
              >= pool.total_liquidity * last.pool.total_lp_tokens
        /\ last.pool.total_liquidity <= pool.total_liquidity
    BY <1>w, <2>1, <2>2, RetainedFairly
  <2> HIDE DEF requests, last
  <2>4. last.pool \in Wealth /\ last.kept \in Seq(WithdrawalRequest)
    BY <2>3 DEF Retaining
  <2> DEFINE rest == last.pool
  <2>a. rest \in Wealth /\ rest.total_liquidity <= pool.total_liquidity
    BY <2>3, <2>4
  <2>b. withdrawn = pool.total_lp_tokens - rest.total_lp_tokens
    OBVIOUS
  <2> HIDE DEF rest, withdrawn
  <2>c. /\ rest.total_liquidity \in Nat /\ rest.total_lp_tokens \in Nat
        /\ rest \in [total_liquidity : Nat, total_lp_tokens : Nat,
                     total_fees_earned : Nat, trader_pnl : Int]
    BY <2>a DEF Wealth
  <2>d. rest.total_liquidity \in 0 .. MaxPool
    BY <1>n, <1>w, <2>a, <2>c
  <2>e. rest \in [total_liquidity : 0 .. MaxPool, total_lp_tokens : Nat,
                 total_fees_earned : Nat, trader_pnl : Int]
    BY <2>c, <2>d
  <2>5. last.pool \in [total_liquidity : 0 .. MaxPool, total_lp_tokens : Nat,
                       total_fees_earned : Nat, trader_pnl : Int]
    BY <2>e DEF rest
  <2>f. last.pool.total_lp_tokens \in Nat
        /\ withdrawn = pool.total_lp_tokens - last.pool.total_lp_tokens
    BY <2>b, <2>c DEF rest
  <2>6. /\ withdrawn \in Int /\ lp_tokens[u] \in Nat
        /\ lp_tokens[u] - withdrawn = lp_tokens[u] + (-withdrawn)
        /\ last.pool.total_lp_tokens = pool.total_lp_tokens + (-withdrawn)
        /\ lp_tokens[u] + (-withdrawn) \in Nat /\ -withdrawn \in Int
    <3>1. withdrawn \in Int /\ lp_tokens[u] \in Nat
      BY <1>t, <1>w, <2>f
    <3>2. withdrawn <= lp_tokens[u]
      BY <2>2
    <3> QED
      BY <1>w, <2>f, <3>1, <3>2
  <2> DEFINE m == -withdrawn
  <2>7. /\ m \in Int /\ lp_tokens[u] + m \in Nat
        /\ lp_tokens' = [lp_tokens EXCEPT ![u] = lp_tokens[u] + m]
        /\ pool'.total_lp_tokens = pool.total_lp_tokens + m
    BY <2>2, <2>6
  <2> HIDE DEF m
  <2>8. lp_tokens' \in [Providers -> Nat] /\ TokensAddUp'
    BY <1>t, <1>w, <2>7, TokensMove
  <2>9. withdrawal_requests' \in [Providers -> Seq(WithdrawalRequest)]
    BY <1>t, <2>2, <2>4
  <2>10. PoolInv'
    BY <1>t, <1>3, <2>2, <2>5, <2>8, <2>9 DEF PoolInv, PoolTypeOK
  <2> QED
    BY <2>2, <2>3, <2>10 DEF PoolFair
<1>4. ASSUME NEW amount \in LpAmounts, AddFees(amount), UNCHANGED blocktime
      PROVE  PoolInv' /\ PoolFair
  <2> DEFINE liquidity == pool.total_liquidity + amount
             fees == pool.total_fees_earned + amount
  <2>1. /\ pool' = [pool EXCEPT !.total_fees_earned = fees, !.total_liquidity = liquidity]
        /\ liquidity <= MaxPool
        /\ UNCHANGED <<lp_tokens, withdrawal_requests>>
    BY <1>4 DEF AddFees
  <2>2. liquidity \in 0 .. MaxPool /\ fees \in Nat /\ liquidity >= pool.total_liquidity
    BY <1>n, <1>w, <2>1
  <2> HIDE DEF liquidity, fees
  <2>3. /\ pool' \in [total_liquidity : 0 .. MaxPool, total_lp_tokens : Nat,
                      total_fees_earned : Nat, trader_pnl : Int]
        /\ pool'.total_liquidity = liquidity
        /\ pool'.total_lp_tokens = pool.total_lp_tokens
    BY <1>t, <2>1, <2>2
  <2>4. liquidity * pool.total_lp_tokens >= pool.total_liquidity * pool.total_lp_tokens
    BY <1>n, <1>w, <2>2, TimesMonotone
  <2>5. PoolFair
    BY <2>3, <2>4 DEF PoolFair
  <2> QED
    BY <1>t, <1>k, <1>4, <2>1, <2>3, <2>5 DEF PoolInv, PoolTypeOK
<1>5. ASSUME NEW pnl \in Results, UpdateTraderPnl(pnl), UNCHANGED blocktime
      PROVE  PoolInv' /\ PoolFair
  <2> DEFINE left == IF pnl > pool.total_liquidity THEN 0 ELSE pool.total_liquidity - pnl
             result == pool.trader_pnl + pnl
  <2>1. pnl \in Int
    BY <1>n
  <2>2. /\ pool' = [pool EXCEPT !.trader_pnl = result, !.total_liquidity = left]
        /\ pool.total_liquidity - pnl <= MaxPool
        /\ UNCHANGED <<lp_tokens, withdrawal_requests>>
    BY <1>5 DEF UpdateTraderPnl
  <2>3. /\ left \in 0 .. MaxPool /\ left \in Nat /\ result \in Int
        /\ result <= pool.trader_pnl => left >= pool.total_liquidity
    BY <1>n, <1>w, <2>1, <2>2
  <2> HIDE DEF left, result
  <2>4. /\ pool' \in [total_liquidity : 0 .. MaxPool, total_lp_tokens : Nat,
                      total_fees_earned : Nat, trader_pnl : Int]
        /\ pool'.total_liquidity = left
        /\ pool'.total_lp_tokens = pool.total_lp_tokens
        /\ pool'.trader_pnl = result
    BY <1>t, <2>2, <2>3
  <2>5. result <= pool.trader_pnl =>
          left * pool.total_lp_tokens >= pool.total_liquidity * pool.total_lp_tokens
    BY <1>w, <2>3, TimesMonotone
  <2>6. PoolFair
    BY <2>4, <2>5 DEF PoolFair
  <2> QED
    BY <1>t, <1>k, <1>5, <2>2, <2>4, <2>6 DEF PoolInv, PoolTypeOK
<1>6. ASSUME Tick, UNCHANGED poolVars PROVE PoolInv' /\ PoolFair
  <2>1. blocktime' \in 0 .. MaxBlockTime
    BY <1>t, <1>n, <1>6 DEF Tick
  <2> QED
    BY <1>6, <1>u, <2>1
<1>7. ASSUME UNCHANGED <<poolVars, blocktime>> PROVE PoolInv' /\ PoolFair
  BY <1>t, <1>u, <1>7
<1>8. CASE PoolNext
  BY <1>1, <1>2, <1>3, <1>4, <1>5, <1>6, <1>8 DEF PoolNext
<1>9. CASE GovernanceNext /\ UNCHANGED poolVars
  BY <1>6, <1>7, <1>9 DEF GovernanceNext
<1>10. CASE FarmNext /\ UNCHANGED poolVars
  BY <1>6, <1>7, <1>10 DEF FarmNext, FarmTick
<1>11. CASE UNCHANGED <<poolVars, blocktime>>
  BY <1>7, <1>11
<1> QED
  BY <1>8, <1>9, <1>10, <1>11 DEF CustodyNext, custodyVars

\* A token never loses worth but by what traders win, whatever the delay, the
\* smallest deposit and the amounts, and however many requests one deploy pays.
THEOREM NobodyEverDiluted == CustodySpec => NobodyDiluted
<1>1. PoolInv /\ [CustodyNext]_custodyVars => [PoolFair]_poolVars
  BY StepPool
<1>2. CustodySpec => [][PoolFair]_poolVars
  BY <1>1, InitPool, StepPool, PTL DEF CustodySpec
<1> QED
  BY <1>2 DEF NobodyDiluted, PoolFair

\* Requests ask for amounts, and for an amount in all.
Asked(requests) == SumFunction([j \in DOMAIN requests |-> requests[j].amount])

LEMMA RequestsType ==
    ASSUME NEW requests \in Seq(WithdrawalRequest)
    PROVE  /\ Len(requests) \in Nat /\ DOMAIN requests = 1 .. Len(requests)
           /\ IsFiniteSet(1 .. Len(requests))
           /\ \A j \in 1 .. Len(requests) :
                 requests[j] \in WithdrawalRequest /\ requests[j].amount \in Nat
           /\ Asked(requests) \in Nat
<1> DEFINE n == Len(requests)
           all == [j \in 1 .. n |-> requests[j].amount]
<1>1. n \in Nat /\ DOMAIN requests = 1 .. n
  OBVIOUS
<1>2. \A j \in 1 .. n : requests[j] \in WithdrawalRequest
  OBVIOUS
<1>3. \A j \in 1 .. n : requests[j].amount \in Nat
  <2> SUFFICES ASSUME NEW j \in 1 .. n PROVE requests[j].amount \in Nat
    OBVIOUS
  <2> DEFINE request == requests[j]
  <2>1. request \in WithdrawalRequest
    BY <1>2
  <2> HIDE DEF request
  <2>2. request.amount \in Nat
    BY <2>1 DEF WithdrawalRequest
  <2> QED BY <2>2 DEF request
<1>4. IsFiniteSet(1 .. n)
  <2> HIDE DEF n
  <2> QED BY <1>1, FS_Interval
<1>5. all \in [1 .. n -> Nat] /\ all \in [1 .. n -> Int]
  BY <1>3
<1>6. SumFunction(all) \in Nat
  <2> HIDE DEF all, n
  <2> QED BY <1>4, <1>5, SumType
<1> QED
  BY <1>1, <1>2, <1>3, <1>4, <1>6 DEF Asked

\* What the first k requests ask for.
AskedUpto(requests, k) ==
    [j \in 1 .. Len(requests) |-> IF j <= k THEN requests[j].amount ELSE 0]

\* It grows with each request by what that one asks for, up to the whole.
LEMMA AskedSteps ==
    ASSUME NEW requests \in Seq(WithdrawalRequest)
    PROVE  /\ SumFunction(AskedUpto(requests, 0)) = 0
           /\ \A k \in 1 .. Len(requests) :
                 SumFunction(AskedUpto(requests, k))
                    = SumFunction(AskedUpto(requests, k - 1)) + requests[k].amount
           /\ \A k \in 0 .. Len(requests) :
                 /\ SumFunction(AskedUpto(requests, k)) \in Nat
                 /\ SumFunction(AskedUpto(requests, k))
                       <= Asked(requests)
<1> DEFINE n == Len(requests)
           S == 1 .. n
           asked(k) == AskedUpto(requests, k)
           all == [j \in DOMAIN requests |-> requests[j].amount]
<1>1. n \in Nat /\ IsFiniteSet(S)
  BY RequestsType
<1>2. DOMAIN requests = S /\ \A j \in S : requests[j].amount \in Nat
  BY RequestsType
<1>3. \A k \in 0 .. n : asked(k) \in [S -> Nat] /\ asked(k) \in [S -> Int]
  BY <1>2 DEF AskedUpto
<1>4. all \in [S -> Int]
  BY <1>2
<1>5. asked(0) \in [S -> {0}]
  BY DEF AskedUpto
<1>6. SumFunction(asked(0)) = 0
  <2> HIDE DEF asked, S
  <2> QED BY <1>1, <1>5, SumZero
<1>7. ASSUME NEW k \in 1 .. n
      PROVE  SumFunction(asked(k)) = SumFunction(asked(k - 1)) + requests[k].amount
  <2> DEFINE f == asked(k - 1)
             h == asked(k)
  <2>1. f \in [S -> Int] /\ h \in [S -> Int] /\ k \in S
    <3>1. k \in 0 .. n /\ k - 1 \in 0 .. n
      OBVIOUS
    <3> QED BY <1>3, <3>1
  <2>2. \A j \in S : j # k => h[j] = f[j]
    BY DEF AskedUpto
  <2>3. h[k] = requests[k].amount /\ f[k] = 0
    BY DEF AskedUpto
  <2> HIDE DEF f, h, S
  <2>4. SumFunction(h) = SumFunction(f) + (h[k] - f[k])
    BY <1>1, <2>1, <2>2, SumAt
  <2>5. requests[k].amount \in Nat /\ SumFunction(f) \in Int
    BY <1>1, <1>2, <2>1, SumType DEF S
  <2>6. SumFunction(h) = SumFunction(f) + requests[k].amount
    BY <2>3, <2>4, <2>5
  <2> QED BY <2>6 DEF f, h
<1>8. ASSUME NEW k \in 0 .. n
      PROVE  SumFunction(asked(k)) \in Nat /\ SumFunction(asked(k)) <= SumFunction(all)
  <2> DEFINE f == asked(k)
  <2>1. f \in [S -> Nat] /\ f \in [S -> Int]
    BY <1>3
  <2>2. \A j \in S : f[j] <= all[j]
    BY <1>2 DEF AskedUpto
  <2> HIDE DEF f, S, all
  <2>3. SumFunction(f) \in Nat /\ SumFunction(f) <= SumFunction(all)
    BY <1>1, <1>4, <2>1, <2>2, SumType, SumMonotone
  <2> QED BY <2>3 DEF f
<1> QED
  BY <1>6, <1>7, <1>8 DEF Asked

\* Requests for no more than the pool has can be paid in turn, and take out no
\* more than they ask for; one that is mature takes something.
LEMMA RequestsArePayable ==
    ASSUME pool \in Wealth, NEW requests \in Seq(WithdrawalRequest),
           NEW total, total = Asked(requests), total <= pool.total_lp_tokens,
           \A j \in DOMAIN requests : requests[j].amount # 0
    PROVE  /\ Payable(requests)
           /\ Withdrawn(requests) \in Nat /\ Withdrawn(requests) <= total
           /\ (\E j \in DOMAIN requests : IsMature(requests[j])) => Withdrawn(requests) # 0
<1> DEFINE n == Len(requests)
           r == Retained(requests)
           T == pool.total_lp_tokens
           asked(k) == SumFunction(AskedUpto(requests, k))
           Matured(k) == \E j \in 1 .. k : IsMature(requests[j])
           Good(k) == /\ r[k] \in Retaining
                      /\ r[k].pool.total_lp_tokens <= T
                      /\ T - asked(k) <= r[k].pool.total_lp_tokens
                      /\ Matured(k) => r[k].pool.total_lp_tokens # T
           Pays(k) == /\ r[k - 1].pool.total_lp_tokens # 0
                      /\ requests[k].amount <= r[k - 1].pool.total_lp_tokens
           S == {k \in Nat : k <= n => Good(k)}
<1>1. /\ n \in Nat /\ T \in Nat /\ total \in Nat
      /\ DOMAIN requests = 1 .. n
      /\ \A k \in 1 .. n : requests[k] \in WithdrawalRequest /\ requests[k].amount \in Nat
  BY RequestsType DEF Wealth
<1>2. /\ r[0] = [pool |-> pool, kept |-> <<>>]
      /\ \A k \in 1 .. n :
            r[k] = IF IsMature(requests[k])
                   THEN [r[k - 1] EXCEPT !.pool = Paid(@, requests[k])]
                   ELSE [r[k - 1] EXCEPT !.kept = Append(@, requests[k])]
  BY <1>1, RetainedSteps
<1>3. /\ asked(0) = 0
      /\ \A k \in 1 .. n : asked(k) = asked(k - 1) + requests[k].amount
      /\ \A k \in 0 .. n : asked(k) \in Nat /\ asked(k) <= total
  BY AskedSteps
<1>4. \A k \in 1 .. n : requests[k].amount \in Nat \ {0}
  BY <1>1
<1> HIDE DEF r, asked
<1>5. Good(0)
  <2>1. <<>> \in Seq(WithdrawalRequest)
    OBVIOUS
  <2>2. r[0] \in Retaining /\ r[0].pool = pool
    BY <1>2, <2>1 DEF Retaining
  <2> QED BY <1>1, <1>3, <2>2
<1>6. ASSUME NEW k \in 1 .. n, Good(k - 1) PROVE Good(k) /\ Pays(k)
  <2> DEFINE p == r[k - 1].pool
             request == requests[k]
             t == p.total_lp_tokens
             a == request.amount
  <2>1. p \in Wealth /\ t \in Nat /\ request \in WithdrawalRequest /\ a \in Nat \ {0}
    BY <1>1, <1>4, <1>6 DEF Retaining, Wealth
  <2>2. asked(k) = asked(k - 1) + a /\ asked(k - 1) \in Nat /\ asked(k) \in Nat /\ asked(k) <= total
    <3>1. k \in 0 .. n /\ k - 1 \in 0 .. n
      OBVIOUS
    <3> QED BY <1>3, <3>1
  <2>3. t <= T /\ T - asked(k - 1) <= t
    BY <1>6
  <2>5. a <= t /\ t # 0
    BY <1>1, <2>1, <2>2, <2>3
  <2>6. CASE IsMature(request)
    <3> DEFINE paid == Paid(p, request)
    <3>1. paid \in Wealth /\ paid.total_lp_tokens = t - a
      BY <2>1, <2>5, PaidFairly
    <3>2. r[k] = [r[k - 1] EXCEPT !.pool = paid]
      BY <1>2, <2>6
    <3> HIDE DEF paid
    <3>3. r[k] \in Retaining /\ r[k].pool = paid
      BY <1>6, <3>1, <3>2 DEF Retaining
    <3> HIDE DEF p, a
    <3>4. r[k].pool.total_lp_tokens = t - a
      BY <3>1, <3>3
    <3> HIDE DEF t
    <3> QED BY <1>1, <2>1, <2>2, <2>3, <2>5, <3>3, <3>4 DEF t, p, a
  <2>7. CASE ~ IsMature(request)
    <3>1. r[k] = [r[k - 1] EXCEPT !.kept = Append(@, request)]
      BY <1>2, <2>7
    <3>2. r[k - 1] \in Retaining /\ request \in WithdrawalRequest
      BY <1>6, <2>1
    <3>3. r[k] \in Retaining /\ r[k].pool = r[k - 1].pool
      <4> DEFINE before == r[k - 1]
                 kept == Append(before.kept, request)
      <4>1. before \in [pool : Wealth, kept : Seq(WithdrawalRequest)]
        BY <3>2 DEF Retaining
      <4>2. kept \in Seq(WithdrawalRequest)
        BY <3>2, <4>1
      <4>3. r[k] = [before EXCEPT !.kept = kept]
        BY <3>1
      <4> HIDE DEF before, kept
      <4>4. r[k] \in [pool : Wealth, kept : Seq(WithdrawalRequest)] /\ r[k].pool = before.pool
        BY <4>1, <4>2, <4>3
      <4> QED BY <4>4 DEF Retaining, before
    <3>4. Matured(k) => Matured(k - 1)
      <4>1. \A j \in 1 .. k : j = k \/ j \in 1 .. k - 1
        OBVIOUS
      <4> QED BY <2>7, <4>1
    <3>5. r[k].pool.total_lp_tokens = t
      BY <3>3
    <3>6. Matured(k) => t # T
      BY <1>6, <3>4
    <3> HIDE DEF Matured, Good
    <3>7. t <= T /\ T - asked(k) <= t
      BY <1>1, <2>1, <2>2, <2>3
    <3> QED BY <2>5, <3>3, <3>5, <3>6, <3>7 DEF Good
  <2> QED BY <2>6, <2>7
<1> HIDE DEF Good, Pays
<1>7. 0 \in S
  BY <1>5
<1>8. ASSUME NEW k \in Nat, k \in S PROVE k + 1 \in S
  <2> SUFFICES ASSUME k + 1 <= n PROVE Good(k + 1)
    OBVIOUS
  <2>1. k + 1 \in 1 .. n /\ (k + 1) - 1 = k /\ k <= n
    BY <1>1
  <2> QED BY <1>6, <1>8, <2>1
<1>9. \A k \in 0 .. n : Good(k)
  <2>1. Nat \subseteq S
    <3> HIDE DEF S
    <3> QED BY <1>7, <1>8, SetInduction
  <2> QED BY <1>1, <2>1
<1>10. Payable(requests)
  <2> SUFFICES ASSUME NEW k \in 1 .. n PROVE Pays(k)
    BY DEF Payable, Pays, r
  <2>1. k - 1 \in 0 .. n
    OBVIOUS
  <2> QED BY <1>6, <1>9, <2>1
<1>11. Good(n) /\ n \in 0 .. n
  BY <1>1, <1>9
<1>12. Withdrawn(requests) = T - r[n].pool.total_lp_tokens
  BY DEF Withdrawn, Remaining, r
<1>13. r[n].pool.total_lp_tokens \in Nat /\ asked(n) \in Nat /\ asked(n) <= total
  BY <1>3, <1>11 DEF Good, Retaining, Wealth
<1> QED
  BY <1>1, <1>10, <1>11, <1>12, <1>13 DEF Good

\* A provider who asks for no more tokens than he has is not kept from what is
\* mature, whatever others withdraw and traders win in between.
THEOREM WithdrawalsAlwaysHonoured == CustodySpec => []WithdrawalsHonoured
<1>1. PoolInv => WithdrawalsHonoured
  <2> SUFFICES ASSUME PoolInv, NEW u \in Providers, Requested(u) <= lp_tokens[u],
                      \E k \in DOMAIN withdrawal_requests[u] :
                          IsMature(withdrawal_requests[u][k]),
                      \A k \in DOMAIN withdrawal_requests[u] :
                          withdrawal_requests[u][k].amount # 0
               PROVE  CanWithdraw(u)
    BY DEF WithdrawalsHonoured
  <2> DEFINE requests == withdrawal_requests[u]
             total == Asked(requests)
  <2>1. /\ requests \in Seq(WithdrawalRequest) /\ lp_tokens \in [Providers -> Nat]
        /\ pool \in Wealth
    BY PoolNumbers DEF PoolNumbers, PoolInv, PoolTypeOK, Wealth
  <2>2. total <= lp_tokens[u]
    BY DEF Requested, Asked
  <2>3. lp_tokens[u] <= pool.total_lp_tokens
    <3>1. IsFiniteSet(Providers) /\ lp_tokens \in [Providers -> Int]
      BY <2>1, PoolNumbers DEF PoolNumbers
    <3>2. lp_tokens[u] <= SumFunction(lp_tokens)
      BY <2>1, <3>1, SumType
    <3> QED BY <3>2 DEF PoolInv, TokensAddUp
  <2>4. lp_tokens[u] \in Nat /\ pool.total_lp_tokens \in Nat
    BY <2>1 DEF Wealth
  <2>5. \A j \in DOMAIN requests : requests[j].amount # 0
    OBVIOUS
  <2>6. \E j \in DOMAIN requests : IsMature(requests[j])
    OBVIOUS
  <2>7. total \in Nat
    BY <2>1, RequestsType
  <2> HIDE DEF total
  <2>8. total <= pool.total_lp_tokens
    BY <2>2, <2>3, <2>4, <2>7
  <2>9. total = Asked(requests)
    BY DEF total
  <2> HIDE DEF requests
  <2>10. /\ Payable(requests) /\ Withdrawn(requests) \in Nat
         /\ Withdrawn(requests) <= total /\ Withdrawn(requests) # 0
    BY <2>1, <2>5, <2>6, <2>8, <2>9, RequestsArePayable
  <2>11. Withdrawn(requests) <= lp_tokens[u]
    BY <2>2, <2>4, <2>7, <2>10
  <2> QED BY <2>10, <2>11 DEF CanWithdraw, requests
<1> QED
  BY <1>1, InitPool, StepPool, PTL DEF CustodySpec

-----------------------------------------------------------------------------
\* A lock is worth a multiple of what is locked, so voting power is a number.
LEMMA PowerIsNatural ==
    ASSUME NEW amount \in Nat, NEW lock_period \in Nat
    PROVE  VotingPower(amount, lock_period) \in Nat
<1>1. Day \in Nat
  BY GovernanceNumbers DEF GovernanceNumbers
<1>2. Multiplier(lock_period) \in {100, 125, 150, 200, 250, 300}
  <2>1. \/ lock_period <= Day
        \/ lock_period \in Day + 1 .. 7 * Day
        \/ lock_period \in 7 * Day + 1 .. 30 * Day
        \/ lock_period \in 30 * Day + 1 .. 90 * Day
        \/ lock_period \in 90 * Day + 1 .. 180 * Day
        \/ lock_period > 180 * Day
    BY <1>1
  <2> QED
    BY <2>1 DEF Multiplier
<1> DEFINE m == Multiplier(lock_period)
<1>3. m \in Nat
  BY <1>2
<1> HIDE DEF m
<1>4. amount * m \in Nat
  BY <1>3
<1>5. (amount * m) \div 100 \in Nat
  BY <1>4, DivBelow
<1> QED
  BY <1>5 DEF VotingPower, m

\* A proposal was executed after its period, with the votes it needed.
Decided(p) == p.executed => HasPassed(p) /\ p.end_time < blocktime

AllDecided == \A id \in DOMAIN proposals : Decided(proposals[id])

GovernanceInv ==
    blocktime \in 0 .. MaxBlockTime /\ GovernanceTypeOK /\ StakesAddUp /\ AllDecided

LEMMA InitGovernance == CustodyInit => GovernanceInv
<1> SUFFICES ASSUME CustodyInit PROVE GovernanceInv
  OBVIOUS
<1>1. MaxBlockTime \in Nat /\ IsFiniteSet(Voters)
  BY GovernanceNumbers, BlockTimesAreNaturals DEF GovernanceNumbers
<1>2. /\ staked \in [Voters -> StakedPosition]
      /\ \A u \in Voters : staked[u].staked_amount = 0
  BY DEF CustodyInit, GovernanceInit, StakedPosition
<1>3. StakesAddUp
  <2> DEFINE amounts == [u \in Voters |-> staked[u].staked_amount]
  <2>1. amounts \in [Voters -> {0}]
    BY <1>2
  <2> HIDE DEF amounts
  <2>2. SumFunction(amounts) = 0
    BY <1>1, <2>1, SumZero
  <2> QED
    BY <2>2 DEF amounts, StakesAddUp, CustodyInit, GovernanceInit
<1>4. proposals = <<>> /\ staked_supply = 0 /\ blocktime = 0
  BY DEF CustodyInit, GovernanceInit
<1>5. proposals \in Seq(Proposal) /\ DOMAIN proposals = {}
  BY <1>4
<1> QED
  BY <1>1, <1>2, <1>3, <1>4, <1>5 DEF GovernanceInv, GovernanceTypeOK, AllDecided

\* What a voter has staked and the supply that counts as staked move together,
\* and the supply stays a natural number.
LEMMA StakesMove ==
    ASSUME StakesAddUp, staked \in [Voters -> StakedPosition],
           staked_supply \in Nat, NEW u \in Voters, NEW held \in StakedPosition,
           staked' = [staked EXCEPT ![u] = held],
           staked_supply' = staked_supply + (held.staked_amount - staked[u].staked_amount)
    PROVE  staked' \in [Voters -> StakedPosition] /\ staked_supply' \in Nat /\ StakesAddUp'
<1> DEFINE f == [v \in Voters |-> staked[v].staked_amount]
           g == [v \in Voters |-> staked'[v].staked_amount]
<1>0. IsFiniteSet(Voters)
  BY GovernanceNumbers DEF GovernanceNumbers
<1>1. staked' \in [Voters -> StakedPosition] /\ staked'[u] = held
  OBVIOUS
<1>2. \A v \in Voters : staked[v].staked_amount \in Nat /\ staked'[v].staked_amount \in Nat
  BY <1>1 DEF StakedPosition
<1>3. /\ f \in [Voters -> Nat] /\ g \in [Voters -> Nat]
      /\ f \in [Voters -> Int] /\ g \in [Voters -> Int]
      /\ \A v \in Voters : v # u => g[v] = f[v]
      /\ g[u] = held.staked_amount /\ f[u] = staked[u].staked_amount
  BY <1>1, <1>2
<1>4. SumFunction(f) = staked_supply
  BY DEF StakesAddUp
<1>5. StakesAddUp' <=> SumFunction(g) = staked_supply'
  BY DEF StakesAddUp
<1> HIDE DEF f, g
<1>6. SumFunction(g) = SumFunction(f) + (g[u] - f[u])
  BY <1>0, <1>3, SumAt, Zenon
<1>7. SumFunction(g) \in Nat
  BY <1>0, <1>3, SumType
<1> QED
  BY <1>1, <1>3, <1>4, <1>5, <1>6, <1>7

\* Each deploy keeps types and totals, and the decisions that were taken.
LEMMA StepGovernance == GovernanceInv /\ [CustodyNext]_custodyVars => GovernanceInv'
<1> SUFFICES ASSUME GovernanceInv, [CustodyNext]_custodyVars PROVE GovernanceInv'
  OBVIOUS
<1>n. /\ StakeAmounts \subseteq Nat /\ LockPeriods \subseteq Nat /\ MaxBlockTime \in Nat
      /\ VotingDelay \in Nat /\ VotingPeriod \in Nat /\ TotalSupply \in Nat
  BY GovernanceNumbers, BlockTimesAreNaturals DEF GovernanceNumbers
<1>t. /\ blocktime \in 0 .. MaxBlockTime /\ blocktime \in Nat
      /\ staked \in [Voters -> StakedPosition] /\ staked_supply \in Nat
      /\ proposals \in Seq(Proposal)
      /\ StakesAddUp
      /\ \A id \in DOMAIN proposals : Decided(proposals[id]) /\ proposals[id] \in Proposal
  BY <1>n DEF GovernanceInv, GovernanceTypeOK, AllDecided
<1>p. ASSUME proposals' = proposals, blocktime' \in 0 .. MaxBlockTime, blocktime <= blocktime'
      PROVE  proposals' \in Seq(Proposal) /\ AllDecided'
  <2>1. blocktime' \in Nat
    BY <1>n, <1>p
  <2>2. ASSUME NEW id \in DOMAIN proposals
        PROVE  proposals[id].executed =>
                  HasPassed(proposals[id]) /\ proposals[id].end_time < blocktime'
    <3>1. proposals[id].end_time \in Nat /\ Decided(proposals[id])
      BY <1>t DEF Proposal
    <3> QED
      BY <1>t, <1>p, <2>1, <3>1 DEF Decided
  <2> QED
    BY <1>t, <1>p, <2>2 DEF AllDecided, Decided, HasPassed
<1>u. ASSUME UNCHANGED governanceVars, blocktime' \in 0 .. MaxBlockTime, blocktime <= blocktime'
      PROVE  GovernanceInv'
  <2>1. UNCHANGED <<staked, staked_supply, proposals>>
    BY <1>u DEF governanceVars
  <2> QED
    BY <1>t, <1>u, <1>p, <2>1 DEF GovernanceInv, GovernanceTypeOK, StakesAddUp
<1>b. UNCHANGED blocktime => blocktime' \in 0 .. MaxBlockTime /\ blocktime <= blocktime'
  BY <1>t
<1>1. ASSUME NEW u \in Voters, NEW amount \in StakeAmounts, NEW lock_period \in LockPeriods,
             Stake(u, amount, lock_period), UNCHANGED blocktime
      PROVE  GovernanceInv'
  <2> DEFINE total == staked[u].staked_amount + amount
             held == [staked_amount |-> total, stake_timestamp |-> blocktime,
                      lock_period |-> lock_period,
                      voting_power |-> VotingPower(total, lock_period)]
  <2>1. staked[u].staked_amount \in Nat /\ amount \in Nat /\ lock_period \in Nat
    BY <1>n, <1>t DEF StakedPosition
  <2>a. total \in Nat
    BY <2>1
  <2>2. total \in Nat /\ VotingPower(total, lock_period) \in Nat
    BY <2>1, <2>a, PowerIsNatural
  <2>3. /\ staked' = [staked EXCEPT ![u] = held]
        /\ staked_supply' = staked_supply + amount
        /\ proposals' = proposals
    BY <1>1 DEF Stake
  <2>4. held.staked_amount - staked[u].staked_amount = amount
    BY <2>1
  <2> HIDE DEF total
  <2>5. held \in StakedPosition
    BY <1>t, <2>1, <2>2 DEF StakedPosition
  <2> HIDE DEF held
  <2>6. staked' \in [Voters -> StakedPosition] /\ staked_supply' \in Nat /\ StakesAddUp'
    BY <1>t, <2>3, <2>4, <2>5, StakesMove
  <2> QED
    BY <1>1, <1>b, <1>p, <2>3, <2>6 DEF GovernanceInv, GovernanceTypeOK
<1>2. ASSUME NEW u \in Voters, NEW amount \in StakeAmounts, Unstake(u, amount),
             UNCHANGED blocktime
      PROVE  GovernanceInv'
  <2> DEFINE rest == staked[u].staked_amount - amount
             power == VotingPower(rest, staked[u].lock_period)
             held == [staked[u] EXCEPT !.staked_amount = rest, !.voting_power = power]
  <2>1. /\ staked[u].staked_amount \in Nat /\ staked[u].lock_period \in Nat
        /\ amount \in Nat /\ staked[u] \in StakedPosition
    BY <1>n, <1>t DEF StakedPosition
  <2>2. rest >= 0
    BY <1>2 DEF Unstake
  <2>3. rest \in Nat /\ power \in Nat
    BY <2>1, <2>2, PowerIsNatural
  <2>4. /\ staked' = [staked EXCEPT ![u].staked_amount = rest, ![u].voting_power = power]
        /\ staked_supply' = staked_supply - amount
        /\ proposals' = proposals
    BY <1>2 DEF Unstake
  <2>5. staked_supply - amount = staked_supply + (rest - staked[u].staked_amount)
    BY <1>t, <2>1
  <2> HIDE DEF rest, power
  <2>6. held \in StakedPosition /\ held.staked_amount = rest
    BY <2>1, <2>3 DEF StakedPosition
  <2>7. staked' = [staked EXCEPT ![u] = held]
    BY <1>t, <2>4
  <2> HIDE DEF held
  <2>8. staked_supply' = staked_supply + (held.staked_amount - staked[u].staked_amount)
    BY <2>4, <2>5, <2>6
  <2>9. staked' \in [Voters -> StakedPosition] /\ staked_supply' \in Nat /\ StakesAddUp'
    BY <1>t, <2>6, <2>7, <2>8, StakesMove
  <2> QED
    BY <1>2, <1>b, <1>p, <2>4, <2>9 DEF GovernanceInv, GovernanceTypeOK
<1>m. ASSUME UNCHANGED <<staked, staked_supply, blocktime>>,
             proposals' \in Seq(Proposal),
             \A id \in DOMAIN proposals' : Decided(proposals'[id])
      PROVE  GovernanceInv'
  <2>1. StakesAddUp' /\ AllDecided'
    BY <1>t, <1>m DEF StakesAddUp, AllDecided, Decided, HasPassed
  <2> QED
    BY <1>t, <1>m, <2>1 DEF GovernanceInv, GovernanceTypeOK
<1>3. ASSUME NEW u \in Voters, CreateProposal(u), UNCHANGED blocktime
      PROVE  GovernanceInv'
  <2> DEFINE start == blocktime + VotingDelay
             p == [votes_for |-> 0, votes_against |-> 0, start_time |-> start,
                   end_time |-> start + VotingPeriod, executed |-> FALSE,
                   quorum_required |-> TotalSupply \div 10]
  <2>1. TotalSupply \div 10 \in Nat
    BY <1>n, DivBelow
  <2>2. p \in Proposal /\ ~ p.executed
    BY <1>t, <1>n, <2>1 DEF Proposal
  <2>3. proposals' = Append(proposals, p) /\ UNCHANGED <<staked, staked_supply>>
    BY <1>3 DEF CreateProposal
  <2> HIDE DEF p
  <2>4. /\ proposals' \in Seq(Proposal)
        /\ \A id \in DOMAIN proposals' :
             proposals'[id] = p \/ (id \in DOMAIN proposals /\ proposals'[id] = proposals[id])
    BY <1>t, <2>2, <2>3
  <2>5. Decided(p)
    BY <2>2 DEF Decided
  <2>6. \A id \in DOMAIN proposals' : Decided(proposals'[id])
    BY <1>t, <2>4, <2>5
  <2> QED
    BY <1>3, <1>m, <2>3, <2>4, <2>6
<1>e. ASSUME NEW id \in DOMAIN proposals, NEW p \in Proposal, Decided(p),
             proposals' = [proposals EXCEPT ![id] = p],
             UNCHANGED <<staked, staked_supply, blocktime>>
      PROVE  GovernanceInv'
  <2>1. /\ proposals' \in Seq(Proposal) /\ DOMAIN proposals' = DOMAIN proposals
        /\ \A k \in DOMAIN proposals : proposals'[k] = IF k = id THEN p ELSE proposals[k]
    BY <1>t, <1>e
  <2>2. \A k \in DOMAIN proposals' : Decided(proposals'[k])
    BY <1>t, <1>e, <2>1
  <2> QED
    BY <1>e, <1>m, <2>1, <2>2
<1>4. ASSUME NEW u \in Voters, NEW id \in DOMAIN proposals, NEW support \in BOOLEAN,
             Vote(u, id, support), UNCHANGED blocktime
      PROVE  GovernanceInv'
  <2> DEFINE p == proposals[id]
             power == staked[u].voting_power
             q == IF support THEN [p EXCEPT !.votes_for = @ + power]
                  ELSE [p EXCEPT !.votes_against = @ + power]
  <2>1. power \in Nat /\ p \in Proposal /\ Decided(p)
    BY <1>t DEF StakedPosition
  <2>2. p.start_time <= blocktime /\ blocktime <= p.end_time
    BY <1>4 DEF Vote, IsActive
  <2>3. proposals' = [proposals EXCEPT ![id] = q] /\ UNCHANGED <<staked, staked_supply>>
    BY <1>4, Zenon DEF Vote
  <2> HIDE DEF power, p
  <2>4. ~ p.executed
    BY <1>t, <2>1, <2>2 DEF Decided, Proposal
  <2>5. q \in Proposal /\ ~ q.executed
    BY <2>1, <2>4 DEF Proposal
  <2> HIDE DEF q
  <2>6. Decided(q)
    BY <2>5 DEF Decided
  <2> QED
    BY <1>4, <1>e, <2>3, <2>5, <2>6
<1>5. ASSUME NEW id \in DOMAIN proposals, ExecuteProposal(id), UNCHANGED blocktime
      PROVE  GovernanceInv'
  <2> DEFINE p == proposals[id]
             q == [p EXCEPT !.executed = TRUE]
  <2>1. p \in Proposal /\ blocktime > p.end_time /\ HasPassed(p)
    BY <1>t, <1>5 DEF ExecuteProposal, VotingEnded
  <2>2. /\ proposals' = [proposals EXCEPT ![id].executed = TRUE]
        /\ UNCHANGED <<staked, staked_supply>>
    BY <1>5 DEF ExecuteProposal
  <2>3. proposals' = [proposals EXCEPT ![id] = q]
    BY <1>t, <2>2
  <2> HIDE DEF p
  <2>4. q \in Proposal
    BY <2>1 DEF Proposal
  <2>5. Decided(q)
    BY <1>t, <2>1, <2>4 DEF Decided, HasPassed, Proposal
  <2> HIDE DEF q
  <2> QED
    BY <1>5, <1>e, <2>2, <2>3, <2>4, <2>5
<1>6. ASSUME Tick, UNCHANGED governanceVars PROVE GovernanceInv'
  <2>1. blocktime' \in 0 .. MaxBlockTime /\ blocktime <= blocktime'
    BY <1>t, <1>n, <1>6 DEF Tick
  <2> QED
    BY <1>6, <1>u, <2>1
<1>7. ASSUME UNCHANGED <<governanceVars, blocktime>> PROVE GovernanceInv'
  BY <1>b, <1>u, <1>7
<1>8. CASE GovernanceNext
  BY <1>1, <1>2, <1>3, <1>4, <1>5, <1>6, <1>8 DEF GovernanceNext
<1>9. CASE PoolNext /\ UNCHANGED governanceVars
  BY <1>6, <1>7, <1>9 DEF PoolNext
<1>10. CASE FarmNext /\ UNCHANGED governanceVars
  BY <1>6, <1>7, <1>10 DEF FarmNext, FarmTick
<1>11. CASE UNCHANGED <<governanceVars, blocktime>>
  BY <1>7, <1>11
<1> QED
  BY <1>8, <1>9, <1>10, <1>11 DEF CustodyNext, custodyVars

\* What execute_proposal carried out was decided and stays decided, whatever is
\* staked, for however long, and however often anyone votes: the votes are over
\* when it runs.
THEOREM DecisionsAlwaysStand == CustodySpec => []DecisionsStand
<1>1. GovernanceInv => DecisionsStand
  BY DEF GovernanceInv, AllDecided, Decided, DecisionsStand
<1> QED
  BY <1>1, InitGovernance, StepGovernance, PTL DEF CustodySpec

-----------------------------------------------------------------------------
\* What a position is due before anything is rounded, times Precision.
Due(acc, p) ==
    Precision * p.pending_rewards + p.staked_amount * acc - Precision * p.reward_debt

Dues(acc) == [u \in Farmers |-> Due(acc, Held(u))]

Stakes == [u \in Farmers |-> Held(u).staked_amount]

\* While the pool is the first: no debt is above the share it was taken from,
\* and all that was paid and is due is covered by the rewards there were up to
\* the last update, but for a token for each change of a stake.
FarmCounts ==
    /\ \A u \in Farmers : Held(u).reward_debt <= ShareOf(farm, Held(u).staked_amount)
    /\ Precision * total_rewards_distributed
          + SumFunction(Dues(farm.accumulated_reward_per_share))
         <= Precision * (emitted - Emission + changes)

FarmInv ==
    /\ blocktime \in 0 .. MaxBlockTime
    /\ FarmTypeOK
    /\ FarmAddsUp
    /\ creations <= 1 => FarmCounts
    /\ creations = 0 => position = NoKeys /\ total_rewards_distributed = 0

\* Nobody is in the pool while the deploys go to another contract.
FarmRests == focus # "farming" => farm.total_staked = 0

FarmFair == \A u \in Farmers : received[u] + Owed(u) <= received'[u] + Owed(u)'

\* Every farmer has a position, be it the empty one.
LEMMA HeldType ==
    ASSUME FarmTypeOK
    PROVE  \A u \in Farmers :
              /\ Held(u) \in FarmingPosition
              /\ Held(u).staked_amount \in Nat /\ Held(u).reward_debt \in Nat
              /\ Held(u).pending_rewards \in Nat
<1>1. NewPosition \in FarmingPosition
  BY DEF NewPosition, FarmingPosition
<1>2. \A u \in Farmers : Held(u) \in FarmingPosition
  BY <1>1 DEF FarmTypeOK, IsMap, Held, HasKey
<1> QED
  BY <1>2 DEF FarmingPosition

\* A share is a number that grows with the accumulator.
LEMMA SharesGrow ==
    ASSUME NEW f \in FarmingPool, NEW g \in FarmingPool, NEW n \in Nat,
           f.accumulated_reward_per_share <= g.accumulated_reward_per_share
    PROVE  /\ ShareOf(f, n) \in Nat /\ ShareOf(g, n) \in Nat
           /\ ShareOf(f, n) <= ShareOf(g, n)
<1> DEFINE a == f.accumulated_reward_per_share
           b == g.accumulated_reward_per_share
<1>1. a \in Nat /\ b \in Nat /\ a <= b
  BY DEF FarmingPool
<1>2. Precision \in Nat \ {0}
  BY FarmNumbers DEF FarmNumbers
<1> HIDE DEF a, b
<1>3. b * n >= a * n
  BY <1>1, TimesMonotone
<1>4. n * a \in Nat /\ n * b \in Nat /\ n * a <= n * b
  BY <1>1, <1>3
<1> DEFINE x == n * a
           y == n * b
<1> HIDE DEF x, y
<1>5. x \in Nat /\ y \in Nat /\ x <= y
  BY <1>4 DEF x, y
<1>6. x \div Precision \in Nat /\ y \div Precision \in Nat /\ x \div Precision <= y \div Precision
  BY <1>2, <1>5, DivMono, DivBelow
<1> QED
  BY <1>6 DEF ShareOf, a, b, x, y

\* update_pool: the accumulator takes in no more than there was since the last
\* update, divided among all that is staked.
LEMMA UpdateFarm ==
    ASSUME FarmTypeOK, blocktime \in Nat
    PROVE  /\ Updated \in FarmingPool
           /\ Updated.total_staked = farm.total_staked
           /\ Updated.accumulated_reward_per_share >= farm.accumulated_reward_per_share
           /\ blocktime <= Updated.last_reward_time
           /\ Emission \in Nat
           /\ (Updated.accumulated_reward_per_share - farm.accumulated_reward_per_share)
                 * farm.total_staked <= Precision * Emission
<1>1. /\ farm.total_staked \in Nat /\ farm.reward_per_second \in Nat
      /\ farm.last_reward_time \in Nat /\ farm.accumulated_reward_per_share \in Nat
      /\ farm \in FarmingPool
  BY DEF FarmTypeOK, FarmingPool
<1>2. Precision \in Nat /\ Precision # 0
  BY FarmNumbers DEF FarmNumbers
<1>3. Emission \in Nat
  <2>1. CASE blocktime <= farm.last_reward_time \/ farm.total_staked = 0
    BY <2>1 DEF Emission
  <2>2. CASE ~ (blocktime <= farm.last_reward_time \/ farm.total_staked = 0)
    <3>1. blocktime - farm.last_reward_time \in Nat
      BY <1>1, <2>2
    <3> QED
      BY <1>1, <2>2, <3>1 DEF Emission
  <2> QED
    BY <2>1, <2>2
<1>4. RewardPerShare \in Nat /\ RewardPerShare * farm.total_staked <= Precision * Emission
  <2>1. CASE farm.total_staked = 0
    BY <1>1, <1>2, <1>3, <2>1 DEF RewardPerShare
  <2>2. CASE farm.total_staked # 0
    <3> DEFINE x == Emission * Precision
               n == farm.total_staked
    <3>1. x \in Nat /\ n \in Nat \ {0} /\ x = Precision * Emission
      BY <1>1, <1>2, <1>3, <2>2
    <3>2. RewardPerShare = x \div n
      BY <2>2 DEF RewardPerShare
    <3> HIDE DEF x, n
    <3>3. x \div n \in Nat /\ (x \div n) * n <= x
      BY <3>1, DivBelow
    <3> QED
      BY <3>1, <3>2, <3>3 DEF n
  <2> QED
    BY <2>1, <2>2
<1>5. CASE blocktime <= farm.last_reward_time
  <2>1. Updated = farm
    BY <1>5 DEF Updated
  <2>2. (farm.accumulated_reward_per_share - farm.accumulated_reward_per_share)
            * farm.total_staked <= Precision * Emission
    BY <1>1, <1>2, <1>3
  <2> QED
    BY <1>1, <1>3, <1>5, <2>1, <2>2
<1>6. CASE ~ (blocktime <= farm.last_reward_time)
  <2> DEFINE r == RewardPerShare
             e == Emission
             acc == farm.accumulated_reward_per_share + r
  <2>1. Updated = [farm EXCEPT !.accumulated_reward_per_share = acc,
                               !.last_reward_time = blocktime]
    BY <1>6 DEF Updated
  <2>2. acc \in Nat /\ r \in Nat /\ acc - farm.accumulated_reward_per_share = r
    BY <1>1, <1>4
  <2>3. r * farm.total_staked <= Precision * e /\ e \in Nat
    BY <1>3, <1>4
  <2> HIDE DEF r, e, acc
  <2>4. /\ Updated \in FarmingPool /\ Updated.total_staked = farm.total_staked
        /\ Updated.accumulated_reward_per_share = acc
        /\ Updated.last_reward_time = blocktime
    BY <1>1, <2>1, <2>2 DEF FarmingPool
  <2>5. acc >= farm.accumulated_reward_per_share
    BY <1>1, <2>2
  <2>6. (acc - farm.accumulated_reward_per_share) * farm.total_staked <= Precision * e
    BY <2>2, <2>3
  <2> QED
    BY <2>3, <2>4, <2>5, <2>6 DEF e
<1> QED
  BY <1>5, <1>6

\* What everyone is due grows with the accumulator by what is staked.
LEMMA DuesGrow ==
    ASSUME FarmTypeOK, FarmAddsUp, creations <= 1, NEW a \in Nat, NEW b \in Nat
    PROVE  /\ SumFunction(Dues(b)) = SumFunction(Dues(a)) + (b - a) * farm.total_staked
           /\ SumFunction(Dues(a)) \in Int /\ SumFunction(Dues(b)) \in Int
<1>1. Precision \in Nat /\ IsFiniteSet(Farmers)
  BY FarmNumbers DEF FarmNumbers
<1>2. ASSUME NEW u \in Farmers
      PROVE  /\ Due(a, Held(u)) \in Int /\ Due(b, Held(u)) \in Int
             /\ Due(b, Held(u)) = Due(a, Held(u)) + (b - a) * Held(u).staked_amount
  <2> DEFINE g == Held(u).pending_rewards
             s == Held(u).staked_amount
             d == Held(u).reward_debt
  <2>1. g \in Nat /\ s \in Nat /\ d \in Nat
    BY HeldType
  <2> HIDE DEF g, s, d
  <2>2. /\ Precision * g + s * a - Precision * d \in Int
        /\ Precision * g + s * b - Precision * d \in Int
        /\ Precision * g + s * b - Precision * d
             = (Precision * g + s * a - Precision * d) + (b - a) * s
    BY <1>1, <2>1, SMT
  <2> QED
    BY <2>2 DEF Due, g, s, d
<1> DEFINE f == Dues(a)
           h == Dues(b)
           g == Stakes
           c == b - a
<1>3. c \in Int
  OBVIOUS
<1>4. f \in [Farmers -> Int] /\ h \in [Farmers -> Int] /\ g \in [Farmers -> Int]
  BY <1>2, HeldType DEF Dues, Stakes
<1>5. \A u \in Farmers : h[u] = f[u] + c * g[u]
  BY <1>2 DEF Dues, Stakes
<1>6. SumFunction(g) = farm.total_staked
  BY DEF FarmAddsUp, Stakes
<1> HIDE DEF f, g, h, c
<1>7. SumFunction(h) = SumFunction(f) + c * SumFunction(g)
  BY <1>1, <1>3, <1>4, <1>5, SumLinear
<1>8. SumFunction(f) \in Int /\ SumFunction(h) \in Int
  BY <1>1, <1>4, SumType
<1> QED
  BY <1>6, <1>7, <1>8 DEF f, h, c

\* What a position earned is a number that grows with the accumulator.
LEMMA EarnedGrows ==
    ASSUME NEW f \in FarmingPool, NEW g \in FarmingPool, NEW p \in FarmingPosition,
           f.accumulated_reward_per_share <= g.accumulated_reward_per_share
    PROVE  Earned(f, p) \in Nat /\ Earned(g, p) \in Nat /\ Earned(f, p) <= Earned(g, p)
<1> DEFINE x == ShareOf(f, p.staked_amount)
           y == ShareOf(g, p.staked_amount)
<1>1. p.staked_amount \in Nat /\ p.reward_debt \in Nat
  BY DEF FarmingPosition
<1>2. x \in Nat /\ y \in Nat /\ x <= y
  BY <1>1, SharesGrow
<1>3. /\ Earned(f, p) = IF x > p.reward_debt THEN x - p.reward_debt ELSE 0
      /\ Earned(g, p) = IF y > p.reward_debt THEN y - p.reward_debt ELSE 0
  BY DEF Earned
<1> HIDE DEF x, y
<1> QED
  BY <1>1, <1>2, <1>3

\* Settling a position keeps what was earned; it is due more than before by
\* less than one, when the new debt is rounded down, and no more if the stake
\* stays.
LEMMA SettledDue ==
    ASSUME NEW f \in FarmingPool, NEW p \in FarmingPosition, NEW n \in Nat, NEW q,
           q = Settled(f, p, n)
    PROVE  /\ q \in FarmingPosition /\ q.staked_amount = n /\ q.reward_debt = ShareOf(f, n)
           /\ q.pending_rewards = p.pending_rewards + Earned(f, p)
           /\ p.reward_debt <= ShareOf(f, p.staked_amount) =>
                /\ Due(f.accumulated_reward_per_share, q)
                     <= Due(f.accumulated_reward_per_share, p) + Precision
                /\ n = p.staked_amount =>
                     Due(f.accumulated_reward_per_share, q)
                       <= Due(f.accumulated_reward_per_share, p)
<1> DEFINE acc == f.accumulated_reward_per_share
           s == p.staked_amount
           d == p.reward_debt
           g == p.pending_rewards
           e == Earned(f, p)
           x == ShareOf(f, s)
           y == ShareOf(f, n)
<1>1. acc \in Nat /\ s \in Nat /\ d \in Nat /\ g \in Nat
  BY DEF FarmingPool, FarmingPosition
<1>2. Precision \in Nat \ {0}
  BY FarmNumbers DEF FarmNumbers
<1>3. x \in Nat /\ y \in Nat /\ e \in Nat
  BY <1>1, SharesGrow, EarnedGrows
<1>4. q = [staked_amount |-> n, reward_debt |-> y, pending_rewards |-> g + e]
  BY DEF Settled
<1>5. d <= x => e = x - d
  BY <1>1, <1>3 DEF Earned
<1>6. /\ x * Precision <= s * acc
      /\ n * acc <= y * Precision + Precision
      /\ n = s => y = x
  <2> DEFINE a == s * acc
             b == n * acc
  <2>1. a \in Nat /\ b \in Nat
    BY <1>1
  <2>2. x = a \div Precision /\ y = b \div Precision
    BY DEF ShareOf
  <2> HIDE DEF a, b, x, y
  <2>3. x * Precision <= a /\ b <= y * Precision + Precision
    BY <1>2, <2>1, <2>2, DivBelow, DivAbove
  <2>4. n = s => y = x
    BY DEF x, y
  <2> QED
    BY <2>3, <2>4 DEF a, b
<1>7. /\ Due(acc, p) = Precision * g + s * acc - Precision * d
      /\ Due(acc, q) = Precision * (g + e) + n * acc - Precision * y
  BY <1>4 DEF Due
<1> HIDE DEF acc, s, d, g, e, x, y
<1>8. q \in FarmingPosition
  BY <1>1, <1>3, <1>4 DEF FarmingPosition
<1>9. ASSUME d <= x
      PROVE  /\ Due(acc, q) <= Due(acc, p) + Precision
             /\ n = s => Due(acc, q) <= Due(acc, p)
  <2>1. Precision * (g + e) = Precision * g + x * Precision - Precision * d
    BY <1>1, <1>2, <1>3, <1>5, <1>9, SMT
  <2> DEFINE pg == Precision * g
             pd == Precision * d
             px == x * Precision
             py == y * Precision
             sa == s * acc
             na == n * acc
  <2>2. /\ pg \in Int /\ pd \in Int /\ px \in Int /\ py \in Int /\ sa \in Int /\ na \in Int
        /\ Precision * y = py
    BY <1>1, <1>2, <1>3
  <2>3. /\ Due(acc, p) = pg + sa - pd
        /\ Due(acc, q) = pg + px - pd + na - py
    BY <1>7, <2>1, <2>2
  <2>4. px <= sa /\ na <= py + Precision /\ (n = s => py = px /\ na = sa)
    BY <1>6
  <2> HIDE DEF pg, pd, px, py, sa, na
  <2> QED
    BY <1>2, <2>2, <2>3, <2>4
<1> QED
  BY <1>4, <1>8, <1>9 DEF acc, s, d, g, e, x, y

\* The deploys of a farmer: his position is bound to a new one, and he is paid
\* or keeps all that he earned.
LEMMA FarmMoves ==
    ASSUME FarmInv, creations # 0, NEW u \in Farmers, NEW q \in FarmingPosition,
           UNCHANGED <<creations, blocktime, emitted>>,
           position' = PutKey(position, u, q),
           farm' \in FarmingPool,
           farm'.accumulated_reward_per_share = Updated.accumulated_reward_per_share,
           farm'.last_reward_time = Updated.last_reward_time,
           farm'.total_staked
              = farm.total_staked + (q.staked_amount - Held(u).staked_amount),
           q.reward_debt <= ShareOf(Updated, q.staked_amount),
           total_rewards_distributed' \in Nat, changes' \in Nat,
           received' \in [Farmers -> Nat],
           Held(u).reward_debt <= ShareOf(Updated, Held(u).staked_amount) =>
              Precision * total_rewards_distributed'
                    + Due(Updated.accumulated_reward_per_share, q) + Precision * changes
                 <= Precision * total_rewards_distributed
                    + Due(Updated.accumulated_reward_per_share, Held(u))
                    + Precision * changes',
           received[u] + Held(u).pending_rewards + Earned(Updated, Held(u))
              <= received'[u] + q.pending_rewards,
           \A v \in Farmers : v # u => received'[v] = received[v]
    PROVE  FarmInv' /\ FarmFair
<1> DEFINE old == farm.accumulated_reward_per_share
           acc == Updated.accumulated_reward_per_share
<1>n. Precision \in Nat \ {0} /\ IsFiniteSet(Farmers) /\ MaxBlockTime \in Nat
  BY FarmNumbers, BlockTimesAreNaturals DEF FarmNumbers
<1>t. /\ blocktime \in 0 .. MaxBlockTime /\ blocktime \in Nat
      /\ FarmTypeOK /\ FarmAddsUp
      /\ creations <= 1 => FarmCounts
      /\ creations \in Nat /\ emitted \in Nat /\ changes \in Nat
      /\ total_rewards_distributed \in Nat
      /\ received \in [Farmers -> Nat]
      /\ IsMap(position, Farmers, FarmingPosition)
      /\ farm \in FarmingPool /\ farm.total_staked \in Nat /\ old \in Nat
  BY <1>n DEF FarmInv, FarmTypeOK, FarmingPool
<1>1. /\ Updated \in FarmingPool /\ acc \in Nat /\ acc >= old
      /\ blocktime <= Updated.last_reward_time /\ Emission \in Nat
      /\ (acc - old) * farm.total_staked <= Precision * Emission
  BY <1>t, UpdateFarm DEF FarmingPool
<1>2. /\ Held(u)' = q
      /\ \A v \in Farmers : v # u => Held(v)' = Held(v)
  <2>1. /\ DOMAIN position' = DOMAIN position \cup {u} /\ position'[u] = q
        /\ \A v \in DOMAIN position : v # u => position'[v] = position[v]
    BY DEF PutKey
  <2> QED
    BY <2>1 DEF Held, HasKey, NewPosition
<1>3. FarmTypeOK'
  <2>1. IsMap(position', Farmers, FarmingPosition)
    BY <1>t, PutKeyIsMap
  <2> QED
    BY <1>t, <2>1 DEF FarmTypeOK
<1>4. FarmAddsUp'
  <2> DEFINE f == Stakes
             h == [v \in Farmers |-> Held(v)'.staked_amount]
  <2>1. /\ f \in [Farmers -> Int] /\ h \in [Farmers -> Int]
        /\ \A v \in Farmers : v # u => h[v] = f[v]
        /\ h[u] = q.staked_amount /\ f[u] = Held(u).staked_amount
        /\ q.staked_amount \in Nat
    BY <1>t, <1>2, HeldType DEF Stakes, FarmingPosition
  <2>2. creations <= 1 => SumFunction(f) = farm.total_staked
    BY <1>t DEF FarmAddsUp, Stakes
  <2>3. FarmAddsUp' <=> (creations' <= 1 => SumFunction(h) = farm'.total_staked)
    BY DEF FarmAddsUp
  <2> HIDE DEF f, h
  <2>4. SumFunction(h) = SumFunction(f) + (h[u] - f[u])
    BY <1>n, <2>1, SumAt
  <2> QED
    BY <1>t, <2>1, <2>2, <2>3, <2>4
<1>5. Emission' = 0
  <2>1. farm.last_reward_time \in Nat /\ Updated.last_reward_time \in Nat
    BY <1>t, <1>1 DEF FarmingPool
  <2> QED
    BY <1>t, <1>1, <2>1 DEF Emission
<1>6. \A v \in Farmers, n \in Nat : ShareOf(farm, n)' = ShareOf(Updated, n)
  BY DEF ShareOf
<1>7. ASSUME creations <= 1 PROVE FarmCounts'
  <2>1. FarmCounts
    BY <1>t, <1>7
  <2>2. \A v \in Farmers : Held(v).reward_debt <= ShareOf(Updated, Held(v).staked_amount)
    <3> TAKE v \in Farmers
    <3>1. Held(v).staked_amount \in Nat /\ Held(v).reward_debt \in Nat
      BY <1>t, HeldType
    <3>2. Held(v).reward_debt <= ShareOf(farm, Held(v).staked_amount)
      BY <2>1 DEF FarmCounts
    <3>3. /\ ShareOf(farm, Held(v).staked_amount) \in Nat
          /\ ShareOf(Updated, Held(v).staked_amount) \in Nat
          /\ ShareOf(farm, Held(v).staked_amount) <= ShareOf(Updated, Held(v).staked_amount)
      BY <1>t, <1>1, <3>1, SharesGrow
    <3> QED
      BY <3>1, <3>2, <3>3
  <2>3. \A v \in Farmers : Held(v)'.reward_debt <= ShareOf(farm', Held(v)'.staked_amount)
    <3> TAKE v \in Farmers
    <3>1. ShareOf(farm', Held(v)'.staked_amount) = ShareOf(Updated, Held(v)'.staked_amount)
      BY DEF ShareOf
    <3> QED
      BY <1>2, <2>2, <3>1
  <2> DEFINE f == Dues(acc)
             h == [v \in Farmers |-> Due(acc, Held(v)')]
  <2>4. /\ SumFunction(f) = SumFunction(Dues(old)) + (acc - old) * farm.total_staked
        /\ SumFunction(Dues(old)) \in Int /\ SumFunction(f) \in Int
    BY <1>t, <1>1, <1>7, DuesGrow
  <2>5. \A p \in FarmingPosition : Due(acc, p) \in Int
    <3> TAKE p \in FarmingPosition
    <3>1. p.pending_rewards \in Nat /\ p.staked_amount \in Nat /\ p.reward_debt \in Nat
      BY DEF FarmingPosition
    <3> QED
      BY <1>n, <1>1, <3>1, SMT DEF Due
  <2>6. /\ f \in [Farmers -> Int] /\ h \in [Farmers -> Int]
        /\ \A v \in Farmers : v # u => h[v] = f[v]
        /\ h[u] = Due(acc, q) /\ f[u] = Due(acc, Held(u))
    BY <1>t, <1>2, <2>5, HeldType DEF Dues
  <2>7. Due(acc, q) \in Int /\ Due(acc, Held(u)) \in Int
    BY <1>t, <2>5, HeldType
  <2>8. (Precision * total_rewards_distributed
           + SumFunction(Dues(farm.accumulated_reward_per_share)))'
          = Precision * total_rewards_distributed' + SumFunction(h)
    BY DEF Dues, Due
  <2> DEFINE dt == Precision * total_rewards_distributed
             dt2 == Precision * total_rewards_distributed'
             pc == Precision * changes
             pc2 == Precision * changes'
             pe == Precision * emitted
             pm == Precision * Emission
             grown == (acc - old) * farm.total_staked
             x == Due(acc, Held(u))
             y == Due(acc, q)
  <2>9. /\ dt \in Int /\ dt2 \in Int /\ pc \in Int /\ pc2 \in Int /\ pe \in Int
        /\ pm \in Int /\ grown \in Int /\ x \in Int /\ y \in Int
    BY <1>n, <1>t, <1>1, <2>7
  <2>10. /\ Precision * (emitted - Emission + changes) = pe - pm + pc
         /\ Precision * (emitted - 0 + changes') = pe + pc2
    BY <1>n, <1>t, <1>1, SMT
  <2>11. dt2 + y + pc <= dt + x + pc2
    BY <2>2
  <2>12. dt + SumFunction(Dues(old)) <= pe - pm + pc
    BY <2>1, <2>10 DEF FarmCounts
  <2>13. grown <= pm
    BY <1>1
  <2> HIDE DEF f, h, dt, dt2, pc, pc2, pe, pm, grown, x, y
  <2>14. SumFunction(h) = SumFunction(f) + (h[u] - f[u])
    BY <1>n, <2>6, SumAt
  <2>15. SumFunction(h) = SumFunction(Dues(old)) + grown + (y - x)
    BY <2>4, <2>6, <2>14 DEF grown, x, y
  <2>16. dt2 + SumFunction(h) <= pe + pc2
    BY <2>4, <2>9, <2>11, <2>12, <2>13, <2>15
  <2>17. Precision * (emitted' - Emission' + changes') = pe + pc2
    BY <1>5, <2>10
  <2> QED
    BY <2>3, <2>8, <2>16, <2>17 DEF FarmCounts, dt2
<1>8. FarmFair
  <2> SUFFICES ASSUME NEW v \in Farmers
               PROVE  received[v] + Owed(v) <= received'[v] + Owed(v)'
    BY DEF FarmFair
  <2>1. Held(v)' \in FarmingPosition /\ Held(v) \in FarmingPosition
    BY <1>t, <1>3, <1>2, HeldType
  <2>2. /\ Earned(farm, Held(v)) \in Nat /\ Earned(Updated, Held(v)) \in Nat
        /\ Earned(farm, Held(v)) <= Earned(Updated, Held(v))
        /\ Earned(Updated, Held(v)') \in Nat
    BY <1>t, <1>1, <2>1, EarnedGrows
  <2>3. Earned(farm, Held(v))' = Earned(Updated, Held(v)')
    BY DEF Earned, ShareOf
  <2>4. /\ received[v] \in Nat /\ received'[v] \in Nat
        /\ Held(v).pending_rewards \in Nat /\ Held(v)'.pending_rewards \in Nat
    BY <1>t, <2>1 DEF FarmingPosition
  <2>5. /\ Owed(v) = Held(v).pending_rewards + Earned(farm, Held(v))
        /\ Owed(v)' = Held(v)'.pending_rewards + Earned(Updated, Held(v)')
    BY <2>3 DEF Owed
  <2>6. CASE v = u
    BY <1>2, <2>2, <2>4, <2>5, <2>6
  <2>7. CASE v # u
    BY <1>2, <2>2, <2>4, <2>5, <2>7
  <2> QED
    BY <2>6, <2>7
<1> QED
  BY <1>t, <1>3, <1>4, <1>7, <1>8 DEF FarmInv

\* With nobody in it, a pool just created owes nothing.
FarmEmpty ==
    /\ farm \in FarmingPool /\ farm.total_staked = 0 /\ position = NoKeys
    /\ total_rewards_distributed = 0 /\ emitted \in Nat /\ changes \in Nat

LEMMA EmptyFarm == FarmEmpty => FarmAddsUp /\ FarmCounts
<1> SUFFICES ASSUME FarmEmpty PROVE FarmAddsUp /\ FarmCounts
  OBVIOUS
<1>0. /\ farm \in FarmingPool /\ farm.total_staked = 0 /\ position = NoKeys
      /\ total_rewards_distributed = 0 /\ emitted \in Nat /\ changes \in Nat
  BY DEF FarmEmpty
<1>1. Precision \in Nat \ {0} /\ IsFiniteSet(Farmers)
  BY FarmNumbers DEF FarmNumbers
<1>2. \A u \in Farmers : Held(u) = NewPosition
  BY <1>0, NoKeysEmpty DEF Held, HasKey
<1> DEFINE f == [u \in Farmers |-> Held(u).staked_amount]
           g == Dues(farm.accumulated_reward_per_share)
<1>3. farm.accumulated_reward_per_share \in Nat
  BY <1>0 DEF FarmingPool
<1>4. Due(farm.accumulated_reward_per_share, NewPosition) = 0
  BY <1>1, <1>3 DEF Due, NewPosition
<1>5. f \in [Farmers -> {0}] /\ g \in [Farmers -> {0}]
  BY <1>2, <1>4 DEF Dues, NewPosition
<1> HIDE DEF f, g
<1>6. SumFunction(f) = 0 /\ SumFunction(g) = 0
  BY <1>1, <1>5, SumZero
<1>7. FarmAddsUp
  BY <1>0, <1>6 DEF FarmAddsUp, f
<1>8. \A u \in Farmers : Held(u).reward_debt <= ShareOf(farm, Held(u).staked_amount)
  <2> TAKE u \in Farmers
  <2>1. Held(u).reward_debt = 0 /\ Held(u).staked_amount = 0
    BY <1>2 DEF NewPosition
  <2>2. ShareOf(farm, 0) \in Nat
    BY <1>0, SharesGrow, <1>3
  <2> QED
    BY <2>1, <2>2
<1>9. Emission = 0
  BY <1>0 DEF Emission
<1>10. Precision * 0 + 0 <= Precision * (emitted - 0 + changes)
  <2>1. emitted - 0 + changes \in Nat
    BY <1>0, <1>1
  <2> QED
    BY <1>1, <2>1
<1>11. Precision * total_rewards_distributed + SumFunction(g)
          <= Precision * (emitted - Emission + changes)
  BY <1>0, <1>6, <1>9, <1>10
<1> QED
  BY <1>7, <1>8, <1>11 DEF FarmCounts, g

LEMMA InitFarm == CustodyInit => FarmInv
<1> SUFFICES ASSUME CustodyInit PROVE FarmInv
  OBVIOUS
<1>1. /\ farm = NewFarm(0, 0) /\ creations = 0 /\ position = NoKeys /\ blocktime = 0
      /\ total_rewards_distributed = 0 /\ emitted = 0 /\ changes = 0
      /\ received \in [Farmers -> Nat]
  BY DEF CustodyInit, FarmInit
<1>2. farm \in FarmingPool /\ farm.total_staked = 0
  BY <1>1 DEF NewFarm, FarmingPool
<1>3. FarmTypeOK
  BY <1>1, <1>2, NoKeysEmpty DEF FarmTypeOK
<1> QED
  BY <1>1, <1>2, <1>3, EmptyFarm, BlockTimesAreNaturals DEF FarmInv, FarmEmpty

\* Each deploy keeps types, totals and books, and takes no reward from anyone.
LEMMA StepFarm ==
    FarmInv /\ FarmRests /\ [CustodyNext]_custodyVars
       => FarmInv' /\ (creations' = creations => FarmFair)
<1> SUFFICES ASSUME FarmInv, FarmRests, [CustodyNext]_custodyVars
             PROVE  FarmInv' /\ (creations' = creations => FarmFair)
  OBVIOUS
<1>n. /\ FarmAmounts \subseteq Nat /\ RewardRates \subseteq Nat /\ StartTimes \subseteq Nat
      /\ MaxBlockTime \in Nat /\ Precision \in Nat \ {0}
  BY FarmNumbers, BlockTimesAreNaturals DEF FarmNumbers
<1>t. /\ blocktime \in 0 .. MaxBlockTime /\ blocktime \in Nat
      /\ FarmTypeOK /\ FarmAddsUp /\ creations \in Nat
      /\ creations <= 1 => FarmCounts
      /\ creations = 0 => position = NoKeys /\ total_rewards_distributed = 0
      /\ farm \in FarmingPool /\ farm.total_staked \in Nat
      /\ farm.last_reward_time \in Nat /\ farm.reward_per_second \in Nat
      /\ emitted \in Nat /\ changes \in Nat /\ total_rewards_distributed \in Nat
      /\ received \in [Farmers -> Nat]
      /\ \A u \in Farmers :
            /\ Held(u) \in FarmingPosition
            /\ Held(u).staked_amount \in Nat /\ Held(u).pending_rewards \in Nat
  BY <1>n, HeldType DEF FarmInv, FarmTypeOK, FarmingPool
<1>f. /\ Updated \in FarmingPool /\ Updated.total_staked = farm.total_staked
      /\ farm.accumulated_reward_per_share <= Updated.accumulated_reward_per_share
  BY <1>t, UpdateFarm
<1>q. ASSUME NEW u \in Farmers, NEW n \in Nat, NEW q, q = Settled(Updated, Held(u), n)
      PROVE  /\ q \in FarmingPosition /\ q.staked_amount = n
             /\ q.reward_debt <= ShareOf(Updated, n)
             /\ ShareOf(Updated, n) \in Nat /\ q.reward_debt = ShareOf(Updated, n)
             /\ q.pending_rewards = Held(u).pending_rewards + Earned(Updated, Held(u))
             /\ Earned(Updated, Held(u)) \in Nat
             /\ Held(u).reward_debt <= ShareOf(Updated, Held(u).staked_amount) =>
                  /\ Due(Updated.accumulated_reward_per_share, q)
                       <= Due(Updated.accumulated_reward_per_share, Held(u)) + Precision
                  /\ n = Held(u).staked_amount =>
                       Due(Updated.accumulated_reward_per_share, q)
                         <= Due(Updated.accumulated_reward_per_share, Held(u))
  <2>1. ShareOf(Updated, n) \in Nat /\ Earned(Updated, Held(u)) \in Nat
    BY <1>t, <1>f, SharesGrow, EarnedGrows
  <2>2. Held(u) \in FarmingPosition
    BY <1>t
  <2>3. /\ q \in FarmingPosition /\ q.staked_amount = n /\ q.reward_debt = ShareOf(Updated, n)
        /\ q.pending_rewards = Held(u).pending_rewards + Earned(Updated, Held(u))
        /\ Held(u).reward_debt <= ShareOf(Updated, Held(u).staked_amount) =>
             /\ Due(Updated.accumulated_reward_per_share, q)
                  <= Due(Updated.accumulated_reward_per_share, Held(u)) + Precision
             /\ n = Held(u).staked_amount =>
                  Due(Updated.accumulated_reward_per_share, q)
                    <= Due(Updated.accumulated_reward_per_share, Held(u))
    BY <1>f, <1>q, <2>2, SettledDue
  <2> QED
    BY <2>1, <2>3
<1>d. \A p \in FarmingPosition : Due(Updated.accumulated_reward_per_share, p) \in Int
  <2> TAKE p \in FarmingPosition
  <2>1. /\ p.pending_rewards \in Nat /\ p.staked_amount \in Nat /\ p.reward_debt \in Nat
        /\ Updated.accumulated_reward_per_share \in Nat
    BY <1>f DEF FarmingPosition, FarmingPool
  <2> QED
    BY <1>n, <2>1, SMT DEF Due
<1>u. ASSUME UNCHANGED farmVars, UNCHANGED blocktime
      PROVE  FarmInv' /\ FarmFair
  <2>1. UNCHANGED <<farm, creations, position, total_rewards_distributed, emitted,
                    received, changes>>
    BY <1>u DEF farmVars
  <2>2. \A v \in Farmers : UNCHANGED <<Held(v), Owed(v)>>
    BY <2>1 DEF Held, Owed, Earned, ShareOf, HasKey
  <2>3. FarmTypeOK' /\ FarmAddsUp' /\ (FarmCounts => FarmCounts')
    BY <1>t, <1>u, <2>1 DEF FarmTypeOK, FarmAddsUp, FarmCounts, Dues, Due, Held, ShareOf,
                            Emission, HasKey
  <2>4. \A v \in Farmers : received[v] + Owed(v) \in Int
    <3> TAKE v \in Farmers
    <3>1. Earned(farm, Held(v)) \in Nat /\ received[v] \in Nat
      BY <1>t, EarnedGrows DEF FarmingPool
    <3> QED
      BY <1>t, <3>1 DEF Owed
  <2>5. FarmFair
    BY <2>1, <2>2, <2>4 DEF FarmFair
  <2> QED
    BY <1>t, <1>u, <2>1, <2>3, <2>5 DEF FarmInv
<1>1. ASSUME NEW caller, NEW rate \in RewardRates, NEW start \in StartTimes,
             CreatePool(caller, rate, start), UNCHANGED blocktime
      PROVE  FarmInv' /\ (creations' = creations => FarmFair)
  <2>1. /\ farm' = NewFarm(rate, start) /\ creations' = creations + 1
        /\ UNCHANGED <<position, total_rewards_distributed, emitted, received, changes>>
    BY <1>1 DEF CreatePool
  <2>2. farm' \in FarmingPool /\ farm'.total_staked = 0
    BY <1>n, <2>1 DEF NewFarm, FarmingPool
  <2>3. FarmTypeOK'
    BY <1>t, <2>1, <2>2 DEF FarmTypeOK
  <2>4. CASE creations = 0
    <3>a. FarmEmpty' => (FarmAddsUp /\ FarmCounts)'
      BY EmptyFarm, PTL
    <3>1. (FarmAddsUp /\ FarmCounts)'
      BY <1>t, <2>1, <2>2, <2>4, <3>a DEF FarmEmpty
    <3> QED
      BY <1>t, <1>1, <2>1, <2>3, <2>4, <3>1 DEF FarmInv
  <2>5. CASE creations # 0
    <3>1. ~ (creations' <= 1) /\ creations' # 0 /\ creations' # creations
      BY <1>t, <2>1, <2>5
    <3> QED
      BY <1>t, <1>1, <2>1, <2>3, <3>1 DEF FarmInv, FarmAddsUp
  <2> QED
    BY <2>4, <2>5
<1>2. ASSUME NEW u \in Farmers, NEW amount \in FarmAmounts, StakeInPool(u, amount),
             UNCHANGED blocktime
      PROVE  FarmInv' /\ FarmFair
  <2> DEFINE n == Held(u).staked_amount + amount
             q == Settled(Updated, Held(u), n)
             total == Updated.total_staked + amount
  <2>1. amount \in Nat /\ n \in Nat
    BY <1>n, <1>t
  <2>2. /\ creations # 0
        /\ farm' = [Updated EXCEPT !.total_staked = total]
        /\ position' = PutKey(position, u, q)
        /\ changes' = changes + 1
        /\ UNCHANGED <<creations, total_rewards_distributed, emitted, received>>
    BY <1>2 DEF StakeInPool
  <2>3. total \in Nat /\ total = farm.total_staked + (n - Held(u).staked_amount)
    BY <1>t, <1>f, <2>1
  <2>4. q = Settled(Updated, Held(u), n)
    OBVIOUS
  <2> HIDE DEF n, q, total
  <2>5. /\ q \in FarmingPosition /\ q.staked_amount = n
        /\ q.reward_debt <= ShareOf(Updated, n)
        /\ q.pending_rewards = Held(u).pending_rewards + Earned(Updated, Held(u))
        /\ Earned(Updated, Held(u)) \in Nat
        /\ Held(u).reward_debt <= ShareOf(Updated, Held(u).staked_amount) =>
             Due(Updated.accumulated_reward_per_share, q)
               <= Due(Updated.accumulated_reward_per_share, Held(u)) + Precision
    BY <1>q, <2>1, <2>4
  <2>6. /\ farm' \in FarmingPool /\ farm'.total_staked = total
        /\ farm'.accumulated_reward_per_share = Updated.accumulated_reward_per_share
        /\ farm'.last_reward_time = Updated.last_reward_time
    BY <1>f, <2>2, <2>3 DEF FarmingPool
  <2>7. Held(u).reward_debt <= ShareOf(Updated, Held(u).staked_amount) =>
          Precision * total_rewards_distributed'
                + Due(Updated.accumulated_reward_per_share, q) + Precision * changes
             <= Precision * total_rewards_distributed
                + Due(Updated.accumulated_reward_per_share, Held(u))
                + Precision * changes'
    <3>1. Precision * changes' = Precision * changes + Precision
      BY <1>n, <1>t, <2>2
    <3>2. /\ Due(Updated.accumulated_reward_per_share, q) \in Int
          /\ Due(Updated.accumulated_reward_per_share, Held(u)) \in Int
          /\ Precision * total_rewards_distributed \in Int /\ Precision * changes \in Int
      BY <1>d, <1>n, <1>t, <2>5
    <3> QED
      BY <1>n, <2>2, <2>5, <3>1, <3>2
  <2>8. received[u] + Held(u).pending_rewards + Earned(Updated, Held(u))
          <= received'[u] + q.pending_rewards
    BY <1>t, <2>2, <2>5
  <2> QED
    BY <1>t, <1>2, <2>2, <2>3, <2>5, <2>6, <2>7, <2>8, FarmMoves
<1>3. ASSUME NEW u \in Farmers, NEW amount \in FarmAmounts, UnstakeFromPool(u, amount),
             UNCHANGED blocktime
      PROVE  FarmInv' /\ FarmFair
  <2> DEFINE n == Held(u).staked_amount - amount
             q == Settled(Updated, Held(u), n)
             total == Updated.total_staked - amount
  <2>0. amount <= Held(u).staked_amount /\ amount <= farm.total_staked
    BY <1>3 DEF UnstakeFromPool, Held
  <2>1. amount \in Nat /\ n \in Nat
    BY <1>n, <1>t, <2>0
  <2>2. /\ creations # 0
        /\ farm' = [Updated EXCEPT !.total_staked = total]
        /\ position' = PutKey(position, u, q)
        /\ changes' = changes + 1
        /\ UNCHANGED <<creations, total_rewards_distributed, emitted, received>>
    BY <1>3 DEF UnstakeFromPool
  <2>3. total \in Nat /\ total = farm.total_staked + (n - Held(u).staked_amount)
    BY <1>t, <1>f, <2>0, <2>1
  <2>4. q = Settled(Updated, Held(u), n)
    OBVIOUS
  <2> HIDE DEF n, q, total
  <2>5. /\ q \in FarmingPosition /\ q.staked_amount = n
        /\ q.reward_debt <= ShareOf(Updated, n)
        /\ q.pending_rewards = Held(u).pending_rewards + Earned(Updated, Held(u))
        /\ Earned(Updated, Held(u)) \in Nat
        /\ Held(u).reward_debt <= ShareOf(Updated, Held(u).staked_amount) =>
             Due(Updated.accumulated_reward_per_share, q)
               <= Due(Updated.accumulated_reward_per_share, Held(u)) + Precision
    BY <1>q, <2>1, <2>4
  <2>6. /\ farm' \in FarmingPool /\ farm'.total_staked = total
        /\ farm'.accumulated_reward_per_share = Updated.accumulated_reward_per_share
        /\ farm'.last_reward_time = Updated.last_reward_time
    BY <1>f, <2>2, <2>3 DEF FarmingPool
  <2>7. Held(u).reward_debt <= ShareOf(Updated, Held(u).staked_amount) =>
          Precision * total_rewards_distributed'
                + Due(Updated.accumulated_reward_per_share, q) + Precision * changes
             <= Precision * total_rewards_distributed
                + Due(Updated.accumulated_reward_per_share, Held(u))
                + Precision * changes'
    <3>1. Precision * changes' = Precision * changes + Precision
      BY <1>n, <1>t, <2>2
    <3>2. /\ Due(Updated.accumulated_reward_per_share, q) \in Int
          /\ Due(Updated.accumulated_reward_per_share, Held(u)) \in Int
          /\ Precision * total_rewards_distributed \in Int /\ Precision * changes \in Int
      BY <1>d, <1>n, <1>t, <2>5
    <3> QED
      BY <1>n, <2>2, <2>5, <3>1, <3>2
  <2>8. received[u] + Held(u).pending_rewards + Earned(Updated, Held(u))
          <= received'[u] + q.pending_rewards
    BY <1>t, <2>2, <2>5
  <2> QED
    BY <1>t, <1>3, <2>2, <2>3, <2>5, <2>6, <2>7, <2>8, FarmMoves
<1>4. ASSUME NEW u \in Farmers, Harvest(u), UNCHANGED blocktime
      PROVE  FarmInv' /\ FarmFair
  <2> DEFINE n == Held(u).staked_amount
             after == Settled(Updated, Held(u), n)
             rewards == after.pending_rewards
             q == [after EXCEPT !.pending_rewards = 0]
             paid == total_rewards_distributed + rewards
  <2>2. /\ creations # 0
        /\ farm' = Updated
        /\ position' = PutKey(position, u, q)
        /\ total_rewards_distributed' = paid
        /\ received' = [received EXCEPT ![u] = @ + rewards]
        /\ UNCHANGED <<creations, emitted, changes>>
    BY <1>4 DEF Harvest
  <2>3. n \in Nat /\ after = Settled(Updated, Held(u), n) /\ n = Held(u).staked_amount
    BY <1>t
  <2> HIDE DEF n, after
  <2>4. /\ after \in FarmingPosition /\ after.staked_amount = n
        /\ after.reward_debt <= ShareOf(Updated, n)
        /\ rewards = Held(u).pending_rewards + Earned(Updated, Held(u))
        /\ Earned(Updated, Held(u)) \in Nat
        /\ Held(u).reward_debt <= ShareOf(Updated, Held(u).staked_amount) =>
             Due(Updated.accumulated_reward_per_share, after)
               <= Due(Updated.accumulated_reward_per_share, Held(u))
    BY <1>q, <2>3
  <2>5. rewards \in Nat /\ paid \in Nat
    BY <1>t, <2>4
  <2>6. /\ q \in FarmingPosition /\ q.staked_amount = n
        /\ q.reward_debt = after.reward_debt /\ q.pending_rewards = 0
    BY <2>4 DEF FarmingPosition
  <2>7. Precision * paid + Due(Updated.accumulated_reward_per_share, q)
          = Precision * total_rewards_distributed
            + Due(Updated.accumulated_reward_per_share, after)
    <3> DEFINE x == after.staked_amount * Updated.accumulated_reward_per_share
               y == Precision * after.reward_debt
    <3>1. /\ Due(Updated.accumulated_reward_per_share, after) = Precision * rewards + x - y
          /\ Due(Updated.accumulated_reward_per_share, q) = Precision * 0 + x - y
      BY <2>4, <2>6 DEF Due
    <3>2. x \in Int /\ y \in Int
      BY <1>f, <1>n, <2>4 DEF FarmingPosition, FarmingPool
    <3>3. Precision * paid = Precision * total_rewards_distributed + Precision * rewards
      BY <1>n, <1>t, <2>5
    <3> HIDE DEF x, y, rewards, paid
    <3>4. /\ Precision * total_rewards_distributed \in Int /\ Precision * rewards \in Int
          /\ Precision * 0 = 0
      BY <1>n, <1>t, <2>5
    <3> QED
      BY <3>1, <3>2, <3>3, <3>4
  <2> HIDE DEF q, paid
  <2>8. Held(u).reward_debt <= ShareOf(Updated, Held(u).staked_amount) =>
          Precision * total_rewards_distributed'
                + Due(Updated.accumulated_reward_per_share, q) + Precision * changes
             <= Precision * total_rewards_distributed
                + Due(Updated.accumulated_reward_per_share, Held(u))
                + Precision * changes'
    <3>1. /\ Due(Updated.accumulated_reward_per_share, after) \in Int
          /\ Due(Updated.accumulated_reward_per_share, q) \in Int
          /\ Due(Updated.accumulated_reward_per_share, Held(u)) \in Int
          /\ Precision * total_rewards_distributed \in Int /\ Precision * changes \in Int
          /\ Precision * paid \in Int
      BY <1>d, <1>n, <1>t, <2>4, <2>5, <2>6
    <3> QED
      BY <2>2, <2>4, <2>7, <3>1
  <2> HIDE DEF rewards
  <2>9. /\ received' \in [Farmers -> Nat] /\ received'[u] = received[u] + rewards
        /\ \A v \in Farmers : v # u => received'[v] = received[v]
    BY <1>t, <2>2, <2>5
  <2>10. received[u] + Held(u).pending_rewards + Earned(Updated, Held(u))
          <= received'[u] + q.pending_rewards
    BY <1>t, <2>4, <2>6, <2>9
  <2>11. farm'.total_staked = farm.total_staked + (q.staked_amount - Held(u).staked_amount)
    BY <1>t, <1>f, <2>2, <2>3, <2>6
  <2>12. q.reward_debt <= ShareOf(Updated, q.staked_amount)
    BY <2>4, <2>6
  <2> QED
    BY <1>t, <1>f, <1>4, <2>2, <2>5, <2>6, <2>8, <2>9, <2>10, <2>11, <2>12, FarmMoves
<1>e. ASSUME UNCHANGED <<farm, creations, position, total_rewards_distributed, received,
                         changes>>,
             blocktime' \in 0 .. MaxBlockTime, emitted' \in Nat,
             emitted' - Emission' = emitted - Emission
      PROVE  FarmInv' /\ FarmFair
  <2>1. \A v \in Farmers : UNCHANGED <<Held(v), Owed(v)>>
    BY <1>e DEF Held, Owed, Earned, ShareOf, HasKey
  <2>2. FarmTypeOK' /\ FarmAddsUp'
    BY <1>t, <1>e DEF FarmTypeOK, FarmAddsUp, Held, HasKey
  <2>3. FarmCounts => FarmCounts'
    BY <1>e DEF FarmCounts, Dues, Due, Held, ShareOf, HasKey
  <2>4. \A v \in Farmers : received[v] + Owed(v) \in Int
    <3> TAKE v \in Farmers
    <3>1. Earned(farm, Held(v)) \in Nat /\ received[v] \in Nat
      BY <1>t, EarnedGrows DEF FarmingPool
    <3> QED
      BY <1>t, <3>1 DEF Owed
  <2>5. FarmFair
    BY <1>e, <2>1, <2>4 DEF FarmFair
  <2> QED
    BY <1>t, <1>e, <2>2, <2>3, <2>5 DEF FarmInv
<1>5. ASSUME FarmTick PROVE FarmInv' /\ FarmFair
  <2> DEFINE last == farm.last_reward_time
             rate == farm.reward_per_second
  <2>1. /\ blocktime' = blocktime + 1 /\ blocktime' \in 0 .. MaxBlockTime
        /\ UNCHANGED <<farm, creations, position, total_rewards_distributed, received,
                       changes>>
        /\ emitted' = IF last <= blocktime /\ farm.total_staked # 0
                      THEN emitted + rate ELSE emitted
    BY <1>t, <1>n, <1>5 DEF FarmTick, Tick
  <2>2. /\ last \in Nat /\ rate \in Nat
        /\ Emission = IF blocktime <= last \/ farm.total_staked = 0 THEN 0
                      ELSE (blocktime - last) * rate
        /\ Emission' = IF blocktime + 1 <= last \/ farm.total_staked = 0 THEN 0
                       ELSE ((blocktime + 1) - last) * rate
    BY <1>t, <2>1 DEF Emission
  <2> HIDE DEF last, rate
  <2>3. emitted' \in Nat
    BY <1>t, <2>1, <2>2
  <2>4. emitted' - Emission' = emitted - Emission
    <3>1. CASE farm.total_staked = 0 \/ blocktime < last
      BY <1>t, <2>1, <2>2, <3>1
    <3>2. CASE farm.total_staked # 0 /\ last <= blocktime
      <4>1. Emission = (blocktime - last) * rate
        <5>1. (blocktime - blocktime) * rate = 0
          BY <1>t, <2>2
        <5>2. CASE blocktime = last
          BY <1>t, <2>2, <3>2, <5>1, <5>2
        <5>3. CASE blocktime # last
          BY <1>t, <2>2, <3>2, <5>3
        <5> QED
          BY <5>2, <5>3
      <4>2. Emission' = ((blocktime + 1) - last) * rate /\ emitted' = emitted + rate
        BY <1>t, <2>1, <2>2, <3>2
      <4>3. ((blocktime + 1) - last) * rate = (blocktime - last) * rate + rate
        BY <1>t, <2>2, SMT
      <4>4. (blocktime - last) * rate \in Int
        BY <1>t, <2>2
      <4> QED
        BY <1>t, <2>2, <4>1, <4>2, <4>3, <4>4
    <3> QED
      BY <1>t, <2>2, <3>1, <3>2
  <2> QED
    BY <1>e, <2>1, <2>3, <2>4
<1>6. ASSUME Tick, UNCHANGED farmVars, farm.total_staked = 0 PROVE FarmInv' /\ FarmFair
  <2>1. /\ UNCHANGED <<farm, creations, position, total_rewards_distributed, received,
                       changes, emitted>>
        /\ blocktime' \in 0 .. MaxBlockTime
    BY <1>t, <1>n, <1>6 DEF farmVars, Tick
  <2>2. Emission = 0 /\ Emission' = 0
    BY <1>6, <2>1 DEF Emission
  <2> QED
    BY <1>t, <1>e, <2>1, <2>2
<1>7. CASE FarmNext
  BY <1>1, <1>2, <1>3, <1>4, <1>5, <1>7 DEF FarmNext
<1>8. CASE focus # "farming" /\ PoolNext /\ UNCHANGED farmVars
  BY <1>6, <1>u, <1>8 DEF PoolNext, FarmRests
<1>9. CASE focus # "farming" /\ GovernanceNext /\ UNCHANGED farmVars
  BY <1>6, <1>u, <1>9 DEF GovernanceNext, FarmRests
<1>10. CASE UNCHANGED <<farmVars, blocktime>>
  BY <1>u, <1>10
<1> QED
  BY <1>7, <1>8, <1>9, <1>10 DEF CustodyNext, custodyVars

LEMMA FarmAtRest ==
    /\ CustodyInit => FarmRests
    /\ FarmRests /\ [CustodyNext]_custodyVars => FarmRests'
<1>1. CustodyInit => FarmRests
  BY DEF CustodyInit, FarmInit, NewFarm, FarmRests
<1>2. FarmRests /\ [CustodyNext]_custodyVars => FarmRests'
  BY DEF FarmRests, CustodyNext, custodyVars, farmVars
<1> QED
  BY <1>1, <1>2

\* While the pool is the first, what its farmers were paid and are owed was
\* there to be had, but for less than one for each change of a stake: no order
\* of stakes and harvests, no rate and no start makes the division of the
\* accumulator give out more.
THEOREM RewardsAlwaysBacked == CustodySpec => []RewardsBacked
<1>1. FarmInv => RewardsBacked
  <2> SUFFICES ASSUME FarmInv, creations <= 1
               PROVE  total_rewards_distributed + SumFunction([u \in Farmers |-> Owed(u)])
                        <= emitted + changes
    BY DEF RewardsBacked
  <2> DEFINE acc == farm.accumulated_reward_per_share
             f == [u \in Farmers |-> Precision * Owed(u)]
             g == [u \in Farmers |-> Owed(u)]
             h == Dues(acc)
             zero == [u \in Farmers |-> 0]
  <2>1. /\ FarmTypeOK /\ FarmCounts /\ farm \in FarmingPool /\ acc \in Nat
        /\ blocktime \in Nat
        /\ emitted \in Nat /\ changes \in Nat /\ total_rewards_distributed \in Nat
    BY BlockTimesAreNaturals DEF FarmInv, FarmTypeOK, FarmingPool
  <2>2. Precision \in Nat \ {0} /\ IsFiniteSet(Farmers)
    BY FarmNumbers DEF FarmNumbers
  <2>3. ASSUME NEW u \in Farmers
        PROVE  /\ Owed(u) \in Nat /\ Precision * Owed(u) \in Int
               /\ Due(acc, Held(u)) \in Int /\ Precision * Owed(u) <= Due(acc, Held(u))
    <3> DEFINE s == Held(u).staked_amount
               d == Held(u).reward_debt
               p == Held(u).pending_rewards
               x == ShareOf(farm, s)
               a == s * acc
    <3>1. s \in Nat /\ d \in Nat /\ p \in Nat /\ d <= x
      BY <2>1, HeldType DEF FarmCounts
    <3>2. x \in Nat
      BY <2>1, <3>1, SharesGrow
    <3>3. Owed(u) = p + (x - d)
      BY <3>1, <3>2 DEF Owed, Earned
    <3>4. Due(acc, Held(u)) = Precision * p + a - Precision * d
      BY DEF Due
    <3>5. a \in Nat
      BY <2>1, <3>1
    <3>6. x = a \div Precision
      BY DEF ShareOf
    <3> HIDE DEF acc, a, x, s, d, p
    <3>7. x * Precision <= a
      BY <2>2, <3>5, <3>6, DivBelow
    <3>8. /\ Precision * (p + (x - d)) = Precision * p + x * Precision - Precision * d
          /\ Precision * p \in Int /\ x * Precision \in Int /\ Precision * d \in Int
      BY <2>2, <3>1, <3>2, SMT
    <3>9. p + (x - d) \in Nat
      BY <3>1, <3>2
    <3> QED
      BY <3>3, <3>4, <3>5, <3>7, <3>8, <3>9
  <2>4. /\ f \in [Farmers -> Int] /\ g \in [Farmers -> Int] /\ h \in [Farmers -> Int]
        /\ zero \in [Farmers -> {0}] /\ zero \in [Farmers -> Int]
        /\ \A u \in Farmers : f[u] <= h[u]
        /\ \A u \in Farmers : f[u] = zero[u] + Precision * g[u]
    BY <2>2, <2>3 DEF Dues
  <2> HIDE DEF f, g, h, zero
  <2>5. SumFunction(f) <= SumFunction(h)
    BY <2>2, <2>4, SumMonotone
  <2>6. SumFunction(f) = SumFunction(zero) + Precision * SumFunction(g)
    <3>1. Precision \in Int
      BY <2>2
    <3> QED
      BY <2>2, <2>4, <3>1, SumLinear
  <2>7. SumFunction(zero) = 0
    BY <2>2, <2>4, SumZero
  <2>8. SumFunction(g) \in Int /\ SumFunction(h) \in Int
    BY <2>2, <2>4, SumType
  <2>9. Precision * total_rewards_distributed + SumFunction(h)
          <= Precision * (emitted - Emission + changes)
    BY <2>1 DEF FarmCounts, h
  <2>10. Emission \in Nat
    BY <2>1, UpdateFarm
  <2> DEFINE left == total_rewards_distributed + SumFunction(g)
             right == emitted - Emission + changes
  <2>11. left \in Int /\ right \in Int /\ right <= emitted + changes
    BY <2>1, <2>8, <2>10
  <2>12. Precision * left <= Precision * right
    <3>1. Precision * left = Precision * total_rewards_distributed + Precision * SumFunction(g)
      BY <2>1, <2>2, <2>8, SMT
    <3>2. Precision * SumFunction(g) <= SumFunction(h)
      BY <2>2, <2>5, <2>6, <2>7, <2>8
    <3>3. /\ Precision * total_rewards_distributed \in Int
          /\ Precision * SumFunction(g) \in Int /\ Precision * right \in Int
      BY <2>1, <2>2, <2>8, <2>11
    <3> HIDE DEF left
    <3> QED
      BY <2>8, <2>9, <3>1, <3>2, <3>3
  <2> HIDE DEF left, right
  <2>13. left <= right
    BY <2>2, <2>11, <2>12, SMT
  <2>14. left <= emitted + changes
    BY <2>1, <2>11, <2>13
  <2> QED
    BY <2>14 DEF left, g
<1> QED
  BY <1>1, InitFarm, StepFarm, FarmAtRest, PTL DEF CustodySpec

\* Whatever farmers do, none of them loses what he earned or was paid, unless
\* the admin replaces the pool.
THEOREM RewardsAreNeverLost == CustodySpec => RewardsNeverLost
<1>1. FarmInv /\ FarmRests /\ [CustodyNext]_custodyVars
         => [creations' = creations =>
                \A u \in Farmers :
                   received[u] + Owed(u) <= received'[u] + Owed(u)']_farmVars
  BY StepFarm DEF FarmFair
<1> QED
  BY <1>1, InitFarm, StepFarm, FarmAtRest, PTL DEF CustodySpec, RewardsNeverLost

\* For any users and any amounts, the total that each contract keeps is the sum
\* of what it keeps for its users.
THEOREM TotalsAlwaysAddUp == CustodySpec => []TotalsAddUp
<1>1. PoolInv /\ GovernanceInv /\ FarmInv /\ ClaimsReconcile => TotalsAddUp
  BY DEF PoolInv, GovernanceInv, FarmInv, TotalsAddUp
<1>2. CustodySpec => []ClaimsReconcile
  BY CustodyKeepsTheVault, ClaimsAlwaysReconcile
<1>3. CustodySpec => [](PoolInv /\ GovernanceInv)
  BY InitPool, StepPool, InitGovernance, StepGovernance, PTL DEF CustodySpec
<1>4. CustodySpec => []FarmInv
  BY InitFarm, StepFarm, FarmAtRest, PTL DEF CustodySpec
<1> QED
  BY <1>1, <1>2, <1>3, <1>4, PTL

\* The four contracts keep their types whatever amounts users name, the vault
\* those of U512 and i128.
THEOREM TypesAlwaysOK == CustodySpec => []TypesOK
<1>1. PoolInv /\ GovernanceInv /\ FarmInv /\ TypeOK => TypesOK
  BY DEF PoolInv, GovernanceInv, FarmInv, TypesOK
<1>2. CustodySpec => []TypeOK
  BY CustodyKeepsTheVault, TypeCorrect
<1>3. CustodySpec => [](PoolInv /\ GovernanceInv)
  BY InitPool, StepPool, InitGovernance, StepGovernance, PTL DEF CustodySpec
<1>4. CustodySpec => []FarmInv
  BY InitFarm, StepFarm, FarmAtRest, PTL DEF CustodySpec
<1> QED
  BY <1>1, <1>2, <1>3, <1>4, PTL
=============================================================================
