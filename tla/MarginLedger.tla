---------------------------- MODULE MarginLedger ----------------------------
(***************************************************************************)
(* What a margin vault promises its users, with the asset kinds, the       *)
(* totals, the pause switch and the callers left out.  Every account has   *)
(* an equity, a part of which is committed to open positions.  Money that  *)
(* is committed cannot be paid out, and nothing is committed that is not   *)
(* there.  Module Vault implements this specification.                     *)
(***************************************************************************)
EXTENDS Integers

CONSTANTS
    Users,      \* the account holders
    Amounts     \* the amounts a call can name, natural numbers

VARIABLES
    equity,     \* equity[u]: all that u owns in the vault
    committed,  \* committed[u]: the part of it that backs open positions
    overdrawn   \* the users who lost more on a position than it released

vars == <<equity, committed, overdrawn>>

TypeOK ==
    /\ equity \in [Users -> Nat]
    /\ committed \in [Users -> Nat]
    /\ overdrawn \subseteq Users

Init ==
    /\ equity = [u \in Users |-> 0]
    /\ committed = [u \in Users |-> 0]
    /\ overdrawn = {}

Credit(u, n) ==
    /\ equity' = [equity EXCEPT ![u] = @ + n]
    /\ UNCHANGED <<committed, overdrawn>>

Pay(u, n) ==
    /\ committed[u] + n <= equity[u]
    /\ equity' = [equity EXCEPT ![u] = @ - n]
    /\ UNCHANGED <<committed, overdrawn>>

Commit(u, n) ==
    /\ committed[u] + n <= equity[u]
    /\ committed' = [committed EXCEPT ![u] = @ + n]
    /\ UNCHANGED <<equity, overdrawn>>

Gain(u, released, n) ==
    /\ released <= committed[u]
    /\ committed' = [committed EXCEPT ![u] = @ - released]
    /\ equity' = [equity EXCEPT ![u] = @ + n]
    /\ UNCHANGED overdrawn

\* The account may be charged less than the loss, never more, and it is marked
\* when the loss is larger than the collateral that backed the position.
Lose(u, released, n) ==
    /\ released <= committed[u]
    /\ committed' = [committed EXCEPT ![u] = @ - released]
    /\ \E charged \in 0 .. n :
          /\ charged <= equity[u]
          /\ equity' = [equity EXCEPT ![u] = @ - charged]
    /\ overdrawn' = IF n > released THEN overdrawn \cup {u} ELSE overdrawn

Next ==
    \E u \in Users, n \in Amounts :
        \/ Credit(u, n)
        \/ Pay(u, n)
        \/ Commit(u, n)
        \/ \E released \in Amounts : Gain(u, released, n) \/ Lose(u, released, n)

Spec == Init /\ [][Next]_vars

-----------------------------------------------------------------------------
\* An account that never lost more than it put at stake can always give back
\* the collateral of all its positions.
Backed == \A u \in Users \ overdrawn : committed[u] <= equity[u]
=============================================================================
