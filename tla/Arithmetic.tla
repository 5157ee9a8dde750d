----------------------------- MODULE Arithmetic -----------------------------
(***************************************************************************)
(* The integer arithmetic of the contracts where it differs from TLA+'s.   *)
(***************************************************************************)
EXTENDS Integers

BasisPoints == 10000

\* The signed division of a machine drops the fraction; \div rounds down.
Truncated(a, b) == IF a < 0 THEN -((-a) \div b) ELSE a \div b

Distance(a, b) == IF a > b THEN a - b ELSE b - a

\* bps basis points of an amount, rounded down.
Share(amount, bps) == (amount * bps) \div BasisPoints
=============================================================================
