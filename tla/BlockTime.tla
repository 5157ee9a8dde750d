----------------------------- MODULE BlockTime -----------------------------
(***************************************************************************)
(* The time of the block a deploy runs in, which never goes back and is    *)
(* the same for all contracts.                                             *)
(***************************************************************************)
EXTENDS Integers

CONSTANT MaxBlockTime   \* bound: the last block that is explored

ASSUME BlockTimesAreNaturals == MaxBlockTime \in Nat

VARIABLE blocktime

Tick == blocktime < MaxBlockTime /\ blocktime' = blocktime + 1
=============================================================================
