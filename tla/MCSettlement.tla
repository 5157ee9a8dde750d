---------------------------- MODULE MCSettlement ----------------------------
(* An operator who holds both roles, as the emergency path needs, and another
   account. *)
EXTENDS Settlement

CONSTANTS operator, other, gold, housing

MCAccounts == {operator, other}
=============================================================================
