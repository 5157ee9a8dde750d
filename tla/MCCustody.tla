----------------------------- MODULE MCCustody -----------------------------
(* One trader and an account for each role of the vault, whose entry points
   touch one user account only; two providers, voters and farmers, whose
   shares and votes meet in one total. *)
EXTENDS Custody

CONSTANTS alice, bob, operator, manager, settler

MCUsers == {alice}
MCAccounts == MCUsers \cup {operator, manager, settler}
MCPair == {alice, bob}
MCResults == {-1, 3}
=============================================================================
