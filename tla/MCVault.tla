------------------------------ MODULE MCVault ------------------------------
(* One trader and an account for each role.  No entry point touches two user
   accounts, so a second trader adds states and no new case. *)
EXTENDS Vault

CONSTANTS alice, operator, manager, settler

MCUsers == {alice}
MCAccounts == MCUsers \cup {operator, manager, settler}
=============================================================================
