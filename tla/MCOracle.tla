------------------------------ MODULE MCOracle ------------------------------
(* The admin, who also validates, and a second validator. *)
EXTENDS Oracle

CONSTANTS admin, validator, gold

MCAccounts == {admin, validator}
=============================================================================
