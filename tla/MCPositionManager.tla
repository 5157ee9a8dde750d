-------------------------- MODULE MCPositionManager --------------------------
(* A user with one position of each kind, and a second user. *)
EXTENDS PositionManager

CONSTANTS alice, bob

MCUsers == {alice, bob}
MCFundingRates == {-1000, 75, 1000}
=============================================================================
