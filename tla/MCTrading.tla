----------------------------- MODULE MCTrading -----------------------------
(* The admin of the oracle, who also validates, and a second validator; the
   roles of the factory and an account without one; two users with positions. *)
EXTENDS Trading

CONSTANTS admin, validator, settler, feeder, trader, gold, oil

MCValidators == {admin, validator}
MCAccounts == {admin, settler, feeder, trader}
MCUsers == {admin, trader}
MCFundingRates == {-1000, 75, 1000}
=============================================================================
