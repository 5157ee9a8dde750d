-------------------------- MODULE MCMarketFactory --------------------------
(* The four roles of the factory and an account without one. *)
EXTENDS MarketFactory

CONSTANTS admin, settler, feeder, trader, gold, oil

MCAccounts == {admin, settler, feeder, trader}
=============================================================================
