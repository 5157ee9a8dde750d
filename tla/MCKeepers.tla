------------------------------ MODULE MCKeepers ------------------------------
(* Two perps, and a market with a step of two percent and two larger ones. *)
EXTENDS Keepers

MCPrices == {100, 102, 106}
=============================================================================
