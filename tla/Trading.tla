------------------------------ MODULE Trading ------------------------------
(***************************************************************************)
(* The three contracts that prices and positions go through besides the    *)
(* settlement contract: the oracle, the market factory and the position    *)
(* manager.  None of them calls another and they have no state in common   *)
(* but the block time, so each is explored with the others as they were    *)
(* installed: focus names the one that the deploys go to.                  *)
(***************************************************************************)
EXTENDS Oracle, MarketFactory, PositionManager

VARIABLE focus          \* the contract that the deploys go to

tradingVars == <<focus, blocktime, oracleState, factoryState, positionVars>>

TradingInit ==
    /\ focus \in {"oracle", "factory", "positions"}
    /\ OracleInit /\ FactoryInit /\ PositionInit

TradingNext ==
    \/ /\ focus = "oracle" /\ OracleNext
       /\ UNCHANGED <<focus, factoryState, positionVars>>
    \/ /\ focus = "factory" /\ FactoryNext
       /\ UNCHANGED <<focus, oracleState, positionVars>>
    \/ /\ focus = "positions" /\ PositionNext
       /\ UNCHANGED <<focus, blocktime, oracleState, factoryState>>

TradingSpec == TradingInit /\ [][TradingNext]_tradingVars
=============================================================================
