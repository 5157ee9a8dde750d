------------------------------ MODULE Custody ------------------------------
(***************************************************************************)
(* The four contracts that keep what users own: the vault, the liquidity   *)
(* pool, the governance contract with the staked RWP, and yield farming.   *)
(* They do not call each other yet and have no state in common, so each is *)
(* explored with the others as they were installed: focus names the one    *)
(* that the deploys go to.                                                 *)
(***************************************************************************)
EXTENDS Vault, LiquidityPool, Governance, YieldFarming

VARIABLE focus          \* the contract that the deploys go to

custodyVars == <<focus, blocktime, vars, poolVars, governanceVars, farmVars>>

TypesOK ==
    /\ blocktime \in 0 .. MaxBlockTime
    /\ TypeOK /\ PoolTypeOK /\ GovernanceTypeOK /\ FarmTypeOK

CustodyInit ==
    /\ focus \in {"vault", "pool", "governance", "farming"}
    /\ blocktime = 0
    /\ Init /\ PoolInit /\ GovernanceInit /\ FarmInit

CustodyNext ==
    \/ /\ focus = "vault" /\ Next
       /\ UNCHANGED <<focus, blocktime, poolVars, governanceVars, farmVars>>
    \/ /\ focus = "pool" /\ PoolNext
       /\ UNCHANGED <<focus, vars, governanceVars, farmVars>>
    \/ /\ focus = "governance" /\ GovernanceNext
       /\ UNCHANGED <<focus, vars, poolVars, farmVars>>
    \/ /\ focus = "farming" /\ FarmNext
       /\ UNCHANGED <<focus, vars, poolVars, governanceVars>>

CustodySpec == CustodyInit /\ [][CustodyNext]_custodyVars
-----------------------------------------------------------------------------
\* Every total a contract keeps is the sum of what it keeps for its users,
\* although the two are written apart: the money in the vault, LP tokens,
\* staked RWP, farmed tokens.
TotalsAddUp == ClaimsReconcile /\ TokensAddUp /\ StakesAddUp /\ FarmAddsUp
=============================================================================
