--------------------------- MODULE PositionManager ---------------------------
(***************************************************************************)
(* The position manager, contracts/position-manager: users open and close  *)
(* leveraged positions, and funding is applied to one position per deploy. *)
(* The market key, the times and the name indexes that a position is also  *)
(* stored under are left out: no entry point reads them.  Nor does any     *)
(* entry point call another contract yet.  settle_market_positions and     *)
(* apply_funding_batch change nothing.                                     *)
(***************************************************************************)
EXTENDS PositionMath, Storage

CONSTANTS
    Users,
    Collaterals, Leverages, EntryPrices,    \* what a deploy can open with
    ExitPrices,                             \* the prices a close can name
    FundingRates,                           \* the rates a deploy can apply
    MaxPositions,                           \* bound: positions opened
    MaxPayments                             \* bound: funding payments of a position

ASSUME PositionNumbers ==
    /\ Collaterals \subseteq 0 .. MaxU512
    /\ Leverages \cup EntryPrices \cup ExitPrices \subseteq Nat
    /\ FundingRates \subseteq Int
    /\ {MaxPositions, MaxPayments} \subseteq Nat

VARIABLES
    positions,          \* position id -> Position
    positions_count,
    exits               \* history: position id -> the price and the result of its close

positionVars == <<positions, positions_count, exits>>

Position ==
    [user : Users, side : Sides, settlement_mode : Modes, collateral : 1 .. MaxU512,
     leverage : 1 .. 10, entry_price : 0 .. MaxU128, is_closed : BOOLEAN,
     accumulated_funding : I128, funding_payments_count : Nat]

Ids == 0 .. positions_count - 1

PositionTypeOK ==
    /\ positions_count \in Nat
    /\ positions \in [Ids -> Position]
    /\ IsMap(exits, Ids, [price : Nat, pnl : Int])
    /\ DOMAIN exits = {id \in Ids : positions[id].is_closed}

PositionInit ==
    /\ positions = NoKeys
    /\ positions_count = 0
    /\ exits = NoKeys

Leverageable(leverage) == 1 <= leverage /\ leverage <= 10

NewPosition(user, side, mode, collateral, leverage, price) ==
    [user |-> user, side |-> side, settlement_mode |-> mode, collateral |-> collateral,
     leverage |-> leverage, entry_price |-> price, is_closed |-> FALSE,
     accumulated_funding |-> 0, funding_payments_count |-> 0]

\* Neither the price nor the market is looked up: the entry price is the user's.
OpenPosition(user, side, mode, collateral, leverage, price) ==
    LET p == NewPosition(user, side, mode, collateral, leverage, price) IN
    /\ positions_count < MaxPositions
    /\ Leverageable(leverage)
    /\ collateral # 0
    /\ EffectiveSize(p) <= MaxU512
    /\ LiquidationPriceFits(p)
    /\ positions' = PutKey(positions, positions_count, p)
    /\ positions_count' = positions_count + 1
    /\ UNCHANGED exits

\* The result leaves the funding out, which the test for liquidation counts.
ClosePosition(user, id, price) ==
    LET p == positions[id] IN
    /\ p.user = user
    /\ ~ p.is_closed
    /\ PnlWithFundingFits(p, price)
    /\ ~ IsLiquidated(p, price)
    /\ positions' = [positions EXCEPT ![id].is_closed = TRUE]
    /\ exits' = PutKey(exits, id, [price |-> price, pnl |-> Pnl(p, price)])
    /\ UNCHANGED positions_count

\* Any account can send this, at any time, with any rate.  Of a position that
\* takes no funding nothing changes.
ApplyFundingToPosition(id, rate) ==
    /\ TakesFunding(positions[id])
    /\ positions[id].funding_payments_count < MaxPayments
    /\ FundingFits(positions[id], rate)
    /\ positions' = [positions EXCEPT ![id] = Funded(@, rate)]
    /\ UNCHANGED <<positions_count, exits>>

PositionNext ==
    \/ \E user \in Users :
          \/ \E side \in Sides, mode \in Modes, collateral \in Collaterals,
                leverage \in Leverages, price \in EntryPrices :
                OpenPosition(user, side, mode, collateral, leverage, price)
          \/ \E id \in Ids, price \in ExitPrices : ClosePosition(user, id, price)
    \/ \E id \in Ids, rate \in FundingRates : ApplyFundingToPosition(id, rate)

PositionSpec == PositionInit /\ [][PositionNext]_positionVars

-----------------------------------------------------------------------------
\* "If loss >= collateral, position is liquidated": nobody closes a position
\* with less than nothing left of his collateral once funding is counted, and
\* no payment that comes after the close changes that.  A loss of a continuous
\* position above MaxI128 is exempted: the test takes it for a profit.
LossBelowCollateral ==
    \A id \in DOMAIN exits :
        LET p == positions[id] IN
        p.settlement_mode = "daily" \/ -exits[id].pnl <= MaxI128
            => exits[id].pnl + p.accumulated_funding > -p.collateral

\* A closed position is never closed again, charged or paid.
ClosedForGood ==
    [][\A id \in DOMAIN exits :
          /\ positions'[id] = positions[id]
          /\ id \in DOMAIN exits' /\ exits'[id] = exits[id]]_positionVars

\* The positions that can have a result at all.
WithEntryPrice == {id \in Ids : positions[id].entry_price # 0}

\* Two users who took the two sides of the same bet.
Opposed(p, q) ==
    /\ p.side # q.side
    /\ EffectiveSize(p) = EffectiveSize(q) /\ p.entry_price = q.entry_price

\* What one side of a bet wins the other loses, rounding included: neither price
\* moves nor funding create or destroy money.
ZeroSum ==
    \A i, j \in WithEntryPrice : Opposed(positions[i], positions[j]) =>
        /\ \A price \in ExitPrices : Pnl(positions[i], price) = -Pnl(positions[j], price)
        /\ \A rate \in FundingRates : FundingReceived(positions[i], rate)
                                         = -FundingReceived(positions[j], rate)

\* The liquidation price shown to a long is one at which it has lost its
\* collateral, as is every lower one.
LongsFallAtLiquidationPrice ==
    \A id \in WithEntryPrice :
        LET p == positions[id] IN
        p.side = "long" =>
            \A price \in {LiquidationPrice(p)} \cup ExitPrices :
                price <= LiquidationPrice(p) => Pnl(p, price) <= -p.collateral

\* "PnL = price_pnl + accumulated_funding; settlement includes all funding
\* payments", CONTINUOUS_PERPS_COMPLETE.md: what a close pays out is the result
\* with the funding received up to then.
CloseIncludesFunding ==
    \A id \in DOMAIN exits :
        exits[id].pnl = PnlWithFunding(positions[id], exits[id].price)
=============================================================================
