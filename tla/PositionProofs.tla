---------------------------- MODULE PositionProofs ----------------------------
(***************************************************************************)
(* What a position can win, lose and owe, for every price and every rate,  *)
(* and that the composition with the oracle and the factory keeps each     *)
(* contract's specification.                                               *)
(***************************************************************************)
EXTENDS Trading, CommonProofs

\* A division by a positive number is odd in the amount divided.
LEMMA TruncatedOdd ==
    ASSUME NEW a \in Int, NEW b \in Nat \ {0}
    PROVE  /\ Truncated(a, b) \in Int
           /\ Truncated(-a, b) = -Truncated(a, b)
<1>1. CASE a < 0
  BY <1>1 DEF Truncated
<1>2. CASE a = 0
  <2>1. 0 \div b = 0
    OBVIOUS
  <2>2. QED
    BY <1>2, <2>1 DEF Truncated
<1>3. CASE a > 0
  BY <1>3 DEF Truncated
<1>4. QED
  BY <1>1, <1>2, <1>3

\* Multiplication passes the sign on.
LEMMA ProductOdd ==
    ASSUME NEW a \in Int, NEW b \in Int
    PROVE  a * b \in Int /\ (-a) * b = -(a * b) /\ a * (-b) = -(a * b)
OBVIOUS

\* The widths, as numbers.
LEMMA Widths ==
    /\ MaxI128 \in Nat \ {0} /\ MaxU128 \in Nat /\ MaxU512 \in Nat
    /\ I128 \subseteq Int /\ 0 \in I128
    /\ \A n \in Nat : AsI128(n) \in Int
<1>1. MaxI128 \in Nat \ {0} /\ MaxU128 \in Nat /\ MaxU512 \in Nat
  BY PositionWidths DEF PositionWidths, MaxU128
<1>2. I128 \subseteq Int /\ 0 \in I128
  BY <1>1 DEF I128
<1>3. \A n \in Nat : AsI128(n) \in Int
  BY <1>1 DEF AsI128
<1>4. QED
  BY <1>1, <1>2, <1>3

\* The fields of a position, as numbers.
LEMMA PositionTypes ==
    ASSUME NEW p \in Position
    PROVE  /\ p.collateral \in Nat \ {0} /\ p.leverage \in Nat /\ p.entry_price \in Nat
           /\ p.accumulated_funding \in I128
           /\ p.side \in {"long", "short"}
           /\ EffectiveSize(p) \in Nat
<1>1. /\ p.collateral \in Nat \ {0} /\ p.leverage \in Nat /\ p.entry_price \in Nat
      /\ p.accumulated_funding \in I128
      /\ p.side \in {"long", "short"}
  BY Widths DEF Position, Sides
<1>2. p.collateral * p.leverage \in Nat
  BY <1>1
<1>3. QED
  BY <1>1, <1>2 DEF EffectiveSize

\* The result of a position with an entry price is an integer.
LEMMA PnlType ==
    ASSUME NEW p \in Position, p.entry_price # 0, NEW price \in Nat
    PROVE  Pnl(p, price) \in Int
<1>1. EffectiveSize(p) \in Int /\ p.entry_price \in Nat \ {0}
  BY PositionTypes
<1>2. Favour(p, price) \in Int
  BY PositionTypes DEF Favour
<1>3. Favour(p, price) * EffectiveSize(p) \in Int
  BY <1>1, <1>2, ProductOdd
<1>4. QED
  BY <1>1, <1>3, TruncatedOdd DEF Pnl

\* A payment is an integer.
LEMMA FundingType ==
    ASSUME NEW p \in Position, NEW rate \in Int
    PROVE  FundingPayment(p, rate) \in Int
<1>1. AsI128(EffectiveSize(p)) \in Int
  BY PositionTypes, Widths
<1>2. AsI128(EffectiveSize(p)) * rate \in Int
  BY <1>1, ProductOdd
<1>3. QED
  BY <1>2, TruncatedOdd DEF FundingPayment, BasisPoints

-----------------------------------------------------------------------------
\* Two opposed positions move apart by the same distance.
LEMMA FavourOpposed ==
    ASSUME NEW p \in Position, NEW q \in Position, p.side # q.side,
           p.entry_price = q.entry_price, NEW price \in Nat
    PROVE  Favour(q, price) \in Int /\ Favour(p, price) = -Favour(q, price)
BY PositionTypes DEF Favour

\* What one side of a bet wins the other loses, at every price.
LEMMA PnlOpposed ==
    ASSUME NEW p \in Position, NEW q \in Position, Opposed(p, q),
           p.entry_price # 0, NEW price \in Nat
    PROVE  Pnl(p, price) = -Pnl(q, price)
<1>1. p.side # q.side /\ EffectiveSize(p) = EffectiveSize(q)
      /\ p.entry_price = q.entry_price
  BY DEF Opposed
<1>2. EffectiveSize(q) \in Int /\ q.entry_price \in Nat \ {0}
  BY <1>1, PositionTypes
<1>3. Favour(q, price) \in Int /\ Favour(p, price) = -Favour(q, price)
  BY <1>1, FavourOpposed
<1>4. DEFINE won == Favour(q, price) * EffectiveSize(q)
<1>5. won \in Int /\ Favour(p, price) * EffectiveSize(p) = -won
  BY <1>1, <1>2, <1>3, ProductOdd
<1> HIDE DEF won
<1>6. Truncated(-won, q.entry_price) = -Truncated(won, q.entry_price)
  BY <1>2, <1>5, TruncatedOdd
<1>7. QED
  BY <1>1, <1>5, <1>6 DEF Pnl, won

\* And what one side pays in funding the other receives, at every rate.
LEMMA FundingOpposed ==
    ASSUME NEW p \in Position, NEW q \in Position, Opposed(p, q), NEW rate \in Int
    PROVE  FundingReceived(p, rate) = -FundingReceived(q, rate)
<1>1. p.side # q.side /\ EffectiveSize(p) = EffectiveSize(q)
  BY DEF Opposed
<1>2. p.side \in {"long", "short"} /\ q.side \in {"long", "short"}
  BY PositionTypes
<1>3. FundingPayment(p, rate) = FundingPayment(q, rate)
  BY <1>1 DEF FundingPayment
<1>4. FundingPayment(q, rate) \in Int
  BY FundingType
<1>5. QED
  BY <1>1, <1>2, <1>3, <1>4 DEF FundingReceived

-----------------------------------------------------------------------------
\* A funded position is a position.
LEMMA FundedType ==
    ASSUME NEW p \in Position, NEW rate \in Int, FundingFits(p, rate)
    PROVE  /\ Funded(p, rate) \in Position
           /\ Funded(p, rate).is_closed = p.is_closed
           /\ Funded(p, rate).settlement_mode = p.settlement_mode
<1> DEFINE sum == p.accumulated_funding + FundingReceived(p, rate)
           count == p.funding_payments_count + 1
<1>1. sum \in I128 /\ count \in Nat
  BY DEF Position, FundingFits
<1>2. Funded(p, rate) = [p EXCEPT !.accumulated_funding = sum,
                                  !.funding_payments_count = count]
  BY DEF Funded
<1> HIDE DEF sum, count
<1>3. QED
  BY <1>1, <1>2 DEF Position

\* A payment reaches open continuous positions only, and no results.
LEMMA PaymentStep ==
    ASSUME PositionTypeOK, NEW id \in Ids, NEW rate \in FundingRates,
           ApplyFundingToPosition(id, rate)
    PROVE  /\ positions' \in [Ids -> Position]
           /\ \A i \in Ids : /\ positions'[i].is_closed = positions[i].is_closed
                             /\ positions'[i].settlement_mode = positions[i].settlement_mode
           /\ \A i \in Ids : positions[i].is_closed \/ positions[i].settlement_mode = "daily"
                                => positions'[i] = positions[i]
           /\ exits' = exits /\ positions_count' = positions_count
<1>1. rate \in Int
  BY PositionNumbers DEF PositionNumbers
<1>2. positions \in [Ids -> Position] /\ positions[id] \in Position
  BY DEF PositionTypeOK
<1>3. /\ positions' = [positions EXCEPT ![id] = Funded(positions[id], rate)]
      /\ exits' = exits /\ positions_count' = positions_count
  BY DEF ApplyFundingToPosition
<1>4. /\ Funded(positions[id], rate) \in Position
      /\ Funded(positions[id], rate).is_closed = positions[id].is_closed
      /\ Funded(positions[id], rate).settlement_mode = positions[id].settlement_mode
  BY <1>1, <1>2, FundedType DEF ApplyFundingToPosition
<1>5. ~ (positions[id].is_closed \/ positions[id].settlement_mode = "daily")
  BY DEF ApplyFundingToPosition, TakesFunding
<1>6. QED
  BY <1>2, <1>3, <1>4, <1>5

\* A close ends the position named, and no other.
LEMMA CloseStep ==
    ASSUME PositionTypeOK, NEW user \in Users, NEW id \in Ids, NEW price \in ExitPrices,
           ClosePosition(user, id, price)
    PROVE  /\ positions' \in [Ids -> Position]
           /\ id \notin DOMAIN exits
           /\ positions'[id] = [positions[id] EXCEPT !.is_closed = TRUE]
           /\ \A i \in Ids \ {id} : positions'[i] = positions[i]
           /\ DOMAIN exits' = DOMAIN exits \cup {id}
           /\ exits'[id] = [price |-> price, pnl |-> Pnl(positions[id], price)]
           /\ exits'[id] \in [price : Nat, pnl : Int]
           /\ \A i \in DOMAIN exits : exits'[i] = exits[i]
           /\ positions_count' = positions_count
<1>1. positions \in [Ids -> Position] /\ positions[id] \in Position
  BY DEF PositionTypeOK
<1>2. id \notin DOMAIN exits
  BY DEF PositionTypeOK, ClosePosition
<1>3. [positions[id] EXCEPT !.is_closed = TRUE] \in Position
  BY <1>1 DEF Position
<1>4. /\ positions' = [positions EXCEPT ![id] = [positions[id] EXCEPT !.is_closed = TRUE]]
      /\ positions_count' = positions_count
  BY DEF ClosePosition
<1>5. price \in Nat /\ positions[id].entry_price # 0
  BY PositionNumbers DEF PositionNumbers, ClosePosition, PnlWithFundingFits, PnlFits
<1>6. Pnl(positions[id], price) \in Int
  BY <1>1, <1>5, PnlType
<1>7. exits' = PutKey(exits, id, [price |-> price, pnl |-> Pnl(positions[id], price)])
  BY DEF ClosePosition
<1>8. /\ DOMAIN exits' = DOMAIN exits \cup {id}
      /\ exits'[id] = [price |-> price, pnl |-> Pnl(positions[id], price)]
      /\ \A i \in DOMAIN exits : exits'[i] = exits[i]
  BY <1>2, <1>7 DEF PutKey
<1>9. QED
  BY <1>1, <1>2, <1>3, <1>4, <1>5, <1>6, <1>8

-----------------------------------------------------------------------------
\* A daily position never collects funding, so the result that decides about
\* its liquidation is the one it is closed with.
DailyUnfunded ==
    \A id \in Ids : positions[id].settlement_mode = "daily"
                       => positions[id].accumulated_funding = 0

\* What may be closed has something of its collateral left, unless the cast of a
\* loss made a profit of it.
LEMMA ClosedAboveCollateral ==
    ASSUME NEW id \in Ids, positions[id] \in Position,
           positions[id].settlement_mode = "daily" => positions[id].accumulated_funding = 0,
           NEW user \in Users, NEW price \in ExitPrices, ClosePosition(user, id, price),
           positions[id].settlement_mode = "daily" \/ -Pnl(positions[id], price) <= MaxI128
    PROVE  Pnl(positions[id], price) + positions[id].accumulated_funding
               > -positions[id].collateral
<1> DEFINE p == positions[id]
           won == Pnl(p, price)
           funding == p.accumulated_funding
           kept == PnlWithFunding(p, price)
<1>1. price \in Nat /\ p.entry_price # 0
  BY PositionNumbers DEF PositionNumbers, ClosePosition, PnlWithFundingFits, PnlFits
<1>2. won \in Int
  BY <1>1, PnlType
<1>3. p.collateral \in Nat \ {0} /\ funding \in I128
  BY PositionTypes
<1>4. ~ (kept <= -p.collateral)
  BY DEF ClosePosition, IsLiquidated
<1>5. CASE p.settlement_mode = "daily"
  <2>1. kept = won /\ funding = 0
    BY <1>5 DEF PnlWithFunding
  <2> HIDE DEF won, funding, kept
  <2>2. won > -p.collateral /\ funding = 0
    BY <1>2, <1>3, <1>4, <2>1
  <2>3. QED
    BY <1>2, <1>3, <2>2 DEF won, funding
<1>6. CASE p.settlement_mode # "daily"
  <2>1. kept = CastPnl(p, price) + funding /\ -won <= MaxI128
    BY <1>6 DEF PnlWithFunding
  <2>2. CASE won > MaxI128
    <3> HIDE DEF won, funding, kept
    <3>1. won + funding >= 0
      BY <1>2, <1>3, <2>2, Widths DEF I128
    <3>2. won + funding > -p.collateral
      BY <1>2, <1>3, <3>1, Widths
    <3>3. QED
      BY <3>2 DEF won, funding
  <2>3. CASE ~ (won > MaxI128)
    <3>1. CastPnl(p, price) = won
      BY <1>2, <2>1, <2>3, Widths DEF CastPnl, AsI128
    <3> HIDE DEF won, funding, kept
    <3>2. won + funding > -p.collateral
      BY <1>2, <1>3, <1>4, <2>1, <3>1, Widths
    <3>3. QED
      BY <3>2 DEF won, funding
  <2>4. QED
    BY <2>2, <2>3
<1>7. QED
  BY <1>5, <1>6

PositionInv == PositionTypeOK /\ DailyUnfunded /\ LossBelowCollateral

\* No position has been opened in a contract just installed.
LEMMA InitPositions == PositionInit => PositionInv
<1> SUFFICES ASSUME PositionInit PROVE PositionInv
  OBVIOUS
<1>1. positions_count = 0 /\ Ids = {} /\ positions = NoKeys /\ exits = NoKeys
  BY DEF PositionInit, Ids
<1>2. DOMAIN NoKeys = {} /\ NoKeys \in [{} -> Position]
  BY DEF NoKeys
<1>3. QED
  BY <1>1, <1>2, NoKeysEmpty DEF PositionInv, PositionTypeOK, DailyUnfunded, LossBelowCollateral

\* Every entry point keeps the positions and the results in order.
LEMMA StepPositions == PositionInv /\ [PositionNext]_positionVars => PositionInv'
<1> SUFFICES ASSUME PositionInv, [PositionNext]_positionVars PROVE PositionInv'
  OBVIOUS
<1>t. PositionTypeOK /\ DailyUnfunded /\ LossBelowCollateral
  BY DEF PositionInv
<1>n. positions_count \in Nat
  BY <1>t DEF PositionTypeOK
<1>1. ASSUME NEW user \in Users, NEW side \in Sides, NEW mode \in Modes,
             NEW collateral \in Collaterals, NEW leverage \in Leverages,
             NEW price \in EntryPrices,
             OpenPosition(user, side, mode, collateral, leverage, price)
      PROVE  PositionInv'
  <2> DEFINE p == NewPosition(user, side, mode, collateral, leverage, price)
  <2>1. collateral \in 1 .. MaxU512 /\ leverage \in 1 .. 10 /\ price \in 0 .. MaxU128
    <3>1. collateral \in 1 .. MaxU512
      BY <1>1, Widths, PositionNumbers DEF PositionNumbers, OpenPosition
    <3>2. leverage \in 1 .. 10
      BY <1>1, PositionNumbers DEF PositionNumbers, OpenPosition, Leverageable
    <3>3. p.entry_price = price
      BY DEF NewPosition
    <3>4. price \in 0 .. MaxU128
      BY <1>1, <3>3, Widths, PositionNumbers
         DEF PositionNumbers, OpenPosition, LiquidationPriceFits
    <3>5. QED
      BY <3>1, <3>2, <3>4
  <2>2. p \in Position /\ ~ p.is_closed /\ p.accumulated_funding = 0
    BY <2>1, Widths DEF Position, NewPosition
  <2>3. /\ positions' = PutKey(positions, positions_count, p)
        /\ positions_count' = positions_count + 1 /\ exits' = exits
    BY <1>1 DEF OpenPosition
  <2> HIDE DEF p
  <2>4. Ids' = Ids \cup {positions_count} /\ positions_count \notin Ids
    BY <1>n, <2>3 DEF Ids
  <2>5. positions \in [Ids -> Position]
    BY <1>t DEF PositionTypeOK
  <2>6. /\ positions' \in [Ids' -> Position]
        /\ positions'[positions_count] = p
        /\ \A i \in Ids : positions'[i] = positions[i]
    BY <2>2, <2>3, <2>4, <2>5 DEF PutKey
  <2>7. /\ IsMap(exits, Ids, [price : Nat, pnl : Int])
        /\ DOMAIN exits = {i \in Ids : positions[i].is_closed}
    BY <1>t DEF PositionTypeOK
  <2>8. IsMap(exits', Ids', [price : Nat, pnl : Int])
    BY <2>3, <2>4, <2>7 DEF IsMap
  <2>9. DOMAIN exits' = {i \in Ids' : positions'[i].is_closed}
    BY <2>2, <2>3, <2>4, <2>6, <2>7
  <2>10. PositionTypeOK'
    BY <1>n, <2>3, <2>6, <2>8, <2>9 DEF PositionTypeOK
  <2>11. DailyUnfunded'
    BY <1>t, <2>2, <2>4, <2>6 DEF DailyUnfunded
  <2>12. LossBelowCollateral'
    BY <1>t, <2>3, <2>6, <2>7 DEF LossBelowCollateral
  <2>13. QED
    BY <2>10, <2>11, <2>12 DEF PositionInv
<1>2. ASSUME NEW user \in Users, NEW id \in Ids, NEW price \in ExitPrices,
             ClosePosition(user, id, price)
      PROVE  PositionInv'
  <2>1. positions[id] \in Position
    BY <1>t DEF PositionTypeOK
  <2>2. /\ positions' \in [Ids -> Position]
        /\ positions'[id] = [positions[id] EXCEPT !.is_closed = TRUE]
        /\ \A i \in Ids \ {id} : positions'[i] = positions[i]
        /\ positions_count' = positions_count
    BY <1>t, <1>2, CloseStep
  <2>3. /\ DOMAIN exits' = DOMAIN exits \cup {id}
        /\ exits'[id] = [price |-> price, pnl |-> Pnl(positions[id], price)]
        /\ exits'[id] \in [price : Nat, pnl : Int]
        /\ \A i \in DOMAIN exits : exits'[i] = exits[i]
    BY <1>t, <1>2, CloseStep
  <2>4. Ids' = Ids
    BY <2>2 DEF Ids
  <2>5. /\ positions'[id].is_closed
        /\ positions'[id].accumulated_funding = positions[id].accumulated_funding
        /\ positions'[id].collateral = positions[id].collateral
        /\ positions'[id].settlement_mode = positions[id].settlement_mode
    BY <2>1, <2>2 DEF Position
  <2>6. /\ IsMap(exits, Ids, [price : Nat, pnl : Int])
        /\ DOMAIN exits = {i \in Ids : positions[i].is_closed}
    BY <1>t DEF PositionTypeOK
  <2>7. IsMap(exits', Ids, [price : Nat, pnl : Int])
    <3>1. DOMAIN exits' \subseteq Ids
      BY <2>3, <2>6
    <3>2. \A i \in DOMAIN exits' : exits'[i] \in [price : Nat, pnl : Int]
      BY <2>3, <2>6 DEF IsMap
    <3>3. exits' = [i \in DOMAIN exits' |-> exits'[i]]
      <4>1. exits' = PutKey(exits, id, [price |-> price, pnl |-> Pnl(positions[id], price)])
        BY <1>2 DEF ClosePosition
      <4>2. QED
        BY <4>1 DEF PutKey
    <3>4. QED
      BY <3>1, <3>2, <3>3 DEF IsMap
  <2>8. DOMAIN exits' = {i \in Ids : positions'[i].is_closed}
    <3>1. \A i \in Ids : i # id =>
             (positions'[i].is_closed <=> positions[i].is_closed)
      BY <2>2
    <3>2. {i \in Ids : positions'[i].is_closed}
             = {i \in Ids : positions[i].is_closed} \cup {id}
      BY <2>5, <3>1
    <3>3. QED
      BY <2>3, <2>6, <3>2
  <2>9. PositionTypeOK'
    BY <1>n, <2>2, <2>4, <2>7, <2>8 DEF PositionTypeOK
  <2>10. ASSUME NEW i \in Ids, positions'[i].settlement_mode = "daily"
         PROVE  positions'[i].accumulated_funding = 0
    <3>1. /\ positions'[i].settlement_mode = positions[i].settlement_mode
          /\ positions'[i].accumulated_funding = positions[i].accumulated_funding
      <4>1. CASE i = id
        BY <2>5, <4>1
      <4>2. CASE i # id
        <5>1. positions'[i] = positions[i]
          BY <2>2, <4>2
        <5>2. QED
          BY <5>1
      <4>3. QED
        BY <4>1, <4>2
    <3>2. QED
      BY <1>t, <2>10, <3>1 DEF DailyUnfunded
  <2>11. positions[id].settlement_mode = "daily" \/ -Pnl(positions[id], price) <= MaxI128
            => Pnl(positions[id], price) + positions[id].accumulated_funding
                  > -positions[id].collateral
    BY <1>t, <1>2, <2>1, ClosedAboveCollateral DEF DailyUnfunded
  <2>12. ASSUME NEW i \in DOMAIN exits'
         PROVE  positions'[i].settlement_mode = "daily" \/ -exits'[i].pnl <= MaxI128
                   => exits'[i].pnl + positions'[i].accumulated_funding
                         > -positions'[i].collateral
    <3>1. CASE i = id
      BY <2>3, <2>5, <2>11, <3>1
    <3>2. CASE i # id
      <4>1. i \in DOMAIN exits /\ i \in Ids \ {id}
        BY <2>3, <2>6, <3>2
      <4>2. exits'[i] = exits[i] /\ positions'[i] = positions[i]
        BY <2>2, <2>3, <4>1
      <4>3. QED
        BY <1>t, <4>1, <4>2 DEF LossBelowCollateral
    <3>3. QED
      BY <3>1, <3>2
  <2>13. QED
    BY <2>4, <2>9, <2>10, <2>12 DEF PositionInv, DailyUnfunded, LossBelowCollateral
<1>3. ASSUME NEW id \in Ids, NEW rate \in FundingRates, ApplyFundingToPosition(id, rate)
      PROVE  PositionInv'
  <2>1. /\ positions' \in [Ids -> Position]
        /\ \A i \in Ids : /\ positions'[i].is_closed = positions[i].is_closed
                          /\ positions'[i].settlement_mode = positions[i].settlement_mode
        /\ \A i \in Ids : positions[i].is_closed \/ positions[i].settlement_mode = "daily"
                             => positions'[i] = positions[i]
        /\ exits' = exits /\ positions_count' = positions_count
    BY <1>t, <1>3, PaymentStep
  <2>2. Ids' = Ids
    BY <2>1 DEF Ids
  <2>3. /\ IsMap(exits, Ids, [price : Nat, pnl : Int])
        /\ DOMAIN exits = {i \in Ids : positions[i].is_closed}
    BY <1>t DEF PositionTypeOK
  <2>4. PositionTypeOK'
    BY <1>n, <2>1, <2>2, <2>3 DEF PositionTypeOK
  <2>5. LossBelowCollateral'
    BY <1>t, <2>1, <2>3 DEF LossBelowCollateral
  <2>6. ASSUME NEW i \in Ids, positions'[i].settlement_mode = "daily"
        PROVE  positions'[i].accumulated_funding = 0
    <3>1. positions'[i].settlement_mode = positions[i].settlement_mode
      BY <2>1
    <3>2. QED
      BY <1>t, <2>1, <2>6, <3>1 DEF DailyUnfunded
  <2>7. QED
    BY <2>2, <2>4, <2>5, <2>6 DEF PositionInv, DailyUnfunded
<1>4. CASE UNCHANGED positionVars
  BY <1>t, <1>4 DEF positionVars, PositionInv, PositionTypeOK, DailyUnfunded, LossBelowCollateral, Ids
<1>5. QED
  BY <1>1, <1>2, <1>3, <1>4 DEF PositionNext

\* Positions and results keep the types of their structs.
THEOREM TypeCorrect == PositionSpec => []PositionTypeOK
<1>1. PositionInv => PositionTypeOK
  BY DEF PositionInv
<1>2. QED
  BY <1>1, InitPositions, StepPositions, PTL DEF PositionSpec

\* Nobody closes a position after losing all of his collateral, funding counted,
\* and nothing that comes after the close changes what he lost; of continuous
\* positions this says nothing once the loss is past i128.
THEOREM LossAlwaysBelowCollateral == PositionSpec => []LossBelowCollateral
<1>1. PositionInv => LossBelowCollateral
  BY DEF PositionInv
<1>2. QED
  BY <1>1, InitPositions, StepPositions, PTL DEF PositionSpec

\* Opposed positions are a zero-sum game at every price and every funding rate.
THEOREM AlwaysZeroSum == PositionSpec => []ZeroSum
<1>1. PositionTypeOK => ZeroSum
  <2> SUFFICES ASSUME PositionTypeOK, NEW i \in WithEntryPrice, NEW j \in WithEntryPrice,
                      Opposed(positions[i], positions[j])
               PROVE  /\ \A price \in ExitPrices :
                            Pnl(positions[i], price) = -Pnl(positions[j], price)
                      /\ \A rate \in FundingRates :
                            FundingReceived(positions[i], rate)
                               = -FundingReceived(positions[j], rate)
    BY DEF ZeroSum
  <2>1. /\ positions[i] \in Position /\ positions[j] \in Position
        /\ positions[i].entry_price # 0
    BY DEF WithEntryPrice, PositionTypeOK
  <2>2. ExitPrices \subseteq Nat /\ FundingRates \subseteq Int
    BY PositionNumbers DEF PositionNumbers
  <2>3. QED
    BY <2>1, <2>2, PnlOpposed, FundingOpposed
<1>2. QED
  BY <1>1, TypeCorrect, PTL

\* No close, payment or other user's position touches a position once closed.
THEOREM AlwaysClosedForGood == PositionSpec => ClosedForGood
<1>1. PositionTypeOK /\ [PositionNext]_positionVars =>
        [\A id \in DOMAIN exits :
            /\ positions'[id] = positions[id]
            /\ id \in DOMAIN exits' /\ exits'[id] = exits[id]]_positionVars
  <2> SUFFICES ASSUME PositionTypeOK, PositionNext, NEW closed \in DOMAIN exits
               PROVE  /\ positions'[closed] = positions[closed]
                      /\ closed \in DOMAIN exits' /\ exits'[closed] = exits[closed]
    OBVIOUS
  <2>1. closed \in Ids /\ positions[closed].is_closed /\ closed # positions_count
        /\ positions \in [Ids -> Position]
    BY DEF PositionTypeOK, Ids
  <2>2. ASSUME NEW user \in Users, NEW side \in Sides, NEW mode \in Modes,
               NEW collateral \in Collaterals, NEW leverage \in Leverages,
               NEW price \in EntryPrices,
               OpenPosition(user, side, mode, collateral, leverage, price)
        PROVE  positions'[closed] = positions[closed] /\ exits' = exits
    BY <2>1, <2>2 DEF OpenPosition, PutKey
  <2>3. ASSUME NEW user \in Users, NEW id \in Ids, NEW price \in ExitPrices,
               ClosePosition(user, id, price)
        PROVE  /\ positions'[closed] = positions[closed]
               /\ closed \in DOMAIN exits' /\ exits'[closed] = exits[closed]
    BY <2>1, <2>3, CloseStep
  <2>4. ASSUME NEW id \in Ids, NEW rate \in FundingRates, ApplyFundingToPosition(id, rate)
        PROVE  positions'[closed] = positions[closed] /\ exits' = exits
    BY <2>1, <2>4, PaymentStep
  <2>5. QED
    BY <2>2, <2>3, <2>4 DEF PositionNext
<1>2. QED
  BY <1>1, TypeCorrect, PTL DEF PositionSpec, ClosedForGood

-----------------------------------------------------------------------------
\* The factor of a long in thousandths is at most that of one minus the inverse
\* of the leverage.
LEMMA LongFactor ==
    ASSUME NEW l \in 1 .. 10
    PROVE  /\ ((l - 1) * 1000) \div l \in Nat
           /\ l * (((l - 1) * 1000) \div l) <= (l - 1) * 1000
<1>1. l \in {1, 2, 3, 4, 5, 6, 7, 8, 9, 10}
  OBVIOUS
<1>2. QED
  BY <1>1

\* A price no higher than e * f \div 1000 has fallen by the whole inverse of the
\* leverage.
LEMMA FallsFar ==
    ASSUME NEW e \in Nat \ {0}, NEW l \in 1 .. 10, NEW price \in Nat,
           price <= (e * (((l - 1) * 1000) \div l)) \div 1000
    PROVE  l * (price - e) <= -e
<1> DEFINE f == ((l - 1) * 1000) \div l
<1>1. f \in Nat /\ l * f <= (l - 1) * 1000
  BY LongFactor
<1>2. 1000 * price <= e * f
  <2> DEFINE ef == e * f
  <2>1. ef \in Nat
    BY <1>1
  <2>2. price <= ef \div 1000
    OBVIOUS
  <2> HIDE DEF ef
  <2>3. 1000 * price <= ef
    BY <2>1, <2>2
  <2>4. QED
    BY <2>3 DEF ef
<1> HIDE DEF f
<1>3. l * (e * f) <= e * ((l - 1) * 1000)
  <2>1. l * (e * f) = e * (l * f)
    BY <1>1
  <2>2. e * (l * f) <= e * ((l - 1) * 1000)
    BY <1>1
  <2>3. QED
    BY <2>1, <2>2
<1>4. l * (1000 * price) <= l * (e * f)
  BY <1>1, <1>2
<1>5. l * (1000 * price) <= e * ((l - 1) * 1000)
  BY <1>1, <1>3, <1>4
<1>6. l * (1000 * price) = 1000 * (l * price)
  OBVIOUS
<1>7. e * ((l - 1) * 1000) = 1000 * (e * l - e)
  OBVIOUS
<1>8. l * price <= e * l - e
  BY <1>5, <1>6, <1>7
<1>9. QED
  BY <1>8

\* A loss of at least c whole entry prices is at least c when divided by it.
LEMMA LossDivided ==
    ASSUME NEW x \in Int, NEW e \in Nat \ {0}, NEW c \in Nat \ {0}, x <= -(c * e)
    PROVE  Truncated(x, e) <= -c
<1>1. c * e \in Nat \ {0}
  OBVIOUS
<1>2. x < 0 /\ -x \in Nat /\ -x >= c * e
  BY <1>1
<1>3. (-x) \div e \in Int /\ -x < e * ((-x) \div e + 1)
  BY <1>2
<1>4. (-x) \div e >= c
  <2> DEFINE q == (-x) \div e
  <2>1. q \in Int /\ e * c < e * (q + 1)
    BY <1>2, <1>3
  <2> HIDE DEF q
  <2>2. q >= c
    <3>1. SUFFICES ASSUME q < c PROVE FALSE
      BY <2>1
    <3>2. q + 1 <= c
      BY <2>1, <3>1
    <3>3. e * (q + 1) <= e * c
      BY <2>1, <3>2
    <3>4. QED
      BY <2>1, <3>3
  <2>3. QED
    BY <2>2 DEF q
<1>5. QED
  BY <1>2, <1>3, <1>4 DEF Truncated

\* A long at its liquidation price, or at a lower one, has lost its collateral.
LEMMA LongFalls ==
    ASSUME NEW p \in Position, p.side = "long", p.entry_price # 0, NEW price \in Nat,
           price <= LiquidationPrice(p)
    PROVE  Pnl(p, price) <= -p.collateral
<1> DEFINE c == p.collateral
           e == p.entry_price
           l == p.leverage
<1>1. c \in Nat \ {0} /\ e \in Nat \ {0} /\ l \in 1 .. 10
  BY DEF Position
<1>2. price <= (e * (((l - 1) * 1000) \div l)) \div 1000
  BY DEF LiquidationPrice, LiquidationFactor
<1>3. Pnl(p, price) = Truncated((price - e) * (c * l), e)
  BY DEF Pnl, Favour, EffectiveSize
<1> HIDE DEF c, e, l
<1>4. l * (price - e) <= -e
  BY <1>1, <1>2, FallsFar
<1>5. (price - e) * (c * l) \in Int /\ (price - e) * (c * l) <= -(c * e)
  <2> DEFINE y == l * (price - e)
  <2>1. y \in Int /\ y <= -e
    BY <1>1, <1>4
  <2>2. (price - e) * (c * l) = c * y
    BY <1>1
  <2> HIDE DEF y
  <2>3. c * y \in Int /\ c * y <= c * (-e)
    BY <1>1, <2>1
  <2>4. c * (-e) = -(c * e)
    BY <1>1
  <2>5. QED
    BY <2>2, <2>3, <2>4
<1>6. Truncated((price - e) * (c * l), e) <= -c
  BY <1>1, <1>5, LossDivided
<1>7. QED
  BY <1>3, <1>6 DEF c

\* The liquidation price of a long is one at which it is liquidated, whatever its
\* leverage and its entry price, in spite of the two divisions that compute it.
THEOREM LongsAlwaysFall == PositionSpec => []LongsFallAtLiquidationPrice
<1>1. PositionTypeOK => LongsFallAtLiquidationPrice
  <2> SUFFICES ASSUME PositionTypeOK, NEW id \in WithEntryPrice, positions[id].side = "long",
                      NEW price \in {LiquidationPrice(positions[id])} \cup ExitPrices,
                      price <= LiquidationPrice(positions[id])
               PROVE  Pnl(positions[id], price) <= -positions[id].collateral
    BY DEF LongsFallAtLiquidationPrice
  <2> DEFINE p == positions[id]
  <2>1. p \in Position /\ p.entry_price # 0
    BY DEF WithEntryPrice, PositionTypeOK
  <2>2. LiquidationPrice(p) \in Nat
    <3> DEFINE f == ((p.leverage - 1) * 1000) \div p.leverage
    <3>1. p.leverage \in 1 .. 10 /\ p.entry_price \in Nat
      BY <2>1 DEF Position
    <3>2. f \in Nat
      BY <3>1, LongFactor
    <3>3. LiquidationPrice(p) = (p.entry_price * f) \div 1000
      BY DEF LiquidationPrice, LiquidationFactor
    <3> HIDE DEF f
    <3>4. p.entry_price * f \in Nat
      BY <3>1, <3>2
    <3>5. QED
      BY <3>3, <3>4
  <2>3. price \in Nat
    BY <2>2, PositionNumbers DEF PositionNumbers
  <2>4. QED
    BY <2>1, <2>3, LongFalls
<1>2. QED
  BY <1>1, TypeCorrect, PTL

-----------------------------------------------------------------------------
\* The block time is the only thing that a deploy to one contract, or a new
\* block, changes for the others.
LEMMA OnlyTimePasses ==
    /\ OracleNext => Tick \/ UNCHANGED blocktime
    /\ FactoryNext => Tick \/ UNCHANGED blocktime
<1>1. OracleNext => Tick \/ UNCHANGED blocktime
  BY DEF OracleNext, RegisterValidator, SubmitPrice, AggregatePrices, SlashValidator,
         UpdateOracleConfig, InitRealtimePrice, UpdateRealtimePrice, OracleTick
<1>2. FactoryNext => Tick \/ UNCHANGED blocktime
  BY DEF FactoryNext, CreateDailyMarket, SettleMarket, UpdateConfig, CreateContinuousPerp,
         UpdatePerpPrice, PayFunding, FactoryTick
<1>3. QED
  BY <1>1, <1>2

\* The composition implements the specification of each of the three contracts,
\* so that what is proved of one of them holds in the composition.
THEOREM TradingKeepsItsParts == TradingSpec => OracleSpec /\ FactorySpec /\ PositionSpec
<1>1. TradingInit => OracleInit /\ FactoryInit /\ PositionInit
  BY DEF TradingInit
<1>2. [TradingNext]_tradingVars => [OracleNext]_oracleVars
  <2>1. UNCHANGED tradingVars => UNCHANGED oracleVars
    BY DEF tradingVars, oracleVars
  <2>2. FactoryNext /\ UNCHANGED oracleState => [OracleNext]_oracleVars
    BY OnlyTimePasses DEF OracleNext, OracleTick, oracleVars
  <2>3. UNCHANGED <<blocktime, oracleState>> => UNCHANGED oracleVars
    BY DEF oracleVars
  <2> QED
    BY <2>1, <2>2, <2>3 DEF TradingNext
<1>3. [TradingNext]_tradingVars => [FactoryNext]_factoryVars
  <2>1. UNCHANGED tradingVars => UNCHANGED factoryVars
    BY DEF tradingVars, factoryVars
  <2>2. OracleNext /\ UNCHANGED factoryState => [FactoryNext]_factoryVars
    BY OnlyTimePasses DEF FactoryNext, FactoryTick, factoryVars
  <2>3. UNCHANGED <<blocktime, factoryState>> => UNCHANGED factoryVars
    BY DEF factoryVars
  <2> QED
    BY <2>1, <2>2, <2>3 DEF TradingNext
<1>4. [TradingNext]_tradingVars => [PositionNext]_positionVars
  <2>1. UNCHANGED tradingVars => UNCHANGED positionVars
    BY DEF tradingVars
  <2> QED
    BY <2>1 DEF TradingNext
<1> QED
  BY <1>1, <1>2, <1>3, <1>4, PTL DEF TradingSpec, OracleSpec, FactorySpec, PositionSpec
=============================================================================
