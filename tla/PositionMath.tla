---------------------------- MODULE PositionMath ----------------------------
(***************************************************************************)
(* The arithmetic of a position, contracts/position-manager/src/lib.rs: a  *)
(* profit is a positive amount and a loss a negative one, where the code   *)
(* has an amount and a flag.  effective_size is set once, to collateral    *)
(* times leverage.  An amount that is cast from u128 to i128 wraps; a      *)
(* cast from U512 to u128, a product, a sum and a negation that does not   *)
(* fit panics, which the ...Fits operators say.                            *)
(***************************************************************************)
EXTENDS Arithmetic

CONSTANTS
    MaxI128,            \* the largest i128
    MaxU512             \* the largest U512

MaxU128 == 2 * MaxI128 + 1

ASSUME PositionWidths ==
    /\ MaxI128 \in Nat \ {0} /\ MaxU512 \in Nat
    /\ MaxU128 <= MaxU512

I128 == -(MaxI128 + 1) .. MaxI128

Sides == {"long", "short"}
Modes == {"daily", "continuous"}

\* "as i128", of a u128.
AsI128(n) == IF n <= MaxI128 THEN n ELSE n - (MaxU128 + 1)

EffectiveSize(p) == p.collateral * p.leverage

\* How far a price has moved in favour of a position.
Favour(p, price) ==
    IF p.side = "long" THEN price - p.entry_price ELSE p.entry_price - price

\* Mutant: the amount is rounded down, not towards zero.
PnlFloored(p, price) == (Favour(p, price) * EffectiveSize(p)) \div p.entry_price

\* calculate_pnl
Pnl(p, price) == Truncated(Favour(p, price) * EffectiveSize(p), p.entry_price)

\* It panics on an entry price of zero.
PnlFits(p, price) ==
    /\ p.entry_price # 0
    /\ price <= MaxU128
    /\ Distance(price, p.entry_price) * EffectiveSize(p) <= MaxU512

\* The amount is cast, then gets its sign: more than MaxI128 changes sides.
CastPnl(p, price) ==
    IF Pnl(p, price) < 0 THEN -AsI128(-Pnl(p, price)) ELSE AsI128(Pnl(p, price))

\* calculate_pnl_with_funding
PnlWithFunding(p, price) ==
    IF p.settlement_mode = "daily" THEN Pnl(p, price)
    ELSE CastPnl(p, price) + p.accumulated_funding

PnlWithFundingFits(p, price) ==
    /\ PnlFits(p, price)
    /\ p.settlement_mode = "continuous" =>
          /\ Distance(Pnl(p, price), 0) <= MaxU128
          /\ CastPnl(p, price) \in I128
          /\ PnlWithFunding(p, price) \in -MaxI128 .. MaxI128

\* Mutant: a loss of just the collateral does not liquidate.
IsLiquidatedLate(p, price) == PnlWithFunding(p, price) < -p.collateral

IsLiquidated(p, price) == PnlWithFunding(p, price) <= -p.collateral

\* Mutant: the long's factor is rounded up.
LiquidationFactorRoundedUp(p) ==
    IF p.side = "long" THEN ((p.leverage - 1) * 1000) \div p.leverage + 1
    ELSE ((p.leverage + 1) * 1000) \div p.leverage

\* In thousandths of the entry price.
LiquidationFactor(p) ==
    IF p.side = "long" THEN ((p.leverage - 1) * 1000) \div p.leverage
    ELSE ((p.leverage + 1) * 1000) \div p.leverage

LiquidationPrice(p) == (p.entry_price * LiquidationFactor(p)) \div 1000

LiquidationPriceFits(p) ==
    p.entry_price <= MaxU128 /\ p.entry_price * LiquidationFactor(p) <= MaxU128

\* The payment of a long, in whole units; the size is cast.
FundingPayment(p, rate) == Truncated(AsI128(EffectiveSize(p)) * rate, BasisPoints)

\* What the position receives, negative when it pays: longs pay a positive rate.
FundingReceived(p, rate) ==
    IF p.side = "long" THEN -FundingPayment(p, rate) ELSE FundingPayment(p, rate)

FundingFits(p, rate) ==
    /\ EffectiveSize(p) <= MaxU128
    /\ AsI128(EffectiveSize(p)) * rate \in I128
    /\ p.accumulated_funding + FundingReceived(p, rate) \in I128

\* Mutant: a closed position is charged too.
TakesFundingWhenClosed(p) == p.settlement_mode = "continuous"

\* apply_funding returns early for a daily and for a closed position.
TakesFunding(p) == p.settlement_mode = "continuous" /\ ~ p.is_closed

Funded(p, rate) ==
    [p EXCEPT !.accumulated_funding = @ + FundingReceived(p, rate),
              !.funding_payments_count = @ + 1]
=============================================================================
