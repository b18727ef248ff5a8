---------------------------- MODULE FeeSchedule ----------------------------
(***************************************************************************)
(* The fee schedule resolver: get_latest_pool_fees of                      *)
(* src/dynamic-amm-quote/src/lib.rs, and the fee charges of PoolFees that  *)
(* the quote applies with the fees it resolves.                            *)
(***************************************************************************)
EXTENDS FixedPoint, FiniteSetsExt

CONSTANT FeeCurvePointNumber   \* prog_dynamic_amm::constants::FEE_CURVE_POINT_NUMBER

ASSUME FeeCurvePointNumberAssumption == FeeCurvePointNumber \in Nat \ {0}

PointIndex == 0..(FeeCurvePointNumber - 1)
LastPoint == FeeCurvePointNumber - 1

(* the literal 10 of `u64::from(latest_trade_fee_bps).checked_mul(10)`:   *)
(* basis points to a numerator over the pool's trade fee denominator      *)
FeeBpsScale == 10

PoolFeesType ==
    [tradeFeeNumerator : U64, tradeFeeDenominator : U64,
     protocolTradeFeeNumerator : U64, protocolTradeFeeDenominator : U64]

FeeCurvePointType == [activatedPoint : U64, feeBps : U16]

FeeCurveKinds == {"None", "Flat", "Linear"}   \* FeeCurveType

FeeCurveStateType ==
    [feeCurveType : FeeCurveKinds, points : [PointIndex -> FeeCurvePointType]]

(***************************************************************************)
(* get_latest_trade_bps (the closure in get_latest_pool_fees).  The loop  *)
(* `for i in 0..FEE_CURVE_POINT_NUMBER` stops at the first point whose     *)
(* activated_point >= current_point; Activated is the set it can stop at. *)
(***************************************************************************)
Activated(points, t) == {i \in PointIndex : points[i].activatedPoint >= t}

(* the exact value of `n * (current_point - a) + m * (b - current_point)` *)
InterpolationNumerator(points, i, t) ==
    points[i].feeBps * (t - points[i - 1].activatedPoint)
      + points[i - 1].feeBps * (points[i].activatedPoint - t)

(* The linear branch computes its numerator with unchecked u64 `*` and    *)
(* `+`.  A release build (overflow-checks off) wraps modulo 2^64; the     *)
(* quotient is then truncated to u16 by `as u16`.                          *)
LinearBps(points, i, t) ==
    LET denominator == points[i].activatedPoint - points[i - 1].activatedPoint
    IN  IF denominator = 0 THEN points[i - 1].feeBps
        ELSE ((InterpolationNumerator(points, i, t) % (U64Max + 1))
                 \div denominator) % (U16Max + 1)

(* Mutant for the checks: a Flat curve takes the fee of the point it     *)
(* stopped at instead of the previous one.                                 *)
GetLatestTradeBpsFlatAhead(curve, t) ==
    LET points == curve.points
        i == Min(Activated(points, t))
    IN  IF Activated(points, t) = {} THEN points[LastPoint].feeBps
        ELSE IF i = 0 THEN points[0].feeBps
        ELSE IF curve.feeCurveType = "Flat" THEN points[i].feeBps
        ELSE LinearBps(points, i, t)

GetLatestTradeBps(curve, t) ==
    LET points == curve.points
        i == Min(Activated(points, t))
    IN  IF Activated(points, t) = {} THEN points[LastPoint].feeBps
        ELSE IF i = 0 THEN points[0].feeBps
        ELSE IF curve.feeCurveType = "Flat" THEN points[i - 1].feeBps
        ELSE LinearBps(points, i, t)

(* A debug build (overflow-checks on) panics where a release build wraps: *)
(* the linear branch is taken and its numerator exceeds u64.              *)
InterpolationOverflows(curve, t) ==
    LET points == curve.points
        i == Min(Activated(points, t))
    IN  /\ Activated(points, t) # {}
        /\ i # 0
        /\ curve.feeCurveType = "Linear"
        /\ points[i].activatedPoint # points[i - 1].activatedPoint
        /\ InterpolationNumerator(points, i, t) > U64Max

(***************************************************************************)
(* get_latest_pool_fees: the stored fees when there is no fee curve or    *)
(* its schedule is complete, else the stored fees with the trade fee      *)
(* numerator taken from the curve at current_point.  None is the          *)
(* `.context("Overflow")?` of the checked_mul.                            *)
(***************************************************************************)
GetLatestPoolFees(fees, curve, isUpdateFeeCompleted, t) ==
    IF curve.feeCurveType = "None" \/ isUpdateFeeCompleted THEN fees
    ELSE LET numerator == GetLatestTradeBps(curve, t) * FeeBpsScale
         IN  IF numerator > U64Max THEN None
             ELSE [fees EXCEPT !.tradeFeeNumerator = numerator]

(***************************************************************************)
(* PoolFees::trading_fee and PoolFees::protocol_trading_fee (program      *)
(* crate, not under src/; modelled from spec.md 4.5 step 5 and 4.1): the  *)
(* amount times the numerator over the denominator, in u128, truncated;   *)
(* None on a zero denominator.  The operands are at most u64 wide, so the *)
(* u128 product cannot overflow.                                          *)
(***************************************************************************)
CalculateFee(amount, numerator, denominator) ==
    IF denominator = 0 THEN None ELSE (amount * numerator) \div denominator

(***************************************************************************)
(* Reference for the fee curve (spec.md 4.4), stated over the segment     *)
(* that contains t rather than by a scan: before the first point its fee, *)
(* past the last point its fee, and inside a segment (a, b] the earlier    *)
(* point's fee (Flat) or the exact linear blend, truncated (Linear).       *)
(* It speaks of curves whose points are in ascending order, as the pool's *)
(* fee curve points are.                                                   *)
(***************************************************************************)
SortedPoints(points) ==
    \A i \in PointIndex \ {0} :
        points[i - 1].activatedPoint <= points[i].activatedPoint

ReferenceTradeBps(curve, t) ==
    LET P == curve.points
    IN  IF t <= P[0].activatedPoint THEN P[0].feeBps
        ELSE IF t > P[LastPoint].activatedPoint THEN P[LastPoint].feeBps
        ELSE LET j == CHOOSE j \in PointIndex \ {0} :
                          P[j - 1].activatedPoint < t /\ t <= P[j].activatedPoint
                 a == P[j - 1].activatedPoint
                 b == P[j].activatedPoint
             IN  IF curve.feeCurveType = "Flat" THEN P[j - 1].feeBps
                 ELSE (P[j].feeBps * (t - a) + P[j - 1].feeBps * (b - t)) \div (b - a)

=============================================================================
