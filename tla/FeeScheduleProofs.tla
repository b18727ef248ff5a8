---------------------------- MODULE FeeScheduleProofs -----------------------
(***************************************************************************)
(* Proofs about the fee schedule resolver of module FeeSchedule, for     *)
(* every value of the constants: where the scan of get_latest_trade_bps  *)
(* stops, that it returns a u16, and that on a curve with ascending      *)
(* points it computes the reference fee of spec.md 4.4 wherever the      *)
(* blend's u64 numerator does not overflow.                               *)
(***************************************************************************)
EXTENDS FeeSchedule, WellFoundedInduction, TLAPS

USE U64MaxAssumption, U16MaxAssumption, FeeCurvePointNumberAssumption

(***************************************************************************)
(* A non-empty set of naturals holds its minimum (FiniteSetsExt's Min),   *)
(* from the well-foundedness of < on Nat.  The scan of the fee curve      *)
(* (get_latest_trade_bps) stops at this minimum.                          *)
(***************************************************************************)
LEMMA MinOfNats ==
    ASSUME NEW S, S \subseteq Nat, S # {}
    PROVE  Min(S) \in S /\ \A y \in S : Min(S) <= y
<1>1. PICK x \in S : \A y \in S : ~(<<y, x>> \in OpToRel(<, Nat))
  BY NatLessThanWellFounded, WFMin
<1>2. \A y \in S : y < x => <<y, x>> \in OpToRel(<, Nat)
  BY DEF OpToRel
<1>3. \A y \in S : x <= y
  <2> SUFFICES ASSUME NEW y \in S PROVE x <= y
    OBVIOUS
  <2>1. ~(y < x)
    BY <1>1, <1>2, Zenon
  <2> QED
    BY <2>1
<1> QED
  BY <1>3 DEF Min


(***************************************************************************)
(* Where the scan of get_latest_trade_bps stops (lines 273-275): at an    *)
(* index of the curve whose point is at or past t, and, unless it is the  *)
(* first, with the previous point strictly before t.  So the segment the  *)
(* code interpolates over is never empty and `current_point - a` and      *)
(* `b - current_point` never underflow, whatever the order of the points. *)
(***************************************************************************)
LEMMA ScanStop ==
    ASSUME NEW fc \in FeeCurveStateType, NEW t \in Nat,
           Activated(fc.points, t) # {}
    PROVE  LET i == Min(Activated(fc.points, t))
           IN  /\ i \in PointIndex
               /\ fc.points[i].activatedPoint >= t
               /\ i # 0 => /\ i - 1 \in PointIndex
                           /\ fc.points[i - 1].activatedPoint < t
<1> DEFINE A == Activated(fc.points, t)
           i == Min(A)
<1>1. A \subseteq Nat
  BY DEF Activated, PointIndex
<1>2. i \in A /\ \A y \in A : i <= y
  BY <1>1, MinOfNats
<1>3. i \in PointIndex /\ fc.points[i].activatedPoint >= t
  BY <1>2 DEF Activated
<1>4. ASSUME i # 0 PROVE i - 1 \in PointIndex
  BY <1>3, <1>4 DEF PointIndex
<1>5. ASSUME i # 0 PROVE fc.points[i - 1].activatedPoint < t
  <2>1. fc.points[i - 1].activatedPoint \in Nat
    BY <1>4, <1>5 DEF FeeCurveStateType, FeeCurvePointType, U64
  <2>2. ~(i - 1 \in A)
    BY <1>2, <1>3, <1>5 DEF PointIndex
  <2> QED
    BY <1>4, <1>5, <2>1, <2>2 DEF Activated
<1> QED
  BY <1>3, <1>4, <1>5

(* the closure get_latest_trade_bps returns a u16 *)
LEMMA LatestTradeBpsType ==
    ASSUME NEW fc \in FeeCurveStateType, NEW t \in Nat
    PROVE  GetLatestTradeBps(fc, t) \in U16
<1> DEFINE P == fc.points
           i == Min(Activated(P, t))
<1>1. \A j \in PointIndex : P[j].activatedPoint \in U64 /\ P[j].feeBps \in U16
  BY DEF FeeCurveStateType, FeeCurvePointType
<1>2. CASE Activated(P, t) = {}
  <2>1. LastPoint \in PointIndex
    BY DEF LastPoint, PointIndex
  <2> QED
    BY <1>1, <1>2, <2>1 DEF GetLatestTradeBps
<1>3. CASE Activated(P, t) # {} /\ i = 0
  BY <1>1, <1>3, ScanStop DEF GetLatestTradeBps
<1>4. CASE Activated(P, t) # {} /\ i # 0 /\ fc.feeCurveType = "Flat"
  BY <1>1, <1>4, ScanStop DEF GetLatestTradeBps
<1>5. CASE Activated(P, t) # {} /\ i # 0 /\ fc.feeCurveType # "Flat"
  <2>1. i \in PointIndex /\ i - 1 \in PointIndex
        /\ P[i - 1].activatedPoint < t /\ t <= P[i].activatedPoint
    BY <1>5, ScanStop
  <2>2. InterpolationNumerator(P, i, t) \in Nat
    <3>1. /\ P[i].feeBps \in Nat /\ P[i - 1].feeBps \in Nat
          /\ t - P[i - 1].activatedPoint \in Nat
          /\ P[i].activatedPoint - t \in Nat
      BY <1>1, <2>1 DEF U64, U16
    <3> QED
      BY <3>1 DEF InterpolationNumerator
  <2>3. LinearBps(P, i, t) \in U16
    BY <1>1, <2>1, <2>2 DEF LinearBps, U64, U16
  <2> QED
    BY <1>5, <2>3 DEF GetLatestTradeBps
<1> QED
  BY <1>2, <1>3, <1>4, <1>5


-----------------------------------------------------------------------------
(* The scan against the reference of spec.md 4.4 *)

(* ascending adjacent points are ascending along the whole curve; the    *)
(* least index past a counterexample would break adjacency               *)
LEMMA SortedOrder ==
    ASSUME NEW P \in [PointIndex -> FeeCurvePointType], SortedPoints(P),
           NEW i \in PointIndex, NEW k \in PointIndex, i <= k
    PROVE  P[i].activatedPoint <= P[k].activatedPoint
<1>0. \A j \in PointIndex : P[j].activatedPoint \in Nat
  BY DEF FeeCurvePointType, U64
<1> SUFFICES ASSUME P[k].activatedPoint < P[i].activatedPoint PROVE FALSE
  BY <1>0
<1> DEFINE B == {j \in i..k : P[j].activatedPoint <= P[k].activatedPoint}
           m == Min(B)
<1>1. B \subseteq Nat /\ k \in B /\ i \notin B
  BY <1>0 DEF PointIndex
<1>2. m \in B /\ \A y \in B : m <= y
  BY <1>1, MinOfNats
<1>3. m # i /\ m \in PointIndex \ {0} /\ m - 1 \in i..k
  <2>1. m \in i..k /\ m # i
    BY <1>1, <1>2
  <2>. QED
    BY <2>1 DEF PointIndex
<1>4. P[k].activatedPoint < P[m - 1].activatedPoint
  <2>1. m - 1 \notin B
    BY <1>2, <1>3
  <2>2. m - 1 \in PointIndex
    BY <1>3 DEF PointIndex
  <2>. QED
    BY <1>0, <2>1, <2>2, <1>3
<1>5. P[m - 1].activatedPoint <= P[m].activatedPoint
  BY <1>3 DEF SortedPoints
<1>. QED
  BY <1>0, <1>2, <1>3, <1>4, <1>5 DEF PointIndex

(* the exact blend of two u16 fees over a non-empty segment is a u16 *)
LEMMA BlendBound ==
    ASSUME NEW n \in 0..U16Max, NEW m \in 0..U16Max,
           NEW a \in Nat, NEW b \in Nat, NEW t \in Nat, a < t, t <= b
    PROVE  /\ n * (t - a) + m * (b - t) \in Nat
           /\ (n * (t - a) + m * (b - t)) \div (b - a) \in 0..U16Max
<1>1. PICK x \in Nat : x = t - a
  OBVIOUS
<1>2. PICK y \in Nat : y = b - t
  OBVIOUS
<1>3. PICK d \in Nat \ {0} : d = b - a /\ d = x + y
  BY <1>1, <1>2
<1>4. PICK N \in Nat : N = n * x + m * y
  OBVIOUS
<1>5. N <= U16Max * d
  <2>1. n * x <= U16Max * x /\ m * y <= U16Max * y
    OBVIOUS
  <2>. QED
    BY <1>3, <1>4, <2>1
<1>6. PICK q \in Nat : q = N \div d
  OBVIOUS
<1>7. q * d <= N
  BY <1>6
<1>8. q <= U16Max
  <2> SUFFICES ASSUME q > U16Max PROVE FALSE
    OBVIOUS
  <2>1. (U16Max + 1) * d <= q * d
    OBVIOUS
  <2>. QED
    BY <1>5, <1>7, <2>1
<1>. QED
  BY <1>1, <1>2, <1>3, <1>4, <1>6, <1>8


(***************************************************************************)
(* On a curve with ascending points, get_latest_trade_bps (lines 264-300) *)
(* returns the reference fee of spec.md 4.4 wherever the Linear blend's   *)
(* u64 numerator does not overflow: the scan stops at the first point at *)
(* or past t, which is the right end of the one segment (a, b] holding t, *)
(* and then neither the u64 wrap nor the `as u16` cast changes the blend. *)
(***************************************************************************)
THEOREM LatestTradeBpsMatchesReference ==
    ASSUME NEW fc \in FeeCurveStateType, NEW t \in Nat,
           fc.feeCurveType # "None", SortedPoints(fc.points),
           ~InterpolationOverflows(fc, t)
    PROVE  GetLatestTradeBps(fc, t) = ReferenceTradeBps(fc, t)
<1> DEFINE P == fc.points
           A == Activated(P, t)
           i == Min(A)
<1>0. /\ P \in [PointIndex -> FeeCurvePointType]
      /\ \A j \in PointIndex : /\ P[j].activatedPoint \in Nat
                               /\ P[j].feeBps \in 0..U16Max
      /\ 0 \in PointIndex /\ LastPoint \in PointIndex
      /\ A \subseteq Nat
  BY DEF FeeCurveStateType, FeeCurvePointType, U64, U16, PointIndex, LastPoint,
         Activated
<1>1. CASE t <= P[0].activatedPoint
  <2>1. 0 \in A
    BY <1>0, <1>1 DEF Activated
  <2>2. i = 0
    BY <1>0, <2>1, MinOfNats
  <2>. QED
    BY <1>1, <2>1, <2>2 DEF GetLatestTradeBps, ReferenceTradeBps
<1>2. CASE P[LastPoint].activatedPoint < t
  <2>1. A = {}
    <3> SUFFICES ASSUME NEW k \in A PROVE FALSE
      OBVIOUS
    <3>1. k \in PointIndex /\ P[k].activatedPoint >= t
      BY DEF Activated
    <3>2. P[k].activatedPoint <= P[LastPoint].activatedPoint
      <4>1. k <= LastPoint
        BY <3>1 DEF PointIndex, LastPoint
      <4>. QED
        BY <1>0, <3>1, <4>1, SortedOrder
    <3>. QED
      BY <1>0, <1>2, <3>1, <3>2
  <2>2. ~(t <= P[0].activatedPoint) /\ t > P[LastPoint].activatedPoint
    <3>1. 0 <= LastPoint
      BY DEF LastPoint
    <3>2. P[0].activatedPoint <= P[LastPoint].activatedPoint
      BY <1>0, <3>1, SortedOrder
    <3>. QED
      BY <1>0, <1>2, <3>2
  <2>3. GetLatestTradeBps(fc, t) = P[LastPoint].feeBps
    BY <2>1 DEF GetLatestTradeBps
  <2>4. ReferenceTradeBps(fc, t) = P[LastPoint].feeBps
    BY <2>2 DEF ReferenceTradeBps
  <2>. QED
    BY <2>3, <2>4
<1>3. CASE P[0].activatedPoint < t /\ t <= P[LastPoint].activatedPoint
  <2>1. A # {} /\ 0 \notin A
    BY <1>0, <1>3 DEF Activated
  <2>2. i # 0
    BY <1>0, <2>1, MinOfNats
  <2>3. /\ i \in PointIndex /\ i - 1 \in PointIndex
        /\ P[i - 1].activatedPoint < t /\ t <= P[i].activatedPoint
    BY <2>1, <2>2, ScanStop
  <2> DEFINE Seg(j) == P[j - 1].activatedPoint < t /\ t <= P[j].activatedPoint
             j == CHOOSE j \in PointIndex \ {0} : Seg(j)
  <2>4. j \in PointIndex \ {0} /\ Seg(j)
    BY <2>2, <2>3
  <2>5. j = i
    <3>1. j \in A
      BY <2>4 DEF Activated
    <3>2. i <= j
      BY <1>0, <3>1, MinOfNats
    <3>3. ~(i < j)
      <4> SUFFICES ASSUME i < j PROVE FALSE
        OBVIOUS
      <4>1. i <= j - 1 /\ j - 1 \in PointIndex
        BY <2>3, <2>4 DEF PointIndex
      <4>2. P[i].activatedPoint <= P[j - 1].activatedPoint
        BY <1>0, <2>3, <4>1, SortedOrder
      <4>3. P[j - 1].activatedPoint < t
        BY <2>4 DEF Seg
      <4>4. P[i].activatedPoint \in Nat /\ P[j - 1].activatedPoint \in Nat
        BY <1>0, <2>3, <4>1
      <4>. QED
        BY <2>3, <4>2, <4>3, <4>4
    <3>. QED
      BY <2>3, <2>4, <3>2, <3>3 DEF PointIndex
  <2>6. ReferenceTradeBps(fc, t)
          = IF fc.feeCurveType = "Flat" THEN P[i - 1].feeBps
            ELSE (P[i].feeBps * (t - P[i - 1].activatedPoint)
                    + P[i - 1].feeBps * (P[i].activatedPoint - t))
                 \div (P[i].activatedPoint - P[i - 1].activatedPoint)
    <3>1. ~(t <= P[0].activatedPoint) /\ ~(t > P[LastPoint].activatedPoint)
      BY <1>0, <1>3
    <3>2. ReferenceTradeBps(fc, t)
            = IF fc.feeCurveType = "Flat" THEN P[j - 1].feeBps
              ELSE (P[j].feeBps * (t - P[j - 1].activatedPoint)
                      + P[j - 1].feeBps * (P[j].activatedPoint - t))
                   \div (P[j].activatedPoint - P[j - 1].activatedPoint)
      BY <3>1, Zenon DEF ReferenceTradeBps, Seg, j, P
    <3>. QED
      BY <3>2, <2>5
  <2>7. CASE fc.feeCurveType = "Flat"
    BY <2>1, <2>2, <2>6, <2>7 DEF GetLatestTradeBps
  <2>8. CASE fc.feeCurveType # "Flat"
    <3>1. fc.feeCurveType = "Linear"
      BY <2>8 DEF FeeCurveStateType, FeeCurveKinds
    <3>2. P[i].activatedPoint # P[i - 1].activatedPoint
      BY <1>0, <2>3
    <3>4. /\ InterpolationNumerator(P, i, t) \in Nat
          /\ InterpolationNumerator(P, i, t)
               \div (P[i].activatedPoint - P[i - 1].activatedPoint) \in 0..U16Max
      BY <1>0, <2>3, BlendBound DEF InterpolationNumerator
    <3>3. InterpolationNumerator(P, i, t) <= U64Max
      <4>1. ~(InterpolationNumerator(P, i, t) > U64Max)
        BY <2>1, <2>2, <3>1, <3>2, Zenon DEF InterpolationOverflows
      <4>. QED
        BY <3>4, <4>1
    <3>5. LinearBps(P, i, t)
            = InterpolationNumerator(P, i, t)
                \div (P[i].activatedPoint - P[i - 1].activatedPoint)
      <4> DEFINE N == InterpolationNumerator(P, i, t)
                 d == P[i].activatedPoint - P[i - 1].activatedPoint
      <4>1. N % (U64Max + 1) = N
        BY <3>3, <3>4
      <4>2. (N \div d) % (U16Max + 1) = N \div d
        BY <3>4
      <4>. QED
        <5>1. d # 0
          BY <1>0, <2>3, <3>2
        <5>. QED
          BY <5>1, <4>1, <4>2 DEF LinearBps
    <3>. QED
      BY <2>1, <2>2, <2>6, <2>8, <3>5 DEF GetLatestTradeBps, InterpolationNumerator
  <2>. QED
    BY <2>7, <2>8
<1>. QED
  BY <1>0, <1>1, <1>2, <1>3 DEF PointIndex, LastPoint


=============================================================================
