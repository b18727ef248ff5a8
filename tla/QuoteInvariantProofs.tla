------------------------ MODULE QuoteInvariantProofs ------------------------
(***************************************************************************)
(* More of the quote's invariants for every value of the constants.       *)
(* VirtualPriceBracketed: the virtual price of a depeg pool lies between  *)
(* the stake pool's withdraw and deposit prices; it rests on a fact of    *)
(* integer arithmetic and on the curve being the one                      *)
(* update_base_virtual_price wrote.  QuoteWithinFeeFreeSwap and           *)
(* QuoteConservation: what a quote pays is bounded by a fee-free swap and *)
(* by the out reserve; they rest on what the swap step stored (SwapInv).  *)
(* LatestFeesMatchReference: the fees resolved are the reference fee      *)
(* curve's.                                                                *)
(***************************************************************************)
EXTENDS QuoteRefinementProofs

-----------------------------------------------------------------------------
(* The virtual price of a staking derivative *)

(* with a plausible withdrawal fee (den > 10 * num) the withdraw price   *)
(* total * (den - num) * P / den / supply is at most the deposit price    *)
(* total * P / supply                                                     *)
LEMMA WithdrawBelowDeposit ==
    ASSUME NEW L \in Nat, NEW S \in Nat \ {0}, NEW num \in Nat,
           NEW den \in Nat, ~(den <= num * 10)
    PROVE  ((L * (den - num) * Precision) \div den) \div S
             <= (L * Precision) \div S
<1>1. den \in Nat \ {0} /\ den - num \in Nat /\ den - num <= den
  OBVIOUS
<1>2. PICK y \in Nat : y = L * Precision
  BY PrecisionAssumption
<1>3. PICK m \in Nat : m = L * (den - num)
  BY <1>1
<1>4. m <= L * den
  BY <1>1, <1>3
<1>5. PICK x \in Nat : x = m * Precision
  BY PrecisionAssumption
<1>6. x <= y * den
  <2>1. m * Precision <= (L * den) * Precision
    BY <1>4, PrecisionAssumption
  <2>2. (L * den) * Precision = y * den
    BY <1>2, PrecisionAssumption
  <2>. QED
    BY <1>5, <2>1, <2>2
<1>7. x \div den <= y
  <2>1. x \div den <= (y * den) \div den
    BY <1>1, <1>6, DivMonotone
  <2>2. (y * den) \div den = y
    BY <1>1, MulDivCancel
  <2>. QED
    BY <2>1, <2>2
<1>8. x \div den \in Nat
  BY <1>1
<1>9. (x \div den) \div S <= y \div S
  BY <1>7, <1>8, DivMonotone
<1>. QED
  BY <1>2, <1>3, <1>5, <1>9


(* a virtual price get_virtual_price returns lies between the withdraw    *)
(* price (when the fee is applied) and the deposit price                  *)
LEMMA VirtualPriceBounds ==
    ASSUME NEW s \in StakePoolType, GetVirtualPrice(s) # None
    PROVE  /\ DepositPrice(s) # None
           /\ GetVirtualPrice(s) <= DepositPrice(s)
           /\ ~WithdrawFeeImplausible(s)
                => WithdrawPrice(s) <= GetVirtualPrice(s)
<1>. DEFINE L == s.totalLamports
            S == s.poolTokenSupply
            num == s.withdrawFeeNumerator
            den == s.withdrawFeeDenominator
<1>1. L \in Nat /\ S \in Nat /\ num \in Nat /\ den \in Nat
  BY DEF StakePoolType, U64
<1>2. s # Undecodable /\ DepositPrice(s) # None
  BY DEF GetVirtualPrice
<1>3. S # 0 /\ DepositPrice(s) = (L * Precision) \div S
  BY <1>2 DEF DepositPrice
<1>4. PICK D \in Nat : DepositPrice(s) = D
  BY <1>1, <1>3, PrecisionAssumption
<1>5. CASE WithdrawFeeImplausible(s)
  <2>1. GetVirtualPrice(s) = Narrow64(D)
    BY <1>2, <1>4, <1>5 DEF GetVirtualPrice
  <2>2. GetVirtualPrice(s) = D
    BY <2>1 DEF Narrow64
  <2>. QED
    BY <1>2, <1>4, <1>5, <2>2
<1>6. CASE ~WithdrawFeeImplausible(s)
  <2>1. /\ WithdrawPrice(s) # None
        /\ GetVirtualPrice(s) = Narrow64((3 * D + WithdrawPrice(s)) \div 4)
    BY <1>2, <1>4, <1>6 DEF GetVirtualPrice
  <2>2. WithdrawPrice(s)
          = ((L * (den - num) * Precision) \div den) \div S
    BY <2>1 DEF WithdrawPrice
  <2>3. ~(den <= num * 10)
    BY <1>6 DEF WithdrawFeeImplausible
  <2>4. WithdrawPrice(s) <= D
    BY <1>1, <1>3, <1>4, <2>2, <2>3, WithdrawBelowDeposit
  <2>5. PICK W \in Nat : WithdrawPrice(s) = W
    <3>1. den \in Nat \ {0} /\ den - num \in Nat
      BY <1>1, <2>3
    <3>2. PICK m \in Nat : m = L * (den - num)
      BY <1>1, <3>1
    <3>3. PICK x \in Nat : x = m * Precision
      BY PrecisionAssumption
    <3>4. (x \div den) \div S \in Nat
      BY <1>1, <1>3, <3>1, <3>3
    <3>. QED
      BY <2>2, <3>2, <3>3, <3>4
  <2>6. GetVirtualPrice(s) = (3 * D + W) \div 4
    BY <2>1, <2>5 DEF Narrow64
  <2>7. (3 * D + W) \div 4 <= D /\ W <= (3 * D + W) \div 4
    BY <2>4, <2>5
  <2>. QED
    BY <1>2, <1>4, <2>5, <2>6, <2>7
<1>. QED
  BY <1>5, <1>6


(***************************************************************************)
(* The strengthening: once past line 93 the quote's curve is the one      *)
(* update_base_virtual_price wrote for the pool's stored curve, the       *)
(* clock and the stake account, and no later step writes it.              *)
(***************************************************************************)
CurveWritten ==
    pc \in PriceUpdated =>
        curve = UpdateBaseVirtualPrice(pool.curveType, clock.unixTimestamp, stake)

LEMMA CurveWrittenInit == Init => CurveWritten
BY DEF Init, CurveWritten, PriceUpdated, Steps

LEMMA CurveWrittenStep == CurveWritten /\ [Next]_vars => CurveWritten'
<1> SUFFICES ASSUME CurveWritten, [Next]_vars PROVE CurveWritten'
  OBVIOUS
<1>1. UNCHANGED <<pool, clock, stake>>
  BY SnapshotFixed DEF snapshot
<1>2. CASE UpdateVirtualPrice
  BY <1>1, <1>2 DEF UpdateVirtualPrice, Fail, CurveWritten, PriceUpdated, Steps
<1>3. CASE ~UpdateVirtualPrice
  <2>1. pc' \in PriceUpdated => pc \in PriceUpdated /\ UNCHANGED curve
    BY <1>3 DEF Next, vars, locals, CheckActivation, CheckMint, Reserves,
                ResolveFees, ChargeFees, SimulateDeposit, DeductTradeFee,
                Swap, ConvertOut, CheckReserve, Fail, PriceUpdated, Steps
  <2>. QED
    BY <1>1, <2>1 DEF CurveWritten
<1>. QED
  BY <1>2, <1>3

(* the curve update leaves a curve that is not a depeg one as it is, and  *)
(* gives a depeg one the price get_virtual_price returns                 *)
LEMMA WrittenPrice ==
    ASSUME TypeOK, CurveWritten, pc \in PriceUpdated,
           curve.kind = "Stable", curve.depegType # "None",
           GetVirtualPrice(stake) # None
    PROVE  curve.baseVirtualPrice = GetVirtualPrice(stake)
<1>1. pool.curveType \in CurveConfigType
  BY DEF TypeOK, PoolType
<1>2. CASE pool.curveType.kind = "Stable" /\ pool.curveType.depegType # "None"
  BY <1>1, <1>2 DEF CurveWritten, UpdateBaseVirtualPrice, DepegCurve, CurveConfigType
<1>3. CASE ~(pool.curveType.kind = "Stable" /\ pool.curveType.depegType # "None")
  BY <1>3 DEF CurveWritten, UpdateBaseVirtualPrice, DepegCurve
<1>. QED
  BY <1>2, <1>3

(* The virtual price of a depeg pool, written into the quote's curve by   *)
(* update_base_virtual_price from get_virtual_price (src lines 92-93 and  *)
(* depeg/spl_stake.rs), is never above the stake pool's deposit price     *)
(* and, when the withdrawal fee is applied, never below its withdraw      *)
(* price: in every reachable state, for every value of the constants.     *)
THEOREM VirtualPriceBracketedHolds == Spec => []VirtualPriceBracketed
<1>1. TypeOK /\ CurveWritten => VirtualPriceBracketed
  <2> SUFFICES ASSUME TypeOK, CurveWritten, pc \in PriceUpdated,
                      curve.kind = "Stable", curve.depegType # "None",
                      stake # Undecodable, GetVirtualPrice(stake) # None
               PROVE  /\ curve.baseVirtualPrice <= DepositPrice(stake)
                      /\ ~WithdrawFeeImplausible(stake)
                           => WithdrawPrice(stake) <= curve.baseVirtualPrice
    BY DEF VirtualPriceBracketed
  <2>1. stake \in StakePoolType
    BY DEF TypeOK
  <2>2. curve.baseVirtualPrice = GetVirtualPrice(stake)
    BY WrittenPrice
  <2>. QED
    BY <2>1, <2>2, VirtualPriceBounds
<1>2. Spec => []CurveWritten
  BY CurveWrittenInit, CurveWrittenStep, PTL DEF Spec
<1>. QED
  BY <1>1, <1>2, TypeCorrect, PTL


-----------------------------------------------------------------------------
(* The quote against a fee-free constant-product swap *)

(* ConstantProductCurve::swap over non-empty reserves pays less than the  *)
(* out reserve: floor(y * dx / (x + dx)) < y                              *)
LEMMA ConstantProductBelowReserve ==
    ASSUME NEW x \in Nat \ {0}, NEW y \in Nat \ {0}, NEW dx \in Nat
    PROVE  /\ ConstantProductSwap(dx, x, y) \in Nat
           /\ ConstantProductSwap(dx, x, y) < y
<1>1. PICK a \in Nat : a = y * dx
  OBVIOUS
<1>2. PICK b \in Nat \ {0} : b = x + dx
  OBVIOUS
<1>3. a < y * b
  BY <1>1, <1>2
<1>4. PICK q \in Nat : q = a \div b
  BY <1>2
<1>5. q * b <= a
  BY <1>4, FloorTimesDivisor
<1>6. q < y
  <2>1. SUFFICES ASSUME q >= y PROVE FALSE
    OBVIOUS
  <2>2. q * b >= y * b
    BY <2>1
  <2>. QED
    BY <1>3, <1>5, <2>2
<1>. QED
  BY <1>1, <1>2, <1>4, <1>6 DEF ConstantProductSwap

(* ConstantProductCurve::swap pays no less for a larger input: for       *)
(* d1 <= d2, floor(y * d1 / (x + d1)) <= floor(y * d2 / (x + d2))        *)
LEMMA ConstantProductMonotone ==
    ASSUME NEW x \in Nat \ {0}, NEW y \in Nat \ {0}, NEW d1 \in Nat, NEW d2 \in Nat,
           d1 <= d2
    PROVE  /\ ConstantProductSwap(d1, x, y) # None
           /\ ConstantProductSwap(d2, x, y) # None
           /\ ConstantProductSwap(d1, x, y) <= ConstantProductSwap(d2, x, y)
<1>1. PICK a \in Nat : a = y * d1
  OBVIOUS
<1>2. PICK c \in Nat : c = y * d2
  OBVIOUS
<1>3. PICK k \in Nat : k = y * x
  OBVIOUS
<1>4. k * d1 <= k * d2
  BY <1>3
<1>5. a * (x + d2) = k * d1 + a * d2
  BY <1>1, <1>3
<1>6. c * (x + d1) = k * d2 + c * d1
  BY <1>2, <1>3
<1>7. a * d2 = c * d1
  BY <1>1, <1>2
<1>8. a * (x + d2) <= c * (x + d1)
  BY <1>4, <1>5, <1>6, <1>7
<1>9. a \div (x + d1) <= c \div (x + d2)
  <2>1. PICK b \in Nat \ {0} : b = x + d1
    OBVIOUS
  <2>2. PICK e \in Nat \ {0} : e = x + d2
    OBVIOUS
  <2>3. a * e <= c * b
    BY <1>8, <2>1, <2>2
  <2>4. a \div b <= c \div e
    BY <2>3, CrossDiv
  <2>. QED
    BY <2>1, <2>2, <2>4
<1>. QED
  BY <1>1, <1>2, <1>9, NoneAssumption DEF ConstantProductSwap


(***************************************************************************)
(* The strengthening: the trade fee only lowers the amount swapped (lines *)
(* 207-209), and the amount a constant-product pool swapped (lines        *)
(* 211-223) is the curve's output for that amount over the reserves,     *)
(* which is below the out reserve whatever the curve.                     *)
(***************************************************************************)
SwapInv ==
    /\ pc \in {"Swap"} \cup Swapped => actualInAfterFee <= actualIn
    /\ pc \in Swapped => swapped < reserveOut
    /\ pc \in Swapped /\ pool.curveType.kind = "ConstantProduct" =>
          /\ ConstantProductSwap(actualInAfterFee, reserveIn, reserveOut) # None
          /\ swapped = ConstantProductSwap(actualInAfterFee, reserveIn, reserveOut)

LEMMA SwapInvInit == Init => SwapInv
BY DEF Init, SwapInv, Swapped

LEMMA SwapInvStep ==
    ASSUME TypeOK, SwapInv, [Next]_vars
    PROVE  SwapInv'
<1>1. UNCHANGED pool
  BY SnapshotFixed DEF snapshot
<1>2. CASE DeductTradeFee
  <2>1. CASE actualIn < tradeFee /\ Fail("InAmountAfterFee")
    BY <2>1 DEF SwapInv, Fail, Swapped
  <2>2. CASE /\ actualIn >= tradeFee /\ pc' = "Swap"
             /\ actualInAfterFee' = actualIn - tradeFee
             /\ actualIn' = actualIn
    BY <2>2 DEF TypeOK, U64, SwapInv, Swapped
  <2>. QED
    BY <1>2, <2>1, <2>2 DEF DeductTradeFee
<1>3. CASE Swap
  <2>1. UNCHANGED <<actualIn, actualInAfterFee, reserveIn, reserveOut>>
    BY <1>3 DEF Swap
  <2>2. pc' \in Swapped => 
          /\ pc' = "ConvertOut"
          /\ swapped' \in SwapOutcomes(pool.curveType, actualInAfterFee,
                                       reserveIn, reserveOut)
          /\ swapped' # None
    BY <1>3 DEF Swap, Swapped
  <2>3. pc' \in Swapped /\ pool.curveType.kind = "ConstantProduct" =>
          swapped' = ConstantProductSwap(actualInAfterFee, reserveIn, reserveOut)
    BY <2>2 DEF SwapOutcomes
  <2>4. pc' \in Swapped => swapped' < reserveOut
    <3>1. SUFFICES ASSUME pc' \in Swapped PROVE swapped' < reserveOut
      OBVIOUS
    <3>2. /\ actualInAfterFee \in Nat /\ reserveIn \in Nat /\ reserveOut \in Nat
      BY DEF TypeOK, U64
    <3>3. CASE pool.curveType.kind = "ConstantProduct"
      <4>1. ConstantProductSwap(actualInAfterFee, reserveIn, reserveOut) # None
        BY <2>2, <2>3, <3>1, <3>3
      <4>2. reserveIn # 0 /\ reserveOut # 0
        BY <4>1 DEF ConstantProductSwap
      <4>. QED
        BY <2>3, <3>1, <3>2, <3>3, <4>2, ConstantProductBelowReserve
    <3>4. CASE pool.curveType.kind # "ConstantProduct"
      <4>1. swapped' \in 0..(reserveOut - 1)
        BY <2>2, <3>1, <3>4 DEF SwapOutcomes, StableSwapOutcomes
      <4>. QED
        BY <3>2, <4>1
    <3>. QED
      BY <3>3, <3>4
  <2>. QED
    BY <1>1, <1>3, <2>1, <2>2, <2>3, <2>4 DEF SwapInv, Swap
<1>4. CASE ~DeductTradeFee /\ ~Swap
  <2>1. /\ pc' \in {"Swap"} \cup Swapped => pc \in {"Swap"} \cup Swapped
        /\ pc' \in Swapped => pc \in Swapped
    BY <1>4 DEF Next, vars, CheckActivation, UpdateVirtualPrice, CheckMint,
                Reserves, ResolveFees, ChargeFees, SimulateDeposit,
                ConvertOut, CheckReserve, Fail, Swapped
  <2>2. UNCHANGED <<actualIn, actualInAfterFee, reserveIn, reserveOut, swapped>>
      \/ pc' \notin {"Swap"} \cup Swapped
    BY <1>4 DEF Next, vars, locals, CheckActivation, UpdateVirtualPrice,
                CheckMint, Reserves, ResolveFees, ChargeFees, SimulateDeposit,
                ConvertOut, CheckReserve, Fail, Swapped
  <2>. QED
    BY <1>1, <2>1, <2>2 DEF SwapInv
<1>. QED
  BY <1>2, <1>3, <1>4

(* A quote of a constant-product pool (src lines 158-235) never pays out *)
(* more than a fee-free swap of the whole in_amount over the same         *)
(* reserves: the protocol fee, the simulated deposit, the trade fee and   *)
(* the out-side share round trip only take away from the user.  For every *)
(* value of the constants.                                                 *)
THEOREM QuoteWithinFeeFreeSwapHolds == Spec => []QuoteWithinFeeFreeSwap
<1>1. /\ TypeOK /\ SwapInv /\ RefinementInv /\ DepositCreditSound
      /\ OutRoundTripNoGain
      => QuoteWithinFeeFreeSwap
  <2> SUFFICES ASSUME TypeOK, SwapInv, RefinementInv, DepositCreditSound,
                      OutRoundTripNoGain,
                      pc = "Done", pool.curveType.kind = "ConstantProduct"
               PROVE  /\ ConstantProductSwap(inAmount, reserveIn, reserveOut) # None
                      /\ outAmount
                           <= ConstantProductSwap(inAmount, reserveIn, reserveOut)
    BY DEF QuoteWithinFeeFreeSwap
  <2>1. /\ ConstantProductSwap(actualInAfterFee, reserveIn, reserveOut) # None
        /\ swapped = ConstantProductSwap(actualInAfterFee, reserveIn, reserveOut)
        /\ actualInAfterFee <= actualIn
    BY DEF SwapInv, Swapped
  <2>2. actualIn <= inAfterProtocol /\ inAfterProtocol <= inAmount
    BY DEF DepositCreditSound, DepositSimulated, RefinementInv, FeeSplit
  <2>3. outAmount <= swapped
    BY DEF OutRoundTripNoGain
  <2>4. /\ actualInAfterFee \in Nat /\ actualIn \in Nat
        /\ inAfterProtocol \in Nat /\ inAmount \in Nat
        /\ reserveIn \in Nat /\ reserveOut \in Nat /\ outAmount \in Nat
    BY DEF TypeOK, U64
  <2>5. actualInAfterFee <= inAmount
    BY <2>1, <2>2, <2>4
  <2>6. reserveIn # 0 /\ reserveOut # 0
    BY <2>1 DEF ConstantProductSwap
  <2>7. /\ ConstantProductSwap(inAmount, reserveIn, reserveOut) # None
        /\ ConstantProductSwap(actualInAfterFee, reserveIn, reserveOut)
             <= ConstantProductSwap(inAmount, reserveIn, reserveOut)
    BY <2>4, <2>5, <2>6, ConstantProductMonotone
  <2>8. PICK q \in Nat : q = ConstantProductSwap(actualInAfterFee, reserveIn, reserveOut)
    BY <2>4, <2>6 DEF ConstantProductSwap
  <2>9. PICK r \in Nat : r = ConstantProductSwap(inAmount, reserveIn, reserveOut)
    BY <2>4, <2>5, <2>6 DEF ConstantProductSwap
  <2>. QED
    BY <2>1, <2>3, <2>4, <2>7, <2>8, <2>9
<1>2. Spec => []SwapInv
  BY SwapInvInit, SwapInvStep, TypeCorrect, PTL DEF Spec
<1>. QED
  BY <1>1, <1>2, RefinementInvHolds, TypeCorrect, DepositCreditHolds, RoundTripNoGain, PTL

(* A completed quote (src lines 102-246) never pays out as much as the    *)
(* out reserve it priced against: the curve's output is below that        *)
(* reserve (spec.md 4.6, ConstantProductCurve::swap over non-empty        *)
(* reserves and StableSwap::swap alike), and the out-side LP round trip   *)
(* only takes away.  For every value of the constants.                    *)
THEOREM QuoteConservationHolds == Spec => []QuoteConservation
<1>1. TypeOK /\ SwapInv /\ OutRoundTripNoGain => QuoteConservation
  <2> SUFFICES ASSUME TypeOK, SwapInv, OutRoundTripNoGain, pc = "Done"
               PROVE  outAmount < reserveOut
    BY DEF QuoteConservation
  <2>1. swapped < reserveOut
    BY DEF SwapInv, Swapped
  <2>2. outAmount <= swapped
    BY DEF OutRoundTripNoGain
  <2>3. outAmount \in Nat /\ swapped \in Nat /\ reserveOut \in Nat
    BY DEF TypeOK, U64
  <2>. QED
    BY <2>1, <2>2, <2>3
<1>2. Spec => []SwapInv
  BY SwapInvInit, SwapInvStep, TypeCorrect, PTL DEF Spec
<1>. QED
  BY <1>1, <1>2, TypeCorrect, RoundTripNoGain, PTL


-----------------------------------------------------------------------------
(* The resolved fees against the reference fee curve *)

(***************************************************************************)
(* The strengthening: once past line 156 the quote's fees are those       *)
(* get_latest_pool_fees returned for the pool at the current point, and   *)
(* no later step writes them.                                             *)
(***************************************************************************)
FeesWritten ==
    pc \in FeesResolved =>
        fees = GetLatestPoolFees(pool.fees, pool.feeCurve,
                                 pool.isUpdateFeeCompleted, currentPoint)

LEMMA FeesWrittenInit == Init => FeesWritten
BY DEF Init, FeesWritten, FeesResolved

LEMMA FeesWrittenStep == FeesWritten /\ [Next]_vars => FeesWritten'
<1> SUFFICES ASSUME FeesWritten, [Next]_vars PROVE FeesWritten'
  OBVIOUS
<1>1. UNCHANGED pool
  BY SnapshotFixed DEF snapshot
<1>2. CASE ResolveFees
  BY <1>1, <1>2 DEF ResolveFees, Fail, FeesWritten, FeesResolved
<1>3. CASE ~ResolveFees
  <2>1. pc' \in FeesResolved =>
          pc \in FeesResolved /\ UNCHANGED <<fees, currentPoint>>
    BY <1>3 DEF Next, vars, locals, CheckActivation, UpdateVirtualPrice,
                CheckMint, Reserves, ChargeFees, SimulateDeposit,
                DeductTradeFee, Swap, ConvertOut, CheckReserve, Fail,
                FeesResolved
  <2>. QED
    BY <1>1, <2>1 DEF FeesWritten
<1>. QED
  BY <1>2, <1>3

(* On a fee curve with ascending points, the fees get_latest_pool_fees    *)
(* resolves for the quote (src lines 156 and 264-300) are the stored fees *)
(* with the trade fee numerator ten times the reference fee of spec.md    *)
(* 4.4 at the current point, wherever the Linear blend's u64 numerator    *)
(* does not overflow: for every value of the constants and every curve.  *)
THEOREM LatestFeesMatchHolds == Spec => []LatestFeesMatchReference
<1>1. TypeOK /\ FeesWritten => LatestFeesMatchReference
  <2> SUFFICES ASSUME TypeOK, FeesWritten, pc \in FeesResolved,
                      ActiveSortedFeeCurve,
                      ~InterpolationOverflows(pool.feeCurve, currentPoint)
               PROVE  FeesFollowCurve
    BY DEF LatestFeesMatchReference
  <2>1. /\ pool.feeCurve \in FeeCurveStateType
        /\ currentPoint \in Nat
        /\ pool.feeCurve.feeCurveType # "None"
        /\ ~pool.isUpdateFeeCompleted
        /\ SortedPoints(pool.feeCurve.points)
    BY DEF TypeOK, PoolType, U64, ActiveSortedFeeCurve
  <2>2. GetLatestTradeBps(pool.feeCurve, currentPoint)
          = ReferenceTradeBps(pool.feeCurve, currentPoint)
    BY <2>1, LatestTradeBpsMatchesReference
  <2>3. PICK b \in 0..U16Max : b = GetLatestTradeBps(pool.feeCurve, currentPoint)
    BY <2>1, LatestTradeBpsType DEF U16
  <2>4. ~(b * FeeBpsScale > U64Max)
    BY <2>3, FeeNumeratorFits, U16MaxAssumption, U64MaxAssumption DEF FeeBpsScale
  <2>5. GetLatestPoolFees(pool.fees, pool.feeCurve, pool.isUpdateFeeCompleted,
                          currentPoint)
          = [pool.fees EXCEPT !.tradeFeeNumerator = b * FeeBpsScale]
    BY <2>1, <2>3, <2>4, Zenon DEF GetLatestPoolFees
  <2>6. fees = [pool.fees EXCEPT !.tradeFeeNumerator =
                  GetLatestTradeBps(pool.feeCurve, currentPoint) * FeeBpsScale]
    BY <2>3, <2>5 DEF FeesWritten
  <2>. QED
    BY <2>2, <2>6 DEF FeesFollowCurve
<1>2. Spec => []FeesWritten
  BY FeesWrittenInit, FeesWrittenStep, PTL DEF Spec
<1>. QED
  BY <1>1, <1>2, TypeCorrect, PTL

=============================================================================
