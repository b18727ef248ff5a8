---------------------------- MODULE QuoteProofs ----------------------------
(***************************************************************************)
(* Proofs about the quote orchestrator of module Quote, for every value   *)
(* of the constants: type correctness of compute_quote's state, from the  *)
(* lemmas below about the operators it is built from.                    *)
(***************************************************************************)
EXTENDS Quote, FeeScheduleProofs, TLAPS

USE U64MaxAssumption, U16MaxAssumption, FeeCurvePointNumberAssumption,
    PrecisionAssumption, FeeNumeratorFits, NoneAssumption

(* integer division of a natural by a positive natural is a natural *)
LEMMA DivNat ==
    ASSUME NEW a \in Nat, NEW b \in Nat \ {0}
    PROVE  a \div b \in Nat
OBVIOUS

(* u64::try_from of a natural number is a u64 or None *)
LEMMA Narrow64Type ==
    ASSUME NEW x \in Nat
    PROVE  Narrow64(x) \in U64 \cup {None}
BY DEF Narrow64, U64

(* Vault::get_amount_by_share of a vault in range is a u64 or None *)
LEMMA AmountByShareType ==
    ASSUME NEW v \in VaultType, NEW share \in Nat, NEW supply \in Nat
    PROVE  GetAmountByShare(v, share, supply) \in U64 \cup {None}
<1>1. CASE GetUnlockedAmount(v) = None \/ supply = 0
  BY <1>1 DEF GetAmountByShare
<1>2. CASE GetUnlockedAmount(v) # None /\ supply # 0
  <2>1. GetUnlockedAmount(v) \in Nat
    BY <1>2 DEF GetUnlockedAmount, VaultType, U64
  <2>2. (share * GetUnlockedAmount(v)) \div supply \in Nat
    BY <1>2, <2>1
  <2> QED
    BY <1>2, <2>2, Narrow64Type DEF GetAmountByShare
<1> QED
  BY <1>1, <1>2

(* Vault::get_unmint_amount of a vault in range is a u64 or None *)
LEMMA UnmintAmountType ==
    ASSUME NEW v \in VaultType, NEW amount \in Nat, NEW supply \in Nat
    PROVE  GetUnmintAmount(v, amount, supply) \in U64 \cup {None}
<1>1. CASE GetUnlockedAmount(v) = None \/ GetUnlockedAmount(v) = 0
  BY <1>1 DEF GetUnmintAmount
<1>2. CASE GetUnlockedAmount(v) # None /\ GetUnlockedAmount(v) # 0
  <2>1. GetUnlockedAmount(v) \in Nat \ {0}
    BY <1>2 DEF GetUnlockedAmount, VaultType, U64
  <2>2. (amount * supply) \div GetUnlockedAmount(v) \in Nat
    BY <2>1
  <2> QED
    BY <1>2, <2>2, Narrow64Type DEF GetUnmintAmount
<1> QED
  BY <1>1, <1>2

(* get_latest_pool_fees never fails (its checked_mul(10) cannot overflow *)
(* a u64) and returns fees in range.                                     *)
LEMMA LatestPoolFeesType ==
    ASSUME NEW f \in PoolFeesType, NEW fc \in FeeCurveStateType,
           NEW completed \in BOOLEAN, NEW t \in Nat
    PROVE  GetLatestPoolFees(f, fc, completed, t) \in PoolFeesType
<1>1. CASE fc.feeCurveType = "None" \/ completed
  BY <1>1 DEF GetLatestPoolFees
<1>2. CASE ~(fc.feeCurveType = "None" \/ completed)
  <2>1. GetLatestTradeBps(fc, t) \in U16
    BY LatestTradeBpsType
  <2>2. GetLatestTradeBps(fc, t) * FeeBpsScale \in U64
    BY <2>1 DEF U16, U64, FeeBpsScale
  <2> QED
    BY <1>2, <2>2 DEF GetLatestPoolFees, PoolFeesType, U64
<1> QED
  BY <1>1, <1>2

(* PoolFees::trading_fee of naturals is a natural or None *)
LEMMA CalculateFeeType ==
    ASSUME NEW amount \in Nat, NEW num \in Nat, NEW den \in Nat
    PROVE  CalculateFee(amount, num, den) \in Nat \cup {None}
BY DEF CalculateFee

(***************************************************************************)
(* get_virtual_price (spl_stake.rs) of any stake account bytes is a u64   *)
(* or None: the deposit price, and when the withdrawal fee is plausible   *)
(* the withdraw price, are natural numbers (den > num * 10 keeps          *)
(* `den - num` from underflowing), and the blend is narrowed to u64.      *)
(***************************************************************************)
LEMMA VirtualPriceType ==
    ASSUME NEW s \in StakePoolType \cup {Undecodable}
    PROVE  GetVirtualPrice(s) \in U64 \cup {None}
<1>1. CASE s = Undecodable
  BY <1>1 DEF GetVirtualPrice
<1>2. CASE s # Undecodable
  <2>1. /\ s.totalLamports \in Nat /\ s.poolTokenSupply \in Nat
        /\ s.withdrawFeeNumerator \in Nat /\ s.withdrawFeeDenominator \in Nat
    BY <1>2 DEF StakePoolType, U64
  <2>2. DepositPrice(s) \in Nat \cup {None}
    BY <2>1 DEF DepositPrice
  <2>3. ASSUME ~WithdrawFeeImplausible(s) PROVE WithdrawPrice(s) \in Nat \cup {None}
    <3>1. s.withdrawFeeDenominator - s.withdrawFeeNumerator \in Nat
          /\ s.withdrawFeeDenominator # 0
      BY <2>1, <2>3 DEF WithdrawFeeImplausible
    <3>2. s.totalLamports * (s.withdrawFeeDenominator - s.withdrawFeeNumerator)
            * Precision \in Nat
      BY <2>1, <3>1
    <3> DEFINE x == s.totalLamports
                      * (s.withdrawFeeDenominator - s.withdrawFeeNumerator)
                      * Precision
    <3>3. x \div s.withdrawFeeDenominator \in Nat
      BY <2>1, <3>1, <3>2, DivNat
    <3>4. s.poolTokenSupply # 0
            => (x \div s.withdrawFeeDenominator) \div s.poolTokenSupply \in Nat
      BY <2>1, <3>3, DivNat
    <3> QED
      BY <3>4 DEF WithdrawPrice
  <2>4. CASE DepositPrice(s) = None
    BY <1>2, <2>4 DEF GetVirtualPrice
  <2>5. CASE DepositPrice(s) # None /\ WithdrawFeeImplausible(s)
    BY <1>2, <2>2, <2>5, Narrow64Type DEF GetVirtualPrice
  <2>6. CASE DepositPrice(s) # None /\ ~WithdrawFeeImplausible(s)
    <3>1. CASE WithdrawPrice(s) = None
      BY <1>2, <2>6, <3>1 DEF GetVirtualPrice
    <3>2. CASE WithdrawPrice(s) # None
      <4>1. (3 * DepositPrice(s) + WithdrawPrice(s)) \div 4 \in Nat
        BY <2>2, <2>3, <2>6, <3>2
      <4> QED
        BY <1>2, <2>6, <3>2, <4>1, Narrow64Type DEF GetVirtualPrice
    <3> QED
      BY <3>1, <3>2
  <2> QED
    BY <2>4, <2>5, <2>6
<1> QED
  BY <1>1, <1>2

(* update_base_virtual_price keeps the curve configuration in range *)
LEMMA UpdateBaseVirtualPriceType ==
    ASSUME NEW c \in CurveConfigType, NEW ts \in U64,
           NEW s \in StakePoolType \cup {Undecodable}
    PROVE  UpdateBaseVirtualPrice(c, ts, s) \in CurveConfigType
<1>1. GetVirtualPrice(s) \in U64 \cup {None}
  BY VirtualPriceType
<1> QED
  BY <1>1 DEF UpdateBaseVirtualPrice, DepegCurve, CurveConfigType

(* every outcome of the curve's swap is a natural number or None *)
LEMMA SwapOutcomesType ==
    ASSUME NEW c \in CurveConfigType, NEW dx \in Nat, NEW x \in Nat, NEW y \in Nat
    PROVE  SwapOutcomes(c, dx, x, y) \subseteq Nat \cup {None}
<1>1. ConstantProductSwap(dx, x, y) \in Nat \cup {None}
  BY DEF ConstantProductSwap
<1>2. StableSwapOutcomes(dx, x, y) \subseteq Nat \cup {None}
  BY DEF StableSwapOutcomes
<1> QED
  BY <1>1, <1>2 DEF SwapOutcomes

-----------------------------------------------------------------------------
(***************************************************************************)
(* Type correctness of compute_quote.  TypeOK is inductive as it stands:  *)
(* the snapshot never changes, and each step computes its locals from    *)
(* values in range with the operators of the lemmas above.               *)
(***************************************************************************)

LEMMA InitTypeOK == Init => TypeOK
BY SnapshotAssumption
   DEF Init, TypeOK, PoolType, SideType, Steps, Errors, U64

(* an early return keeps the state in range *)
LEMMA FailTypeOK ==
    ASSUME TypeOK, NEW e \in Errors, Fail(e)
    PROVE  TypeOK'
BY DEF Fail, TypeOK, snapshot, locals, Steps

LEMMA CheckActivationTypeOK == TypeOK /\ CheckActivation => TypeOK'
<1> SUFFICES ASSUME TypeOK, CheckActivation PROVE TypeOK'
  OBVIOUS
<1>1. CASE pc' = "Failed"
  BY <1>1, FailTypeOK DEF CheckActivation, Errors
<1>2. CASE pc' # "Failed"
  BY <1>2 DEF CheckActivation, Fail, TypeOK, PoolType, ClockType, Steps,
             snapshot, U64
<1> QED
  BY <1>1, <1>2

LEMMA UpdateVirtualPriceTypeOK == TypeOK /\ UpdateVirtualPrice => TypeOK'
<1> SUFFICES ASSUME TypeOK, UpdateVirtualPrice PROVE TypeOK'
  OBVIOUS
<1>1. CASE pc' = "Failed"
  BY <1>1, FailTypeOK DEF UpdateVirtualPrice, Errors
<1>2. CASE pc' # "Failed"
  <2>1. UpdateBaseVirtualPrice(pool.curveType, clock.unixTimestamp, stake)
          \in CurveConfigType
    BY UpdateBaseVirtualPriceType DEF TypeOK, PoolType, ClockType
  <2> QED
    BY <1>2, <2>1 DEF UpdateVirtualPrice, Fail, TypeOK, Steps, snapshot
<1> QED
  BY <1>1, <1>2

LEMMA CheckMintTypeOK == TypeOK /\ CheckMint => TypeOK'
<1> SUFFICES ASSUME TypeOK, CheckMint PROVE TypeOK'
  OBVIOUS
<1>1. CASE pc' = "Failed"
  BY <1>1, FailTypeOK DEF CheckMint, Errors
<1>2. CASE pc' # "Failed"
  BY <1>2 DEF CheckMint, Fail, TypeOK, Steps, locals, snapshot
<1> QED
  BY <1>1, <1>2

LEMMA ReservesTypeOK == TypeOK /\ Reserves => TypeOK'
<1> SUFFICES ASSUME TypeOK, Reserves PROVE TypeOK'
  OBVIOUS
<1> DEFINE a == GetAmountByShare(sideA.vault, sideA.lpAmount, sideA.lpSupply)
           b == GetAmountByShare(sideB.vault, sideB.lpAmount, sideB.lpSupply)
<1>1. a \in U64 \cup {None} /\ b \in U64 \cup {None}
  BY AmountByShareType DEF TypeOK, SideType, U64
<1>2. CASE pc' = "Failed"
  BY <1>2, FailTypeOK DEF Reserves, Errors
<1>3. CASE pc' # "Failed"
  BY <1>1, <1>3, NoneAssumption
     DEF Reserves, Fail, TypeOK, SideType, Steps, snapshot
<1> QED
  BY <1>2, <1>3

LEMMA ResolveFeesTypeOK == TypeOK /\ ResolveFees => TypeOK'
<1> SUFFICES ASSUME TypeOK, ResolveFees PROVE TypeOK'
  OBVIOUS
<1>1. GetLatestPoolFees(pool.fees, pool.feeCurve, pool.isUpdateFeeCompleted,
                        currentPoint) \in PoolFeesType
  BY LatestPoolFeesType DEF TypeOK, PoolType, U64
<1>2. CASE pc' = "Failed"
  BY <1>2, FailTypeOK DEF ResolveFees, Errors
<1>3. CASE pc' # "Failed"
  BY <1>1, <1>3 DEF ResolveFees, Fail, TypeOK, Steps, snapshot
<1> QED
  BY <1>2, <1>3

LEMMA ChargeFeesTypeOK == TypeOK /\ ChargeFees => TypeOK'
<1> SUFFICES ASSUME TypeOK, ChargeFees PROVE TypeOK'
  OBVIOUS
<1> DEFINE tf == CalculateFee(inAmount, fees.tradeFeeNumerator,
                              fees.tradeFeeDenominator)
           pf == CalculateFee(tf, fees.protocolTradeFeeNumerator,
                              fees.protocolTradeFeeDenominator)
<1>1. tf \in Nat \cup {None}
  BY CalculateFeeType DEF TypeOK, PoolFeesType, U64
<1>2. tf # None => pf \in Nat \cup {None}
  BY <1>1, CalculateFeeType DEF TypeOK, PoolFeesType, U64
<1>3. CASE pc' = "Failed"
  BY <1>3, FailTypeOK DEF ChargeFees, Errors
<1>4. CASE pc' # "Failed"
  <2>1. /\ tf # None /\ pf # None /\ pf <= tf /\ pf <= inAmount
        /\ tradeFee' = tf - pf /\ protocolFee' = pf
        /\ inAfterProtocol' = inAmount - pf
        /\ pc' = "SimulateDeposit"
        /\ UNCHANGED <<snapshot, err, currentPoint, curve, dir, reserveIn,
                       reserveOut, fees, inVault, actualIn,
                       actualInAfterFee, swapCurve, swapped, outAmount>>
    BY <1>4 DEF ChargeFees, Fail
  <2>2. tf - pf \in Nat /\ pf \in Nat /\ inAmount - pf \in U64
    BY <1>1, <1>2, <2>1, NoneAssumption DEF TypeOK, U64
  <2> QED
    BY <2>1, <2>2 DEF TypeOK, Steps, snapshot
<1> QED
  BY <1>3, <1>4

LEMMA SimulateDepositTypeOK == TypeOK /\ SimulateDeposit => TypeOK'
<1> SUFFICES ASSUME TypeOK, SimulateDeposit PROVE TypeOK'
  OBVIOUS
<1> DEFINE inLp == GetUnmintAmount(inVault, inAfterProtocol, InSide.lpSupply)
           grown == [inVault EXCEPT !.total = inVault.total + inAfterProtocol]
           after == GetAmountByShare(grown, inLp + InSide.lpAmount,
                                     InSide.lpSupply + inLp)
<1>1. InSide \in SideType
  BY DEF TypeOK, InSide
<1>2. inLp \in U64 \cup {None}
  BY <1>1, UnmintAmountType DEF TypeOK, SideType, U64
<1>3. CASE pc' = "Failed"
  BY <1>3, FailTypeOK DEF SimulateDeposit, Errors
<1>4. CASE pc' # "Failed"
  <2>1. /\ inLp # None /\ grown.total <= U64Max /\ after # None
        /\ after >= reserveIn
        /\ inVault' = grown /\ actualIn' = after - reserveIn
        /\ pc' = "DeductTradeFee"
        /\ UNCHANGED <<snapshot, err, currentPoint, curve, dir, reserveIn,
                       reserveOut, fees, tradeFee, protocolFee,
                       inAfterProtocol, actualInAfterFee, swapCurve,
                       swapped, outAmount>>
    BY <1>4 DEF SimulateDeposit, Fail
  <2>2. grown \in VaultType
    BY <2>1 DEF TypeOK, VaultType, U64
  <2>3. after \in U64
    BY <1>1, <1>2, <2>1, <2>2, AmountByShareType DEF SideType, U64
  <2>4. after - reserveIn \in U64
    BY <2>1, <2>3 DEF TypeOK, U64
  <2> QED
    BY <2>1, <2>2, <2>4 DEF TypeOK, Steps, snapshot
<1> QED
  BY <1>3, <1>4

LEMMA DeductTradeFeeTypeOK == TypeOK /\ DeductTradeFee => TypeOK'
<1> SUFFICES ASSUME TypeOK, DeductTradeFee PROVE TypeOK'
  OBVIOUS
<1>1. CASE pc' = "Failed"
  BY <1>1, FailTypeOK DEF DeductTradeFee, Errors
<1>2. CASE pc' # "Failed"
  BY <1>2 DEF DeductTradeFee, Fail, TypeOK, Steps, snapshot, U64
<1> QED
  BY <1>1, <1>2

LEMMA SwapTypeOK == TypeOK /\ Swap => TypeOK'
<1> SUFFICES ASSUME TypeOK, Swap PROVE TypeOK'
  OBVIOUS
<1>1. SwapOutcomes(pool.curveType, actualInAfterFee, reserveIn, reserveOut)
        \subseteq Nat \cup {None}
  BY SwapOutcomesType DEF TypeOK, PoolType, U64
<1>2. PICK o \in SwapOutcomes(pool.curveType, actualInAfterFee, reserveIn,
                              reserveOut) :
        \/ /\ o = None
           /\ pc' = "Failed"
           /\ err' = "SwapResult"
           /\ UNCHANGED <<snapshot, currentPoint, curve, dir, reserveIn,
                          reserveOut, fees, tradeFee, protocolFee,
                          inAfterProtocol, inVault, actualIn,
                          actualInAfterFee, swapped, outAmount>>
        \/ /\ o # None
           /\ pc' = "ConvertOut"
           /\ swapped' = o
           /\ UNCHANGED <<snapshot, err, currentPoint, curve, dir, reserveIn,
                          reserveOut, fees, tradeFee, protocolFee,
                          inAfterProtocol, inVault, actualIn,
                          actualInAfterFee, outAmount>>
  BY DEF Swap
<1>3. swapCurve' \in CurveConfigType
  BY DEF Swap, TypeOK, PoolType
<1> QED
  BY <1>1, <1>2, <1>3 DEF TypeOK, Steps, Errors, snapshot

LEMMA ConvertOutTypeOK == TypeOK /\ ConvertOut => TypeOK'
<1> SUFFICES ASSUME TypeOK, ConvertOut PROVE TypeOK'
  OBVIOUS
<1> DEFINE outLp == GetUnmintAmount(OutSide.vault, swapped, OutSide.lpSupply)
           out == GetAmountByShare(OutSide.vault, outLp, OutSide.lpSupply)
<1>1. OutSide \in SideType
  BY DEF TypeOK, OutSide
<1>2. outLp \in U64 \cup {None}
  BY <1>1, UnmintAmountType DEF TypeOK, SideType, U64
<1>3. outLp # None => out \in U64 \cup {None}
  BY <1>1, <1>2, AmountByShareType DEF SideType, U64
<1>4. CASE pc' = "Failed"
  BY <1>4, FailTypeOK DEF ConvertOut, Errors
<1>5. CASE pc' # "Failed"
  BY <1>3, <1>5 DEF ConvertOut, Fail, TypeOK, Steps, snapshot
<1> QED
  BY <1>4, <1>5

LEMMA CheckReserveTypeOK == TypeOK /\ CheckReserve => TypeOK'
<1> SUFFICES ASSUME TypeOK, CheckReserve PROVE TypeOK'
  OBVIOUS
<1>1. CASE pc' = "Failed"
  BY <1>1, FailTypeOK DEF CheckReserve, Errors
<1>2. CASE pc' # "Failed"
  BY <1>2 DEF CheckReserve, Fail, TypeOK, Steps, snapshot, locals
<1> QED
  BY <1>1, <1>2

(***************************************************************************)
(* Every local of compute_quote stays within its integer width in every   *)
(* reachable state, for every width and every snapshot in range: no step *)
(* of the quote (the fee split, the simulated deposit, the fee deduction, *)
(* the swap and the share round trip) can produce a negative amount or a  *)
(* u64 out of range, and get_latest_pool_fees never fails.                *)
(***************************************************************************)
THEOREM TypeCorrect == Spec => []TypeOK
<1>1. Init => TypeOK
  BY InitTypeOK
<1>2. TypeOK /\ [Next]_vars => TypeOK'
  <2> SUFFICES ASSUME TypeOK, [Next]_vars PROVE TypeOK'
    OBVIOUS
  <2>1. CASE CheckActivation
    BY <2>1, CheckActivationTypeOK
  <2>2. CASE UpdateVirtualPrice
    BY <2>2, UpdateVirtualPriceTypeOK
  <2>3. CASE CheckMint
    BY <2>3, CheckMintTypeOK
  <2>4. CASE Reserves
    BY <2>4, ReservesTypeOK
  <2>5. CASE ResolveFees
    BY <2>5, ResolveFeesTypeOK
  <2>6. CASE ChargeFees
    BY <2>6, ChargeFeesTypeOK
  <2>7. CASE SimulateDeposit
    BY <2>7, SimulateDepositTypeOK
  <2>8. CASE DeductTradeFee
    BY <2>8, DeductTradeFeeTypeOK
  <2>9. CASE Swap
    BY <2>9, SwapTypeOK
  <2>10. CASE ConvertOut
    BY <2>10, ConvertOutTypeOK
  <2>11. CASE CheckReserve
    BY <2>11, CheckReserveTypeOK
  <2>12. CASE UNCHANGED vars
    BY <2>12 DEF TypeOK, vars, snapshot, locals
  <2> QED
    BY <2>1, <2>2, <2>3, <2>4, <2>5, <2>6, <2>7, <2>8, <2>9, <2>10, <2>11,
       <2>12 DEF Next
<1> QED
  BY <1>1, <1>2, PTL DEF Spec

=============================================================================
