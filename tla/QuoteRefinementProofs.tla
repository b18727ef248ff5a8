----------------------- MODULE QuoteRefinementProofs -----------------------
(***************************************************************************)
(* The safety half of ImplementsContract, for every value of the          *)
(* constants: every step of compute_quote is a stutter of QuoteContract   *)
(* or its one Quote step.  Steps that do not return leave the contract's  *)
(* result Pending; the step that returns produces a result the contract   *)
(* allows.  The liveness half (every quote returns) stays with TLC.       *)
(***************************************************************************)
EXTENDS QuoteSafetyProofs

(* the steps that are reached only past each check of compute_quote *)
ActivationChecked == Steps \ {"CheckActivation", "Failed"}
PriceChecked == ActivationChecked \ {"UpdateVirtualPrice"}
MintChecked == PriceChecked \ {"CheckMint"}
ReservesRead == FeesResolved \cup {"ResolveFees"}
FeeSplit == DepositSimulated \cup {"SimulateDeposit"}
FeeDeducted == {"Swap", "ConvertOut", "CheckReserve", "Done"}

(***************************************************************************)
(* What a state of the quote knows of the checks it has passed: the       *)
(* validation of lines 78-100 (the virtual price of line 93 included),   *)
(* the direction of line 124 read from the    *)
(* input mint, the protocol cut within in_amount (lines 158-173), the     *)
(* trade fee within the credited amount (lines 207-209), and the reserve  *)
(* guard of line 238 once the quote is done.                              *)
(***************************************************************************)
RefinementInv ==
    /\ pc \in ActivationChecked =>
          pool.enabled /\ Contract!CurrentPoint >= pool.activationPoint
    /\ pc \in PriceChecked =>
          ~FreshPriceMissing(pool.curveType, clock.unixTimestamp, stake)
    /\ pc \in MintChecked => inMint \in {pool.tokenAMint, pool.tokenBMint}
    /\ pc \in ReservesRead => (dir = "AtoB" <=> inMint = pool.tokenAMint)
    /\ pc \in FeeSplit => inAfterProtocol <= inAmount
    /\ pc \in FeeDeducted => tradeFee <= actualIn
    /\ pc = "Done" => outAmount < OutSide.tokenAmount


LEMMA RefinementInvInit == Init => RefinementInv
BY DEF Init, RefinementInv, ActivationChecked, PriceChecked, MintChecked, ReservesRead,
       FeeSplit, FeeDeducted, FeesResolved, DepositSimulated, Steps

(* Each conjunct is established by the one step that passes its check,   *)
(* and kept by the others, which leave its variables alone.               *)
LEMMA RefinementInvStep ==
    ASSUME TypeOK, TypeOK', DepositCreditSound, RefinementInv, [Next]_vars
    PROVE  RefinementInv'
<1> USE DEF RefinementInv, ActivationChecked, PriceChecked, MintChecked, ReservesRead,
            FeeSplit, FeeDeducted, FeesResolved, DepositSimulated, Steps,
            Contract!CurrentPoint, OutSide
<1>1. CASE CheckActivation
  BY <1>1 DEF CheckActivation, Fail, snapshot, Contract!CurrentPoint
<1>2. CASE UpdateVirtualPrice
  BY <1>2 DEF UpdateVirtualPrice, Fail, snapshot
<1>3. CASE CheckMint
  BY <1>3 DEF CheckMint, Fail, snapshot, locals
<1>4. CASE Reserves
  BY <1>4 DEF Reserves, Fail, snapshot
<1>5. CASE ResolveFees
  BY <1>5 DEF ResolveFees, Fail, snapshot
<1>6. CASE ChargeFees
  <2>1. CASE pc' = "Failed"
    BY <1>6, <2>1 DEF ChargeFees, Fail, snapshot
  <2>2. CASE pc' # "Failed"
    <3>1. /\ pc = "ChargeFees" /\ pc' = "SimulateDeposit"
          /\ protocolFee' <= inAmount
          /\ inAfterProtocol' = inAmount - protocolFee'
          /\ pool' = pool /\ clock' = clock /\ inMint' = inMint /\ stake' = stake
          /\ inAmount' = inAmount /\ dir' = dir
      BY <1>6, <2>2 DEF ChargeFees, Fail, snapshot
    <3>2. PICK p \in Nat : protocolFee' = p
      BY DEF TypeOK, U64
    <3>3. inAfterProtocol' <= inAmount'
      BY <3>1, <3>2 DEF TypeOK, U64
    <3>. QED
      BY <3>1, <3>3, Zenon
  <2>. QED
    BY <2>1, <2>2
<1>7. CASE SimulateDeposit
  BY <1>7 DEF SimulateDeposit, Fail, snapshot
<1>8. CASE DeductTradeFee
  BY <1>8 DEF DeductTradeFee, Fail, snapshot
<1>9. CASE Swap
  BY <1>9 DEF Swap, snapshot
<1>10. CASE ConvertOut
  BY <1>10 DEF ConvertOut, Fail, snapshot
<1>11. CASE CheckReserve
  BY <1>11 DEF CheckReserve, Fail, snapshot, locals, OutSide
<1>12. CASE UNCHANGED vars
  BY <1>12 DEF vars, snapshot, locals, OutSide, Contract!CurrentPoint
<1>. QED
  BY <1>1, <1>2, <1>3, <1>4, <1>5, <1>6, <1>7, <1>8, <1>9, <1>10, <1>11,
     <1>12 DEF Next


(* the strengthening holds in every reachable state *)
LEMMA RefinementInvHolds == Spec => []RefinementInv
<1>1. TypeOK /\ TypeOK' /\ DepositCreditSound /\ RefinementInv /\ [Next]_vars
        => RefinementInv'
  BY RefinementInvStep
<1>. QED
  BY RefinementInvInit, <1>1, TypeCorrect, DepositCreditHolds, PTL DEF Spec

-----------------------------------------------------------------------------
(* How a step of compute_quote returns *)

(* no step of the quote touches its inputs *)
LEMMA SnapshotFixed == [Next]_vars => UNCHANGED snapshot
BY DEF Next, vars, CheckActivation, UpdateVirtualPrice, CheckMint, Reserves,
       ResolveFees, ChargeFees, SimulateDeposit, DeductTradeFee, Swap,
       ConvertOut, CheckReserve, Fail

(* a quote that has returned takes no step *)
LEMMA Running == Next => pc \notin {"Done", "Failed"}
BY DEF Next, CheckActivation, UpdateVirtualPrice, CheckMint, Reserves,
       ResolveFees, ChargeFees, SimulateDeposit, DeductTradeFee, Swap,
       ConvertOut, CheckReserve

(* Ok is returned only past the reserve guard of line 238 *)
LEMMA ReturnsOk ==
    ASSUME Next, pc' = "Done"
    PROVE  /\ pc = "CheckReserve"
           /\ outAmount < OutSide.tokenAmount
           /\ outAmount' = outAmount /\ tradeFee' = tradeFee
BY DEF Next, CheckActivation, UpdateVirtualPrice, CheckMint, Reserves,
       ResolveFees, ChargeFees, SimulateDeposit, DeductTradeFee, Swap,
       ConvertOut, CheckReserve, Fail, locals

(* the error a failing step returns: a validation error at the checks of *)
(* lines 78-100, a computation error at every later step                  *)
LEMMA ReturnsErr ==
    ASSUME Next, pc' = "Failed"
    PROVE  \/ /\ pc = "CheckActivation"
              /\ \/ ~pool.enabled /\ err' = "PoolDisabled"
                 \/ /\ pool.enabled
                    /\ Contract!CurrentPoint < pool.activationPoint
                    /\ err' = "SwapDisabled"
           \/ /\ pc = "UpdateVirtualPrice"
              /\ FreshPriceMissing(pool.curveType, clock.unixTimestamp, stake)
              /\ err' = "VirtualPrice"
           \/ /\ pc = "CheckMint"
              /\ inMint \notin {pool.tokenAMint, pool.tokenBMint}
              /\ err' = "InvalidInputMint"
           \/ /\ pc \in MintChecked
              /\ err' \in Contract!ComputationErrors
<1>1. CASE CheckActivation
  BY <1>1 DEF CheckActivation, Fail, Contract!CurrentPoint
<1>2. CASE CheckMint
  BY <1>2 DEF CheckMint, Fail
<1>3. CASE UpdateVirtualPrice
  BY <1>3 DEF UpdateVirtualPrice, Fail
<1>4. CASE Reserves \/ ResolveFees \/ ChargeFees \/ SimulateDeposit
             \/ DeductTradeFee \/ Swap \/ ConvertOut \/ CheckReserve
  BY <1>4 DEF Reserves, ResolveFees, ChargeFees, SimulateDeposit,
              DeductTradeFee, Swap, ConvertOut, CheckReserve, Fail,
              MintChecked, PriceChecked, ActivationChecked, Steps,
              Contract!ComputationErrors
<1>. QED
  BY <1>1, <1>2, <1>3, <1>4 DEF Next


-----------------------------------------------------------------------------
(* The refinement mapping, step by step *)

(* the quote starts with no result, on inputs the contract allows *)
LEMMA RefinementInit == Init => Contract!Init
BY DEF Init, Contract!Init, QuoteResultOf, Contract!Pending

(* a step that does not return is a stutter of the contract *)
LEMMA PendingStep ==
    ASSUME [Next]_vars, pc' \notin {"Done", "Failed"}
    PROVE  UNCHANGED Contract!cvars
<1>1. UNCHANGED snapshot
  BY SnapshotFixed
<1>2. pc \notin {"Done", "Failed"}
  BY Running DEF vars
<1>. QED
  BY <1>1, <1>2 DEF Contract!cvars, Contract!snapshot, snapshot, QuoteResultOf

(* the activation check compares two u64 values *)
LEMMA ActivationTypes ==
    ASSUME TypeOK
    PROVE  Contract!CurrentPoint \in Nat /\ pool.activationPoint \in Nat
BY DEF TypeOK, Contract!CurrentPoint, PoolType, ClockType, U64

(* the contract's virtual price check is the model's *)
LEMMA FreshPriceAgrees ==
    Contract!FreshPriceMissing(pool.curveType, clock.unixTimestamp, stake)
      = FreshPriceMissing(pool.curveType, clock.unixTimestamp, stake)
BY DEF Contract!FreshPriceMissing, FreshPriceMissing, Contract!DepegCurve,
       DepegCurve, Contract!CacheExpired, CacheExpired, Contract!GetVirtualPrice,
       GetVirtualPrice, Contract!DepositPrice, DepositPrice,
       Contract!WithdrawPrice, WithdrawPrice, Contract!WithdrawFeeImplausible,
       WithdrawFeeImplausible, Contract!Narrow64, Narrow64, Contract!U128Max,
       U128Max

(* a pool that passed every check of lines 78-100 rejects nothing *)
LEMMA NoRejection ==
    ASSUME TypeOK, pool.enabled,
           Contract!CurrentPoint >= pool.activationPoint,
           ~FreshPriceMissing(pool.curveType, clock.unixTimestamp, stake),
           inMint \in {pool.tokenAMint, pool.tokenBMint}
    PROVE  Contract!Rejection = "NoError"
<1>1. ~(Contract!CurrentPoint < pool.activationPoint)
  BY ActivationTypes
<1>2. ~Contract!FreshPriceMissing(pool.curveType, clock.unixTimestamp, stake)
  BY FreshPriceAgrees
<1>. QED
  BY <1>1, <1>2 DEF Contract!Rejection

(* a failing step returns one of the results the contract allows *)
LEMMA FailStep ==
    ASSUME TypeOK, RefinementInv, Next, pc' = "Failed"
    PROVE  QuoteResultOf' \in Contract!Results
<1>0. QuoteResultOf' = Contract!Err(err')
  BY DEF QuoteResultOf, Contract!Err
<1>1. CASE pc = "CheckActivation"
  <2>1. CASE ~pool.enabled /\ err' = "PoolDisabled"
    <3>1. Contract!Rejection = "PoolDisabled"
      BY <2>1 DEF Contract!Rejection
    <3>. QED
      BY <1>0, <3>1, <2>1 DEF Contract!Results
  <2>2. CASE pool.enabled /\ Contract!CurrentPoint < pool.activationPoint
             /\ err' = "SwapDisabled"
    <3>1. Contract!Rejection = "SwapDisabled"
      BY <2>2 DEF Contract!Rejection
    <3>. QED
      BY <1>0, <3>1, <2>2 DEF Contract!Results
  <2>. QED
    BY <1>1, <2>1, <2>2, ReturnsErr DEF MintChecked, PriceChecked,
       ActivationChecked, Steps
<1>4. CASE pc = "UpdateVirtualPrice"
  <2>1. pool.enabled /\ Contract!CurrentPoint >= pool.activationPoint
    BY <1>4 DEF RefinementInv, ActivationChecked, Steps
  <2>2. ~(Contract!CurrentPoint < pool.activationPoint)
    BY <2>1, ActivationTypes
  <2>3. FreshPriceMissing(pool.curveType, clock.unixTimestamp, stake)
        /\ err' = "VirtualPrice"
    BY <1>4, ReturnsErr DEF MintChecked, PriceChecked, ActivationChecked, Steps
  <2>4. Contract!FreshPriceMissing(pool.curveType, clock.unixTimestamp, stake)
    BY <2>3, FreshPriceAgrees
  <2>5. Contract!Rejection = "VirtualPrice"
    BY <2>1, <2>2, <2>4 DEF Contract!Rejection
  <2>. QED
    BY <1>0, <2>3, <2>5 DEF Contract!Results
<1>2. CASE pc = "CheckMint"
  <2>1. pool.enabled /\ Contract!CurrentPoint >= pool.activationPoint
    BY <1>2 DEF RefinementInv, ActivationChecked, Steps
  <2>2. ~(Contract!CurrentPoint < pool.activationPoint)
    BY <2>1, ActivationTypes
  <2>3. inMint \notin {pool.tokenAMint, pool.tokenBMint} /\ err' = "InvalidInputMint"
    BY <1>2, ReturnsErr DEF MintChecked, PriceChecked, ActivationChecked, Steps
  <2>4. ~Contract!FreshPriceMissing(pool.curveType, clock.unixTimestamp, stake)
    BY <1>2, FreshPriceAgrees DEF RefinementInv, PriceChecked, ActivationChecked,
       Steps
  <2>5. Contract!Rejection = "InvalidInputMint"
    BY <2>1, <2>2, <2>3, <2>4 DEF Contract!Rejection
  <2>. QED
    BY <1>0, <2>3, <2>5 DEF Contract!Results
<1>3. CASE pc \in MintChecked
  <2>1. pool.enabled /\ Contract!CurrentPoint >= pool.activationPoint
    BY <1>3 DEF RefinementInv, MintChecked, PriceChecked, ActivationChecked
  <2>2. inMint \in {pool.tokenAMint, pool.tokenBMint}
    BY <1>3 DEF RefinementInv
  <2>3. ~FreshPriceMissing(pool.curveType, clock.unixTimestamp, stake)
    BY <1>3 DEF RefinementInv, MintChecked, PriceChecked
  <2>4. Contract!Rejection = "NoError"
    BY <2>1, <2>2, <2>3, NoRejection
  <2>5. err' \in Contract!ComputationErrors
    BY <1>3, ReturnsErr DEF MintChecked, PriceChecked, ActivationChecked
  <2>. QED
    BY <1>0, <2>4, <2>5 DEF Contract!Results
<1>. QED
  BY <1>1, <1>2, <1>3, <1>4, ReturnsErr

(* the Ok step returns an amount below the out vault's balance and a fee *)
(* no larger than the amount offered                                     *)
LEMMA DoneStep ==
    ASSUME TypeOK, DepositCreditSound, RefinementInv, Next, pc' = "Done"
    PROVE  QuoteResultOf' \in Contract!Results
<1>1. /\ pc = "CheckReserve"
      /\ outAmount < OutSide.tokenAmount
      /\ outAmount' = outAmount /\ tradeFee' = tradeFee
  BY ReturnsOk
<1>2. QuoteResultOf' = Contract!Ok(outAmount, tradeFee)
  BY <1>1 DEF QuoteResultOf, Contract!Ok
<1>3. pc \in ActivationChecked /\ pc \in PriceChecked /\ pc \in MintChecked
        /\ pc \in ReservesRead /\ pc \in FeeSplit /\ pc \in FeeDeducted
        /\ pc \in DepositSimulated
  BY <1>1 DEF ActivationChecked, PriceChecked, MintChecked, ReservesRead,
              FeesResolved, FeeSplit, DepositSimulated, FeeDeducted, Steps
<1>4. /\ pool.enabled /\ Contract!CurrentPoint >= pool.activationPoint
      /\ ~FreshPriceMissing(pool.curveType, clock.unixTimestamp, stake)
      /\ inMint \in {pool.tokenAMint, pool.tokenBMint}
      /\ (dir = "AtoB" <=> inMint = pool.tokenAMint)
  BY <1>3, Zenon DEF RefinementInv
<1>5. inAfterProtocol <= inAmount /\ tradeFee <= actualIn
  BY <1>3 DEF RefinementInv
<1>6. actualIn <= inAfterProtocol
  BY <1>3 DEF DepositCreditSound
<1>7. Contract!Rejection = "NoError"
  BY <1>4, NoRejection
<1>8. OutSide.tokenAmount = Contract!OutTokenAmount
  BY <1>4, Zenon DEF OutSide, Contract!OutTokenAmount
<1>9. outAmount \in 0..(Contract!OutTokenAmount - 1)
  <2>1. PICK n \in Nat : Contract!OutTokenAmount = n
    BY DEF Contract!OutTokenAmount, TypeOK, SideType, U64
  <2>2. outAmount \in Nat
    BY DEF TypeOK, U64
  <2>. QED
    BY <1>1, <1>8, <2>1, <2>2
<1>10. tradeFee \in 0..inAmount
  BY <1>5, <1>6 DEF TypeOK, U64
<1>. QED
  BY <1>2, <1>7, <1>9, <1>10 DEF Contract!Results

(* every step of the quote is a step or a stutter of the contract *)
LEMMA RefinementStep ==
    ASSUME TypeOK, DepositCreditSound, RefinementInv, [Next]_vars
    PROVE  [Contract!Quote]_Contract!cvars
<1>1. CASE UNCHANGED vars
  BY <1>1 DEF vars, snapshot, locals, Contract!cvars, Contract!snapshot,
              QuoteResultOf
<1>2. CASE Next /\ pc' \notin {"Done", "Failed"}
  BY <1>2, PendingStep
<1>3. CASE Next /\ pc' \in {"Done", "Failed"}
  <2>1. QuoteResultOf = Contract!Pending
    BY <1>3, Running DEF QuoteResultOf, Contract!Pending
  <2>2. QuoteResultOf' \in Contract!Results
    BY <1>3, FailStep, DoneStep
  <2>3. UNCHANGED Contract!snapshot
    BY <1>3, SnapshotFixed DEF snapshot, Contract!snapshot
  <2>. QED
    BY <2>1, <2>2, <2>3 DEF Contract!Quote
<1>. QED
  BY <1>1, <1>2, <1>3

(* Every behaviour of compute_quote (src/dynamic-amm-quote/src/lib.rs     *)
(* lines 59-246) is a behaviour of the contract of spec.md 4.5: it starts *)
(* without a result and returns at most once, a validation error exactly  *)
(* when the pool, the activation point, a depeg curve's missing fresh     *)
(* price (line 93) or the input mint rejects the call, and otherwise     *)
(* a computation error or an amount below the out vault's balance with a  *)
(* fee no larger than in_amount. This is the safety half of              *)
(* ImplementsContract; its liveness half, WF_cvars(Contract!Quote), is    *)
(* checked by TLC.                                                        *)
THEOREM ImplementsContractSafety ==
    Spec => Contract!Init /\ [][Contract!Quote]_Contract!cvars
<1>1. Spec => []RefinementInv
  BY RefinementInvHolds
<1>2. TypeOK /\ DepositCreditSound /\ RefinementInv /\ [Next]_vars
        => [Contract!Quote]_Contract!cvars
  BY RefinementStep
<1>. QED
  BY <1>1, <1>2, RefinementInit, TypeCorrect, DepositCreditHolds, PTL DEF Spec

=============================================================================
