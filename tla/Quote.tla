------------------------------- MODULE Quote -------------------------------
(***************************************************************************)
(* The quote orchestrator: compute_quote of                                *)
(* src/dynamic-amm-quote/src/lib.rs, lines 59-246.                         *)
(*                                                                         *)
(* compute_quote is a linear, synchronous function over a snapshot of the *)
(* pool, its two vaults, the pool's vault LP balances, the vault LP mint   *)
(* supplies, the vaults' token accounts, the clock and the stake account  *)
(* bytes.  The snapshot is chosen by Init and never changes; pc walks the *)
(* function's steps in the code's order, and every `ensure!`, `?` and     *)
(* `.context(..)?` is a disjunct that ends the quote in "Failed" with the *)
(* kind of the error in err.                                               *)
(***************************************************************************)
EXTENDS VaultShares, FeeSchedule, Depeg

CONSTANTS
    Mints,      \* token mints, model values
    Pools,      \* the pool snapshots a quote may be asked about
    Sides,      \* snapshots of one side: vault, pool's vault LP, LP mint supply, token account
    Clocks,     \* clock snapshots
    InAmounts,  \* in_amount values
    Stakes      \* the bytes of the pool's stake account: a StakePool or Undecodable

(* u16 bps times 10 fits u64, as it does for the real widths; so the     *)
(* checked_mul of get_latest_pool_fees never fails.                       *)
ASSUME FeeNumeratorFits == U16Max * FeeBpsScale <= U64Max

ASSUME NoneAssumption == None \notin Nat

(* the fields of prog_dynamic_amm::state::Pool that compute_quote reads    *)
(* (enabled, bootstrapping.activation_type and activation_point, the      *)
(* token mints, fees, the fee curve and its completion flag, curve_type). *)
(* The Pool of src/programs/amm/src/state.rs is an older layout without  *)
(* the bootstrapping and fee curve fields, so this follows spec.md 3.     *)
PoolType ==
    [enabled : BOOLEAN,
     activationType : {"Slot", "Timestamp"},
     activationPoint : U64,
     tokenAMint : Mints, tokenBMint : Mints,
     fees : PoolFeesType,
     feeCurve : FeeCurveStateType,
     isUpdateFeeCompleted : BOOLEAN,
     curveType : CurveConfigType]

(* one side of the pool: vault_x, pool_vault_x_lp_token.amount,           *)
(* vault_x_lp_mint.supply and vault_x_token.amount                        *)
SideType == [vault : VaultType, lpAmount : U64, lpSupply : U64, tokenAmount : U64]

ClockType == [slot : U64, unixTimestamp : U64]

ASSUME SnapshotAssumption ==
    /\ Pools \subseteq PoolType
    /\ Sides \subseteq SideType
    /\ Clocks \subseteq ClockType
    /\ InAmounts \subseteq U64
    /\ Stakes \subseteq StakePoolType \cup {Undecodable}

(* A token account never holds more than its mint's supply: in a        *)
(* snapshot read at one slot, the pool's vault LP balance is at most the  *)
(* vault LP mint's supply.                                                 *)
ASSUME PoolLpWithinSupply == \A s \in Sides : s.lpAmount <= s.lpSupply

VARIABLES
    \* the snapshot (QuoteData) and the request
    pool, sideA, sideB, clock, stake, inMint, inAmount,
    \* the locals of compute_quote
    pc, err, currentPoint, curve, dir, reserveIn, reserveOut, fees,
    tradeFee, protocolFee, inAfterProtocol, inVault, actualIn,
    actualInAfterFee, swapCurve, swapped, outAmount

snapshot == <<pool, sideA, sideB, clock, stake, inMint, inAmount>>
locals == <<currentPoint, curve, dir, reserveIn, reserveOut, fees,
            tradeFee, protocolFee, inAfterProtocol, inVault, actualIn,
            actualInAfterFee, swapCurve, swapped, outAmount>>
vars == <<snapshot, pc, err, locals>>

Steps == {"CheckActivation", "UpdateVirtualPrice", "CheckMint", "Reserves",
          "ResolveFees", "ChargeFees", "SimulateDeposit", "DeductTradeFee",
          "Swap", "ConvertOut", "CheckReserve", "Done", "Failed"}

Errors == {"NoError", "PoolDisabled", "SwapDisabled", "VirtualPrice", "InvalidInputMint",
           "TokenAAmount", "TokenBAmount", "Panic", "TradingFee",
           "DepositSimulation", "ActualInAmount", "InAmountAfterFee",
           "SwapResult", "OutAmount", "OutAmountExceedsReserve"}

(* the side the trade takes from (in) and gives to (out), by direction *)
InSide == IF dir = "AtoB" THEN sideA ELSE sideB
OutSide == IF dir = "AtoB" THEN sideB ELSE sideA

Init ==
    /\ pool \in Pools
    /\ sideA \in Sides
    /\ sideB \in Sides
    /\ clock \in Clocks
    /\ stake \in Stakes
    /\ inMint \in Mints
    /\ inAmount \in InAmounts
    /\ pc = "CheckActivation"
    /\ err = "NoError"
    /\ currentPoint = 0
    /\ curve = pool.curveType
    /\ dir = "AtoB"
    /\ reserveIn = 0
    /\ reserveOut = 0
    /\ fees = pool.fees
    /\ tradeFee = 0
    /\ protocolFee = 0
    /\ inAfterProtocol = 0
    /\ inVault = sideA.vault
    /\ actualIn = 0
    /\ actualInAfterFee = 0
    /\ swapCurve = pool.curveType
    /\ swapped = 0
    /\ outAmount = 0

(* an early return with an error of kind e *)
Fail(e) ==
    /\ pc' = "Failed"
    /\ err' = e
    /\ UNCHANGED <<snapshot, locals>>

(* lines 78-90: the current point in the pool's activation unit, then    *)
(* ensure!(pool.enabled) and ensure!(current_point >= activation_point).  *)
(* The activation type of a deserialised pool is always Slot or           *)
(* Timestamp, so the try_from error is not modelled.                       *)
CheckActivation ==
    LET point == IF pool.activationType = "Slot" THEN clock.slot
                 ELSE clock.unixTimestamp
    IN  /\ pc = "CheckActivation"
        /\ \/ /\ ~pool.enabled
              /\ Fail("PoolDisabled")
           \/ /\ pool.enabled
              /\ point < pool.activationPoint
              /\ Fail("SwapDisabled")
           \/ /\ pool.enabled
              /\ point >= pool.activationPoint
              /\ pc' = "UpdateVirtualPrice"
              /\ currentPoint' = point
              /\ UNCHANGED <<snapshot, err, curve, dir, reserveIn, reserveOut,
                             fees, tradeFee, protocolFee, inAfterProtocol,
                             inVault, actualIn, actualInAfterFee, swapCurve,
                             swapped, outAmount>>

(* lines 92-95: a copy of the pool's curve gets the fresh virtual price, *)
(* and update_base_virtual_price(..)? returns its error when the curve    *)
(* needs a fresh price and none can be computed; current_time is the     *)
(* clock's unix timestamp, which the model keeps non-negative, so its    *)
(* try_into cannot fail.                                                   *)
UpdateVirtualPrice ==
    /\ pc = "UpdateVirtualPrice"
    /\ \/ /\ FreshPriceMissing(pool.curveType, clock.unixTimestamp, stake)
          /\ Fail("VirtualPrice")
       \/ /\ ~FreshPriceMissing(pool.curveType, clock.unixTimestamp, stake)
          /\ pc' = "CheckMint"
          /\ curve' = UpdateBaseVirtualPrice(pool.curveType, clock.unixTimestamp, stake)
          /\ UNCHANGED <<snapshot, err, currentPoint, dir, reserveIn, reserveOut,
                         fees, tradeFee, protocolFee, inAfterProtocol, inVault,
                         actualIn, actualInAfterFee, swapCurve, swapped, outAmount>>

(* lines 97-100 *)
CheckMint ==
    /\ pc = "CheckMint"
    /\ \/ /\ inMint \notin {pool.tokenAMint, pool.tokenBMint}
          /\ Fail("InvalidInputMint")
       \/ /\ inMint \in {pool.tokenAMint, pool.tokenBMint}
          /\ pc' = "Reserves"
          /\ UNCHANGED <<snapshot, err, locals>>

(* lines 102-154: the pool's token amounts in both vaults, the trade     *)
(* direction from the input mint, and the in/out selection.               *)
Reserves ==
    LET a == GetAmountByShare(sideA.vault, sideA.lpAmount, sideA.lpSupply)
        b == GetAmountByShare(sideB.vault, sideB.lpAmount, sideB.lpSupply)
        d == IF inMint = pool.tokenAMint THEN "AtoB" ELSE "BtoA"
    IN  /\ pc = "Reserves"
        /\ \/ /\ a = None
              /\ Fail("TokenAAmount")
           \/ /\ a # None
              /\ b = None
              /\ Fail("TokenBAmount")
           \/ /\ a # None
              /\ b # None
              /\ pc' = "ResolveFees"
              /\ dir' = d
              /\ reserveIn' = IF d = "AtoB" THEN a ELSE b
              /\ reserveOut' = IF d = "AtoB" THEN b ELSE a
              /\ inVault' = IF d = "AtoB" THEN sideA.vault ELSE sideB.vault
              /\ UNCHANGED <<snapshot, err, currentPoint, curve, fees, tradeFee,
                             protocolFee, inAfterProtocol, actualIn,
                             actualInAfterFee, swapCurve, swapped, outAmount>>

(* line 156: get_latest_pool_fees at the current point.  Its linear      *)
(* interpolation is unchecked: a release build wraps (the value of        *)
(* GetLatestPoolFees), a debug build panics on the same overflow.         *)
ResolveFees ==
    /\ pc = "ResolveFees"
    /\ \/ /\ InterpolationOverflows(pool.feeCurve, currentPoint)
          /\ ~pool.isUpdateFeeCompleted
          /\ Fail("Panic")
       \/ /\ pc' = "ChargeFees"
          /\ fees' = GetLatestPoolFees(pool.fees, pool.feeCurve,
                                       pool.isUpdateFeeCompleted, currentPoint)
          /\ UNCHANGED <<snapshot, err, currentPoint, curve, dir, reserveIn,
                         reserveOut, tradeFee, protocolFee, inAfterProtocol,
                         inVault, actualIn, actualInAfterFee, swapCurve,
                         swapped, outAmount>>

(* lines 158-173: the trade fee of in_amount, the protocol's cut of it,  *)
(* which is taken out of the trade fee and out of in_amount.              *)
ChargeFees ==
    LET tf == CalculateFee(inAmount, fees.tradeFeeNumerator,
                           fees.tradeFeeDenominator)
        pf == IF tf = None THEN None
              ELSE CalculateFee(tf, fees.protocolTradeFeeNumerator,
                                fees.protocolTradeFeeDenominator)
        charged == tf # None /\ pf # None /\ pf <= tf /\ pf <= inAmount
    IN  /\ pc = "ChargeFees"
        /\ \/ /\ ~charged
              /\ Fail("TradingFee")
           \/ /\ charged
              /\ pc' = "SimulateDeposit"
              /\ tradeFee' = tf - pf
              /\ protocolFee' = pf
              /\ inAfterProtocol' = inAmount - pf
              /\ UNCHANGED <<snapshot, err, currentPoint, curve, dir, reserveIn,
                             reserveOut, fees, inVault, actualIn,
                             actualInAfterFee, swapCurve, swapped, outAmount>>

(* Mutant for the checks: the pool's grown LP balance read back over the *)
(* LP supply before the deposit's LP was added to it.                      *)
SimulateDepositStaleSupply ==
    LET inLp == GetUnmintAmount(inVault, inAfterProtocol, InSide.lpSupply)
        grown == [inVault EXCEPT !.total = inVault.total + inAfterProtocol]
        after == GetAmountByShare(grown, inLp + InSide.lpAmount, InSide.lpSupply)
        simulated == /\ inLp # None
                     /\ grown.total <= U64Max
                     /\ inLp + InSide.lpAmount <= U64Max
                     /\ InSide.lpSupply + inLp <= U64Max
                     /\ after # None
    IN  /\ pc = "SimulateDeposit"
        /\ \/ /\ ~(simulated /\ after >= reserveIn)
              /\ Fail(IF simulated THEN "ActualInAmount" ELSE "DepositSimulation")
           \/ /\ simulated
              /\ after >= reserveIn
              /\ pc' = "DeductTradeFee"
              /\ inVault' = grown
              /\ actualIn' = after - reserveIn
              /\ UNCHANGED <<snapshot, err, currentPoint, curve, dir, reserveIn,
                             reserveOut, fees, tradeFee, protocolFee,
                             inAfterProtocol, actualInAfterFee, swapCurve,
                             swapped, outAmount>>

(* lines 175-205: simulate depositing in_amount_after_protocol_fee into  *)
(* the quote's copy of the in vault: the LP it would mint, the vault's    *)
(* grown total, and the pool's token amount re-read from its grown LP     *)
(* balance over the grown supply; actual_in_amount is the growth.         *)
SimulateDeposit ==
    LET inLp == GetUnmintAmount(inVault, inAfterProtocol, InSide.lpSupply)
        grown == [inVault EXCEPT !.total = inVault.total + inAfterProtocol]
        after == GetAmountByShare(grown, inLp + InSide.lpAmount,
                                  InSide.lpSupply + inLp)
        simulated == /\ inLp # None
                     /\ grown.total <= U64Max
                     /\ inLp + InSide.lpAmount <= U64Max
                     /\ InSide.lpSupply + inLp <= U64Max
                     /\ after # None
    IN  /\ pc = "SimulateDeposit"
        /\ \/ /\ ~(simulated /\ after >= reserveIn)
              /\ Fail(IF simulated THEN "ActualInAmount" ELSE "DepositSimulation")
           \/ /\ simulated
              /\ after >= reserveIn
              /\ pc' = "DeductTradeFee"
              /\ inVault' = grown
              /\ actualIn' = after - reserveIn
              /\ UNCHANGED <<snapshot, err, currentPoint, curve, dir, reserveIn,
                             reserveOut, fees, tradeFee, protocolFee,
                             inAfterProtocol, actualInAfterFee, swapCurve,
                             swapped, outAmount>>

(* Mutant for the checks: the trade fee subtracted unchecked.           *)
DeductTradeFeeUnchecked ==
    /\ pc = "DeductTradeFee"
    /\ pc' = "Swap"
    /\ actualInAfterFee' = actualIn - tradeFee
    /\ UNCHANGED <<snapshot, err, currentPoint, curve, dir, reserveIn,
                   reserveOut, fees, tradeFee, protocolFee, inAfterProtocol,
                   inVault, actualIn, swapCurve, swapped, outAmount>>

(* lines 207-209 *)
DeductTradeFee ==
    /\ pc = "DeductTradeFee"
    /\ \/ /\ actualIn < tradeFee
          /\ Fail("InAmountAfterFee")
       \/ /\ actualIn >= tradeFee
          /\ pc' = "Swap"
          /\ actualInAfterFee' = actualIn - tradeFee
          /\ UNCHANGED <<snapshot, err, currentPoint, curve, dir, reserveIn,
                         reserveOut, fees, tradeFee, protocolFee,
                         inAfterProtocol, inVault, actualIn, swapCurve,
                         swapped, outAmount>>

(* lines 211-223: the swap curve is built from pool.curve_type, the      *)
(* pool's stored curve, not from the curve the depeg step refreshed.      *)
Swap ==
    /\ pc = "Swap"
    /\ swapCurve' = pool.curveType
    /\ \E o \in SwapOutcomes(pool.curveType, actualInAfterFee, reserveIn, reserveOut) :
          \/ /\ o = None
             /\ pc' = "Failed"
             /\ err' = "SwapResult"
             /\ UNCHANGED <<snapshot, currentPoint, curve, dir, reserveIn,
                            reserveOut, fees, tradeFee, protocolFee,
                            inAfterProtocol, inVault, actualIn,
                            actualInAfterFee, swapped, outAmount>>
          \/ /\ o # None
             /\ pc' = "ConvertOut"
             /\ swapped' = o
             /\ UNCHANGED <<snapshot, err, currentPoint, curve, dir, reserveIn,
                            reserveOut, fees, tradeFee, protocolFee,
                            inAfterProtocol, inVault, actualIn,
                            actualInAfterFee, outAmount>>

(* Mutant for the checks: the swapped amount converted to out vault LP  *)
(* rounding up instead of down, so the vault no longer keeps the         *)
(* remainder of the round trip.                                           *)
ConvertOutRoundUp ==
    LET unlocked == GetUnlockedAmount(OutSide.vault)
        outLp == IF unlocked = None \/ unlocked = 0 THEN None
                 ELSE Narrow64((swapped * OutSide.lpSupply + unlocked - 1) \div unlocked)
        out == IF outLp = None THEN None
               ELSE GetAmountByShare(OutSide.vault, outLp, OutSide.lpSupply)
    IN  /\ pc = "ConvertOut"
        /\ \/ /\ out = None
              /\ Fail("OutAmount")
           \/ /\ out # None
              /\ pc' = "CheckReserve"
              /\ outAmount' = out
              /\ UNCHANGED <<snapshot, err, currentPoint, curve, dir, reserveIn,
                             reserveOut, fees, tradeFee, protocolFee,
                             inAfterProtocol, inVault, actualIn,
                             actualInAfterFee, swapCurve, swapped>>

ConvertOut ==
    LET outLp == GetUnmintAmount(OutSide.vault, swapped, OutSide.lpSupply)
        out == IF outLp = None THEN None
               ELSE GetAmountByShare(OutSide.vault, outLp, OutSide.lpSupply)
    IN  /\ pc = "ConvertOut"
        /\ \/ /\ out = None
              /\ Fail("OutAmount")
           \/ /\ out # None
              /\ pc' = "CheckReserve"
              /\ outAmount' = out
              /\ UNCHANGED <<snapshot, err, currentPoint, curve, dir, reserveIn,
                             reserveOut, fees, tradeFee, protocolFee,
                             inAfterProtocol, inVault, actualIn,
                             actualInAfterFee, swapCurve, swapped>>

(* Mutant for the checks: the reserve headroom check made non-strict.  *)
CheckReserveNonStrict ==
    /\ pc = "CheckReserve"
    /\ \/ /\ outAmount > OutSide.tokenAmount
          /\ Fail("OutAmountExceedsReserve")
       \/ /\ outAmount <= OutSide.tokenAmount
          /\ pc' = "Done"
          /\ UNCHANGED <<snapshot, err, locals>>

(* lines 237-245: ensure!(out_amount < out_vault_token_account.amount) *)
CheckReserve ==
    /\ pc = "CheckReserve"
    /\ \/ /\ outAmount >= OutSide.tokenAmount
          /\ Fail("OutAmountExceedsReserve")
       \/ /\ outAmount < OutSide.tokenAmount
          /\ pc' = "Done"
          /\ UNCHANGED <<snapshot, err, locals>>

Next ==
    \/ CheckActivation
    \/ UpdateVirtualPrice
    \/ CheckMint
    \/ Reserves
    \/ ResolveFees
    \/ ChargeFees
    \/ SimulateDeposit
    \/ DeductTradeFee
    \/ Swap
    \/ ConvertOut
    \/ CheckReserve

Spec == Init /\ [][Next]_vars

(* compute_quote is synchronous and never waits: while it has not        *)
(* returned, its next step is enabled and is taken.                       *)
FairSpec == Spec /\ WF_vars(Next)

(* lines 242-245: what the function returns, Ok(QuoteResult { fee:       *)
(* trade_fee.try_into()?, out_amount }) or the error it ended with; the   *)
(* trade fee after the split is at most actual_in_amount, so try_into     *)
(* cannot fail.                                                            *)
QuoteResultOf ==
    CASE pc = "Done" ->
            [status |-> "Ok", out |-> outAmount, fee |-> tradeFee, error |-> "NoError"]
      [] pc = "Failed" ->
            [status |-> "Err", out |-> 0, fee |-> 0, error |-> err]
      [] OTHER ->
            [status |-> "Pending", out |-> 0, fee |-> 0, error |-> "NoError"]

Contract == INSTANCE QuoteContract WITH result <- QuoteResultOf

-----------------------------------------------------------------------------
(***************************************************************************)
(* Properties                                                              *)
(***************************************************************************)

(* the steps compute_quote has passed once it reaches pc (Failed aside) *)
FeesResolved == {"ChargeFees", "SimulateDeposit", "DeductTradeFee", "Swap",
                 "ConvertOut", "CheckReserve", "Done"}
DepositSimulated == {"DeductTradeFee", "Swap", "ConvertOut", "CheckReserve", "Done"}
Swapped == {"ConvertOut", "CheckReserve", "Done"}
PriceUpdated == Steps \ {"CheckActivation", "UpdateVirtualPrice", "Failed"}

(* Every variable holds a value of its type: the snapshot is well formed *)
(* and every local of compute_quote stays within its integer width.      *)
TypeOK ==
    /\ pool \in PoolType
    /\ sideA \in SideType
    /\ sideB \in SideType
    /\ clock \in ClockType
    /\ stake \in StakePoolType \cup {Undecodable}
    /\ inMint \in Mints
    /\ inAmount \in U64
    /\ pc \in Steps
    /\ err \in Errors
    /\ currentPoint \in U64
    /\ curve \in CurveConfigType
    /\ dir \in {"AtoB", "BtoA"}
    /\ reserveIn \in U64
    /\ reserveOut \in U64
    /\ fees \in PoolFeesType
    /\ tradeFee \in Nat
    /\ protocolFee \in Nat
    /\ inAfterProtocol \in U64
    /\ inVault \in VaultType
    /\ actualIn \in U64
    /\ actualInAfterFee \in U64
    /\ swapCurve \in CurveConfigType
    /\ swapped \in Nat
    /\ outAmount \in U64

(* The simulated deposit of compute_quote (lines 175-205) never lowers   *)
(* the pool's token amount in the in vault, so the checked_sub of line   *)
(* 204 never fails, and it never credits the pool with more than the     *)
(* in_amount_after_protocol_fee it deposits: the vault's rounding is      *)
(* absorbed by the pool, never paid by the vault.                         *)
DepositCreditSound ==
    /\ err # "ActualInAmount"
    /\ pc \in DepositSimulated => actualIn <= inAfterProtocol

(* A quote of a constant-product pool never pays out more than a swap of *)
(* the whole in_amount would, fee-free and without the vault round       *)
(* trips: the fee split, the simulated deposit, the swap and the         *)
(* share round trip of the out amount (lines 158-235) can only take      *)
(* away from the user.                                                     *)
QuoteWithinFeeFreeSwap ==
    pc = "Done" /\ pool.curveType.kind = "ConstantProduct"
        => /\ ConstantProductSwap(inAmount, reserveIn, reserveOut) # None
           /\ outAmount <= ConstantProductSwap(inAmount, reserveIn, reserveOut)

(* spec.md 8, round trip: the conversion of the swapped amount into out  *)
(* vault LP and back into tokens (lines 225-235) never pays the user more *)
(* than the curve gave: get_unmint_amount and get_amount_by_share round   *)
(* so that the vault keeps the remainder, whatever its locked profit.     *)
OutRoundTripNoGain ==
    pc \in {"CheckReserve", "Done"} => outAmount <= swapped

(* the fees a quote resolved are those of the fee curve at the current  *)
(* point, as the reference computes them                                  *)
FeesFollowCurve ==
    fees = [pool.fees EXCEPT !.tradeFeeNumerator =
               ReferenceTradeBps(pool.feeCurve, currentPoint) * FeeBpsScale]

ActiveSortedFeeCurve ==
    /\ pool.feeCurve.feeCurveType # "None"
    /\ ~pool.isUpdateFeeCompleted
    /\ SortedPoints(pool.feeCurve.points)

(* On a fee curve with ascending points, the fees get_latest_pool_fees   *)
(* resolves (line 156) are the stored fees with the trade fee numerator  *)
(* ten times the curve's fee at the current point, as the reference      *)
(* computes it per segment (spec.md 4.4): the scan's choice of segment,  *)
(* the Flat step and the Linear blend agree with it wherever the blend's *)
(* u64 numerator does not overflow.                                       *)
LatestFeesMatchReference ==
    pc \in FeesResolved /\ ActiveSortedFeeCurve
      /\ ~InterpolationOverflows(pool.feeCurve, currentPoint)
        => FeesFollowCurve

(* spec.md 4.1: every arithmetic operation is checked and fails rather   *)
(* than wraps; so the fees a quote goes on with are always the fee       *)
(* curve's, whatever the distance between its points.  The blend of     *)
(* lines 292-293 uses unchecked u64 `*` and `+`.                          *)
ResolvedFeesExact ==
    pc \in FeesResolved /\ ActiveSortedFeeCurve => FeesFollowCurve

(* The virtual price written into the quote's curve by the depeg step    *)
(* (lines 92-93, get_virtual_price) never exceeds the stake pool's       *)
(* deposit price and, when the withdrawal fee is applied, is never below *)
(* its withdraw price.                                                     *)
VirtualPriceBracketed ==
    pc \in PriceUpdated /\ curve.kind = "Stable" /\ curve.depegType # "None"
      /\ stake # Undecodable /\ GetVirtualPrice(stake) # None
        => /\ curve.baseVirtualPrice <= DepositPrice(stake)
           /\ ~WithdrawFeeImplausible(stake)
                => WithdrawPrice(stake) <= curve.baseVirtualPrice

(* Quote implements what compute_quote promises (QuoteContract): every   *)
(* run of the steps, with its early returns, ends, and ends in a result  *)
(* the contract allows; validation errors in the code's order, a        *)
(* returned out_amount below the out vault's token account and a fee    *)
(* that the deposit credit (lines 175-209) keeps within in_amount.        *)
ImplementsContract == Contract!FairSpec

(* spec.md 8, Conservation: a quote pays out less than the pool's        *)
(* reserve of the out token, the amount its LP in the out vault is worth *)
(* (lines 102-154), not only less than the out vault's token account that *)
(* line 238 compares with: the curve (line 211) stays below the reserve   *)
(* and the share round trip of lines 225-235 can only round it down.      *)
QuoteConservation ==
    pc = "Done" => outAmount < reserveOut

(* spec.md 4.3: the virtual price is written into the curve before the   *)
(* curve is invoked, so the swap (line 211) prices with the refreshed    *)
(* curve.                                                                  *)
SwapUsesRefreshedCurve ==
    pc \in Swapped => swapCurve = curve


=============================================================================
