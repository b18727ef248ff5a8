--------------------------- MODULE QuoteContract ---------------------------
(***************************************************************************)
(* What compute_quote promises its caller (spec.md 4.5, 6 and 7), as one  *)
(* step from a pending request to a result over the same snapshot:        *)
(*   - a disabled pool, a pool not yet active, a depeg curve that needs a *)
(*     fresh virtual price none can be computed for (spec.md 4.3) and a   *)
(*     foreign input mint are rejected with their own error kind, in that *)
(*     order;                                                              *)
(*   - otherwise the quote fails with a computation error, or returns     *)
(*     QuoteResult { out_amount, fee } with out_amount strictly below the *)
(*     out vault's token account and a fee that is part of in_amount;     *)
(*   - the quote terminates: the function runs to completion.             *)
(* Quote, the step-by-step model of the code, implements it.              *)
(***************************************************************************)
EXTENDS Depeg

CONSTANTS Mints, Pools, Sides, Clocks, InAmounts, Stakes

VARIABLES pool, sideA, sideB, clock, stake, inMint, inAmount, result

snapshot == <<pool, sideA, sideB, clock, stake, inMint, inAmount>>
cvars == <<snapshot, result>>

(* the errors of a failed computation (spec.md 7): checked arithmetic,   *)
(* a vault conversion, the curve, the reserve headroom, a debug panic    *)
ComputationErrors ==
    {"TokenAAmount", "TokenBAmount", "Panic", "TradingFee",
     "DepositSimulation", "ActualInAmount", "InAmountAfterFee",
     "SwapResult", "OutAmount", "OutAmountExceedsReserve"}

Pending == [status |-> "Pending", out |-> 0, fee |-> 0, error |-> "NoError"]
Ok(out, fee) == [status |-> "Ok", out |-> out, fee |-> fee, error |-> "NoError"]
Err(e) == [status |-> "Err", out |-> 0, fee |-> 0, error |-> e]

CurrentPoint ==
    IF pool.activationType = "Slot" THEN clock.slot ELSE clock.unixTimestamp

(* the validation of spec.md 4.5 steps 1 and 2, first failure first *)
Rejection ==
    IF ~pool.enabled THEN "PoolDisabled"
    ELSE IF CurrentPoint < pool.activationPoint THEN "SwapDisabled"
    ELSE IF FreshPriceMissing(pool.curveType, clock.unixTimestamp, stake)
         THEN "VirtualPrice"
    ELSE IF inMint \notin {pool.tokenAMint, pool.tokenBMint} THEN "InvalidInputMint"
    ELSE "NoError"

(* the raw balance of the out vault's token account (step 11) *)
OutTokenAmount ==
    IF inMint = pool.tokenAMint THEN sideB.tokenAmount ELSE sideA.tokenAmount

Results ==
    IF Rejection # "NoError" THEN {Err(Rejection)}
    ELSE {Err(e) : e \in ComputationErrors}
           \cup {Ok(o, f) : o \in 0..(OutTokenAmount - 1), f \in 0..inAmount}

Init ==
    /\ pool \in Pools
    /\ sideA \in Sides
    /\ sideB \in Sides
    /\ clock \in Clocks
    /\ stake \in Stakes
    /\ inMint \in Mints
    /\ inAmount \in InAmounts
    /\ result = Pending

Quote ==
    /\ result = Pending
    /\ result' \in Results
    /\ UNCHANGED snapshot

FairSpec == Init /\ [][Quote]_cvars /\ WF_cvars(Quote)

=============================================================================
