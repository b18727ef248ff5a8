------------------------------- MODULE Depeg -------------------------------
(***************************************************************************)
(* The virtual price oracle for pools of a staking derivative:            *)
(* get_virtual_price of src/dynamic-amm-quote/src/depeg/spl_stake.rs and  *)
(* update_base_virtual_price, which writes it into the quote's copy of    *)
(* the pool's curve.                                                       *)
(***************************************************************************)
EXTENDS SwapCurve

CONSTANTS
    Precision,        \* prog_dynamic_amm::constants::depeg::PRECISION
    BaseCacheExpires, \* how long a stored virtual price may stand in
    Undecodable       \* stake account bytes borsh cannot decode as a StakePool

ASSUME PrecisionAssumption == Precision \in Nat \ {0}

ASSUME BaseCacheExpiresAssumption == BaseCacheExpires \in Nat

(* the fields of spl_stake_pool::state::StakePool the price reads *)
StakePoolType ==
    [totalLamports : U64, poolTokenSupply : U64,
     withdrawFeeNumerator : U64, withdrawFeeDenominator : U64]

(* total_lamports * PRECISION / pool_token_supply, checked in u128 *)
DepositPrice(s) ==
    IF s.totalLamports * Precision > U128Max \/ s.poolTokenSupply = 0 THEN None
    ELSE (s.totalLamports * Precision) \div s.poolTokenSupply

(* the withdrawal fee is implausible: denominator <= numerator * 10 *)
WithdrawFeeImplausible(s) ==
    s.withdrawFeeDenominator <= s.withdrawFeeNumerator * 10

(* total_lamports * (den - num) * PRECISION / den / pool_token_supply;    *)
(* the first product is of two u64 and fits u128, the second may not.     *)
WithdrawPrice(s) ==
    LET x == s.totalLamports
               * (s.withdrawFeeDenominator - s.withdrawFeeNumerator) * Precision
    IN  IF x > U128Max \/ s.poolTokenSupply = 0 THEN None
        ELSE (x \div s.withdrawFeeDenominator) \div s.poolTokenSupply

(* Mutant for the checks: the 3:1 blend divided by 3 instead of 4.       *)
GetVirtualPriceDivThree(s) ==
    IF s = Undecodable THEN None
    ELSE IF DepositPrice(s) = None THEN None
    ELSE IF WithdrawFeeImplausible(s) THEN Narrow64(DepositPrice(s))
    ELSE IF WithdrawPrice(s) = None THEN None
    ELSE IF 3 * DepositPrice(s) + WithdrawPrice(s) > U128Max THEN None
    ELSE Narrow64((3 * DepositPrice(s) + WithdrawPrice(s)) \div 3)

(* get_virtual_price: None for undecodable bytes or a failed operation *)
GetVirtualPrice(s) ==
    IF s = Undecodable THEN None
    ELSE IF DepositPrice(s) = None THEN None
    ELSE IF WithdrawFeeImplausible(s) THEN Narrow64(DepositPrice(s))
    ELSE IF WithdrawPrice(s) = None THEN None
    ELSE IF 3 * DepositPrice(s) + WithdrawPrice(s) > U128Max THEN None
    ELSE Narrow64((3 * DepositPrice(s) + WithdrawPrice(s)) \div 4)

(***************************************************************************)
(* update_base_virtual_price (depeg/mod.rs, not under src/; modelled from *)
(* spec.md 4.3 and 7): a Stable curve with a depeg type gets the fresh    *)
(* virtual price and the clock's timestamp as its cache time.  When no    *)
(* price can be computed it falls back to its stored price, unless the    *)
(* curve needs a fresh one: its cached price is older than               *)
(* BaseCacheExpires, and the quote fails (FreshPriceMissing).  Any other  *)
(* curve is left as it is.                                                 *)
(***************************************************************************)
DepegCurve(curve) == curve.kind = "Stable" /\ curve.depegType # "None"

(* the stored price is stale: its cache time is more than                *)
(* BaseCacheExpires before the clock's timestamp                          *)
CacheExpired(curve, timestamp) ==
    timestamp > curve.baseCacheUpdated + BaseCacheExpires

(* the error path of update_base_virtual_price(..)?                       *)
FreshPriceMissing(curve, timestamp, stake) ==
    /\ DepegCurve(curve)
    /\ GetVirtualPrice(stake) = None
    /\ CacheExpired(curve, timestamp)

UpdateBaseVirtualPrice(curve, timestamp, stake) ==
    IF DepegCurve(curve) /\ GetVirtualPrice(stake) # None
    THEN [curve EXCEPT !.baseVirtualPrice = GetVirtualPrice(stake),
                       !.baseCacheUpdated = timestamp]
    ELSE curve

=============================================================================
