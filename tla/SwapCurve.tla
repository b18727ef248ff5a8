----------------------------- MODULE SwapCurve -----------------------------
(***************************************************************************)
(* The swap curve a pool is configured with (CurveType of the program     *)
(* crate) and the swap it performs (get_swap_curve(..).swap(..)).  The    *)
(* curve code is not under src/; it is modelled from spec.md 4.6.         *)
(*                                                                         *)
(* A Stable curve carries the depeg pricing state that the Depeg module   *)
(* refreshes: base_virtual_price and base_cache_updated.  Its swap is     *)
(* modelled here by its contract only (any output below the out reserve,  *)
(* or a failure to converge); the StableSwap solver itself is left to a   *)
(* module of its own.                                                      *)
(***************************************************************************)
EXTENDS FixedPoint

CurveKinds == {"ConstantProduct", "Stable"}
DepegKinds == {"None", "SplStake"}     \* DepegType the quote engine can price

CurveConfigType ==
    [kind : CurveKinds, depegType : DepegKinds,
     baseVirtualPrice : U64, baseCacheUpdated : U64]

(* Mutant for the checks: the formula alone, failing only on a zero     *)
(* divisor.                                                                *)
ConstantProductSwapUnguarded(dx, x, y) ==
    IF x + dx = 0 THEN None ELSE (y * dx) \div (x + dx)

(* ConstantProductCurve::swap: dy = floor(y * dx / (x + dx)).  The       *)
(* curve's contract (spec.md 4.6) is an amount strictly below the out     *)
(* reserve; the formula meets it whenever both reserves are non-empty,    *)
(* and a swap against an empty reserve (x * y = 0, where the formula      *)
(* would hand over all of y) fails.                                        *)
ConstantProductSwap(dx, x, y) ==
    IF x = 0 \/ y = 0 THEN None ELSE (y * dx) \div (x + dx)

(* the outcomes of StableSwap::swap allowed by its contract: an amount    *)
(* strictly below the out reserve, or a failure (no convergence)          *)
StableSwapOutcomes(dx, x, y) == {None} \cup 0..(y - 1)

(* Mutant for the checks: source and destination reserves exchanged.   *)
SwapOutcomesReversed(curve, dx, x, y) ==
    IF curve.kind = "ConstantProduct" THEN {ConstantProductSwap(dx, y, x)}
    ELSE StableSwapOutcomes(dx, y, x)

(* swap_curve.swap(source_amount, swap_source, swap_destination, dir)     *)
SwapOutcomes(curve, dx, x, y) ==
    IF curve.kind = "ConstantProduct" THEN {ConstantProductSwap(dx, x, y)}
    ELSE StableSwapOutcomes(dx, x, y)

=============================================================================
