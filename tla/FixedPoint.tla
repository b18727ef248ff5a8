----------------------------- MODULE FixedPoint -----------------------------
(***************************************************************************)
(* The integer domains of the quote engine (spec.md section 4.1).  The    *)
(* engine computes in u64, with u128 for cross products, and every        *)
(* operation is checked: a failed operation yields None (the Option's     *)
(* None, turned into an error by the caller's `?` or `.context(..)?`).    *)
(*                                                                         *)
(* The widths are CONSTANTS so that a model can scale them down: U64Max   *)
(* stands for u64::MAX, U16Max for u16::MAX, and u128 is the square of    *)
(* u64, so that the product of two u64 always fits in u128, as it does in *)
(* the code.                                                               *)
(***************************************************************************)
EXTENDS Naturals

CONSTANTS
    U64Max,     \* u64::MAX
    U16Max,     \* u16::MAX
    None        \* the None of an Option<_>

ASSUME U64MaxAssumption == U64Max \in Nat \ {0}
ASSUME U16MaxAssumption == U16Max \in Nat \ {0} /\ U16Max <= U64Max

U64 == 0..U64Max
U16 == 0..U16Max
U128Max == (U64Max + 1) * (U64Max + 1) - 1

(* u64::try_from(x).ok() for a wider x *)
Narrow64(x) == IF x <= U64Max THEN x ELSE None

=============================================================================
