---------------------------- MODULE VaultShares ----------------------------
(***************************************************************************)
(* Share accounting of a dynamic (yield-bearing) vault, as the quote       *)
(* engine calls it: Vault::get_amount_by_share and                         *)
(* Vault::get_unmint_amount of the vault program.  That program is a       *)
(* dependency of this repository, not under src/, so these operators are  *)
(* modelled from spec.md section 4.2.                                      *)
(*                                                                         *)
(* Integers and the None of a failed Option come from FixedPoint.       *)
(***************************************************************************)
EXTENDS FixedPoint

(***************************************************************************)
(* A vault as the quote sees it at the quote's current_time: total_amount *)
(* and the part of it that is still locked profit at that time.  The      *)
(* release schedule of the locked profit is a function of the vault's     *)
(* fields and current_time only, and current_time is fixed for one quote, *)
(* so the locked amount is a value of the snapshot.                       *)
(***************************************************************************)
VaultType == [total : U64, locked : U64]

(* Vault::get_unlocked_amount: total_amount.checked_sub(locked_profit) *)
GetUnlockedAmount(v) == IF v.locked <= v.total THEN v.total - v.locked ELSE None

(* Vault::get_amount_by_share: floor(share * unlocked / total_supply) *)
GetAmountByShare(v, share, supply) ==
    IF GetUnlockedAmount(v) = None \/ supply = 0 THEN None
    ELSE Narrow64((share * GetUnlockedAmount(v)) \div supply)

(* Vault::get_unmint_amount: floor(out_token * total_supply / unlocked),  *)
(* the number of vault LP tokens a deposit of out_token would mint.       *)
GetUnmintAmount(v, amount, supply) ==
    IF GetUnlockedAmount(v) = None \/ GetUnlockedAmount(v) = 0 THEN None
    ELSE Narrow64((amount * supply) \div GetUnlockedAmount(v))

=============================================================================
