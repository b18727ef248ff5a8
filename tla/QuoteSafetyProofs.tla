------------------------- MODULE QuoteSafetyProofs -------------------------
(***************************************************************************)
(* Proofs of the quote's relational safety properties, for every value   *)
(* of the constants: the out-side share round trip never pays more than  *)
(* the curve gave.  They rest on the type invariant of QuoteProofs and on *)
(* facts about integer division.                                           *)
(***************************************************************************)
EXTENDS QuoteProofs

-----------------------------------------------------------------------------
(* Integer division *)

(* the floor of a quotient times the divisor is at most the dividend *)
LEMMA FloorTimesDivisor ==
    ASSUME NEW a \in Nat, NEW d \in Nat \ {0}
    PROVE  (a \div d) * d <= a
OBVIOUS

(* division by a positive number is monotone in the dividend *)
LEMMA DivMonotone ==
    ASSUME NEW a \in Nat, NEW b \in Nat, NEW d \in Nat \ {0}, a <= b
    PROVE  a \div d <= b \div d
OBVIOUS

LEMMA MulDivCancel ==
    ASSUME NEW x \in Nat, NEW d \in Nat \ {0}
    PROVE  (x * d) \div d = x
OBVIOUS

-----------------------------------------------------------------------------
(***************************************************************************)
(* spec.md 8, round trip: x tokens converted to LP with get_unmint_amount *)
(* and the LP back to tokens with get_amount_by_share, over one vault and *)
(* one supply, give at most x.  With U the unlocked amount and S the      *)
(* supply: floor(floor(x * S / U) * U / S) <= floor(x * S / S) = x.       *)
(***************************************************************************)
LEMMA RoundTrip ==
    ASSUME NEW v \in VaultType, NEW x \in Nat, NEW S \in Nat,
           GetUnmintAmount(v, x, S) # None,
           GetAmountByShare(v, GetUnmintAmount(v, x, S), S) # None
    PROVE  GetAmountByShare(v, GetUnmintAmount(v, x, S), S) <= x
<1> DEFINE U == v.total - v.locked
           k == (x * S) \div U
<1>1. v.locked <= v.total /\ U # 0 /\ GetUnlockedAmount(v) = U
  BY NoneAssumption DEF GetUnmintAmount, GetUnlockedAmount, VaultType, U64
<1>2. U \in Nat \ {0}
  BY <1>1 DEF VaultType, U64
<1>3. GetUnmintAmount(v, x, S) = k /\ k \in Nat
  BY <1>1, <1>2, NoneAssumption DEF GetUnmintAmount, Narrow64
<1>4. S # 0
  BY <1>1, <1>3 DEF GetAmountByShare
<1>5. GetAmountByShare(v, k, S) = (k * U) \div S
  BY <1>1, <1>2, <1>3, <1>4, NoneAssumption DEF GetAmountByShare, Narrow64
<1>6. k * U <= x * S
  BY <1>2, FloorTimesDivisor
<1>7. (k * U) \div S <= (x * S) \div S
  BY <1>2, <1>3, <1>4, <1>6, DivMonotone
<1>8. (x * S) \div S = x
  BY <1>4, MulDivCancel
<1>. QED
  BY <1>3, <1>5, <1>7, <1>8


(* the floor of a quotient is the largest multiple below the dividend *)
LEMMA FloorAbove ==
    ASSUME NEW a \in Nat, NEW d \in Nat \ {0}
    PROVE  a < (a \div d + 1) * d /\ a \div d \in Nat
OBVIOUS

(* floors compare as the fractions do: a / b <= c / e gives               *)
(* floor(a / b) <= floor(c / e)                                            *)
LEMMA CrossDiv ==
    ASSUME NEW a \in Nat, NEW b \in Nat \ {0}, NEW c \in Nat, NEW e \in Nat \ {0},
           a * e <= c * b
    PROVE  a \div b <= c \div e
<1>1. PICK q \in Nat : q = a \div b
  BY SMTT(30)
<1>2. PICK m \in Nat : m = c \div e
  BY SMTT(30)
<1>3. q * b <= a
  BY <1>1, FloorTimesDivisor
<1>4. c < (m + 1) * e
  BY <1>2, FloorAbove
<1>5. q * e * b <= c * b
  BY <1>3, SMTT(30)
<1>6. q * e <= c
  BY <1>5, SMTT(30)
<1>7. q * e < (m + 1) * e
  BY <1>4, <1>6, SMTT(30)
<1>8. q < m + 1
  BY <1>7, SMTT(30)
<1>. QED
  BY <1>1, <1>2, <1>8, SMTT(30)

(* a whole multiple of the divisor passes through the floor *)
LEMMA DivAddMultiple ==
    ASSUME NEW d \in Nat, NEW y \in Nat, NEW S \in Nat \ {0}
    PROVE  (d * S + y) \div S = d + y \div S
<1>1. PICK m \in Nat : m = y \div S
  BY SMTT(30)
<1>2. m * S <= y /\ y < (m + 1) * S
  BY <1>1, FloorTimesDivisor, FloorAbove
<1>. QED
  BY <1>1, <1>2, SMTT(30)

(***************************************************************************)
(* The arithmetic of the simulated deposit (lines 175-205).  A vault with *)
(* unlocked amount U and LP supply S, of which the pool holds L <= S, is  *)
(* worth floor(L*U/S) to the pool.  A deposit of d mints k LP with        *)
(* k*U <= d*S and makes the pool's share floor((k+L)*(U+d)/(S+k)).  That  *)
(* is at least floor(L*U/S) because L*U*k <= S*U*k, and at most           *)
(* d + floor(L*U/S) because                                               *)
(*   (d*S + L*U)*(S+k) - (k+L)*(U+d)*S = (d*S - k*U)*(S - L) >= 0.        *)
(***************************************************************************)
LEMMA DepositArith ==
    ASSUME NEW U \in Nat \ {0}, NEW S \in Nat \ {0}, NEW d \in Nat, NEW L \in Nat,
           NEW k \in Nat, L <= S, k * U <= d * S
    PROVE  /\ (L * U) \div S <= ((k + L) * (U + d)) \div (S + k)
           /\ ((k + L) * (U + d)) \div (S + k) <= d + (L * U) \div S
<1>1. L * U * (S + k) <= ((k + L) * (U + d)) * S
  <2>1. L * U * k <= S * U * k
    BY SMTT(30)
  <2>. QED
    BY <2>1, SMTT(30)
<1>2. ((k + L) * (U + d)) * S <= (d * S + L * U) * (S + k)
  <2>1. (d * S + L * U) * (S + k) - ((k + L) * (U + d)) * S
          = (d * S - k * U) * (S - L)
    BY SMTT(30)
  <2>2. (d * S - k * U) * (S - L) >= 0
    BY SMTT(30)
  <2>. QED
    BY <2>1, <2>2, SMTT(30)
<1>3. PICK lu \in Nat : lu = L * U
  BY SMTT(30)
<1>4. PICK m \in Nat : m = (k + L) * (U + d)
  BY SMTT(30)
<1>5. PICK s2 \in Nat \ {0} : s2 = S + k
  BY SMTT(30)
<1>6. PICK n \in Nat : n = d * S + lu
  BY <1>3, SMTT(30)
<1>7. lu \div S <= m \div s2
  <2>1. lu * s2 <= m * S
    BY <1>1, <1>3, <1>4, <1>5, SMTT(30)
  <2>. QED
    BY <2>1, CrossDiv
<1>8. m \div s2 <= n \div S
  <2>1. m * S <= n * s2
    BY <1>2, <1>3, <1>4, <1>5, <1>6, SMTT(30)
  <2>. QED
    BY <2>1, CrossDiv
<1>9. n \div S = d + lu \div S
  <2>1. (d * S + lu) \div S = d + lu \div S
    BY DivAddMultiple
  <2>. QED
    BY <1>6, <2>1, SMTT(30)
<1>. QED
  BY <1>3, <1>4, <1>5, <1>7, <1>8, <1>9, SMTT(30)

(* The same over the vault functions: g is the vault v after the deposit *)
(* of d, the pool holds L of the supply S.                                *)
LEMMA DepositCredit ==
    ASSUME NEW v \in VaultType, NEW g, NEW d \in Nat, NEW L \in Nat, NEW S \in Nat,
           L <= S, g.total = v.total + d, g.locked = v.locked,
           GetAmountByShare(v, L, S) # None,
           GetUnmintAmount(v, d, S) # None,
           GetAmountByShare(g, GetUnmintAmount(v, d, S) + L,
                            S + GetUnmintAmount(v, d, S)) # None
    PROVE  LET before == GetAmountByShare(v, L, S)
               after == GetAmountByShare(g, GetUnmintAmount(v, d, S) + L,
                                         S + GetUnmintAmount(v, d, S))
           IN  before <= after /\ after - before <= d
<1>1. PICK U \in Nat \ {0} : U = v.total - v.locked /\ GetUnlockedAmount(v) = U
  BY NoneAssumption DEF GetUnmintAmount, GetUnlockedAmount, VaultType, U64
<1>2. PICK k \in Nat : k = GetUnmintAmount(v, d, S) /\ k * U <= d * S
  <2>1. GetUnmintAmount(v, d, S) = (d * S) \div U
    BY <1>1, NoneAssumption DEF GetUnmintAmount, Narrow64
  <2>2. (d * S) \div U \in Nat /\ ((d * S) \div U) * U <= d * S
    BY <1>1, FloorTimesDivisor, FloorAbove
  <2>. QED
    BY <2>1, <2>2
<1>3. S \in Nat \ {0}
  BY DEF GetAmountByShare
<1>4. GetAmountByShare(v, L, S) = (L * U) \div S
  BY <1>1, <1>3, NoneAssumption DEF GetAmountByShare, Narrow64
<1>5. GetUnlockedAmount(g) = U + d
  BY <1>1 DEF GetUnlockedAmount, VaultType, U64
<1>6. GetAmountByShare(g, k + L, S + k) = ((k + L) * (U + d)) \div (S + k)
  BY <1>2, <1>5, NoneAssumption DEF GetAmountByShare, Narrow64
<1>7. /\ (L * U) \div S <= ((k + L) * (U + d)) \div (S + k)
      /\ ((k + L) * (U + d)) \div (S + k) <= d + (L * U) \div S
  BY <1>1, <1>2, <1>3, DepositArith
<1>8. GetAmountByShare(g, GetUnmintAmount(v, d, S) + L, S + GetUnmintAmount(v, d, S))
        = GetAmountByShare(g, k + L, S + k)
  BY <1>2
<1>9. PICK before \in Nat, after \in Nat :
        /\ before = (L * U) \div S
        /\ after = ((k + L) * (U + d)) \div (S + k)
  BY <1>1, <1>2, <1>3
<1>. QED
  BY <1>4, <1>6, <1>7, <1>8, <1>9

-----------------------------------------------------------------------------
(* The steps that end with pc in {"CheckReserve", "Done"} *)

(* every step but ConvertOut and CheckReserve moves pc elsewhere *)
LEMMA EarlySteps ==
    ASSUME CheckActivation \/ UpdateVirtualPrice \/ CheckMint \/ Reserves
             \/ ResolveFees \/ ChargeFees \/ SimulateDeposit
             \/ DeductTradeFee \/ Swap
    PROVE  pc' \notin {"CheckReserve", "Done"}
BY DEF CheckActivation, UpdateVirtualPrice, CheckMint, Reserves, ResolveFees,
       ChargeFees, SimulateDeposit, DeductTradeFee, Swap, Fail

LEMMA RoundTripStep ==
    TypeOK /\ OutRoundTripNoGain /\ [Next]_vars => OutRoundTripNoGain'
<1> SUFFICES ASSUME TypeOK, OutRoundTripNoGain, [Next]_vars
             PROVE  OutRoundTripNoGain'
  OBVIOUS
<1>1. CASE CheckActivation \/ UpdateVirtualPrice \/ CheckMint \/ Reserves
             \/ ResolveFees \/ ChargeFees \/ SimulateDeposit
             \/ DeductTradeFee \/ Swap
  BY <1>1, EarlySteps DEF OutRoundTripNoGain
<1>2. CASE ConvertOut
  <2> DEFINE outLp == GetUnmintAmount(OutSide.vault, swapped, OutSide.lpSupply)
             out == GetAmountByShare(OutSide.vault, outLp, OutSide.lpSupply)
  <2>1. CASE pc' = "Failed"
    BY <2>1 DEF OutRoundTripNoGain
  <2>2. CASE pc' # "Failed"
    <3>1. outLp # None /\ out # None /\ outAmount' = out /\ swapped' = swapped
      BY <1>2, <2>2 DEF ConvertOut, Fail
    <3>2. OutSide \in SideType
      BY DEF TypeOK, OutSide
    <3>3. out <= swapped
      BY <3>1, <3>2, RoundTrip DEF TypeOK, SideType, U64
    <3>. QED
      BY <3>1, <3>3 DEF OutRoundTripNoGain
  <2>. QED
    BY <2>1, <2>2
<1>3. CASE CheckReserve
  BY <1>3 DEF CheckReserve, Fail, OutRoundTripNoGain, locals
<1>4. CASE UNCHANGED vars
  BY <1>4 DEF vars, locals, OutRoundTripNoGain
<1>. QED
  BY <1>1, <1>2, <1>3, <1>4 DEF Next

(* The amount a quote returns is never more than the curve gave: the     *)
(* conversion of destination_amount_swapped to out-vault LP and back to  *)
(* tokens (lines 225-235) rounds in the vault's favour, for every vault  *)
(* state, supply and locked profit.                                       *)
THEOREM RoundTripNoGain == Spec => []OutRoundTripNoGain
<1>1. Init => OutRoundTripNoGain
  BY DEF Init, OutRoundTripNoGain
<1>2. TypeOK /\ OutRoundTripNoGain /\ [Next]_vars => OutRoundTripNoGain'
  BY RoundTripStep
<1>. QED
  BY <1>1, <1>2, TypeCorrect, PTL DEF Spec

-----------------------------------------------------------------------------
(***************************************************************************)
(* DepositCreditSound.  It is not inductive by itself: the step of line  *)
(* 175 must know that in_vault and in_token_amount (reserveIn) are still  *)
(* the in side's vault and the pool's share of it, as Reserves computed   *)
(* them, and that the in side is one the snapshot may hold, so that its   *)
(* LP balance is within its supply (PoolLpWithinSupply).                  *)
(***************************************************************************)
BeforeDeposit == {"ResolveFees", "ChargeFees", "SimulateDeposit"}

DepositInputs ==
    pc \in BeforeDeposit =>
        /\ inVault = InSide.vault
        /\ reserveIn = GetAmountByShare(InSide.vault, InSide.lpAmount,
                                        InSide.lpSupply)

DepositInv ==
    /\ sideA \in Sides
    /\ sideB \in Sides
    /\ DepositInputs
    /\ DepositCreditSound

LEMMA DepositInvInit == Init => DepositInv
BY DEF Init, DepositInv, DepositInputs, BeforeDeposit, DepositCreditSound,
       DepositSimulated

(* the steps before the deposit and after it leave its result alone *)
LEMMA DepositOtherSteps ==
    ASSUME TypeOK, DepositInv,
           CheckActivation \/ UpdateVirtualPrice \/ CheckMint \/ ResolveFees
             \/ ChargeFees \/ DeductTradeFee \/ Swap \/ ConvertOut
             \/ CheckReserve
    PROVE  DepositInv'
BY DEF CheckActivation, UpdateVirtualPrice, CheckMint, ResolveFees, ChargeFees,
       DeductTradeFee, Swap, ConvertOut, CheckReserve, Fail, snapshot, locals,
       DepositInv, DepositInputs, BeforeDeposit, DepositCreditSound,
       DepositSimulated, InSide

LEMMA DepositReservesStep ==
    ASSUME TypeOK, DepositInv, Reserves
    PROVE  DepositInv'
<1>1. CASE pc' = "Failed"
  BY <1>1 DEF Reserves, Fail, snapshot, DepositInv, DepositInputs,
              BeforeDeposit, DepositCreditSound, DepositSimulated
<1>2. CASE pc' # "Failed"
  BY <1>2 DEF Reserves, Fail, snapshot, DepositInv, DepositInputs,
              BeforeDeposit, DepositCreditSound, DepositSimulated, InSide
<1>. QED
  BY <1>1, <1>2

LEMMA DepositSimulateStep ==
    ASSUME TypeOK, DepositInv, SimulateDeposit
    PROVE  DepositInv'
<1> DEFINE inLp == GetUnmintAmount(inVault, inAfterProtocol, InSide.lpSupply)
           grown == [inVault EXCEPT !.total = inVault.total + inAfterProtocol]
           after == GetAmountByShare(grown, inLp + InSide.lpAmount,
                                     InSide.lpSupply + inLp)
           simulated == /\ inLp # None
                        /\ grown.total <= U64Max
                        /\ inLp + InSide.lpAmount <= U64Max
                        /\ InSide.lpSupply + inLp <= U64Max
                        /\ after # None
<1>1. InSide \in Sides /\ InSide \in SideType
  BY DEF DepositInv, TypeOK, InSide
<1>2. /\ inVault = InSide.vault
      /\ reserveIn = GetAmountByShare(inVault, InSide.lpAmount, InSide.lpSupply)
      /\ reserveIn \in Nat
  BY DEF SimulateDeposit, DepositInv, DepositInputs, BeforeDeposit, TypeOK, U64
<1>3. grown.total = inVault.total + inAfterProtocol /\ grown.locked = inVault.locked
  BY DEF TypeOK, VaultType
<1>4. simulated => reserveIn <= after /\ after - reserveIn <= inAfterProtocol
  <2> SUFFICES ASSUME simulated
               PROVE  reserveIn <= after /\ after - reserveIn <= inAfterProtocol
    OBVIOUS
  <2>1. InSide.lpAmount \in Nat /\ InSide.lpSupply \in Nat
        /\ InSide.lpAmount <= InSide.lpSupply
    BY <1>1, PoolLpWithinSupply DEF SideType, U64
  <2>2. inVault \in VaultType /\ inAfterProtocol \in Nat
    BY DEF TypeOK, U64
  <2>3. GetAmountByShare(inVault, InSide.lpAmount, InSide.lpSupply) # None
    BY <1>2, NoneAssumption
  <2> HIDE DEF grown
  <2>. QED
    BY <1>2, <1>3, <2>1, <2>2, <2>3,
       DepositCredit
<1>5. CASE pc' = "Failed"
  <2>1. err' # "ActualInAmount"
    BY <1>4, <1>5 DEF SimulateDeposit, Fail
  <2>. QED
    BY <1>5, <2>1 DEF SimulateDeposit, Fail, snapshot, DepositInv,
                      DepositInputs, BeforeDeposit, DepositCreditSound,
                      DepositSimulated
<1>6. CASE pc' # "Failed"
  <2>1. /\ simulated
        /\ pc' = "DeductTradeFee" /\ actualIn' = after - reserveIn
        /\ UNCHANGED <<snapshot, err, inAfterProtocol>>
    BY <1>6 DEF SimulateDeposit, Fail
  <2>. QED
    BY <1>4, <2>1 DEF snapshot, DepositInv, DepositInputs, BeforeDeposit,
                      DepositCreditSound, DepositSimulated, DepositInv
<1>. QED
  BY <1>5, <1>6

LEMMA DepositStep ==
    TypeOK /\ DepositInv /\ [Next]_vars => DepositInv'
<1> SUFFICES ASSUME TypeOK, DepositInv, [Next]_vars
             PROVE  DepositInv'
  OBVIOUS
<1>1. CASE Reserves
  BY <1>1, DepositReservesStep
<1>2. CASE SimulateDeposit
  BY <1>2, DepositSimulateStep
<1>3. CASE UNCHANGED vars
  BY <1>3 DEF vars, snapshot, locals, DepositInv, DepositInputs,
              BeforeDeposit, DepositCreditSound, DepositSimulated, InSide
<1>. QED
  BY <1>1, <1>2, <1>3, DepositOtherSteps DEF Next

(* The simulated deposit of lines 175-205 never fails the checked_sub of *)
(* line 204 and never credits the pool with more than the                 *)
(* in_amount_after_protocol_fee it deposits, for every vault state, LP    *)
(* supply and locked profit in which the pool holds no more LP than exist. *)
THEOREM DepositCreditHolds == Spec => []DepositCreditSound
<1>1. Init => DepositInv
  BY DepositInvInit
<1>2. TypeOK /\ DepositInv /\ [Next]_vars => DepositInv'
  BY DepositStep
<1>3. DepositInv => DepositCreditSound
  BY DEF DepositInv
<1>. QED
  BY <1>1, <1>2, <1>3, TypeCorrect, PTL DEF Spec

=============================================================================
