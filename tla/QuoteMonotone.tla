--------------------------- MODULE QuoteMonotone ---------------------------
(***************************************************************************)
(* Two calls of compute_quote over the same snapshot (pool, vaults, LP    *)
(* balances and supplies, token accounts, clock, stake bytes and input     *)
(* mint) that differ only in in_amount, amt1 < amt2.  The calls share no  *)
(* state (spec.md 5), so running the second after the first loses no      *)
(* behaviour; each is a copy of Quote with its own locals.                *)
(***************************************************************************)
EXTENDS Naturals

CONSTANTS U64Max, U16Max, None, FeeCurvePointNumber, Precision, BaseCacheExpires,
          Undecodable,
          Mints, Pools, Sides, Clocks, InAmounts, Stakes

VARIABLES
    pool, sideA, sideB, clock, stake, inMint, amt1, amt2,
    pc1, err1, currentPoint1, curve1, dir1, reserveIn1, reserveOut1, fees1,
    tradeFee1, protocolFee1, inAfterProtocol1, inVault1, actualIn1,
    actualInAfterFee1, swapCurve1, swapped1, outAmount1,
    pc2, err2, currentPoint2, curve2, dir2, reserveIn2, reserveOut2, fees2,
    tradeFee2, protocolFee2, inAfterProtocol2, inVault2, actualIn2,
    actualInAfterFee2, swapCurve2, swapped2, outAmount2

vars1 == <<amt1, pc1, err1, currentPoint1, curve1, dir1, reserveIn1,
           reserveOut1, fees1, tradeFee1, protocolFee1, inAfterProtocol1,
           inVault1, actualIn1, actualInAfterFee1, swapCurve1, swapped1,
           outAmount1>>
vars2 == <<amt2, pc2, err2, currentPoint2, curve2, dir2, reserveIn2,
           reserveOut2, fees2, tradeFee2, protocolFee2, inAfterProtocol2,
           inVault2, actualIn2, actualInAfterFee2, swapCurve2, swapped2,
           outAmount2>>
vars == <<pool, sideA, sideB, clock, stake, inMint, vars1, vars2>>

Q1 == INSTANCE Quote WITH
        inAmount <- amt1, pc <- pc1, err <- err1, currentPoint <- currentPoint1,
        curve <- curve1, dir <- dir1, reserveIn <- reserveIn1,
        reserveOut <- reserveOut1, fees <- fees1, tradeFee <- tradeFee1,
        protocolFee <- protocolFee1, inAfterProtocol <- inAfterProtocol1,
        inVault <- inVault1, actualIn <- actualIn1,
        actualInAfterFee <- actualInAfterFee1, swapCurve <- swapCurve1,
        swapped <- swapped1, outAmount <- outAmount1

Q2 == INSTANCE Quote WITH
        inAmount <- amt2, pc <- pc2, err <- err2, currentPoint <- currentPoint2,
        curve <- curve2, dir <- dir2, reserveIn <- reserveIn2,
        reserveOut <- reserveOut2, fees <- fees2, tradeFee <- tradeFee2,
        protocolFee <- protocolFee2, inAfterProtocol <- inAfterProtocol2,
        inVault <- inVault2, actualIn <- actualIn2,
        actualInAfterFee <- actualInAfterFee2, swapCurve <- swapCurve2,
        swapped <- swapped2, outAmount <- outAmount2

Returned(pc) == pc \in {"Done", "Failed"}

Init == Q1!Init /\ Q2!Init /\ amt1 < amt2

Next ==
    \/ Q1!Next /\ UNCHANGED vars2
    \/ Returned(pc1) /\ Q2!Next /\ UNCHANGED vars1

Spec == Init /\ [][Next]_vars

(***************************************************************************)
(* spec.md 8, Monotonicity: for fixed reserves and fee schedule, a larger *)
(* in_amount never gives a smaller out_amount.  The fee is charged on     *)
(* in_amount (line 158) but the pool is credited only what the simulated  *)
(* vault deposit mints LP for (lines 175-205), so a token more can raise  *)
(* the fee without raising the credit.                                     *)
(***************************************************************************)
QuoteMonotone ==
    pc1 = "Done" /\ pc2 = "Done" /\ pool.curveType.kind = "ConstantProduct"
        => outAmount1 <= outAmount2

=============================================================================
