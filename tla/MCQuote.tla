------------------------------ MODULE MCQuote ------------------------------
(***************************************************************************)
(* Small instances of Quote for TLC.  The integer widths are scaled down: *)
(* u64 is 0..63 and u16 is 0..3, so that u16 * 10 still fits u64 as in   *)
(* the code, and a fee curve's interpolation can overflow u64 when its     *)
(* points are far apart.  The trade fee denominator is 20, so that a      *)
(* curve fee of 2 bps (20 / 20) stands for the real 10000 bps (100%).     *)
(***************************************************************************)
EXTENDS Quote

CONSTANTS MintA, MintB, MintC

MCU64Max == 63
MCU16Max == 3
MCFeeCurvePointNumber == 3
MCPrecision == 2
MCBaseCacheExpires == 0
MCMints == {MintA, MintB, MintC}

FeeDenominator == 20

(* fee settings a pool may store: trade fee 0% or 50%, protocol cut 0% or *)
(* 50%; a high rate so that fees are not all rounded away at the small     *)
(* amounts of the model.                                                   *)
StaticFees ==
    {[tradeFeeNumerator |-> tn, tradeFeeDenominator |-> FeeDenominator,
      protocolTradeFeeNumerator |-> pn, protocolTradeFeeDenominator |-> 2]
        : tn \in {0, 10}, pn \in {0, 1}}

NoFeeCurve ==
    [feeCurveType |-> "None",
     points |-> [i \in 0..(MCFeeCurvePointNumber - 1) |->
                    [activatedPoint |-> 0, feeBps |-> 0]]]

ConstantProduct ==
    [kind |-> "ConstantProduct", depegType |-> "None",
     baseVirtualPrice |-> 0, baseCacheUpdated |-> 0]

PoolOf(enabled, type, point, poolFees, feeCurve, completed, curveType) ==
    [enabled |-> enabled, activationType |-> type, activationPoint |-> point,
     tokenAMint |-> MintA, tokenBMint |-> MintB, fees |-> poolFees,
     feeCurve |-> feeCurve, isUpdateFeeCompleted |-> completed,
     curveType |-> curveType]

(***************************************************************************)
(* The core instance: constant-product pools with static fees, and every  *)
(* consistent side with small amounts: the pool holds at most the vault's *)
(* LP supply, the token account at most the vault's total, the locked    *)
(* profit at most the total.                                              *)
(***************************************************************************)
CorePools ==
    {PoolOf(e, "Timestamp", 1, f, NoFeeCurve, FALSE, ConstantProduct)
        : e \in BOOLEAN, f \in {CHOOSE f \in StaticFees : f.tradeFeeNumerator = 0}}
      \cup {PoolOf(TRUE, "Slot", 1, f, NoFeeCurve, FALSE, ConstantProduct)
              : f \in StaticFees}

SidesUpTo(maxTotal, maxSupply) ==
    {s \in [vault : [total : 0..maxTotal, locked : 0..1],
            lpAmount : 0..maxSupply, lpSupply : 0..maxSupply,
            tokenAmount : 0..maxTotal] :
        /\ s.vault.locked <= s.vault.total
        /\ s.lpAmount <= s.lpSupply
        /\ s.tokenAmount \in {0, s.vault.total}}

CoreSides == SidesUpTo(3, 2)
CoreClocks == {[slot |-> 1, unixTimestamp |-> 0], [slot |-> 0, unixTimestamp |-> 1]}
CoreInAmounts == {0, 1, 3}

(***************************************************************************)
(* The fee instance: pools on a Flat or Linear fee curve of three points  *)
(* in ascending order, points at 0, 2 and at the top of u64 (so that the  *)
(* interpolation can overflow), fees of 0..3 bps, a protocol cut of 50%   *)
(* or 100%; clocks before, on, between and past the points.  One side has *)
(* a share price high enough that a small deposit mints no LP at all.     *)
(***************************************************************************)
FeeCurvePoints ==
    {ap \in [0..(MCFeeCurvePointNumber - 1) -> {0, 2, MCU64Max}] :
        \A i \in 1..(MCFeeCurvePointNumber - 1) : ap[i - 1] <= ap[i]}

FeeCurves ==
    {[feeCurveType |-> k,
      points |-> [i \in 0..(MCFeeCurvePointNumber - 1) |->
                     [activatedPoint |-> ap[i], feeBps |-> bps[i]]]]
        : k \in {"Flat", "Linear"}, ap \in FeeCurvePoints,
          bps \in [0..(MCFeeCurvePointNumber - 1) -> 0..MCU16Max]}

CurveFees ==
    {[tradeFeeNumerator |-> 0, tradeFeeDenominator |-> FeeDenominator,
      protocolTradeFeeNumerator |-> pn, protocolTradeFeeDenominator |-> 2]
        : pn \in {1, 2}}

FeePools ==
    {PoolOf(TRUE, "Slot", 0, f, c, FALSE, ConstantProduct)
        : f \in CurveFees, c \in FeeCurves}
      \cup {PoolOf(TRUE, "Slot", 0, f, c, TRUE, ConstantProduct)
              : f \in StaticFees, c \in {CHOOSE c \in FeeCurves : TRUE}}

FeeSides ==
    {[vault |-> [total |-> 4, locked |-> 0], lpAmount |-> 0, lpSupply |-> 1,
      tokenAmount |-> 4],
     [vault |-> [total |-> 3, locked |-> 1], lpAmount |-> 1, lpSupply |-> 2,
      tokenAmount |-> 3]}

FeeClocks == {[slot |-> t, unixTimestamp |-> 0] : t \in {0, 1, 2, 3, 40, MCU64Max}}
FeeInAmounts == {1, 3}

(***************************************************************************)
(* The depeg instance: Stable pools with and without an SPL stake depeg,  *)
(* a stored virtual price of 0 or 1 cached at 0 (expired at the clock's   *)
(* timestamp 5) or at 5 (still fresh), and every small stake pool account *)
(* (zero supply and withdrawal fees of 0, 1/10 and 1/11 to 1/12 of the    *)
(* lamports included, around the sanity threshold den <= num * 10) or     *)
(* bytes that do not decode.                                              *)
(***************************************************************************)
StableCurves ==
    {[kind |-> "Stable", depegType |-> d, baseVirtualPrice |-> p,
      baseCacheUpdated |-> u] : d \in DepegKinds, p \in {0, 1}, u \in {0, 5}}

DepegPools ==
    {PoolOf(TRUE, "Timestamp", 0, f, NoFeeCurve, FALSE, c)
        : f \in {CHOOSE f \in StaticFees : f.tradeFeeNumerator = 0},
          c \in StableCurves}

DepegStakes ==
    [totalLamports : 0..3, poolTokenSupply : 0..2,
     withdrawFeeNumerator : 0..1, withdrawFeeDenominator : {0, 1, 10, 11, 12}]
      \cup {Undecodable}

DepegSides ==
    {[vault |-> [total |-> 2, locked |-> 0], lpAmount |-> 1, lpSupply |-> 1,
      tokenAmount |-> 2],
     [vault |-> [total |-> 3, locked |-> 1], lpAmount |-> 1, lpSupply |-> 2,
      tokenAmount |-> 3]}

DepegClocks == {[slot |-> 0, unixTimestamp |-> 5]}

(***************************************************************************)
(* The contract instance: the core pools and, beside them, a Stable pool  *)
(* with an SPL stake depeg cached at 0, whose bytes do not decode: at the *)
(* core clocks' timestamp 0 it falls back to its stored price, at 1 the   *)
(* cache has expired and the quote fails.  A stake that decodes changes   *)
(* only the curve, which the swap does not read (SwapUsesRefreshedCurve), *)
(* so it is left to the depeg instance.                                    *)
(***************************************************************************)
ContractPools ==
    CorePools \cup
      {PoolOf(TRUE, "Slot", 0, f, NoFeeCurve, FALSE,
              [kind |-> "Stable", depegType |-> "SplStake",
               baseVirtualPrice |-> 1, baseCacheUpdated |-> 0])
         : f \in {CHOOSE f \in StaticFees : f.tradeFeeNumerator = 0}}

=============================================================================
