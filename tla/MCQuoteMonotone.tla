-------------------------- MODULE MCQuoteMonotone --------------------------
(***************************************************************************)
(* Two quotes over one snapshot for TLC, at the widths of MCQuote: a      *)
(* constant-product pool with a 50% trade fee of which the protocol takes *)
(* half, vaults whose LP is worth about two tokens, and in_amounts 0..7.  *)
(***************************************************************************)
EXTENDS QuoteMonotone

CONSTANTS MintA, MintB

MCU64Max == 63
MCU16Max == 3
MCFeeCurvePointNumber == 3
MCPrecision == 2
MCBaseCacheExpires == 0
MCMints == {MintA, MintB}

MonoPools ==
    {[enabled |-> TRUE, activationType |-> "Slot", activationPoint |-> 0,
      tokenAMint |-> MintA, tokenBMint |-> MintB,
      fees |-> [tradeFeeNumerator |-> 10, tradeFeeDenominator |-> 20,
                protocolTradeFeeNumerator |-> 1, protocolTradeFeeDenominator |-> 2],
      feeCurve |-> [feeCurveType |-> "None",
                    points |-> [i \in 0..(MCFeeCurvePointNumber - 1) |->
                                   [activatedPoint |-> 0, feeBps |-> 0]]],
      isUpdateFeeCompleted |-> FALSE,
      curveType |-> [kind |-> "ConstantProduct", depegType |-> "None",
                     baseVirtualPrice |-> 0, baseCacheUpdated |-> 0]]}

MonoSides ==
    {[vault |-> [total |-> t, locked |-> 0], lpAmount |-> l, lpSupply |-> 2,
      tokenAmount |-> t] : t \in 4..5, l \in 1..2}

MonoClocks == {[slot |-> 0, unixTimestamp |-> 0]}
MonoInAmounts == 0..7

=============================================================================
