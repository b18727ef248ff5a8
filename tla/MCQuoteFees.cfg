\* Quotes of pools on a fee curve, at points before, on, between and past
\* the curve's points, including interpolations that overflow u64.
CONSTANTS
    MintA = MintA
    MintB = MintB
    MintC = MintC
    None = None
    Undecodable = Undecodable
    U64Max <- MCU64Max
    U16Max <- MCU16Max
    FeeCurvePointNumber <- MCFeeCurvePointNumber
    Precision <- MCPrecision
    BaseCacheExpires <- MCBaseCacheExpires
    Mints <- MCMints
    Pools <- FeePools
    Sides <- FeeSides
    Clocks <- FeeClocks
    InAmounts <- FeeInAmounts
    Stakes = {Undecodable}
SPECIFICATION Spec
INVARIANTS
    TypeOK
    LatestFeesMatchReference
CHECK_DEADLOCK FALSE
