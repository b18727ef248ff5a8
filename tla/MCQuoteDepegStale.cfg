\* spec.md 4.3 on the depeg instance: the swap should price with the
\* refreshed curve; expected to be violated.
CONSTANTS
    MintA = MintA
    MintB = MintB
    MintC = MintC
    None = None
    Undecodable = Undecodable
    U64Max <- MCU64Max
    U16Max <- MCU16Max
    FeeCurvePointNumber <- MCFeeCurvePointNumber
    Precision <- MCPrecision
    BaseCacheExpires <- MCBaseCacheExpires
    Mints <- MCMints
    Pools <- DepegPools
    Sides <- DepegSides
    Clocks <- DepegClocks
    InAmounts <- FeeInAmounts
    Stakes <- DepegStakes
SPECIFICATION Spec
INVARIANTS
    SwapUsesRefreshedCurve
CHECK_DEADLOCK FALSE
