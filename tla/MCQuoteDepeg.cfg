\* Quotes of Stable pools with and without an SPL stake depeg, over every
\* small stake pool account and undecodable bytes.
CONSTANTS
    MintA = MintA
    MintB = MintB
    MintC = MintC
    None = None
    Undecodable = Undecodable
    U64Max <- MCU64Max
    U16Max <- MCU16Max
    FeeCurvePointNumber <- MCFeeCurvePointNumber
    Precision <- MCPrecision
    BaseCacheExpires <- MCBaseCacheExpires
    Mints <- MCMints
    Pools <- DepegPools
    Sides <- DepegSides
    Clocks <- DepegClocks
    InAmounts <- FeeInAmounts
    Stakes <- DepegStakes
SPECIFICATION Spec
INVARIANTS
    VirtualPriceBracketed
CHECK_DEADLOCK FALSE
