\* Two quotes differing only in in_amount, against spec.md 8's monotonicity.
CONSTANTS
    MintA = MintA
    MintB = MintB
    None = None
    Undecodable = Undecodable
    U64Max <- MCU64Max
    U16Max <- MCU16Max
    FeeCurvePointNumber <- MCFeeCurvePointNumber
    Precision <- MCPrecision
    BaseCacheExpires <- MCBaseCacheExpires
    Mints <- MCMints
    Pools <- MonoPools
    Sides <- MonoSides
    Clocks <- MonoClocks
    InAmounts <- MonoInAmounts
    Stakes = {Undecodable}
SPECIFICATION Spec
INVARIANT
    QuoteMonotone
CHECK_DEADLOCK FALSE
