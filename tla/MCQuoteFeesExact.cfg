\* spec.md 4.1 (checked arithmetic) for the fee curve blend, on the fee
\* instance: expected to be violated by the unchecked u64 interpolation.
CONSTANTS
    MintA = MintA
    MintB = MintB
    MintC = MintC
    None = None
    Undecodable = Undecodable
    U64Max <- MCU64Max
    U16Max <- MCU16Max
    FeeCurvePointNumber <- MCFeeCurvePointNumber
    Precision <- MCPrecision
    BaseCacheExpires <- MCBaseCacheExpires
    Mints <- MCMints
    Pools <- FeePools
    Sides <- FeeSides
    Clocks <- FeeClocks
    InAmounts <- FeeInAmounts
    Stakes = {Undecodable}
SPECIFICATION Spec
INVARIANTS
    ResolvedFeesExact
CHECK_DEADLOCK FALSE
