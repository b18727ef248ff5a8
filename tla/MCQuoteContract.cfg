\* Refinement and termination: the core quote against what compute_quote
\* promises (QuoteContract), under weak fairness of its steps.
CONSTANTS
    MintA = MintA
    MintB = MintB
    MintC = MintC
    None = None
    Undecodable = Undecodable
    U64Max <- MCU64Max
    U16Max <- MCU16Max
    FeeCurvePointNumber <- MCFeeCurvePointNumber
    Precision <- MCPrecision
    BaseCacheExpires <- MCBaseCacheExpires
    Mints <- MCMints
    Pools <- ContractPools
    Sides <- CoreSides
    Clocks <- CoreClocks
    InAmounts <- CoreInAmounts
    Stakes = {Undecodable}
SPECIFICATION FairSpec
PROPERTY
    ImplementsContract
CHECK_DEADLOCK FALSE
