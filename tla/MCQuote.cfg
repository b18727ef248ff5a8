\* The core quote: constant-product pools, static fees, every consistent
\* small vault snapshot on both sides.
CONSTANTS
    MintA = MintA
    MintB = MintB
    MintC = MintC
    None = None
    Undecodable = Undecodable
    U64Max <- MCU64Max
    U16Max <- MCU16Max
    FeeCurvePointNumber <- MCFeeCurvePointNumber
    Precision <- MCPrecision
    BaseCacheExpires <- MCBaseCacheExpires
    Mints <- MCMints
    Pools <- CorePools
    Sides <- CoreSides
    Clocks <- CoreClocks
    InAmounts <- CoreInAmounts
    Stakes = {Undecodable}
SPECIFICATION Spec
INVARIANTS
    DepositCreditSound
    QuoteWithinFeeFreeSwap
    OutRoundTripNoGain
    
CHECK_DEADLOCK FALSE
