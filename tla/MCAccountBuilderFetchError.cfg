\* The builder over a fetcher that can also fail for an existing vault;
\* expected to be violated.
CONSTANTS
    Mint1 = Mint1
    Mint2 = Mint2
    Payer1 = Payer1
    Config1 = Config1
    FetchError = FetchError
    Absent = Absent
    Funded = Funded
    DeserializeError = DeserializeError
    Mints <- MCMints
    LegacyMints <- MCLegacyMints
    Payers <- MCPayers
    Configs <- MCConfigs
    FeeTiers <- MCFeeTiers
    FetchMayFail = TRUE
SPECIFICATION Spec
INVARIANTS
    BuiltKeysMatchVault
