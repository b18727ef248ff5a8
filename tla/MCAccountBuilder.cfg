\* The builder over a fetcher that fails only for absent accounts,
\* racing the creation of vaults by other transactions.
CONSTANTS
    Mint1 = Mint1
    Mint2 = Mint2
    Payer1 = Payer1
    Config1 = Config1
    FetchError = FetchError
    Absent = Absent
    Funded = Funded
    DeserializeError = DeserializeError
    Mints <- MCMints
    LegacyMints <- MCLegacyMints
    Payers <- MCPayers
    Configs <- MCConfigs
    FeeTiers <- MCFeeTiers
    FetchMayFail = FALSE
SPECIFICATION Spec
INVARIANTS
    TypeOK
    BuiltKeysMatchVault
