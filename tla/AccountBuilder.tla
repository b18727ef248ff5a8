--------------------------- MODULE AccountBuilder ---------------------------
(***************************************************************************)
(* The instruction account builder of                                      *)
(* src/common/src/dynamic_amm/ix_account_builder.rs: the four             *)
(* IxAccountBuilder entry points that assemble the accounts of a pool     *)
(* initialisation, each of which derives the pool key and then calls      *)
(* get_or_derive_initialize_pool_related_keys.  That function awaits the  *)
(* caller's account_fetcher for vault A and then for vault B, and takes a *)
(* vault's token vault and LP mint from the fetched account when the      *)
(* fetch succeeds, or derives them (src/common/src/dynamic_vault/pda.rs)  *)
(* when it does not; a fetched account that is not a vault fails the      *)
(* build.                                                                  *)
(*                                                                         *)
(* The chain is the environment: while the builder awaits, other         *)
(* transactions fund and create vaults.  A key is modelled by the seeds it is      *)
(* derived from, so two derivations give the same key exactly when their  *)
(* seeds agree.                                                            *)
(***************************************************************************)
EXTENDS Naturals

CONSTANTS
    Mints,          \* token mints, model values
    Payers,         \* payer keys, model values
    Configs,        \* config account keys, model values
    FeeTiers,       \* trade_fee_bps values
    LegacyMints,    \* mints whose vault was created with a non-PDA LP mint
    FetchMayFail,   \* whether the fetcher can fail for an account that exists
    FetchError,     \* the Err of a fetch, a model value
    Absent,         \* no account at a vault's address, a model value
    Funded,         \* a system account holding only lamports, a model value
    DeserializeError \* the Err of Vault::try_deserialize, a model value

ASSUME BuilderAssumption ==
    /\ LegacyMints \subseteq Mints
    /\ FetchMayFail \in BOOLEAN

(* dynamic_vault/pda.rs *)
VaultKey(mint) == <<"vault", mint>>
TokenVaultKey(vault) == <<"token_vault", vault>>
LpMintKey(vault) == <<"lp_mint", vault>>

(***************************************************************************)
(* The derivations of dynamic_amm::pda (not under src/; modelled by their *)
(* seeds from spec.md 1, which leaves them to the external key            *)
(* derivation collaborator).                                               *)
(***************************************************************************)
CurveKinds == {"ConstantProduct", "Stable"}      \* CurveTypeIx
PoolKeyWithFeeTier(curve, a, b, fee) == <<"pool_fee_tier", curve, a, b, fee>>
PermissionlessPoolKey(curve, a, b) == <<"pool", curve, a, b>>
PoolKeyWithConfig(a, b, config) == <<"pool_config", a, b, config>>
CustomizablePoolKey(a, b) == <<"pool_customizable", a, b>>
AmmLpMintKey(pool) == <<"amm_lp_mint", pool>>
VaultLpKey(vault, pool) == <<"vault_lp", vault, pool>>

(* a vault account as the fetcher returns it: the two keys the builder reads *)
VaultAccount(tokenVault, lpMint) == [tokenVault |-> tokenVault, lpMint |-> lpMint]

(* the vault the vault program creates today: both keys are its PDAs *)
CanonicalVault(mint) ==
    VaultAccount(TokenVaultKey(VaultKey(mint)), LpMintKey(VaultKey(mint)))

(* a vault created before the LP mint was a PDA *)
LegacyVault(mint) ==
    VaultAccount(TokenVaultKey(VaultKey(mint)), <<"legacy_lp_mint", mint>>)

(* Absent, Funded, FetchError and DeserializeError are markers: none is  *)
(* a vault account, a pair of keys or another marker                      *)
ASSUME MarkerAssumption ==
    /\ Absent # Funded /\ Absent # FetchError /\ Funded # FetchError
    /\ \A m \in Mints :
          \A x \in {Absent, Funded, FetchError} :
             x # CanonicalVault(m) /\ x # LegacyVault(m)


VARIABLES
    vaults,     \* the chain: the vault account at VaultKey(m), or Absent
    pc,         \* "Idle", "FetchA", "FetchB" (awaiting), "Done"
    request,    \* the entry point's arguments: pool key, mints, payer
    keysA,      \* (token vault, LP mint) of vault A, once fetched or derived
    accounts    \* the accounts of the instruction, once returned

vars == <<vaults, pc, request, keysA, accounts>>

NoKeys == <<>>

Init ==
    /\ vaults \in {v \in [Mints -> {Absent, Funded} \cup {CanonicalVault(m) : m \in Mints}
                                    \cup {LegacyVault(m) : m \in Mints}] :
                     \A m \in Mints :
                        /\ m \in LegacyMints => v[m] = LegacyVault(m)
                        /\ m \notin LegacyMints =>
                              v[m] \in {Absent, Funded, CanonicalVault(m)}}
    /\ pc = "Idle"
    /\ request = [pool |-> NoKeys, a |-> NoKeys, b |-> NoKeys, payer |-> NoKeys]
    /\ keysA = NoKeys
    /\ accounts = NoKeys

(* Vault::try_deserialize of a fetched account: the vault, or an error   *)
(* for an account without a vault's data                                  *)
TryDeserialize(account) == IF account = Funded THEN DeserializeError ELSE account

(* what account_fetcher(vault_key).await can return: the account when it  *)
(* exists, an error when it does not, and an error for an existing        *)
(* account when the fetcher can fail (an RPC error)                       *)
FetchResults(mint) ==
    IF vaults[mint] = Absent THEN {FetchError}
    ELSE {vaults[mint]} \cup (IF FetchMayFail THEN {FetchError} ELSE {})

(* Mutant for the checks: the LP mint derived with dynamic_amm's          *)
(* derive_lp_mint_key (the pool LP mint seed) instead of the vault's.     *)
GetOrDeriveVaultRelatedKeysAmmLpMint(vaultKey, vaultAccount) ==
    IF vaultAccount = FetchError
    THEN <<TokenVaultKey(vaultKey), AmmLpMintKey(vaultKey)>>
    ELSE IF TryDeserialize(vaultAccount) = DeserializeError THEN DeserializeError
    ELSE <<vaultAccount.tokenVault, vaultAccount.lpMint>>

(* Mutant for the checks: the keys always derived, the fetched vault     *)
(* ignored.                                                                *)
GetOrDeriveVaultRelatedKeysAlwaysDerive(vaultKey, vaultAccount) ==
    <<TokenVaultKey(vaultKey), LpMintKey(vaultKey)>>

(* get_or_derive_vault_related_keys (lines 28-41): the keys derived from  *)
(* the vault key when the fetch failed; else the keys stored in the       *)
(* fetched vault, or DeserializeError when the account is not a vault.    *)
GetOrDeriveVaultRelatedKeys(vaultKey, vaultAccount) ==
    IF vaultAccount = FetchError
    THEN <<TokenVaultKey(vaultKey), LpMintKey(vaultKey)>>
    ELSE IF TryDeserialize(vaultAccount) = DeserializeError THEN DeserializeError
    ELSE <<vaultAccount.tokenVault, vaultAccount.lpMint>>

(* an entry point: derive the pool key, then await vault A's account *)
Begin(pool, a, b, payer) ==
    /\ pc \in {"Idle", "Done", "Failed"}
    /\ pc' = "FetchA"
    /\ request' = [pool |-> pool, a |-> a, b |-> b, payer |-> payer]
    /\ keysA' = NoKeys
    /\ accounts' = NoKeys
    /\ UNCHANGED vaults

InitializePermissionlessPoolWithFeeTierAccounts ==
    \E curve \in CurveKinds, fee \in FeeTiers, a, b \in Mints, p \in Payers :
        Begin(PoolKeyWithFeeTier(curve, a, b, fee), a, b, p)

InitializePermissionlessPoolAccounts ==
    \E curve \in CurveKinds, a, b \in Mints, p \in Payers :
        Begin(PermissionlessPoolKey(curve, a, b), a, b, p)

InitializePermissionlessConstantProductPoolWithConfigAccounts ==
    \E a, b \in Mints, config \in Configs, p \in Payers :
        Begin(PoolKeyWithConfig(a, b, config), a, b, p)

InitializeCustomizablePermissionlessConstantProductPool ==
    \E a, b \in Mints, p \in Payers :
        Begin(CustomizablePoolKey(a, b), a, b, p)

(* lines 71-76: vault A's account arrives; the `?` of line 76 returns    *)
(* the deserialisation error                                               *)
FetchVaultA ==
    /\ pc = "FetchA"
    /\ \E r \in FetchResults(request.a) :
          LET keys == GetOrDeriveVaultRelatedKeys(VaultKey(request.a), r)
          IN  \/ /\ keys = DeserializeError
                 /\ pc' = "Failed"
                 /\ UNCHANGED keysA
              \/ /\ keys # DeserializeError
                 /\ pc' = "FetchB"
                 /\ keysA' = keys
    /\ UNCHANGED <<vaults, request, accounts>>

(* lines 78-112: vault B's account arrives (or its deserialisation error  *)
(* is returned), and the remaining keys are derived and the accounts      *)
(* assembled and returned                                                  *)
FetchVaultB ==
    LET pool == request.pool
        vaultA == VaultKey(request.a)
        vaultB == VaultKey(request.b)
    IN  /\ pc = "FetchB"
        /\ \E r \in FetchResults(request.b) :
              LET keysB == GetOrDeriveVaultRelatedKeys(vaultB, r)
              IN  \/ /\ keysB = DeserializeError
                     /\ pc' = "Failed"
                     /\ UNCHANGED accounts
                  \/ /\ keysB # DeserializeError
                     /\ pc' = "Done"
                     /\ accounts' =
                          [pool |-> pool, lpMint |-> AmmLpMintKey(pool),
                           aVault |-> vaultA, aTokenVault |-> keysA[1],
                           aVaultLpMint |-> keysA[2],
                           aVaultLp |-> VaultLpKey(vaultA, pool),
                           bVault |-> vaultB, bTokenVault |-> keysB[1],
                           bVaultLpMint |-> keysB[2],
                           bVaultLp |-> VaultLpKey(vaultB, pool),
                           payer |-> request.payer]
        /\ UNCHANGED <<vaults, request, keysA>>

(* another transaction transfers lamports to the address of a vault     *)
(* that does not exist yet: a system account appears there                *)
FundVaultAddress ==
    \E m \in Mints :
        /\ vaults[m] = Absent
        /\ vaults' = [vaults EXCEPT ![m] = Funded]
        /\ UNCHANGED <<pc, request, keysA, accounts>>

(* another transaction creates the vault of a mint (vault program); an  *)
(* init takes over a funded address                                        *)
CreateVault ==
    \E m \in Mints :
        /\ vaults[m] \in {Absent, Funded}
        /\ vaults' = [vaults EXCEPT ![m] = CanonicalVault(m)]
        /\ UNCHANGED <<pc, request, keysA, accounts>>

Next ==
    \/ InitializePermissionlessPoolWithFeeTierAccounts
    \/ InitializePermissionlessPoolAccounts
    \/ InitializePermissionlessConstantProductPoolWithConfigAccounts
    \/ InitializeCustomizablePermissionlessConstantProductPool
    \/ FetchVaultA
    \/ FetchVaultB
    \/ FundVaultAddress
    \/ CreateVault

Spec == Init /\ [][Next]_vars

-----------------------------------------------------------------------------
(* the keys a vault of some mint can name: its PDAs, or a legacy LP mint *)
TokenVaultKeys == {TokenVaultKey(VaultKey(m)) : m \in Mints}
VaultLpMintKeys == {LpMintKey(VaultKey(m)) : m \in Mints}
                     \cup {LegacyVault(m).lpMint : m \in LegacyMints}

(* the error of a deserialisation is no pair of keys *)
ASSUME DeserializeErrorAssumption ==
    DeserializeError \notin TokenVaultKeys \X VaultLpMintKeys

(* The chain holds vaults, and the builder's keys for vault A and its     *)
(* returned accounts name a token vault and an LP mint of some vault.     *)
TypeOK ==
    /\ vaults \in [Mints -> {Absent, Funded} \cup [tokenVault : TokenVaultKeys,
                                                   lpMint : VaultLpMintKeys]]
    /\ pc \in {"Idle", "FetchA", "FetchB", "Done", "Failed"}
    /\ pc = "FetchB" => keysA \in TokenVaultKeys \X VaultLpMintKeys
    /\ pc = "Done" =>
          /\ {accounts.aTokenVault, accounts.bTokenVault} \subseteq TokenVaultKeys
          /\ {accounts.aVaultLpMint, accounts.bVaultLpMint} \subseteq VaultLpMintKeys

(* the keys the returned accounts name for the vault of mint m, on side s *)
VaultKeysOf(acc, side) ==
    IF side = "A" THEN <<acc.aTokenVault, acc.aVaultLpMint>>
    ELSE <<acc.bTokenVault, acc.bVaultLpMint>>

MintOf(side) == IF side = "A" THEN request.a ELSE request.b

(* a vault account is stored at the address of mint m's vault *)
VaultExists(m) == vaults[m] \notin {Absent, Funded}

(***************************************************************************)
(* The token vault and LP mint the builder returns for each side are      *)
(* those stored in that side's vault, whenever the vault exists: at the   *)
(* return or at any later time, however the vault creations of other      *)
(* transactions interleave with the fetches (lines 74-80) and with the    *)
(* sending of the instruction.                                             *)
(***************************************************************************)
BuiltKeysMatchVault ==
    pc = "Done" =>
        \A side \in {"A", "B"} :
            VaultExists(MintOf(side)) =>
                VaultKeysOf(accounts, side)
                    = <<vaults[MintOf(side)].tokenVault, vaults[MintOf(side)].lpMint>>

=============================================================================
