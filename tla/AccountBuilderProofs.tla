------------------------ MODULE AccountBuilderProofs ------------------------
(***************************************************************************)
(* Proofs about the instruction account builder (AccountBuilder): for a   *)
(* fetcher that fails only for absent accounts, the keys the builder      *)
(* returns are those of the vault, whatever the fundings and vault        *)
(* creations of other transactions interleaved with the two awaits.       *)
(***************************************************************************)
EXTENDS AccountBuilder, TLAPS

(* the token vault and LP mint that the vault of mint m holds or will     *)
(* hold: the legacy LP mint for a legacy vault, the PDAs for the others   *)
ExpectedKeys(m) ==
    IF m \in LegacyMints
    THEN <<LegacyVault(m).tokenVault, LegacyVault(m).lpMint>>
    ELSE <<TokenVaultKey(VaultKey(m)), LpMintKey(VaultKey(m))>>

(***************************************************************************)
(* The inductive invariant.  A legacy vault is always there; any other    *)
(* vault address is empty, funded or holds the canonical vault, so it is  *)
(* never replaced by a vault with other keys.  Hence the keys derived for an absent vault and the keys   *)
(* read from an existing one agree, and the keys held across the awaits   *)
(* stay right.                                                             *)
(***************************************************************************)
IInv ==
    /\ pc \in {"Idle", "FetchA", "FetchB", "Done", "Failed"}
    /\ pc # "Idle" => request.a \in Mints /\ request.b \in Mints
    /\ \A m \in Mints :
          /\ m \in LegacyMints => vaults[m] = LegacyVault(m)
          /\ m \notin LegacyMints => vaults[m] \in {Absent, Funded, CanonicalVault(m)}
    /\ DOMAIN vaults = Mints
    /\ pc = "FetchB" => keysA = ExpectedKeys(request.a)
    /\ pc = "Done" =>
          /\ VaultKeysOf(accounts, "A") = ExpectedKeys(request.a)
          /\ VaultKeysOf(accounts, "B") = ExpectedKeys(request.b)

(* With a fetcher that fails only for absent accounts, the keys a vault   *)
(* fetch yields for mint m are ExpectedKeys(m), unless the address only  *)
(* holds lamports: the stored keys of an existing vault and the derived   *)
(* keys of an absent one agree.                                            *)
LEMMA FetchedKeys ==
    ASSUME ~FetchMayFail,
           NEW m \in Mints,
           NEW v \in {Absent, Funded, CanonicalVault(m), LegacyVault(m)},
           m \in LegacyMints => v = LegacyVault(m),
           m \notin LegacyMints => v \in {Absent, Funded, CanonicalVault(m)},
           NEW r \in IF v = Absent THEN {FetchError}
                     ELSE {v} \cup (IF FetchMayFail THEN {FetchError} ELSE {})
    PROVE  GetOrDeriveVaultRelatedKeys(VaultKey(m), r)
             \in {ExpectedKeys(m), DeserializeError}
<1>1. CASE v = Absent
  <2>1. r = FetchError /\ m \notin LegacyMints
    BY <1>1, MarkerAssumption
  <2>. QED
    BY <2>1 DEF GetOrDeriveVaultRelatedKeys, ExpectedKeys
<1>2. CASE v = Funded
  <2>1. r = Funded /\ r # FetchError
    BY <1>2, MarkerAssumption
  <2>. QED
    BY <2>1 DEF GetOrDeriveVaultRelatedKeys, TryDeserialize
<1>3. CASE v \notin {Absent, Funded}
  <2>1. r = v /\ r # FetchError /\ r # Funded
    BY <1>3, MarkerAssumption
  <2>2. CASE m \in LegacyMints
    BY <2>1, <2>2 DEF GetOrDeriveVaultRelatedKeys, TryDeserialize, ExpectedKeys
  <2>3. CASE m \notin LegacyMints
    <3>1. r = CanonicalVault(m)
      BY <1>3, <2>1, <2>3
    <3>. QED
      BY <3>1, <2>1, <2>3 DEF GetOrDeriveVaultRelatedKeys, TryDeserialize,
         ExpectedKeys, CanonicalVault, VaultAccount
  <2>. QED
    BY <2>2, <2>3
<1>. QED
  BY <1>1, <1>2, <1>3

(* IInv holds initially *)
LEMMA InitIInv == Init => IInv
BY DEF Init, IInv

(* Every step of the builder or of the chain preserves IInv, when the     *)
(* fetcher fails only for absent accounts.                                *)
LEMMA NextIInv ==
    ASSUME ~FetchMayFail
    PROVE  IInv /\ [Next]_vars => IInv'
<1> SUFFICES ASSUME IInv, [Next]_vars PROVE IInv'
  OBVIOUS
<1>1. ASSUME NEW pool, NEW a \in Mints, NEW b \in Mints, NEW p,
             Begin(pool, a, b, p)
      PROVE  IInv'
  BY <1>1 DEF Begin, IInv
<1>2. CASE InitializePermissionlessPoolWithFeeTierAccounts
  BY <1>1, <1>2 DEF InitializePermissionlessPoolWithFeeTierAccounts
<1>3. CASE InitializePermissionlessPoolAccounts
  BY <1>1, <1>3 DEF InitializePermissionlessPoolAccounts
<1>4. CASE InitializePermissionlessConstantProductPoolWithConfigAccounts
  BY <1>1, <1>4 DEF InitializePermissionlessConstantProductPoolWithConfigAccounts
<1>5. CASE InitializeCustomizablePermissionlessConstantProductPool
  BY <1>1, <1>5 DEF InitializeCustomizablePermissionlessConstantProductPool
<1>6. CASE FetchVaultA
  <2> DEFINE keys(r) == GetOrDeriveVaultRelatedKeys(VaultKey(request.a), r)
  <2>1. PICK r \in FetchResults(request.a) :
            \/ keys(r) = DeserializeError /\ pc' = "Failed"
            \/ keys(r) # DeserializeError /\ pc' = "FetchB" /\ keysA' = keys(r)
    BY <1>6 DEF FetchVaultA
  <2>2. request.a \in Mints
    BY <1>6 DEF FetchVaultA, IInv
  <2>3. keys(r) \in {ExpectedKeys(request.a), DeserializeError}
    BY <2>1, <2>2, FetchedKeys DEF IInv, FetchResults
  <2>4. pc' = "FetchB" => keysA' = ExpectedKeys(request.a)
    BY <2>1, <2>3
  <2>. QED
    BY <1>6, <2>1, <2>4 DEF FetchVaultA, IInv
<1>7. CASE FetchVaultB
  <2> DEFINE keysB(r) == GetOrDeriveVaultRelatedKeys(VaultKey(request.b), r)
  <2>1. PICK r \in FetchResults(request.b) :
            \/ keysB(r) = DeserializeError /\ pc' = "Failed"
            \/ /\ keysB(r) # DeserializeError
               /\ pc' = "Done"
               /\ accounts' =
                    [pool |-> request.pool, lpMint |-> AmmLpMintKey(request.pool),
                     aVault |-> VaultKey(request.a), aTokenVault |-> keysA[1],
                     aVaultLpMint |-> keysA[2],
                     aVaultLp |-> VaultLpKey(VaultKey(request.a), request.pool),
                     bVault |-> VaultKey(request.b), bTokenVault |-> keysB(r)[1],
                     bVaultLpMint |-> keysB(r)[2],
                     bVaultLp |-> VaultLpKey(VaultKey(request.b), request.pool),
                     payer |-> request.payer]
    BY <1>7 DEF FetchVaultB
  <2>2. request.b \in Mints /\ keysA = ExpectedKeys(request.a)
    BY <1>7 DEF FetchVaultB, IInv
  <2>3. keysB(r) \in {ExpectedKeys(request.b), DeserializeError}
    BY <2>1, <2>2, FetchedKeys DEF IInv, FetchResults
  <2>4. pc' = "Done" =>
          /\ VaultKeysOf(accounts', "A") = ExpectedKeys(request.a)
          /\ VaultKeysOf(accounts', "B") = ExpectedKeys(request.b)
    BY <2>1, <2>2, <2>3 DEF VaultKeysOf, ExpectedKeys
  <2>. QED
    BY <1>7, <2>1, <2>4 DEF FetchVaultB, IInv
<1>8. CASE FundVaultAddress
  <2>1. PICK m \in Mints : vaults[m] = Absent
                           /\ vaults' = [vaults EXCEPT ![m] = Funded]
    BY <1>8 DEF FundVaultAddress
  <2>2. m \notin LegacyMints
    BY <2>1, MarkerAssumption DEF IInv
  <2>. QED
    BY <1>8, <2>1, <2>2 DEF FundVaultAddress, IInv
<1>10. CASE CreateVault
  <2>1. PICK m \in Mints : vaults[m] \in {Absent, Funded}
                           /\ vaults' = [vaults EXCEPT ![m] = CanonicalVault(m)]
    BY <1>10 DEF CreateVault
  <2>2. m \notin LegacyMints
    BY <2>1, MarkerAssumption DEF IInv
  <2>. QED
    BY <1>10, <2>1, <2>2 DEF CreateVault, IInv
<1>9. CASE UNCHANGED vars
  BY <1>9 DEF vars, IInv, VaultKeysOf
<1>. QED
  BY <1>2, <1>3, <1>4, <1>5, <1>6, <1>7, <1>8, <1>9, <1>10 DEF Next

(* IInv implies the property: an existing vault holds the expected keys *)
LEMMA IInvKeysMatch == IInv => BuiltKeysMatchVault
<1> SUFFICES ASSUME IInv, pc = "Done", NEW side \in {"A", "B"},
                    VaultExists(MintOf(side))
             PROVE  VaultKeysOf(accounts, side)
                      = <<vaults[MintOf(side)].tokenVault, vaults[MintOf(side)].lpMint>>
  BY DEF BuiltKeysMatchVault
<1>1. MintOf(side) \in Mints /\ VaultKeysOf(accounts, side) = ExpectedKeys(MintOf(side))
  BY DEF IInv, MintOf
<1>. QED
  BY <1>1 DEF IInv, VaultExists, ExpectedKeys, CanonicalVault, VaultAccount

(***************************************************************************)
(* For a fetcher that fails only for absent accounts, every instruction   *)
(* the builder returns names, for each side, the token vault and LP mint  *)
(* stored in that side's vault whenever the vault exists (lines 71-112,   *)
(* get_or_derive_vault_related_keys), however vault creations interleave  *)
(* with the awaits; a build that meets a funded address fails instead.    *)
(***************************************************************************)
THEOREM KeysMatchVault ==
    ASSUME ~FetchMayFail
    PROVE  Spec => []BuiltKeysMatchVault
<1>1. Init => IInv
  BY InitIInv
<1>2. IInv /\ [Next]_vars => IInv'
  BY NextIInv
<1>3. IInv => BuiltKeysMatchVault
  BY IInvKeysMatch
<1>. QED
  BY <1>1, <1>2, <1>3, PTL DEF Spec

-----------------------------------------------------------------------------
(***************************************************************************)
(* Type correctness, for any fetcher.  TypeOK alone is not inductive: a   *)
(* fetch reads the vault of request.a or request.b, so the request's mints *)
(* must be mints, and a fetched account must be a funded address or a    *)
(* vault the vault program creates (canonical or legacy).                 *)
(***************************************************************************)
TypeInv ==
    /\ TypeOK
    /\ pc # "Idle" => request.a \in Mints /\ request.b \in Mints
    /\ \A m \in Mints :
          vaults[m] \in {Absent, Funded, CanonicalVault(m), LegacyVault(m)}

(* a fetch of the vault of mint m yields keys of the right kinds, or the *)
(* deserialisation error                                                   *)
LEMMA FetchedKeysType ==
    ASSUME NEW m \in Mints,
           NEW v \in {Absent, Funded, CanonicalVault(m), LegacyVault(m)},
           v \in {Absent, Funded} \cup [tokenVault : TokenVaultKeys,
                                         lpMint : VaultLpMintKeys],
           NEW r \in IF v = Absent THEN {FetchError}
                     ELSE {v} \cup (IF FetchMayFail THEN {FetchError} ELSE {})
    PROVE  GetOrDeriveVaultRelatedKeys(VaultKey(m), r)
             \in (TokenVaultKeys \X VaultLpMintKeys) \cup {DeserializeError}
<1>1. CASE r = FetchError
  <2>1. TokenVaultKey(VaultKey(m)) \in TokenVaultKeys
        /\ LpMintKey(VaultKey(m)) \in VaultLpMintKeys
    BY DEF TokenVaultKeys, VaultLpMintKeys
  <2>. QED
    BY <1>1, <2>1 DEF GetOrDeriveVaultRelatedKeys
<1>2. CASE r = Funded
  <2>1. r # FetchError
    BY <1>2, MarkerAssumption
  <2>. QED
    BY <1>2, <2>1 DEF GetOrDeriveVaultRelatedKeys, TryDeserialize
<1>3. CASE r \notin {FetchError, Funded}
  <2>1. r = v /\ v \notin {Absent, Funded}
    BY <1>3
  <2>. QED
    BY <1>3, <2>1 DEF GetOrDeriveVaultRelatedKeys, TryDeserialize
<1>. QED
  BY <1>1, <1>2, <1>3

LEMMA InitTypeInv == Init => TypeInv
<1> SUFFICES ASSUME Init PROVE TypeInv
  OBVIOUS
<1>1. \A m \in Mints :
         /\ vaults[m] \in {Absent, Funded, CanonicalVault(m), LegacyVault(m)}
         /\ vaults[m] \in {Absent, Funded} \cup [tokenVault : TokenVaultKeys,
                                                 lpMint : VaultLpMintKeys]
  <2> SUFFICES ASSUME NEW m \in Mints
               PROVE  /\ vaults[m] \in {Absent, Funded, CanonicalVault(m), LegacyVault(m)}
                      /\ vaults[m] \in {Absent, Funded} \cup [tokenVault : TokenVaultKeys,
                                                              lpMint : VaultLpMintKeys]
    OBVIOUS
  <2>1. CASE m \in LegacyMints
    <3>1. vaults[m] = LegacyVault(m)
      BY <2>1 DEF Init
    <3>. QED
      BY <2>1, <3>1 DEF LegacyVault, VaultAccount, TokenVaultKeys, VaultLpMintKeys
  <2>2. CASE m \notin LegacyMints
    <3>1. vaults[m] \in {Absent, Funded, CanonicalVault(m)}
      BY <2>2 DEF Init
    <3>. QED
      BY <3>1 DEF CanonicalVault, VaultAccount, TokenVaultKeys, VaultLpMintKeys
  <2>. QED
    BY <2>1, <2>2
<1>. QED
  BY <1>1 DEF Init, TypeInv, TypeOK

LEMMA NextTypeInv == TypeInv /\ [Next]_vars => TypeInv'
<1> SUFFICES ASSUME TypeInv, [Next]_vars PROVE TypeInv'
  OBVIOUS
<1>1. ASSUME NEW pool, NEW a \in Mints, NEW b \in Mints, NEW p,
             Begin(pool, a, b, p)
      PROVE  TypeInv'
  BY <1>1 DEF Begin, TypeInv, TypeOK
<1>2. CASE InitializePermissionlessPoolWithFeeTierAccounts
  BY <1>1, <1>2 DEF InitializePermissionlessPoolWithFeeTierAccounts
<1>3. CASE InitializePermissionlessPoolAccounts
  BY <1>1, <1>3 DEF InitializePermissionlessPoolAccounts
<1>4. CASE InitializePermissionlessConstantProductPoolWithConfigAccounts
  BY <1>1, <1>4 DEF InitializePermissionlessConstantProductPoolWithConfigAccounts
<1>5. CASE InitializeCustomizablePermissionlessConstantProductPool
  BY <1>1, <1>5 DEF InitializeCustomizablePermissionlessConstantProductPool
<1>6. CASE FetchVaultA
  <2> DEFINE keys(r) == GetOrDeriveVaultRelatedKeys(VaultKey(request.a), r)
  <2>1. PICK r \in FetchResults(request.a) :
            \/ keys(r) = DeserializeError /\ pc' = "Failed"
            \/ keys(r) # DeserializeError /\ pc' = "FetchB" /\ keysA' = keys(r)
    BY <1>6 DEF FetchVaultA
  <2>2. request.a \in Mints
    BY <1>6 DEF FetchVaultA, TypeInv
  <2>3. keys(r) \in (TokenVaultKeys \X VaultLpMintKeys) \cup {DeserializeError}
    BY <2>1, <2>2, FetchedKeysType DEF TypeInv, TypeOK, FetchResults
  <2>4. pc' = "FetchB" => keysA' \in TokenVaultKeys \X VaultLpMintKeys
    BY <2>1, <2>3
  <2>. QED
    BY <1>6, <2>1, <2>4 DEF FetchVaultA, TypeInv, TypeOK
<1>7. CASE FetchVaultB
  <2> DEFINE keysB(r) == GetOrDeriveVaultRelatedKeys(VaultKey(request.b), r)
  <2>1. PICK r \in FetchResults(request.b) :
            \/ keysB(r) = DeserializeError /\ pc' = "Failed"
            \/ /\ keysB(r) # DeserializeError
               /\ pc' = "Done"
               /\ accounts' =
                    [pool |-> request.pool, lpMint |-> AmmLpMintKey(request.pool),
                     aVault |-> VaultKey(request.a), aTokenVault |-> keysA[1],
                     aVaultLpMint |-> keysA[2],
                     aVaultLp |-> VaultLpKey(VaultKey(request.a), request.pool),
                     bVault |-> VaultKey(request.b), bTokenVault |-> keysB(r)[1],
                     bVaultLpMint |-> keysB(r)[2],
                     bVaultLp |-> VaultLpKey(VaultKey(request.b), request.pool),
                     payer |-> request.payer]
    BY <1>7 DEF FetchVaultB
  <2>2. request.b \in Mints /\ keysA \in TokenVaultKeys \X VaultLpMintKeys
    BY <1>7 DEF FetchVaultB, TypeInv, TypeOK
  <2>3. keysB(r) \in (TokenVaultKeys \X VaultLpMintKeys) \cup {DeserializeError}
    BY <2>1, <2>2, FetchedKeysType DEF TypeInv, TypeOK, FetchResults
  <2>. QED
    BY <1>7, <2>1, <2>2, <2>3 DEF FetchVaultB, TypeInv, TypeOK
<1>8. CASE FundVaultAddress
  BY <1>8 DEF FundVaultAddress, TypeInv, TypeOK
<1>10. CASE CreateVault
  <2>1. PICK m \in Mints : vaults[m] \in {Absent, Funded}
                           /\ vaults' = [vaults EXCEPT ![m] = CanonicalVault(m)]
    BY <1>10 DEF CreateVault
  <2>2. CanonicalVault(m) \in [tokenVault : TokenVaultKeys, lpMint : VaultLpMintKeys]
    BY DEF CanonicalVault, VaultAccount, TokenVaultKeys, VaultLpMintKeys
  <2>. QED
    BY <1>10, <2>1, <2>2 DEF CreateVault, TypeInv, TypeOK
<1>9. CASE UNCHANGED vars
  BY <1>9 DEF vars, TypeInv, TypeOK
<1>. QED
  BY <1>2, <1>3, <1>4, <1>5, <1>6, <1>7, <1>8, <1>9, <1>10 DEF Next

(* The builder's state always has its type, whatever the fetcher returns *)
(* and however vault creations interleave: the keys it holds across the  *)
(* awaits and returns name a token vault and an LP mint of some vault.    *)
THEOREM TypeCorrect == Spec => []TypeOK
<1>1. Init => TypeInv
  BY InitTypeInv
<1>2. TypeInv /\ [Next]_vars => TypeInv'
  BY NextTypeInv
<1>3. TypeInv => TypeOK
  BY DEF TypeInv
<1>. QED
  BY <1>1, <1>2, <1>3, PTL DEF Spec

=============================================================================
