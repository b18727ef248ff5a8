-------------------------- MODULE MCAccountBuilder --------------------------
(***************************************************************************)
(* A small chain for AccountBuilder: two mints, one of whose vaults was   *)
(* created before LP mints were PDAs, one payer, one config and one fee  *)
(* tier.  Vault A and vault B may be the same vault.                      *)
(***************************************************************************)
EXTENDS AccountBuilder

CONSTANTS Mint1, Mint2, Payer1, Config1

MCMints == {Mint1, Mint2}
MCLegacyMints == {Mint2}
MCPayers == {Payer1}
MCConfigs == {Config1}
MCFeeTiers == {25}

=============================================================================
