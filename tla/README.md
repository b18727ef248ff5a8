# TLA+ models of the DAMM v1 SDK

This directory holds TLA+ models of the Rust code under `src/`, the TLC
configurations that model-check them, and TLAPS proofs about them.
`PROJECT.json` lists the components, the runs, the mutants, the map from
definitions to source lines, the findings, the hazards and the theorems.

## The system

| Part | Source | What it does |
|---|---|---|
| Quote orchestrator | `src/dynamic-amm-quote/src/lib.rs` `compute_quote` (59-246) | A pure function. From a snapshot (`QuoteData`: pool, both vaults, the pool's vault-LP balances, the LP mint supplies, the vaults' token accounts, the clock, the stake account bytes) it computes the output and fee of a swap. |
| Fee schedule resolver | `lib.rs` `get_latest_pool_fees` (265-311) | Resolves the trade fee at the current slot or timestamp from the pool's fee curve (None, Flat or Linear). |
| Virtual price oracle | `src/dynamic-amm-quote/src/depeg/spl_stake.rs` `get_virtual_price` | Prices a staking derivative from an SPL stake pool account. |
| Vault share accounting | the vault program (not under `src/`) | `get_amount_by_share` and `get_unmint_amount`, called by the quote. |
| Swap curves | the curve crate (not under `src/`) | ConstantProduct and Stable `swap`. |
| Account builder | `src/common/src/dynamic_amm/ix_account_builder.rs` | Assembles the accounts of the four pool initialisation instructions. It awaits a caller-supplied fetcher for both vaults. |
| Vault PDAs | `src/common/src/dynamic_vault/pda.rs` | Derives a vault's, its token vault's and its LP mint's addresses. |
| Account layouts, events | `src/programs/amm/src/state.rs`, `event.rs` | Data declarations. |

How the parts interact:
- The quote calls the oracle first: `update_base_virtual_price` writes the oracle's price into a copy of the pool's curve.
- Next it calls the vault conversions to turn LP balances into reserves.
- Then it calls the fee resolver, the vault conversions again (to simulate the deposit), and the swap curve.
- Last, it converts the swap's output back through the out vault.
- The account builder is separate client code. It runs concurrently with the chain: other transactions can create vaults while it awaits its fetches.

## Modules

- `FixedPoint`: the integer widths as constants (`U64Max`, `U16Max`, u128 as the square of u64) and `None`, the failed `Option`.
- `VaultShares`: the vault's two conversions, modelled from spec.md 4.2 because the vault program is not under `src/`. The locked-profit schedule is a function of the vault and `current_time`, and `current_time` is fixed for one quote. So the locked amount is part of the snapshot.
- `FeeSchedule`: `get_latest_pool_fees`.
  - The loop's stopping index is `Min(Activated(points, t))`.
  - The Linear blend's numerator is wrapped modulo 2^64 (the release build) and then truncated by `as u16`.
  - `InterpolationOverflows` is the condition under which a debug build panics instead.
  - `ReferenceTradeBps` is an independent, per-segment statement of spec.md 4.4, used as the reference.
- `SwapCurve`: the curve configuration. ConstantProduct's swap is the formula of spec.md 4.6, `floor(y*dx/(x+dx))`, with the curve's contract that the output is strictly below the out reserve: a swap against an empty reserve (`x = 0` or `y = 0`, where the formula would hand over all of `y`) fails. Stable's swap is given by its contract only: any amount below the out reserve, or a failure to converge.
- `Depeg`: `get_virtual_price`, operation by operation with its u128 bounds. Also `update_base_virtual_price` (spec.md 4.3 and 7, not under `src/`). A Stable curve with a depeg type takes the fresh price and the clock's timestamp. When no price can be computed it keeps its stored price, unless the curve requires a fresh one. We read that requirement as the cached price having expired: the timestamp is past `base_cache_updated + BaseCacheExpires` (`CacheExpired`). The quote then fails with `VirtualPrice` (`FreshPriceMissing`).
- `Quote`: `compute_quote` as a state machine.
  - `Init` chooses the snapshot, which never changes afterwards.
  - `pc` walks the code's steps in order. There is one action per step: `CheckActivation`, `UpdateVirtualPrice`, `CheckMint`, `Reserves`, `ResolveFees`, `ChargeFees`, `SimulateDeposit`, `DeductTradeFee`, `Swap`, `ConvertOut` and `CheckReserve`.
  - Every `ensure!`, `?` and `.context()?` is a disjunct that ends in `pc = "Failed"` with the error kind in `err`. This includes the `?` of line 93.
  - The code's locals are variables, named after the code's locals.
  - `ResolveFees` has a `Panic` disjunct for the debug build's overflow check. The undefined choice of build is a nondeterministic choice.
- `AccountBuilder`: the four `IxAccountBuilder` entry points (`Begin` with the pool key each derives), `FetchVaultA`, and `FetchVaultB`.
  - `FetchVaultB` is vault B's fetch plus the rest of the function: derive the remaining keys and assemble the accounts.
  - The chain is the variable `vaults`. `CreateVault` is another transaction creating a vault with its PDA keys.
  - A key is modelled by its seeds.
  - The fetcher's possible results are `FetchResults`: the account if it exists, an error if not, and, when `FetchMayFail`, an error for an existing account.
  - `FundVaultAddress` is another transaction sending lamports to a vault's address before the vault exists. The fetch then succeeds, `Vault::try_deserialize` fails (`TryDeserialize`), and the build fails with that error (line 33's `?`). `CreateVault` still creates the vault at a funded address.
  - Legacy vaults (created with a non-PDA LP mint) exist from the start.
- `Quote` has `QuoteResultOf`, which maps the state to what the function returns: `Ok` with `out_amount` and `fee`, `Err` with the error kind, or still pending.
- `QuoteContract`: the abstract quote. It is one step from a pending request to a result over the same snapshot. The result is one of these:
  - the validation error, first failure first: pool disabled, swap not yet active, a depeg pool's fresh price missing, input mint not the pool's (`Rejection` is an ordered `IF`: with overlapping arms, a `CASE` would leave the choice unspecified);
  - any computation error;
  - `Ok` with `out_amount` strictly below the out vault's token balance and a fee of at most `in_amount`.

  It has weak fairness, so a result is eventually produced. `Quote` instantiates it with `result <- QuoteResultOf`. That is the refinement mapping.
- `QuoteMonotone`: two copies of `Quote` (`INSTANCE ... WITH`) over one shared snapshot that differ only in `in_amount`. The second call starts after the first has returned. Calls share no state (spec.md 5), so this order loses no behaviour.
- `MCQuote`, `MCQuoteMonotone` and `MCAccountBuilder`: the small instances TLC checks.
- `FeeScheduleProofs`, `QuoteProofs`, `QuoteSafetyProofs`, `QuoteRefinementProofs`, `QuoteInvariantProofs` and `AccountBuilderProofs`: the TLAPS proofs. Each extends the one before it in this list, except `AccountBuilderProofs`.

## Runs

The quote model scales u64 to 0..63 and u16 to 0..3. With these widths u16 * 10 still fits u64, as it does with the real widths, and a fee-curve blend over points 0 and 63 overflows u64. The trade fee denominator is 20, so 2 bps of the curve stands for 100%.

| Run | Checks | Result |
|---|---|---|
| `quote_core` (`MCQuote.cfg`) | `DepositCreditSound`, `QuoteWithinFeeFreeSwap`, `OutRoundTripNoGain`, `QuoteConservation` | pass |
| `quote_contract` (`MCQuoteContract.cfg`) | `ImplementsContract`: `Quote` under `FairSpec` implements `QuoteContract!FairSpec` | pass, 3.2M states |
| `quote_monotone` (`MCQuoteMonotone.cfg`) | `QuoteMonotone` (spec.md 8) | violated |
| `quote_fees` (`MCQuoteFees.cfg`) | `TypeOK`, `LatestFeesMatchReference` | pass |
| `quote_fees_exact` | `ResolvedFeesExact` | violated |
| `quote_depeg` (`MCQuoteDepeg.cfg`) | `VirtualPriceBracketed` | pass, 240k states |
| `quote_depeg_stale` | `SwapUsesRefreshedCurve` (spec.md 4.3) | violated |
| `builder` (`MCAccountBuilder.cfg`) | `TypeOK`, `BuiltKeysMatchVault` | pass, 267 states |
| `builder_fetch_error` | `BuiltKeysMatchVault` with a failing fetcher | violated |

The instances:
- **Core**: every side with a vault total of at most 3, an LP supply of at most 2 and a locked profit of at most 1. The pool holds at most the supply. The token account is empty or holds the total. Both sides range over these independently, together with inputs 0, 1 and 3, disabled and not-yet-active pools, and fee rates of 0% or 50%. This reaches every failure of the quote, and the roundings that matter: shares worth less than one token, and a deposit that mints no LP.
- **Fee**: Flat and Linear curves over every ascending choice of three points from {0, 2, 63} and every fee 0..3 bps. Clocks are placed before, on, between and past the points. The protocol cut is 50% or 100%.
- **Depeg**: every stake pool with lamports 0..3, supply 0..2, withdrawal fee numerator 0..1 over denominators 0, 1, 10, 11 and 12, and undecodable bytes. The sanity check skips the withdraw price when `den <= num * 10`. So denominator 0, and numerator 1 over 1 or 10, take the skipped branch, with 1/10 the threshold itself. Numerator 0 over a non-zero denominator is a zero fee, and numerator 1 over 11 or 12 is a plausible non-zero fee of about 9% or 8%; both take the withdraw branch. A zero supply fails the price. Stable curves have a cached price updated at 0 or at 5, against a clock at 5 with `BaseCacheExpires = 0`: expired and fresh.
- **Contract**: the core instance with the core clocks, plus one Stable depeg pool with undecodable stake bytes and a price cached at 0. At timestamp 0 the quote falls back to the stored price; at timestamp 1 it fails with `VirtualPrice`.
- **Monotone**: one constant-product pool with a 50% trade fee and a 50% protocol cut. Each side's vault holds 4 or 5 tokens, its LP supply is 2, and the pool holds 1 or 2 of it. `in_amount` ranges over 0..7, so `amt1 < amt2` covers every pair, including deposits too small to mint any LP.
- **Builder**: two mints, one of which has a legacy vault. Vault A and vault B may be the same. The other mint's vault address may be funded before the vault exists.

## Fairness and liveness

- **`compute_quote`** is synchronous and never waits. While it has not returned, its next step is enabled, and the process running it takes that step. So `Quote!FairSpec` assumes weak fairness of `Next`. Under it, `ImplementsContract` includes the contract's liveness: every quote returns. A quote's last state, Done or Failed, has no successor, so these runs say `CHECK_DEADLOCK FALSE`.
- **The builder** runs no fairness check. Whether an awaited fetch completes is up to the caller's fetcher, which the code does not control, so no run claims that a build returns. Its runs check safety only. A new build can start after one has returned or failed, so the builder never deadlocks and its runs check for deadlock.

## Findings

- **Unchecked fee blend** (lib.rs:292-293): for far-apart fee-curve points the u64 numerator wraps in release builds, so the quote uses a fee that is not the curve's. A debug build panics instead. With real widths this needs points about 1.8e15 apart, for example a `u64::MAX` sentinel point.
- **Stale curve** (lib.rs:211): the swap curve is built from `pool.curve_type`, not from the copy whose virtual price line 93 refreshed. The refreshed price is never used by the swap.
- **Monotonicity** (lib.rs:158): spec.md 8 says a larger `in_amount` never gives a smaller `out_amount`. The fee is charged on `in_amount`, but the pool is credited only what the simulated vault deposit mints LP for. TLC finds a snapshot where `in_amount` 5 quotes 2 and `in_amount` 6 quotes 0.
  - The snapshot: side A's vault has total 4 and supply 2, and the pool holds 1 LP. Side B's vault has total 5 and supply 2, and the pool holds 2 LP.
  - Why: one token more raises the fee, but the deposit of the rest mints the same LP.
- **Fetch errors** (ix_account_builder.rs:32): every fetch error counts as a missing vault. A transient error on a legacy vault gives the wrong LP mint.

Also from the proofs: the scan's stopping point always has its previous point strictly before the current point. So `denominator == 0` (line 289) is dead code, and `current_point - a` and `b - current_point` never underflow, whatever the order of the points.

## Proofs

`QuoteProofs` proves `THEOREM TypeCorrect == Spec => []TypeOK` for every value of the constants, under:
- the named assumptions on the widths (`U64MaxAssumption`, `U16MaxAssumption`);
- `FeeNumeratorFits` (u16 * 10 fits u64);
- `PrecisionAssumption`;
- `NoneAssumption` (`None` is not a number);
- `SnapshotAssumption` (the snapshot is in range).

`TypeOK` is inductive as it stands. The proof has one lemma per action, each split into the failure and success cases, and rests on lemmas about the operators:
- from `FeeScheduleProofs`: `MinOfNats` (a non-empty set of naturals holds its minimum, from `WFMin` and `NatLessThanWellFounded`), `ScanStop` (where the fee-curve scan stops) and `LatestTradeBpsType`;
- `LatestPoolFeesType`: `get_latest_pool_fees` never fails;
- `AmountByShareType` and `UnmintAmountType`;
- `VirtualPriceType`: `den - num` cannot underflow past the sanity check;
- `SwapOutcomesType`.

`AccountBuilderProofs` proves `THEOREM KeysMatchVault`: when `~FetchMayFail`, `Spec => []BuiltKeysMatchVault`. This holds for any sets of mints, payers, configs, fee tiers and legacy mints. It rests on `BuilderAssumption`, on `MarkerAssumption` (`Absent`, `Funded` and `FetchError` are distinct, and none is a vault account) and on `DeserializeErrorAssumption` (the error is not a pair of keys).

`BuiltKeysMatchVault` is not inductive. A state at `Done` with keys that no vault holds is consistent with it while the vault is absent, and `CreateVault` would then break it. The strengthening `IInv` says:
- a legacy vault is always present;
- any other vault is absent or canonical;
- at `FetchB`, `keysA` is `ExpectedKeys(request.a)`: the legacy keys of a legacy mint, the PDAs of any other;
- at `Done`, both sides' returned keys are the `ExpectedKeys` of their mints.

`IInv` was checked as an invariant with TLC on the `builder` instance before it was proved. The central lemma, `FetchedKeys`, says that a fetch yields `ExpectedKeys` or the deserialise error, which fails the build. The stored keys of an existing vault and the derived keys of an absent one agree, so a creation racing the awaits cannot make them stale. The `builder_fetch_error` run shows that the hypothesis `~FetchMayFail` is needed.

`AccountBuilderProofs` also proves `THEOREM TypeCorrect == Spec => []TypeOK`. It uses a strengthened `TypeInv`: a request names known mints, and every vault slot is absent or holds that mint's canonical or legacy vault.

`QuoteSafetyProofs` extends `QuoteProofs` and proves two of the relational properties for every width and snapshot.
- **`RoundTripNoGain == Spec => []OutRoundTripNoGain`.** The core is `RoundTrip`: `floor(floor(x*S/U)*U/S) <= x`, from `FloorTimesDivisor` and `DivMonotone`. Only `ConvertOut` can change the property, and it is inductive given `TypeOK`.
- **`DepositCreditHolds == Spec => []DepositCreditSound`.** This one also rests on `PoolLpWithinSupply`: the pool holds no more LP than the vault has issued. That is an on-chain fact for a consistent snapshot.
  - The arithmetic, `DepositArith`, works with U the unlocked amount, S the supply, L the pool's LP, d the deposit and k the minted LP, where k*U <= d*S. It shows `floor(L*U/S) <= floor((k+L)*(U+d)/(S+k)) <= d + floor(L*U/S)`, via the cross-multiplication lemma `CrossDiv`.
  - The upper bound comes from the identity `(d*S + L*U)*(S+k) - (k+L)*(U+d)*S = (d*S - k*U)*(S - L)`, which is where L <= S is needed.
  - `DepositCreditSound` is not inductive alone. `DepositInv` adds two facts. First, from `Reserves` until the deposit, `in_vault` and `in_token_amount` are the in side's vault and the pool's share of it. Second, both sides belong to `Sides`, so that `PoolLpWithinSupply` applies.

`FeeScheduleProofs` proves, about the fee resolver alone, `LatestTradeBpsMatchesReference`: on a curve whose adjacent points ascend, `get_latest_trade_bps` equals the per-segment reference `ReferenceTradeBps` of spec.md 4.4 wherever the Linear numerator does not overflow u64.
- `SortedOrder` lifts adjacent order to any two indices. The least index of a counterexample would break adjacency, so this needs only `MinOfNats`, not an induction over an operator.
- So the scan's stopping index is the one segment `(a, b]` that holds the current point. `CHOOSE` in the reference therefore picks it.
- `BlendBound`: the exact blend of two u16 fees over a non-empty segment is a u16. So neither the `% 2^64` wrap nor the `as u16` cast changes it.

`QuoteRefinementProofs` proves the safety half of the refinement: `THEOREM ImplementsContractSafety == Spec => Contract!Init /\ [][Contract!Quote]_Contract!cvars`. The proof follows the usual pattern: initial states map to `Contract!Init`, and every step maps to a `Contract!Quote` step or a stutter (`RefinementStep`).
- A step that does not return leaves `QuoteResultOf` pending and the snapshot unchanged: a stutter.
- A returning step needs to know which checks the quote has passed. `RefinementInv` records it, by stage:
  - the activation check passed;
  - past `UpdateVirtualPrice`, the fresh price is not missing (`FreshPriceAgrees` shows the contract's `FreshPriceMissing` is the model's);
  - the input mint is one of the pool's;
  - `dir` agrees with `inMint`;
  - `inAfterProtocol <= inAmount`;
  - `tradeFee <= actualIn`;
  - at `Done`, `outAmount` is below the out side's token amount.

  With `DepositCreditSound` (`actualIn <= inAfterProtocol`), this shows that:
  - a validation error is exactly `Contract!Rejection`;
  - a later error is a computation error under no rejection;
  - `Ok` has `out < OutTokenAmount` and `fee <= inAmount`.
- `RefinementInv` is inductive given `TypeOK` and `DepositCreditSound` in both states. It was model-checked with TLC on the `quote_core` instance first.
- The liveness half, `WF_cvars(Contract!Quote)`, is checked by the `quote_contract` run only.

`QuoteInvariantProofs` proves the remaining invariants of the passing quote runs:
- **`VirtualPriceBracketedHolds == Spec => []VirtualPriceBracketed`.**
  - The strengthening is `CurveWritten`: past `UpdateVirtualPrice`, `curve` is what `UpdateBaseVirtualPrice` wrote.
  - The arithmetic is `VirtualPriceBounds`. It rests on `WithdrawBelowDeposit`: with den > 10 * num, `floor(floor(L*(den-num)*P/den)/S) <= floor(L*P/S)`. The 3:1 blend of the two prices then lies between them.
- **`QuoteWithinFeeFreeSwapHolds == Spec => []QuoteWithinFeeFreeSwap`.**
  - The strengthening is `SwapInv`: the amount swapped is at most `actualIn`, a constant-product pool's `swapped` is the curve's output for it, and `swapped` is below the out reserve.
  - The argument chains `outAmount <= swapped` (`RoundTripNoGain`), `actualInAfterFee <= actualIn <= inAfterProtocol <= inAmount` (`DepositCreditHolds` and `RefinementInv`) and `ConstantProductMonotone`.
  - `ConstantProductMonotone`: `floor(y*d/(x+d))` grows with `d`. It is proved by cross-multiplication (`CrossDiv`).
- **`QuoteConservationHolds == Spec => []QuoteConservation`.** A completed quote pays out strictly less than the out reserve. It chains `outAmount <= swapped` (`RoundTripNoGain`) with `swapped < reserveOut` from `SwapInv`. For constant product this is `ConstantProductBelowReserve`: `floor(y*dx/(x+dx)) < y` for `x, y > 0`. For Stable it is the contract.
- **`LatestFeesMatchHolds == Spec => []LatestFeesMatchReference`.** It follows from `FeesWritten` (past `ResolveFees`, `fees` is what `GetLatestPoolFees` returned) and `LatestTradeBpsMatchesReference`.

`SwapInv`, `CurveWritten` and `FeesWritten` were each checked with TLC as invariants before they were proved.

What stays with TLC:
- the liveness half of `ImplementsContract`, because TLAPS does not check liveness under fairness or `ENABLED`;
- the violations (`ResolvedFeesExact`, `SwapUsesRefreshedCurve`, `QuoteMonotone`, `BuiltKeysMatchVault` with fetch errors), which are counterexamples, not theorems;
- anything recursive (the planned StableSwap solver).

## Not modelled

- The StableSwap solver (the curve crate is not under `src/`). Stable's swap is its contract.
- Borsh decoding, beyond "decodes or not".
- The `ActivationType::try_from` error: a deserialised pool holds a valid tag.
- Negative clock timestamps.
- The events and the account layouts. The `Pool` of `src/programs/amm/src/state.rs` is an older layout without the bootstrapping and fee-curve fields. `PoolType` follows the `prog_dynamic_amm` pool that `compute_quote` reads (spec.md 3).
- `compute_pool_tokens` (lib.rs 248-262): a stateless helper that `compute_quote` does not call. It makes the same two `get_amount_by_share` calls that `Reserves` models.
- The constant program ids of the instruction account structs.

## Plan

1. Model the StableSwap solver in a TLC-only module (its Newton iteration is recursive). Refine `StableSwapOutcomes` with it, and show the effect of the stale virtual price on the output.
2. Model the program's events if an emitting handler is ever added under `src/`.
