# TLA+ models of the darkfi contract-execution core

This directory holds TLA+ specifications of the parts of this repository that run a transaction: the call tree, the host state bridge (`merkle_add`), a contract's transition functions (`Consensus::UnstakeRequestV1`), and the driver that runs the four phases and commits the result. It also models the `drk2` wallet's Money tables across crashes, the seed protocol of peer discovery, and the DAO::Exec flow of the contract test harness. It also holds the TLC configurations that check them. `PROJECT.json` lists the components, the runs, the mutants that show each property can fail, the map from every definition to the source lines it models, the findings and the hazards.

All paths below are relative to the repository root (`src/` in this workspace).

## 1. The system and how its parts interact

| Part | Source | State | Operations |
|---|---|---|---|
| CallTree | `script/research/dark-forest/src/lib.rs` | a `DarkTree` (leaf plus owned children); each iterator keeps a chain of boxed frames | `DarkTree::new`, `iter`, `iter_mut`, `into_iter`, and the three `next()` |
| Host State Bridge: `merkle_add` | `src/runtime/import/merkle.rs` | the overlay (namespace → key → value), the handle table, remaining gas | one host call: ACL, gas, handle bounds, ownership, decode, read tree, append, insert tree / roots / latest root, charge gas |
| Contract: UnstakeRequestV1 | `src/contract/consensus/src/entrypoint/unstake_request_v1.rs` | the consensus contract's namespaces: nullifiers, unstaked coins, staked roots, info (tree), unstaked roots | `get_metadata`, `process_instruction` (5 checks in order), `process_update` (2 × `db_set`, `merkle_add`) |
| Transition Protocol Driver | not under `src/` (spec.md §4.4) | the committed store, the overlay and the GasMeter of the transaction in progress, the phase and call index | intake; phases 1–2 (metadata and proofs); phase 3 (validate); phase 4 (apply, charging gas); commit or abort; halt on a phase-4 failure, OutOfGas included |
| Wallet (`drk2`) | `bin/drk2/src/money.rs` | SQLite tables: coins, aliases, Merkle tree, last scanned slot, keys | `initialize_money`, `put_money_tree` (DELETE then INSERT), `money_keygen`, `money_balance`, `get_coins`, `get_aliases`, `get_aliases_mapped_by_token`, `last_scanned_slot` |
| Seed protocol | `src/net/protocol/protocol_seed.rs` | a channel and an address subscription; the hosts greylist | send own addresses (after a self-ping of each), send GetAddrs, await one Addrs reply, greylist it |
| DAO::Exec test harness | `src/contract/test-harness/src/dao_exec.rs` | per holder: a wallet (coins, Money Merkle tree) and a validator | `dao_exec` (select the DAO's coins, build transfer, exec and auth calls as a call vector), `execute_dao_exec_tx` (validate, then append the outputs to the holder's tree) |
| darkirc RPC, cashier adapter, consensus metadata | `bin/darkirc/src/rpc.rs`, `src/rpc/adapter.rs`, `src/consensus/metadata.rs` | none to speak of | dispatch, parameter parsing, serialization |

The parts interact as follows:

1. A transaction is a vector of `DarkLeaf<ContractCall>` laid out in the order the call tree's post-order traversal gives. `dao_exec.rs` builds one: the two children first, then the `DAO::Exec` root.
2. The driver takes each call through the phases:
   - Phases 1–2 derive metadata (`get_metadata`) and verify the ZK proofs and signatures.
   - Phase 3 calls `process_instruction`, which reads the overlay and returns an update record.
   - Phase 4 calls `process_update`, which writes through host functions such as `db_set` and `merkle_add`.
3. If every call passes, the overlay is promoted to the committed store. A failure in phases 1–3 discards the overlay. A failure in phase 4 is fatal to the validator.
4. The wallet and the seed protocol stand apart from the contract-execution core. The wallet is a local SQLite store that the `drk` process may be killed in the middle of updating. The seed protocol runs on a channel to a seed server when a node bootstraps its host lists.

### Hard behaviours of this code

- **Recursion.** The iterators recurse once per tree level (`next()` calls `self.next()`), so stack use grows with the depth of the call tree. The depth is chosen by whoever builds the transaction.
- **Frame-chain reasoning.** The iterators rely on facts about the frame chain that no single line states. One example is the unwrap of `lib.rs:116`. The other is that `IterMut` hands out each `&mut` leaf exactly once, and `IntoIter` moves each leaf exactly once.
- **Partial writes in `merkle_add`.** It writes the tree, then each root, then the latest-root pointer. An error in the middle leaves the earlier writes in the overlay.
- **Gas charged after the writes.** `merkle_add` charges the realized cost of an append (merkle.rs 320-321) after its inserts, and that cost grows with the tree. When it exhausts the budget the call still returns SUCCESS with its writes staged, and the instance traps at its next metered instruction.
- **Ordering within a transaction.** The double-spend and duplicate-coin checks in phase 3 see earlier calls of the same transaction only through the overlay. So they are only correct if phase 4 of those calls has already run.
- **Crash window in the wallet.** `put_money_tree` deletes the stored tree before it inserts the new one. A crash between the two makes `initialize_money` create a fresh tree on restart.
- **Blocking wait in the seed protocol.** `start()` waits for the seed's reply with no timeout.
- **All-or-nothing advertising.** One failed self-ping makes `send_my_addrs` return Ok without advertising any address.
- **Positions standing for coins in `dao_exec`.** The exec call takes the serials of the transfer's minted coins by position (`minted_coins[0]`, `minted_coins[1]`). The call vector and its parent/children indexes are written by hand.
- **A stale coin list in the test harness.** Neither `dao_exec` nor `execute_dao_exec_tx` updates the DAO wallet's `unspent_money_coins`, so a second DAO::Exec offers coins already spent.
- **Build-dependent arithmetic.** `money_balance` sums with `u64 +=`, and `process_instruction` subtracts epochs in `u64`. Both panic with overflow checks and wrap without them.

## 2. Modules

| Module | Models | State (VARIABLES) | Actions |
|---|---|---|---|
| `DarkTree` | the tree value; reference post-order | — (constant `MaxNodes`) | `DarkTreeNew`; `Trees` = every tree of 1..MaxNodes leaves, labelled in pre-order so that label order differs from post-order |
| `PostOrderIterator` | abstract spec of every iterator | `tree`, `emitted`, `finished` | `Yield` the next post-order leaf, `Exhausted` (None, repeatable) |
| `DarkTreeIter` | `DarkTreeIter::next` (lib.rs 101-131) | `iter` (frame chain as a sequence of slices), `out`, `status`, `calls` | `NextItem`: one `next()` call including its recursive calls, computed by the RECURSIVE operator `IterNext` |
| `DarkTreeIterMut` | `DarkTreeIterMut::next` (164-196) | frames carry the `parent_leaf` borrow | `NextItem` via `IterMutNext` |
| `DarkTreeIntoIter` | `DarkTreeIntoIter::next` (227-265) | frames own the remaining subtrees | `NextItem` via `IntoIterNext`; `PushAfterChildren` is the `mem::take` of line 257 |
| `MCDarkTreeIterators` | the three iterators used in turn on one tree | the tree and each iterator's variables, renamed | `IterStep`, `IterMutStep` (after `iter` returned None), `IntoIterStep` (after `iter_mut` returned None), each the instanced `NextItem` |
| `MerkleAdd` | `merkle_add` (merkle.rs 34-324) | `overlay`, `gas`, `ret`, `call` | `MerkleAddCall(section, pair, decodes, rest, coins, failAt)`: the whole host call, including every early return and a failing insert at position `failAt` |
| `UnstakeRequest` | `process_instruction` / `process_update` (unstake_request_v1.rs 100-193) | — (operators over a store) | `ProcessInstruction` returns the first failing check or the update record; `ProcessUpdate` returns the overlay inserts, reusing `MerkleAdd!MerkleAddInserts` by INSTANCE; `UpdateGas` is what its `merkle_add` of one coin charges |
| `AtomicLedger` | abstract spec of unstaking (spec.md §1, §4.2, §4.4), written without the contract or host code | `nullifiers` (spent set), `coins` (unstaked coins in tree order), `log` (committed calls) | `CommitTx`: a whole transaction whose calls are each valid (proof, staked root, grace period, fresh nullifier, new coin) against the ledger left by the ones before, and whose appends fit `GasLimit`, or nothing. The driver is mapped to it through the store: `nullifiers` is the domain of the nullifier tree, `coins` the stored Merkle tree's leaves, `log` the driver's `spent` |
| `TransactionDriver` | the driver (spec.md §4.4) over UnstakeRequest calls | `store`, `ovl`, `tx`, `phase`, `idx`, `updates`, `halted`, `spent`, `received`, `gas` (the transaction's GasMeter) | `ReceiveTx`, `VerifyCall`, `ValidateCall`, `ApplyUpdate`, `CommitTx`, and `Abort` as a sub-action |
| `MCTransactionDriver` | model values for the driver | — | the call inputs, the transactions and the deployed store |
| `WalletMoneyTree` | `initialize_money`, `put_money_tree`, `money_keygen`, `last_scanned_slot` (money.rs 50-124, 318-352) | `pc` (where the process is, `down` when not running), `rows` (tree table, trees as version numbers), `slotRows`, `keys`, `arg`/`ret` (the call of `put_money_tree`), `newest` (history), `faults` | `Start`, `InitSchema`, `TreeCheck`, `PutDelete`, `PutInsert`, `SlotCheck`, `MoneyKeygen`; `ReplaceTree` (a scan's call of `put_money_tree`); `Crash`; `Exit` (a failed statement's `exit(2)`) as a sub-action |
| `WalletMoneyQueries` | `money_balance`, `get_coins`, `get_aliases`, `get_aliases_mapped_by_token` (money.rs 126-316) | `coinRows`, `aliasRows` (the tables), `balances`, `byToken` (the last results) | `MoneyBalanceCall`, `GetAliasesMappedByToken` (over every HashMap order); the environment's `StoreCoin`, `MarkSpent`, `SetAlias`, `RemoveAlias` |
| `DaoExec` | `dao_exec`, `execute_dao_exec_tx` (dao_exec.rs 49-263) | per holder `tree` (wallet) and `chain`, `nullifiers` (validator); `built` (the transactions returned), `builds`, `panicked` | `DaoExecCall` (the assert!s, the token filter, `select_coins`, outputs, serials, the call vector; or the selection error); `Execute` = `ExecuteDaoExecTx(h, t)` for a holder and a built transaction |
| `MCDaoExec` | model values for `DaoExec` | — | the DAO's coins and the proposals a test passes |
| `ProtocolSeed` | `ProtocolSeed::init`, `send_my_addrs`, `start` (protocol_seed.rs 49-136) | `pc`, `toPing`, `addrs`, `pinged`, `toSeed`/`sentToSeed`/`fromSeed` (the channel), `stopped`, `greylist` | `SendMyAddrs`, `PingSelf`, `SendMyAddrsMsg`, `SendGetAddrs`, `ReceiveAddrs`; the environment's `SeedReceive` and `StopChannel` |

### How the modules correspond to the code

- **Frame chain.** In the iterators, the Box-linked chain `self.parent` is a sequence: its last element is `self` and earlier elements are the boxed parents. One step is one call of `next()`, with every recursive call folded into it. The recursive calls are counted in `calls`.
- **Stores.** In `MerkleAdd` and the modules after it, a store is a function from namespace to (key → value).
  - A serialized tree is the record `[size, leaves]`: the `u32` count prefix and the leaves.
  - A root is the sequence of leaves it covers, which stands for a collision-free hash.
  - The byte buffer a contract passes is abstracted to the values it decodes to, plus whether decoding succeeds.
- **Gas.** `subtract_gas` saturates at zero. The WASM instance traps at its next metered instruction, so `MerkleAdd` never charges past zero and calls stop once the gas is gone. In `TransactionDriver` the GasMeter belongs to the transaction (spec.md §5) and starts at `GasLimit`. Phase 4 charges what `merkle_add` charges for the call's coin. If no gas is left after the charge, the call traps: its writes are discarded (spec.md §4.2) and, being in phase 4, the validator halts (spec.md §7). Gas spent by host functions outside `src/` (`db_set`, `db_lookup`, `db_contains_key`) and by the contract's own instructions is not counted.
- **Wallet statements.** In `WalletMoneyTree` every SQL statement is one atomic step, and `pc` says which statement runs next. A crash can happen between any two steps. A failing statement prints and calls `exit(2)`, which the model treats as a crash. The schema file `wallet.sql` is not in the sources, and the model assumes it creates missing tables only. The tables persist across crashes, and `pc` restarts at `down`. `put_money_tree` has only one caller in this file, `initialize_money`. The scans that call it with an extended tree are elsewhere in `drk`, so `ReplaceTree` is an environment action.
- **Seed protocol collaborators.** The channel is a FIFO in each direction that may stop at any time. After it stops, `send` errs, and `receive` errs once the queue is empty. `ping_node` answers TRUE or FALSE nondeterministically. The seed answers each GetAddrs with at most `max` of the addresses it knows.
- **DAO::Exec harness.** A coin is its id, value and token; proofs, blinds, keys, signatures, benchmark timers and encodings are left out. Output ids encode the build and the position, so the serials the exec call takes by position can be compared with the coins they should name. `xfer::select_coins` is not under `src/`; `SelectCoins` is its contract (any non-empty set of the token's coins that covers the amount). Each holder's validator is not under `src/` either; `AddTransactions` follows spec.md §8 (a spent input is rejected with no change) and appends the transfer's outputs in order.
- **Driver source.** The driver is not part of `src/`, so its actions are modelled from spec.md and marked `spec_modelled` in the map. The work each action invokes is the contract and host code.

## 3. Runs

| Run | Config | Expect | What it shows |
|---|---|---|---|
| dark_tree_iterators | `MCDarkTreeIterators.cfg` | pass | It checks every tree of up to 6 leaves (all shapes), with `iter`, `iter_mut` and `into_iter` used on it in turn (1,377 states):<br>• Each refines `PostOrderIterator` (`IterAbsSpec`, `IterMutAbsSpec`, `IntoIterAbsSpec`): post-order, root last, None forever after, and None eventually under WF.<br>• `UnwrapNeverPanics`: the unwrap at line 116 never panics.<br>• The type invariants bound each frame chain by height + 1. |
| dark_tree_iter_recursion | `DarkTreeIterRecursion.cfg` | violation | `NextIsIterative`: the first `next()` on a two-level tree nests 3 invocations. |
| merkle_add | `MerkleAdd.cfg` | pass | It checks sequences of calls in every section, with every handle pair, with and without decode errors, and with up to 2 coins per call and up to 3 leaves:<br>• `RootsComplete`: every prefix root is accepted.<br>• `LatestRootIsTip`: the pointer and the count prefix match the tree.<br>• `WritesAuthorized`: nothing is written outside the Update section or into another contract's namespace. |
| merkle_add_partial_failure | `MerkleAddPartialFailure.cfg` | violation | `ErrorsLeaveStoreUnchanged`: when an insert fails, `merkle_add` returns INTERNAL_ERROR with the new tree already written. |
| transaction_driver | `MCTransactionDriver.cfg` | pass | It checks up to 3 transactions of 1–2 calls, drawn from valid calls and from calls that fail each check, with phase 4 run per call, phase-4 inserts allowed to fail, and a gas budget that a two-call transaction after a committed one exhausts in phase 4 (about 70,200 states):<br>• `NoDoubleSpend`.<br>• `CommittedStateConsistent`: the tree, the coin set, the nullifier set and the roots agree.<br>• `LedgerSpec`: the driver refines `AtomicLedger`. Every committed transaction is a whole sequence of calls valid against the ledger (the grace period judged in mathematical integers, although the code subtracts in `u64`), and its appends fit the budget. A transaction whose append exhausted the gas after writing never commits. `merkle_add` charging less than the tree it writes back, or the contract dropping the grace check, makes the driver commit what `AtomicLedger` rejects. |
| transaction_driver_phased | `MCTransactionDriverPhased.cfg` | violation | `NoDoubleSpend`: when phase 3 runs for the whole tree first, a transaction `[spend n1, spend n1]` commits. |
| wallet_money_tree | `WalletMoneyTree.cfg` | pass | Up to 2 crashes or failed statements anywhere, tree versions up to 2, and a key generation (250 states). `RestartIdempotent`: whenever the wallet is up, it holds exactly one tree row and one last-scanned-slot row. |
| wallet_money_tree_crash | `WalletMoneyTreeCrash.cfg` | violation | `TreeNeverRegresses`: a crash between `put_money_tree`'s DELETE and INSERT, then a restart, replaces tree version 1 with a fresh tree (18 steps). |
| protocol_seed | `ProtocolSeed.cfg` | pass | Two external addresses, three seed addresses, `max` = 2, with pings failing or not and the channel stopping at any point advertising on and off (223 states):<br>• `AdvertiseAllOrNothing`: the node sends its addresses at most once, whole, before its single GetAddrs, and only if advertising is on and every self-ping succeeded.<br>• `StartReturns`: with no fairness assumed of the seed, `start()` always reaches its wait, and once the seed has answered or the channel has stopped, it returns. |
| dao_exec | `MCDaoExec.cfg` | pass | Three `dao_exec` calls at most, with proposals of one or two coins, one more than the DAO holds and one mixing tokens, and any executions at two holders (4,976 states):<br>• `XferBalanced`: every coin spent and minted is of the proposal token, and the exec call's input value is the sum of the outputs.<br>• `WalletMirrorsValidator`: each holder's tree equals its validator's, also when a transaction is repeated or spends coins the stale coin list still offers.<br>• `CallsInPostOrder`: the call vector is the post-order (`DarkTree!PostOrder`) of the tree its indexes describe, and the proofs and signatures at each index are those made for that call. |
| dao_exec_serials | `MCDaoExecSerials.cfg` | violation | `ExecSerialsMatch`: with a proposal of two coins, `dao_serial` is the second recipient's coin, not the DAO's change (3 steps). |
| wallet_money_queries | `WalletMoneyQueries.cfg` | pass | Two coin rows (values 1 and 3, two tokens, zero or DAO spend hook, spent or not), two aliases, `u64` scaled to modulus 4, overflow checks on (60,291 states):<br>• `BalanceIsSum`: `money_balance` panics or returns exactly the spendable sums.<br>• `AliasesByTokenInverse`: every token lists each of its aliases exactly once, in any HashMap order. |

Each property of each passing run has a mutant in `PROJECT.json`. A mutant is a plausible bug in the modelled code, such as a dropped check, a missing reset or a wrong argument, and TLC finds the property violated when it is applied.

### Findings

1. **The iterators recurse.** This diverges from the spec. `next()` recurses once per level (lib.rs 128, 193, 245, 262). spec.md §3.1 and §8 require traversal without call-stack recursion, so that a deep tree cannot exhaust the stack.
2. **`merkle_add` is not atomic on error.** This diverges from the spec. After the tree insert (line 259), a failing root insert (286) or latest-root insert (303) returns INTERNAL_ERROR with the tree already written. spec.md §4.2 promises no mutation on failure. Inside the driver this leads to a halt (phase 4), and the `transaction_driver` run shows nothing is committed.
3. **Phase scheduling is ambiguous.** This is a gap in the spec. The phase table of §4.4 says each phase completes for the whole tree before the next begins. Under that reading, the phase-3 nullifier check of `unstake_request_v1.rs:137` does not see a duplicate within the same transaction. The per-call interleaving the paragraph below the table describes is what makes the check sound. The passing run uses that interleaving.
4. **An interrupted `put_money_tree` loses the wallet's tree.** This is a bug in the code. `put_money_tree` is documented as "Replace the Money Merkle tree". It runs DELETE and INSERT as two separate statements, not in one SQL transaction. A crash between them, or the `exit(2)` of a failed INSERT (money.rs 331), leaves the table empty. The next `initialize_money` takes the empty table for a new wallet (lines 59-71) and stores a fresh tree, so the coin positions the wallet had scanned are lost.

5. **`dao_exec` takes the DAO's serial from the wrong coin.** This diverges from the code's own comment. The transfer's outputs are the proposal's coins followed by the DAO's change coin (dao_exec.rs 112-126), and `dao_serial` is `minted_coins[1]` (line 159). The comment of line 156 says the first output is change and the second the recipient. Either way, with two or more proposal coins `minted_coins[1]` is a recipient's coin, and the exec call commits to the wrong DAO serial.

Three further observations have no run of their own:

- **A transaction that passed phase 3 can halt the validator by running out of gas in phase 4.** `merkle_add` charges after its writes, and its cost grows with the stored tree. In `transaction_driver` a two-call transaction that follows a committed one exhausts a budget of 11 at its second append, and the validator halts, because spec.md §7 makes every phase-4 failure fatal. The ledger stays correct (`LedgerSpec`), but phase 3 gives no assurance that phase 4 fits the budget. Gas units here are abstract, one per leaf; how soon a real budget runs out depends on the serialized size of the real tree.

- **Out-of-range handles return a different error code.** An out-of-range handle index returns INTERNAL_ERROR (merkle.rs 108), where spec.md §4.2 says AccessDenied. Nothing is written either way, which `WritesAuthorized` and `ErrorsLeaveStoreUnchanged` cover.
- **`money_balance` wraps without overflow checks.** With `OverflowChecks = FALSE` in `WalletMoneyQueries.cfg`, TLC finds `BalanceIsSum` violated: two coins of one token whose values add past the modulus. A release build's `value += prev` (money.rs 138) reports a smaller balance than the coins the wallet holds. The run checks the build with overflow checks, where drk panics instead.

## 4. Bounds and why they are enough

- **Iterators: `MaxNodes = 6` for the pass run; the recursion run uses `MaxNodes = 4`.** Interleaving the three iterators would add nothing: Rust lets `iter_mut` start only after the shared borrow of `iter` ends, and `into_iter` consumes the tree.
  - This covers all 1 + 1 + 2 + 5 + 14 + 42 ordered tree shapes of up to 6 leaves, and depths up to 6.
  - Every distinction in `next()` appears at that size: an empty slice with and without a parent, a leaf versus a subtree, several siblings at several levels, and returning up several levels at once.
- **`merkle_add`:**
  - Two coins per call reach the multi-root loop.
  - Three leaves make a call that appends to a non-empty tree.
  - The gas limit of 14 lets gas run out partway through a sequence.
- **Driver: 3 transactions of up to 2 calls.**
  - This reaches a double spend within one transaction, a double spend across transactions, and a transaction aborted after a committed one.
  - It also reaches a phase-4 failure at every insert position.
  - A third valid call, spending n3 for coin c3, lets a two-call transaction follow a committed one. `GasLimit = 11` lets every one-call transaction and a two-call transaction on an empty tree commit (4 + 6 units), while the same transaction on a tree of one leaf needs 6 + 8 and runs out of gas at its second append.
  - The failing calls fail each check once. The grace-period check is exercised at its boundary: epoch 2 against a verifying epoch of 3 with `GRACE_PERIOD = 1`.

- **DAO::Exec: three coins (two of t1, one of t2), two holders, `MaxExecs = 3`.** Two t1 coins let `select_coins` choose one or both, and the t2 coin is what a missing token filter would pick. Two executions of DAO::Exec reuse the stale coin list, and the third call can reach the error or the panic after them. Two holders let one accept what the other rejects. Two proposal coins are the least that separate position 2 from the change coin.
- **Wallet tree: `MaxVersion = 2`, `MaxFaults = 2`.** The regression needs a stored version 1 that a second replacement deletes, so two versions are the least that reach it. Two faults let a crash follow a failed statement, and one interrupts a first initialization.
- **Seed: two external addresses.** With two, the first ping can succeed and the second fail, which is where a partial list would show. `max = 2` below three seed addresses makes the seed's answer a strict subset.
- **Wallet queries: two coins of values 1 and 3 under modulus 4.** Two coins of one token sum past the modulus. Two aliases on one token reach the `prev, alias` branch.
- **Epochs.** `EpochModulus = 8` stands for 2^64. The driver's inputs include a call naming epoch 4, later than the verifying epoch 3. Its burn proof fails, because no coin of that epoch is in a staked root, so it aborts in phase 2 before the subtraction.

## 5. Fairness

- **Iterators: weak fairness on each iterator's step.** The consumers in the code (`for` loops over `&tree`, `&mut tree`, `tree`) keep calling `next()` until None.
- **DAO::Exec: no fairness, deadlock checking off.** A test calls the harness as it likes and stops after `MaxExecs` builds or a failed `assert!`.
- **Driver: no fairness.** Its only property is safety (`LedgerSpec` is a `[][...]_vars` refinement), so the run assumes nothing about the validator's progress.
- **Seed protocol: `WF_vars(ProtocolStep)` only.** `start()` is a task on the executor and runs until it awaits. Nothing is assumed of the remote seed (`SeedReceive`) or of `StopChannel`: the seed may never answer and the channel may stay up forever. `StartReturns` is stated accordingly: the wait of line 123 ends once an answer or a stop has arrived. A silent seed on a live channel keeps `start()` waiting forever, because this file sets no timeout; that is the code's behaviour, stated here and not checked.
- **Wallet: no fairness.** Whether the user runs `drk` again is up to the user, and deadlock checking is off because the wallet idles once it is up.
- **No fairness on `ReceiveTx` or `merkle_add` calls.** Whether more transactions arrive, or a contract calls the host again, is up to the environment.
- **Deadlock checking.**
  - It is off in `MerkleAdd` because execution stops once gas is exhausted.
  - It is off in the driver because the validator stops after `MaxTxs` transactions or after a fatal halt.

## 6. What is not modelled, and the plan

- **Sandbox Executor** (WASM instantiation, metering middleware, section switching, determinism). It is not under `src/`. `MerkleAdd` takes the section and the gas as inputs. Of the executor, only the trap on exhausted gas and the discard of the trapped call's writes are modelled, in `TransactionDriver`.
- **`get_metadata`.** It builds the public inputs of proofs and changes no state. Proof verification is the `proofOk` input of a call.
- **`db_set` and `db_contains_key`.** Their host code is not under `src/`. They are modelled as direct overlay inserts and lookups, so they cannot fail in the model.
- **Gas outside `merkle_add`.** The driver's GasMeter is charged only what `merkle_add` charges. What phases 1–3 and the host functions outside `src/` cost is unknown from the sources, so OutOfGas in those phases is not modelled.
- **Numeric wraps.** The `u32` count prefix (merkle.rs 246) is beyond TLC's integers. The `u64` sums and differences are modelled modulo a small stand-in for 2^64.
- **Consensus metadata (`metadata.rs`).** This file holds data types, a `Default`, and wrappers around lead-proof creation and verification. It has no operation that changes state.
- **Cashier adapter (`adapter.rs`).** Each method delegates to `WalletDb` or `CashierClient`, and neither is in the sources. The only sequencing of its own is in `deposit` (keygen, store, read the public key, ask the cashier). What that returns depends on `WalletDb::get_public`, which is not here.
- **darkirc RPC (`rpc.rs`).** This is method dispatch and parameter checks. The `unwrap` on non-array `params` (lines 65, 89) panics on a single request, which a unit test reaches directly.
- **The `u64` sums of `dao_exec`** (lines 87, 148). A test's proposal values are small; the model sums in mathematical integers.
- **Transient read errors in the wallet.** `initialize_money` treats any error of its two reads (lines 64, 75) like a missing row. Whether a second row can then be inserted depends on `wallet.sql`, which is not in the sources.

Further work that remains:

1. **Call trees with parents in the driver.** A transaction given as a `DarkTree` of calls and flattened by `DarkTreeIter`, so that the driver's order comes from the checked iterator. For now, the DAO::Exec call vector is checked against the post-order in `DaoExec`.
2. **OutOfGas in phases 1–3.** This needs the gas cost of the host functions and of the contract code, which are not under `src/`.
