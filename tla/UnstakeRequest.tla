---------------------------- MODULE UnstakeRequest ----------------------------
(***************************************************************************)
(* The Consensus::UnstakeRequestV1 contract call of                        *)
(* src/contract/consensus/src/entrypoint/unstake_request_v1.rs, as the     *)
(* transition functions the runtime drives: process_instruction validates *)
(* a call against the overlay and derives an update record, and           *)
(* process_update turns the record into writes: two db_set calls and one  *)
(* merkle_add (modelled by MerkleAdd).                                     *)
(*                                                                         *)
(* A call is abstracted to the fields the checks read: the input's        *)
(* nullifier, staking epoch and Merkle root, whether the input and output *)
(* value commitments are equal, the output coin, and whether its ZK       *)
(* proofs and signature verify.  The store is the same                    *)
(* namespace -> (key -> value) function as in MerkleAdd.                   *)
(***************************************************************************)
EXTENDS Naturals, Sequences, SequencesExt, TLC

CONSTANTS NullifiersNS,      \* CONSENSUS_CONTRACT_NULLIFIERS_TREE
          UnstakedCoinsNS,   \* CONSENSUS_CONTRACT_UNSTAKED_COINS_TREE
          StakedRootsNS,     \* CONSENSUS_CONTRACT_STAKED_COIN_ROOTS_TREE
          InfoNS,            \* CONSENSUS_CONTRACT_INFO_TREE
          UnstakedRootsNS,   \* CONSENSUS_CONTRACT_UNSTAKED_COIN_ROOTS_TREE
          TreeKey,           \* CONSENSUS_CONTRACT_UNSTAKED_COIN_MERKLE_TREE
          RootKey,           \* CONSENSUS_CONTRACT_UNSTAKED_COIN_LATEST_COIN_ROOT
          CurrentEpoch,      \* get_verifying_slot_epoch()
          GRACE_PERIOD,      \* model::GRACE_PERIOD
          EpochModulus,      \* 2^64, the range of the u64 epochs, scaled down
          OverflowChecks     \* whether the contract is built with overflow checks

ASSUME CurrentEpoch \in Nat /\ GRACE_PERIOD \in Nat
ASSUME CurrentEpoch < EpochModulus /\ OverflowChecks \in BOOLEAN

(* get_verifying_slot_epoch() - input.epoch in u64: a build with overflow *)
(* checks panics (a WASM trap, an error of the call) when the input epoch *)
(* is in the future; one without them wraps around.                        *)
EpochUnderflows(c) == OverflowChecks /\ c.epoch > CurrentEpoch
EpochsSince(c) == (CurrentEpoch - c.epoch) % EpochModulus
InGracePeriod(c) == c.epoch # 0 /\ EpochsSince(c) <= GRACE_PERIOD

(* The host function, instantiated over this contract's namespaces; only  *)
(* its store-transforming operators are used here.                         *)
LOCAL Host == INSTANCE MerkleAdd WITH
    Self <- "consensus", Other <- "other", RootsNS <- UnstakedRootsNS,
    ForeignNS <- "foreign", Coins <- {}, MaxLeaves <- 0, MaxCoins <- 0,
    GasLimit <- 0, InsertMayFail <- FALSE,
    overlay <- <<>>, gas <- 0, ret <- "SUCCESS", call <- <<>>

ApplyInserts(store, ws) == Host!ApplyInserts(store, ws)

Has(store, ns, key) == key \in DOMAIN store[ns]

Ok(update) == [ok |-> TRUE, err |-> "none", update |-> update]
Err(e) == [ok |-> FALSE, err |-> e, update |-> <<>>]

(* Mutant: the double-spend check against the nullifier set is missing.  *)
ProcessInstructionNoNullifierCheck(store, c) ==
    CASE c.epoch # 0 /\ EpochUnderflows(c)    -> Err("Trap")
      [] InGracePeriod(c)                      -> Err("CoinStillInGracePeriod")
      [] ~Has(store, StakedRootsNS, c.root)    -> Err("TransferMerkleRootNotFound")
      [] ~c.valueMatch                         -> Err("ValueMismatch")
      [] Has(store, UnstakedCoinsNS, c.coin)   -> Err("DuplicateCoin")
      [] OTHER -> Ok([nullifier |-> c.nullifier, coin |-> c.coin])

(* consensus_unstake_request_process_instruction_v1 (lines 101-163): the  *)
(* checks in the code's order, each an early return, then the update      *)
(* record ConsensusProposalUpdateV1 { nullifier, coin }.                  *)
ProcessInstruction(store, c) ==
    CASE c.epoch # 0 /\ EpochUnderflows(c)    -> Err("Trap")
      [] InGracePeriod(c)                      -> Err("CoinStillInGracePeriod")
      [] ~Has(store, StakedRootsNS, c.root)    -> Err("TransferMerkleRootNotFound")
      [] Has(store, NullifiersNS, c.nullifier) -> Err("DuplicateNullifier")
      [] ~c.valueMatch                         -> Err("ValueMismatch")
      [] Has(store, UnstakedCoinsNS, c.coin)   -> Err("DuplicateCoin")
      [] OTHER -> Ok([nullifier |-> c.nullifier, coin |-> c.coin])

(* Mutant: the coin is appended to the tree but not added to the         *)
(* unstaked-coin set.                                                      *)
ProcessUpdateNoCoinSet(store, u) ==
    << Host!Insert(NullifiersNS, u.nullifier, <<>>) >>
    \o Host!MerkleAddInserts(InfoNS, UnstakedRootsNS, store[InfoNS][TreeKey], << u.coin >>)

(* consensus_unstake_request_process_update_v1 (lines 166-193): the       *)
(* overlay inserts it makes, in order: the nullifier, the coin, then the  *)
(* inserts of merkle_add(info, unstaked roots, [coin]).  The tree is       *)
(* present: the contract's deployment stores it.                           *)
ProcessUpdate(store, u) ==
    << Host!Insert(NullifiersNS, u.nullifier, <<>>),
       Host!Insert(UnstakedCoinsNS, u.coin, <<>>) >>
    \o Host!MerkleAddInserts(InfoNS, UnstakedRootsNS, store[InfoNS][TreeKey], << u.coin >>)

(* The gas process_update is charged by merkle_add for its one coin: the  *)
(* payload length before the work (merkle.rs line 48) and the realized    *)
(* cost after the inserts (lines 320-321).  The db_set and db_lookup host *)
(* functions it calls are not under src/ and are not metered here.        *)
UpdateGas(store, u) ==
    (1 + 1) + Host!SpentGas(store[InfoNS][TreeKey], << u.coin >>)

SubtractGas(g, n) == Host!SubtractGas(g, n)

=============================================================================
