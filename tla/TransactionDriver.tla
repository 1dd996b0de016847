-------------------------- MODULE TransactionDriver --------------------------
(***************************************************************************)
(* The Transition Protocol Driver (spec.md section 4.4) running           *)
(* transactions made of Consensus::UnstakeRequestV1 calls.  The validator *)
(* that drives the phases is not part of src/, so the driver's actions    *)
(* are modelled from the specification; the per-call work they invoke is  *)
(* the contract code of UnstakeRequest and the host function of MerkleAdd. *)
(*                                                                         *)
(* A transaction is the sequence of its calls in post-order (the order    *)
(* the CallTree traversal of DarkTreeIter yields).  Per call, the driver  *)
(* derives metadata and verifies proofs (phases 1-2, one step), validates *)
(* (phase 3, process_instruction) and applies the update (phase 4,        *)
(* process_update).  PerCallApply selects how phases 3 and 4 are          *)
(* scheduled: TRUE runs phase 4 of a call before phase 3 of the next one  *)
(* (section 4.4, "later calls may observe earlier calls' overlay          *)
(* writes"); FALSE runs phase 3 for the whole tree before any phase 4     *)
(* (the table of section 4.4, "each phase completes for the whole tree    *)
(* before the next begins").                                               *)
(***************************************************************************)
EXTENDS UnstakeRequest

CONSTANTS TxInputs,       \* the transactions that may be submitted
          InitStore,      \* the committed store before the first block
          MaxTxs,         \* bound on the transactions processed
          PerCallApply,   \* phase scheduling, see above
          InsertMayFail,  \* whether an overlay insert of phase 4 may fail
          GasLimit        \* the gas budget of one transaction

VARIABLES store,     \* the committed persistent store
          ovl,       \* the overlay of the transaction being processed
          tx,        \* the transaction being processed (<<>> when idle)
          phase,     \* "idle", "verify", "instruction", "update", "commit"
          idx,       \* index of the call the current phase is at
          updates,   \* update records phase 3 has returned, by call index
          halted,    \* TRUE once a phase-4 failure stopped the validator
          spent,     \* the committed calls, in commit order
          received,  \* number of transactions taken for processing
          gas        \* the transaction's GasMeter: its remaining budget

vars == <<store, ovl, tx, phase, idx, updates, halted, spent, received, gas>>

Init ==
    /\ store = InitStore
    /\ ovl = InitStore
    /\ tx = <<>>
    /\ phase = "idle"
    /\ idx = 0
    /\ updates = <<>>
    /\ halted = FALSE
    /\ spent = <<>>
    /\ received = 0
    /\ gas = GasLimit

(* Mutant: an abort forgets to clear the update records.                 *)
AbortKeepUpdates ==
    /\ phase' = "idle" /\ tx' = <<>> /\ idx' = 0
    /\ ovl' = store
    /\ UNCHANGED <<store, halted, spent, received, updates, gas>>

(* A failure in phases 1-3 aborts the transaction and discards the        *)
(* overlay.                                                                *)
Abort ==
    /\ phase' = "idle" /\ tx' = <<>> /\ idx' = 0 /\ updates' = <<>>
    /\ ovl' = store
    /\ UNCHANGED <<store, halted, spent, received, gas>>

(* The validator takes the next transaction; its overlay starts as the    *)
(* committed store and its GasMeter at the full budget.                    *)
ReceiveTx ==
    /\ phase = "idle" /\ ~halted /\ received < MaxTxs
    /\ \E t \in TxInputs : tx' = t
    /\ phase' = "verify" /\ idx' = 1 /\ updates' = <<>>
    /\ ovl' = store
    /\ received' = received + 1
    /\ gas' = GasLimit
    /\ UNCHANGED <<store, halted, spent>>

(* Phases 1-2 for call idx: metadata, ZK proofs and signatures.            *)
VerifyCall ==
    /\ phase = "verify"
    /\ IF ~tx[idx].proofOk THEN Abort
       ELSE /\ IF idx < Len(tx) THEN idx' = idx + 1 /\ UNCHANGED phase
                                ELSE idx' = 1 /\ phase' = "instruction"
            /\ UNCHANGED <<store, ovl, tx, updates, halted, spent, received, gas>>

(* Phase 3 for call idx: process_instruction against the overlay.         *)
ValidateCall ==
    /\ phase = "instruction"
    /\ LET r == ProcessInstruction(ovl, tx[idx]) IN
       IF ~r.ok THEN Abort
       ELSE /\ updates' = Append(updates, r.update)
            /\ CASE PerCallApply       -> phase' = "update" /\ UNCHANGED idx
                 [] idx < Len(tx)      -> idx' = idx + 1 /\ UNCHANGED phase
                 [] OTHER              -> idx' = 1 /\ phase' = "update"
            /\ UNCHANGED <<store, ovl, tx, halted, spent, received, gas>>

(* Phase 4 for call idx: process_update writes into the overlay; an       *)
(* insert that fails (at position failAt) is fatal to the validator.      *)
(* merkle_add charges the realized cost only after its inserts            *)
(* (merkle.rs:321); when that leaves no gas the instance traps at its     *)
(* next metered instruction: OutOfGas discards the call's writes (section *)
(* 4.2) and, in phase 4, halts the validator (section 7).                 *)
ApplyUpdate ==
    /\ phase = "update"
    /\ LET ws == ProcessUpdate(ovl, updates[idx])
           left == SubtractGas(gas, UpdateGas(ovl, updates[idx]))
       IN
       \E failAt \in IF InsertMayFail THEN 0..Len(ws) ELSE {0} :
          CASE failAt \in 1..Len(ws) ->
               /\ ovl' = ApplyInserts(ovl, SubSeq(ws, 1, failAt - 1))
               /\ halted' = TRUE
               /\ UNCHANGED <<store, tx, phase, idx, updates, spent, received, gas>>
            [] left = 0 ->
               /\ halted' = TRUE /\ gas' = 0
               /\ UNCHANGED <<store, ovl, tx, phase, idx, updates, spent, received>>
            [] OTHER ->
               /\ ovl' = ApplyInserts(ovl, ws)
               /\ gas' = left
               /\ CASE idx = Len(tx)  -> phase' = "commit" /\ UNCHANGED idx
                    [] PerCallApply   -> idx' = idx + 1 /\ phase' = "instruction"
                    [] OTHER          -> idx' = idx + 1 /\ UNCHANGED phase
               /\ UNCHANGED <<store, tx, updates, halted, spent, received>>

(* Every call passed every phase: the overlay is promoted.                 *)
CommitTx ==
    /\ phase = "commit"
    /\ store' = ovl
    /\ spent' = spent \o tx
    /\ phase' = "idle" /\ tx' = <<>> /\ idx' = 0 /\ updates' = <<>>
    /\ UNCHANGED <<ovl, halted, received, gas>>

(* The driver's steps on a transaction in progress; a halted validator     *)
(* takes none.                                                             *)
DriverStep == ~halted /\ (VerifyCall \/ ValidateCall \/ ApplyUpdate \/ CommitTx)

Next == ReceiveTx \/ DriverStep

Spec == Init /\ [][Next]_vars

-----------------------------------------------------------------------------
Phases == {"idle", "verify", "instruction", "update", "commit"}

TypeOK ==
    /\ tx \in TxInputs \cup {<<>>}
    /\ phase \in Phases
    /\ (phase = "idle") = (tx = <<>>)
    /\ idx \in 0..Len(tx)
    /\ updates \in Seq([nullifier : UNION {{c.nullifier : c \in ToSet(t)} : t \in TxInputs},
                        coin : UNION {{c.coin : c \in ToSet(t)} : t \in TxInputs}])
    /\ Len(updates) <= Len(tx)
    /\ halted \in BOOLEAN
    /\ received \in 0..MaxTxs
    /\ gas \in 0..GasLimit

(* The unstaked-coin state the contract keeps in its namespaces, as the   *)
(* committed store holds it.                                               *)
Committed == INSTANCE MerkleAdd WITH
    Self <- "consensus", Other <- "other", RootsNS <- UnstakedRootsNS,
    ForeignNS <- StakedRootsNS, Coins <- {}, MaxLeaves <- 0, MaxCoins <- 0,
    GasLimit <- 0, InsertMayFail <- FALSE,
    overlay <- store, gas <- 0, ret <- "SUCCESS", call <- <<>>

SpentNullifiers == [i \in DOMAIN spent |-> spent[i].nullifier]

(* Double-spend protection across and within transactions: no nullifier  *)
(* is spent by two committed calls.  process_instruction checks the       *)
(* nullifier set of the overlay (unstake_request_v1.rs:136-140), which     *)
(* holds the nullifiers of the calls before it only if their              *)
(* process_update already ran.                                             *)
NoDoubleSpend == IsInjective(SpentNullifiers)

(* The committed unstaked-coin state is consistent: every coin is in the  *)
(* Merkle tree exactly once and the tree holds only unstaked coins, every *)
(* nullifier spent is in the nullifier set, and the tree's roots and      *)
(* latest-root pointer are those merkle_add maintains.                    *)
CommittedStateConsistent ==
    LET leaves == store[InfoNS][TreeKey].leaves IN
    /\ IsInjective(leaves)
    /\ ToSet(leaves) = DOMAIN store[UnstakedCoinsNS]
    /\ ToSet(SpentNullifiers) = DOMAIN store[NullifiersNS]
    /\ Committed!RootsComplete
    /\ Committed!LatestRootIsTip

(* Refinement: the driver implements the unstake ledger of AtomicLedger, *)
(* read off the committed store: the nullifier namespace is the set of    *)
(* spent nullifiers, the stored tree's leaves are the unstaked coins, and *)
(* spent is the log of committed calls.  The store changes only by a      *)
(* whole transaction of valid calls whose appends fit the gas budget; one *)
(* aborted in phases 1-3, or whose phase 4 failed or ran out of gas after  *)
(* merkle_add's writes, leaves no trace.                                   *)
Ledger == INSTANCE AtomicLedger WITH
    StakedRoots <- DOMAIN InitStore[StakedRootsNS],
    InitNullifiers <- DOMAIN InitStore[NullifiersNS],
    InitCoins <- InitStore[InfoNS][TreeKey].leaves,
    nullifiers <- DOMAIN store[NullifiersNS],
    coins <- store[InfoNS][TreeKey].leaves,
    log <- spent
LedgerSpec == Ledger!Spec

=============================================================================
