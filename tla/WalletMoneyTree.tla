--------------------------- MODULE WalletMoneyTree ---------------------------
(***************************************************************************)
(* The Money tables of the drk2 wallet (bin/drk2/src/money.rs) across     *)
(* crashes and restarts: initialize_money, put_money_tree and              *)
(* money_keygen over the SQLite tables that survive the process.           *)
(*                                                                         *)
(* Every SQL statement is one step and is atomic (SQLite); the process    *)
(* can be killed between any two of them, and a statement that fails     *)
(* ends the process with exit(2).  A Merkle tree is abstracted to a       *)
(* version number: 0 is the fresh tree initialize_money builds (one ZERO  *)
(* leaf, marked), and version v + 1 is the tree after a scan appended     *)
(* coins to version v.                                                     *)
(***************************************************************************)
EXTENDS Naturals, FiniteSets, FiniteSetsExt

CONSTANTS MaxVersion,   \* bound on the tree versions a wallet scans to
          MaxKeys,      \* bound on the keypairs generated
          MaxFaults,    \* bound on crashes and failed statements
          SqlMayFail    \* whether an SQL statement may return an error

VARIABLES pc,       \* where the process is; "down" when not running
          rows,     \* MONEY_TREE_TABLE: the set of stored tree versions
          slotRows, \* rows of MONEY_INFO_TABLE (last scanned slot)
          keys,     \* rows of MONEY_KEYS_TABLE
          arg,      \* the tree put_money_tree is writing
          ret,      \* where put_money_tree returns to
          newest,   \* the newest tree version ever stored (history)
          faults    \* crashes and failed statements so far

vars == <<pc, rows, slotRows, keys, arg, ret, newest, faults>>

FreshTree == 0   \* MerkleTree::new(100) with ZERO appended and marked

(* A new wallet file: the tables do not exist yet, nothing is running.    *)
Init ==
    /\ pc = "down"
    /\ rows = {} /\ slotRows = 0 /\ keys = 0
    /\ arg = FreshTree /\ ret = "ready"
    /\ newest = FreshTree
    /\ faults = 0

(* A statement returned an error: eprintln and exit(2).                    *)
Exit ==
    /\ SqlMayFail /\ faults < MaxFaults
    /\ pc' = "down" /\ faults' = faults + 1
    /\ UNCHANGED <<rows, slotRows, keys, arg, ret, newest>>

(* The process is killed between two statements.                           *)
Crash ==
    /\ pc # "down" /\ faults < MaxFaults
    /\ pc' = "down" /\ faults' = faults + 1
    /\ UNCHANGED <<rows, slotRows, keys, arg, ret, newest>>

(* The user runs drk again; it starts with initialize_money.               *)
Start ==
    /\ pc = "down"
    /\ pc' = "schema"
    /\ UNCHANGED <<rows, slotRows, keys, arg, ret, newest, faults>>

(* exec_batch_sql(wallet.sql) (lines 52-57); the schema creates missing   *)
(* tables only.                                                            *)
InitSchema ==
    /\ pc = "schema"
    /\ \/ pc' = "tree_check" /\ UNCHANGED faults
       \/ Exit
    /\ UNCHANGED <<rows, slotRows, keys, arg, ret, newest>>

(* query_single on the tree table (lines 59-71): no row means a new       *)
(* wallet, so a fresh tree is built and put.                               *)
TreeCheck ==
    /\ pc = "tree_check"
    /\ IF rows = {}
       THEN pc' = "put_delete" /\ arg' = FreshTree /\ ret' = "slot_check"
       ELSE pc' = "slot_check" /\ UNCHANGED <<arg, ret>>
    /\ UNCHANGED <<rows, slotRows, keys, newest, faults>>

(* Mutant: put_money_tree appends without removing the old record.      *)
PutDeleteNoDelete ==
    /\ pc = "put_delete"
    /\ \/ pc' = "put_insert" /\ UNCHANGED <<rows, faults>>
       \/ Exit
    /\ UNCHANGED <<slotRows, keys, arg, ret, newest>>

(* put_money_tree, first statement: DELETE FROM the tree table            *)
(* (lines 320-325).                                                        *)
PutDelete ==
    /\ pc = "put_delete"
    /\ \/ pc' = "put_insert" /\ rows' = {} /\ UNCHANGED faults
       \/ Exit
    /\ UNCHANGED <<slotRows, keys, arg, ret, newest>>

(* put_money_tree, second statement: INSERT the tree (lines 327-335).     *)
PutInsert ==
    /\ pc = "put_insert"
    /\ \/ /\ rows' = rows \cup {arg}
          /\ newest' = Max({newest, arg})
          /\ pc' = ret /\ UNCHANGED faults
       \/ Exit /\ UNCHANGED <<rows, newest>>
    /\ UNCHANGED <<slotRows, keys, arg, ret>>

(* Mutant: slot 0 is inserted without asking last_scanned_slot first.  *)
SlotCheckAlwaysInsert ==
    /\ pc = "slot_check"
    /\ \/ slotRows' = slotRows + 1 /\ pc' = "ready" /\ UNCHANGED faults
       \/ Exit /\ UNCHANGED slotRows
    /\ UNCHANGED <<rows, keys, arg, ret, newest>>

(* last_scanned_slot() (lines 338-352) reads the info table's row; it     *)
(* fails when there is none.                                               *)
LastScannedSlotOk == slotRows > 0

(* Lines 73-84: when last_scanned_slot() fails, slot 0 is inserted.       *)
SlotCheck ==
    /\ pc = "slot_check"
    /\ IF ~LastScannedSlotOk
       THEN \/ slotRows' = 1 /\ pc' = "ready" /\ UNCHANGED faults
            \/ Exit /\ UNCHANGED slotRows
       ELSE pc' = "ready" /\ UNCHANGED <<slotRows, faults>>
    /\ UNCHANGED <<rows, keys, arg, ret, newest>>

(* A scan hands put_money_tree the loaded tree with new coins appended.   *)
ReplaceTree ==
    /\ pc = "ready"
    /\ \E v \in rows : v < MaxVersion /\ arg' = v + 1
    /\ pc' = "put_delete" /\ ret' = "ready"
    /\ UNCHANGED <<rows, slotRows, keys, newest, faults>>

(* money_keygen (lines 90-124): one INSERT into the keys table.            *)
MoneyKeygen ==
    /\ pc = "ready" /\ keys < MaxKeys
    /\ \/ keys' = keys + 1 /\ UNCHANGED <<pc, faults>>
       \/ Exit /\ UNCHANGED keys
    /\ UNCHANGED <<rows, slotRows, arg, ret, newest>>

Next ==
    \/ Start \/ InitSchema \/ TreeCheck \/ PutDelete \/ PutInsert \/ SlotCheck
    \/ ReplaceTree \/ MoneyKeygen \/ Crash

Spec == Init /\ [][Next]_vars

-----------------------------------------------------------------------------
PCs == {"down", "schema", "tree_check", "put_delete", "put_insert",
        "slot_check", "ready"}

TypeOK ==
    /\ pc \in PCs
    /\ rows \subseteq 0..MaxVersion
    /\ slotRows \in 0..1 /\ keys \in 0..MaxKeys
    /\ arg \in 0..MaxVersion /\ ret \in {"slot_check", "ready"}
    /\ newest \in 0..MaxVersion /\ faults \in 0..MaxFaults

(* Whatever crashes and failed statements came before, a wallet that      *)
(* initialize_money has brought up holds exactly one Merkle tree (the row *)
(* query_single and put_money_tree assume) and exactly one last-scanned-  *)
(* slot row: re-running initialization never duplicates either.           *)
RestartIdempotent ==
    pc = "ready" => Cardinality(rows) = 1 /\ slotRows = 1

(* put_money_tree "replaces" the tree: the stored tree is never older     *)
(* than the newest one the wallet ever stored, so the coins a scan added  *)
(* are not forgotten.                                                      *)
TreeNeverRegresses == \A r \in rows : r = newest

=============================================================================
