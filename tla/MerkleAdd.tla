------------------------------ MODULE MerkleAdd ------------------------------
(***************************************************************************)
(* The merkle_add host function of src/runtime/import/merkle.rs: a        *)
(* contract running in the WASM runtime asks the host to append coins to  *)
(* the Merkle tree it keeps in its info namespace, to accept every root   *)
(* the tree passes through, and to move its latest-root pointer.           *)
(*                                                                         *)
(* The overlay is a function from namespace (sled tree) to a function     *)
(* from key to value.  The serialized tree is abstracted to a record of   *)
(* its element-count prefix and its sequence of leaves; the root of       *)
(* a tree is the sequence of its leaves (a collision-free hash).  The     *)
(* wire buffer is abstracted to the values it decodes to, plus whether    *)
(* decoding succeeds.  Each call of merkle_add is one step.                *)
(***************************************************************************)
EXTENDS Naturals, Sequences, SequencesExt, TLC

CONSTANTS Self,          \* contract id of the executing contract
          Other,         \* contract id of some other contract
          InfoNS,        \* Self's info namespace (tree, latest root)
          RootsNS,       \* Self's accepted-roots namespace
          ForeignNS,     \* a namespace owned by Other
          TreeKey,       \* key of the serialized tree in the info namespace
          RootKey,       \* key of the latest-root pointer
          Coins,         \* coin commitments (MerkleNode) that may be added
          MaxLeaves,     \* bound on the number of leaves a tree reaches
          MaxCoins,      \* bound on the coins one call adds
          GasLimit,      \* gas budget of the execution
          InsertMayFail  \* whether overlay.insert may return an error

Sections == {"Deploy", "Metadata", "Exec", "Update"}   \* ContractSection

SUCCESS == "SUCCESS"
CALLER_ACCESS_DENIED == "CALLER_ACCESS_DENIED"
INTERNAL_ERROR == "INTERNAL_ERROR"

(* env.db_handles: the handle table of the execution, indexed from 0 by   *)
(* the u32 DbHandle.  Self was given handles to its two namespaces, and   *)
(* one handle of Other's is also in the table.                            *)
DbHandles == << [contract_id |-> Self,  tree |-> InfoNS],
                [contract_id |-> Self,  tree |-> RootsNS],
                [contract_id |-> Other, tree |-> ForeignNS] >>

Handle(i) == DbHandles[i + 1]

(* The (db_info, db_roots) index pairs a caller passes: its own pair, one *)
(* naming a namespace it does not own, and out-of-range indexes.           *)
HandlePairs == {<<0, 1>>, <<2, 1>>, <<0, 2>>, <<3, 1>>, <<0, 3>>}

Root(leaves) == leaves

SerializedTree(leaves, size) == [size |-> size, leaves |-> leaves]

VARIABLES overlay,   \* namespace -> (key -> value): the staged store
          gas,       \* remaining gas of the execution
          ret,       \* return code of the last merkle_add call
          call       \* inputs of the last call (section, handles, coins)

vars == <<overlay, gas, ret, call>>

(* env.subtract_gas: saturating subtraction from the remaining points;    *)
(* at zero the WASM instance traps at its next metered instruction.       *)
SubtractGas(g, n) == IF n > g THEN 0 ELSE g - n

(* acl_allow(env, &[ContractSection::Update]) (lines 38-45).              *)
AclAllow(section) == section \in {"Update"}

(* Mutant: only the info handle's owner is compared with the caller.      *)
OwnsHandlesInfoOnly(pair) == Handle(pair[1]).contract_id = Self

(* The contract owns both namespaces it asks to write (lines 113-120).    *)
OwnsHandles(pair) ==
    /\ Handle(pair[1]).contract_id = Self
    /\ Handle(pair[2]).contract_id = Self

(* overlay.insert of each (namespace, key, value) of ws, in order.         *)
ApplyInserts(store, ws) ==
    LET RECURSIVE Apply(_, _)
        Apply(s, i) == IF i > Len(ws) THEN s
                       ELSE LET w == ws[i] IN
                            Apply([s EXCEPT ![w.ns] = (w.key :> w.value) @@ @], i + 1)
    IN Apply(store, 1)

Insert(ns, key, value) == [ns |-> ns, key |-> key, value |-> value]

(* Mutant: the count prefix is grown by the size of the whole tree.       *)
MerkleAddInsertsCountAll(info, roots, old, coins) ==
    LET leaves == old.leaves \o coins
        newRoots == [i \in 1..Len(coins) |-> Root(SubSeq(leaves, 1, Len(old.leaves) + i))]
    IN  << Insert(info, TreeKey, SerializedTree(leaves, old.size + Len(leaves))) >>
        \o [i \in 1..Len(newRoots) |-> Insert(roots, newRoots[i], <<>>)]
        \o (IF newRoots = <<>> THEN <<>> ELSE << Insert(info, RootKey, Last(newRoots)) >>)

(* Mutant: only the root after the last appended coin is accepted.        *)
MerkleAddInsertsFinalRootOnly(info, roots, old, coins) ==
    LET leaves == old.leaves \o coins
        newRoots == [i \in 1..Len(coins) |-> Root(SubSeq(leaves, 1, Len(old.leaves) + i))]
    IN  << Insert(info, TreeKey, SerializedTree(leaves, old.size + Len(newRoots))) >>
        \o (IF newRoots = <<>> THEN <<>>
            ELSE << Insert(roots, Last(newRoots), <<>>), Insert(info, RootKey, Last(newRoots)) >>)

(* Mutant: the latest-root pointer is set to the first new root.          *)
MerkleAddInsertsFirstRoot(info, roots, old, coins) ==
    LET leaves == old.leaves \o coins
        newRoots == [i \in 1..Len(coins) |-> Root(SubSeq(leaves, 1, Len(old.leaves) + i))]
    IN  << Insert(info, TreeKey, SerializedTree(leaves, old.size + Len(newRoots))) >>
        \o [i \in 1..Len(newRoots) |-> Insert(roots, newRoots[i], <<>>)]
        \o (IF newRoots = <<>> THEN <<>> ELSE << Insert(info, RootKey, Head(newRoots)) >>)

(* The inserts of lines 256-310, in order: the re-serialized tree with    *)
(* its count prefix grown by the number of new roots, every new root into *)
(* the roots namespace, then the latest-root pointer if there are new     *)
(* roots.                                                                  *)
MerkleAddInserts(info, roots, old, coins) ==
    LET leaves == old.leaves \o coins
        newRoots == [i \in 1..Len(coins) |-> Root(SubSeq(leaves, 1, Len(old.leaves) + i))]
    IN  << Insert(info, TreeKey,
                  SerializedTree(leaves, old.size + Len(newRoots))) >>
        \o [i \in 1..Len(newRoots) |-> Insert(roots, newRoots[i], <<>>)]
        \o (IF newRoots = <<>> THEN <<>> ELSE << Insert(info, RootKey, Last(newRoots)) >>)

(* Mutant: the realized cost leaves out the tree serialized back into    *)
(* the db (tree_data.len()).                                               *)
SpentGasNoWrittenTree(old, coins) == Len(old.leaves) + Len(coins)

(* Gas charged after the inserts (lines 312-321): the tree read, the tree *)
(* written and the new roots, in abstract units of one per leaf.          *)
SpentGas(old, coins) == Len(old.leaves) + Len(old.leaves \o coins) + Len(coins)

(* Lines 166-192: the serialized tree is read from the info namespace; a *)
(* missing entry is an INTERNAL_ERROR.                                     *)
TreeStored(ov, info) == TreeKey \in DOMAIN ov[info]

(* merkle_add (lines 34-324).  `decodes` tells whether the two handle     *)
(* indexes decode, `rest` whether the keys and coins decode and fill the  *)
(* buffer exactly; `failAt` is the position of the overlay.insert that    *)
(* fails, 0 if none does.                                                  *)
MerkleAddCall(section, pair, decodes, rest, coins, failAt) ==
    LET infoIdx == pair[1]
        rootsIdx == pair[2]
        len == 1 + Len(coins)
    IN
    /\ gas > 0
    /\ call' = [section |-> section, pair |-> pair, decodes |-> decodes, coins |-> coins]
    /\ IF ~AclAllow(section)
       THEN ret' = CALLER_ACCESS_DENIED /\ UNCHANGED <<overlay, gas>>
       ELSE
       LET charged == SubtractGas(gas, len) IN
       CASE ~decodes \/ infoIdx >= Len(DbHandles) \/ rootsIdx >= Len(DbHandles) ->
                 ret' = INTERNAL_ERROR /\ gas' = charged /\ UNCHANGED overlay
            [] ~OwnsHandles(pair) ->
                 ret' = CALLER_ACCESS_DENIED /\ gas' = charged /\ UNCHANGED overlay
            [] ~rest \/ ~TreeStored(overlay, Handle(infoIdx).tree) ->
                 ret' = INTERNAL_ERROR /\ gas' = charged /\ UNCHANGED overlay
            [] OTHER ->
                 LET info == Handle(infoIdx).tree
                     old == overlay[info][TreeKey]
                     ws == MerkleAddInserts(info, Handle(rootsIdx).tree, old, coins)
                 IN IF failAt \in 1..Len(ws)
                    THEN /\ overlay' = ApplyInserts(overlay, SubSeq(ws, 1, failAt - 1))
                         /\ ret' = INTERNAL_ERROR
                         /\ gas' = charged
                    ELSE /\ overlay' = ApplyInserts(overlay, ws)
                         /\ ret' = SUCCESS
                         /\ gas' = SubtractGas(charged, SpentGas(old, coins))

-----------------------------------------------------------------------------
(* A contract's info namespace before its first merkle_add: deployment    *)
(* either stored an empty tree with count 0, or did not store one.         *)
Init ==
    /\ overlay \in { [ns \in {InfoNS, RootsNS, ForeignNS} |->
                        IF ns = RootsNS THEN <<>>
                        ELSE IF ns = ForeignNS \/ stored
                             THEN TreeKey :> SerializedTree(<<>>, 0)
                             ELSE <<>>] : stored \in BOOLEAN }
    /\ gas = GasLimit
    /\ ret = SUCCESS
    /\ call = [section |-> "Update", pair |-> <<0, 1>>, decodes |-> TRUE, coins |-> <<>>]

Next ==
    \E section \in Sections, pair \in HandlePairs, decodes, rest \in BOOLEAN,
       coins \in BoundedSeq(Coins, MaxCoins) :
    \E failAt \in IF InsertMayFail THEN 0..(Len(coins) + 2) ELSE {0} :
        /\ TreeKey \in DOMAIN overlay[InfoNS] =>
              Len(overlay[InfoNS][TreeKey].leaves) + Len(coins) <= MaxLeaves
        /\ MerkleAddCall(section, pair, decodes, rest, coins, failAt)

Spec == Init /\ [][Next]_vars

-----------------------------------------------------------------------------
Namespaces == {InfoNS, RootsNS, ForeignNS}
Leaves == BoundedSeq(Coins, MaxLeaves)
Returns == {SUCCESS, CALLER_ACCESS_DENIED, INTERNAL_ERROR}

TypeOK ==
    /\ DOMAIN overlay = Namespaces
    /\ DOMAIN overlay[InfoNS] \subseteq {TreeKey, RootKey}
    /\ TreeKey \in DOMAIN overlay[InfoNS] =>
          overlay[InfoNS][TreeKey] \in [size : 0..MaxLeaves, leaves : Leaves]
    /\ RootKey \in DOMAIN overlay[InfoNS] => overlay[InfoNS][RootKey] \in Leaves
    /\ DOMAIN overlay[RootsNS] \subseteq Leaves
    /\ gas \in 0..GasLimit
    /\ ret \in Returns

StoredLeaves ==
    IF TreeKey \in DOMAIN overlay[InfoNS] THEN overlay[InfoNS][TreeKey].leaves ELSE <<>>

(* Every root the tree has passed through, not only the last one of each  *)
(* call, is in the accepted-roots namespace, so a proof against any       *)
(* historical root verifies (lines 229-242, 267-293).                      *)
RootsComplete ==
    \A i \in 1..Len(StoredLeaves) : Root(SubSeq(StoredLeaves, 1, i)) \in DOMAIN overlay[RootsNS]

(* The latest-root pointer names the root of the stored tree, and the     *)
(* count prefix equals the number of leaves (lines 244-254, 295-310).      *)
LatestRootIsTip ==
    /\ StoredLeaves # <<>> =>
          /\ RootKey \in DOMAIN overlay[InfoNS]
          /\ overlay[InfoNS][RootKey] = Root(StoredLeaves)
    /\ TreeKey \in DOMAIN overlay[InfoNS] =>
          overlay[InfoNS][TreeKey].size = Len(StoredLeaves)

(* Access control: the store changes only in a call made in the Update    *)
(* section, and a namespace of another contract never changes (the ACL    *)
(* of lines 38-45 and the ownership check of lines 113-120).               *)
WritesAuthorized ==
    [][ /\ overlay' # overlay => call'.section = "Update"
        /\ overlay'[ForeignNS] = overlay[ForeignNS] ]_vars

(* A merkle_add call that does not return SUCCESS leaves the store        *)
(* unchanged (specification, section 4.2, step 6).                         *)
ErrorsLeaveStoreUnchanged ==
    [][ ret' # SUCCESS => overlay' = overlay ]_vars

=============================================================================
