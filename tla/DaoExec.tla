------------------------------ MODULE DaoExec ------------------------------
(***************************************************************************)
(* The DAO::Exec flow of the contract test harness                         *)
(* (src/contract/test-harness/src/dao_exec.rs): dao_exec builds a         *)
(* transaction whose call tree is exec -> {auth_xfer, xfer}, paying the   *)
(* proposal's coins out of the DAO wallet's coins and returning the        *)
(* change to the DAO; execute_dao_exec_tx hands it to a holder's           *)
(* validator and, once accepted, appends the transfer's output coins to   *)
(* that holder's Money Merkle tree.                                        *)
(*                                                                         *)
(* Proofs, blinds, keys and encodings are abstracted away: a coin is its  *)
(* id, value and token, and a Merkle tree is the sequence of its leaves.   *)
(* xfer::select_coins and the validator are not part of src/; they are    *)
(* modelled by their contracts (see SelectCoins and AddTransactions).     *)
(***************************************************************************)
EXTENDS Naturals, FiniteSets, SequencesExt, FiniteSetsExt

CONSTANTS Holders,     \* the harness's holders, each with wallet and validator
          Tokens,      \* token ids
          DaoCoins,    \* the DAO wallet's unspent_money_coins: [id, value, token]
          Proposals,   \* the proposal_coinattrs a test passes: Seq([value, token])
          MaxExecs     \* bound on the dao_exec calls

VARIABLES tree,        \* holder -> its wallet's money_merkle_tree (leaf ids)
          chain,       \* holder -> the coin tree its validator keeps
          nullifiers,  \* holder -> the inputs its validator has seen spent
          built,       \* the transactions dao_exec returned
          builds,      \* dao_exec calls so far
          panicked     \* an assert! of dao_exec failed

vars == <<tree, chain, nullifiers, built, builds, panicked>>

(* Every holder's wallet and validator start from the same genesis tree,  *)
(* which holds the DAO's coins.                                            *)
Genesis == SetToSeq({c.id : c \in DaoCoins})

Init ==
    /\ tree = [h \in Holders |-> Genesis]
    /\ chain = [h \in Holders |-> Genesis]
    /\ nullifiers = [h \in Holders |-> {}]
    /\ built = {}
    /\ builds = 0
    /\ panicked = FALSE

None == 0   \* parent_index: None

(* DarkLeaf { data, parent_index, children_indexes }.                     *)
Leaf(data, parent, children) == [data |-> data, parent |-> parent, children |-> children]

Total(coins) == MapThenSumSet(LAMBDA c : c.value, coins)
Amount(p) == FoldLeft(LAMBDA acc, a : acc + a.value, 0, p)

(* Mutant: the DAO's coins are not filtered by the proposal's token.      *)
TokenCoinsUnfiltered(tok) == DaoCoins

(* Lines 89-94: the DAO's unspent coins of the proposal token.             *)
TokenCoins(tok) == {c \in DaoCoins : c.token = tok}

(* xfer::select_coins (line 95) by its contract: coins whose values cover *)
(* the amount; the change is their surplus.  None exist: an error.        *)
SelectCoins(coins, amount) == {s \in SUBSET coins : s # {} /\ Total(s) >= amount}

(* Lines 112-126: the proposal's coins, then the DAO's change coin; the   *)
(* ids of build n are 10 * n + position.                                   *)
Outputs(n, p, change) ==
    [i \in 1..Len(p) |-> [id |-> 10 * n + i, owner |-> "user",
                          value |-> p[i].value, token |-> p[i].token]]
    \o << [id |-> 10 * n + Len(p) + 1, owner |-> "dao",
           value |-> change, token |-> p[1].token] >>

(* Mutant: the exec call is placed first, before the calls it            *)
(* orchestrates.                                                           *)
DaoExecCallsParentFirst ==
    << Leaf("exec", None, <<2, 3>>), Leaf("auth_xfer", 1, <<>>), Leaf("xfer", 1, <<>>) >>

(* Lines 200-224: the transaction's calls as DarkLeafs, auth_xfer and      *)
(* xfer with parent exec, which lists them as its children (indexes are    *)
(* 1-based here).                                                          *)
DaoExecCalls ==
    << Leaf("auth_xfer", 3, <<>>), Leaf("xfer", 3, <<>>), Leaf("exec", None, <<1, 2>>) >>

(* Lines 222, 225-228: the proofs and the signatures, one per call, each *)
(* made for the call named here; auth_xfer carries no signature.          *)
TxProofs == << "auth_xfer", "xfer", "exec" >>
TxSignatures == << {}, {"xfer"}, {"exec"} >>

(* Mutant: the change is computed the wrong way round.                    *)
MakeTxSwappedChange(n, p, spentCoins) ==
    LET outs == Outputs(n, p, Amount(p) - Total(spentCoins)) IN
    [token |-> p[1].token, inputs |-> spentCoins, outputs |-> outs,
     inputValue |-> Total(spentCoins),
     userSerial |-> outs[1].id, daoSerial |-> outs[2].id,
     calls |-> DaoExecCalls, proofs |-> TxProofs, signatures |-> TxSignatures]

(* Lines 145-150, 156-159: the exec call's input value, and the serials   *)
(* of minted_coins[0] (user_serial) and minted_coins[1] (dao_serial).      *)
MakeTx(n, p, spentCoins) ==
    LET outs == Outputs(n, p, Total(spentCoins) - Amount(p)) IN
    [token |-> p[1].token, inputs |-> spentCoins, outputs |-> outs,
     inputValue |-> Total(spentCoins),
     userSerial |-> outs[1].id, daoSerial |-> outs[2].id,
     calls |-> DaoExecCalls, proofs |-> TxProofs, signatures |-> TxSignatures]

(* dao_exec, lines 49-240.  The assert!s of lines 84 and 86 panic on an    *)
(* empty or mixed-token proposal; select_coins fails when the DAO lacks   *)
(* funds, and dao_exec returns its error.                                   *)
DaoExecCall ==
    /\ ~panicked /\ builds < MaxExecs
    /\ builds' = builds + 1
    /\ \E p \in Proposals :
         IF p = <<>> \/ \E i \in DOMAIN p : p[i].token # p[1].token
         THEN panicked' = TRUE /\ UNCHANGED built
         ELSE LET choices == SelectCoins(TokenCoins(p[1].token), Amount(p)) IN
              \/ choices = {} /\ UNCHANGED <<built, panicked>>
              \/ \E s \in choices :
                    /\ built' = built \cup {MakeTx(builds + 1, p, s)}
                    /\ UNCHANGED panicked
    /\ UNCHANGED <<tree, chain, nullifiers>>

(* The validator's add_transactions, by the specification: a transaction  *)
(* spending an input it has seen spent fails and changes nothing;         *)
(* otherwise its inputs are spent and the xfer outputs appended in order.  *)
Accepts(h, t) == {c.id : c \in t.inputs} \cap nullifiers[h] = {}

AddTransactions(h, t) ==
    /\ nullifiers' = [nullifiers EXCEPT ![h] = @ \cup {c.id : c \in t.inputs}]
    /\ chain' = [chain EXCEPT ![h] = @ \o [i \in DOMAIN t.outputs |-> t.outputs[i].id]]

(* Mutant: the outputs are appended to the wallet's tree before the       *)
(* validator's result is checked.                                          *)
ExecuteAppendFirst(h, t) ==
    /\ tree' = [tree EXCEPT ![h] = @ \o [i \in DOMAIN t.outputs |-> t.outputs[i].id]]
    /\ IF Accepts(h, t) THEN AddTransactions(h, t) ELSE UNCHANGED <<chain, nullifiers>>

(* execute_dao_exec_tx, lines 242-263: add_transactions(...).await? returns *)
(* early on an error; then the outputs are appended to the holder's tree. *)
ExecuteDaoExecTx(h, t) ==
    IF Accepts(h, t)
    THEN /\ AddTransactions(h, t)
         /\ tree' = [tree EXCEPT ![h] = @ \o [i \in DOMAIN t.outputs |-> t.outputs[i].id]]
    ELSE UNCHANGED <<tree, chain, nullifiers>>

Execute ==
    /\ ~panicked
    /\ \E h \in Holders, t \in built : ExecuteDaoExecTx(h, t)
    /\ UNCHANGED <<built, builds, panicked>>

Next == DaoExecCall \/ Execute

Spec == Init /\ [][Next]_vars

-----------------------------------------------------------------------------
LeafId == Nat

TypeOK ==
    /\ tree \in [Holders -> Seq(LeafId)] /\ chain \in [Holders -> Seq(LeafId)]
    /\ nullifiers \in [Holders -> SUBSET {c.id : c \in DaoCoins}]
    /\ \A t \in built :
          /\ t.inputs \subseteq DaoCoins
          /\ t.outputs \in Seq([id : LeafId, owner : {"user", "dao"}, value : Nat, token : Tokens])
    /\ builds \in 0..MaxExecs /\ panicked \in BOOLEAN

(* The transfer dao_exec builds moves one token only and creates no value: *)
(* every coin it spends and every coin it mints is of the proposal's       *)
(* token, and the input value the exec call commits to (lines 145-150)     *)
(* is the sum of the outputs, proposal coins and DAO change together.       *)
XferBalanced ==
    \A t \in built :
        /\ \A c \in t.inputs : c.token = t.token
        /\ \A i \in DOMAIN t.outputs : t.outputs[i].token = t.token
        /\ t.inputValue = FoldLeft(LAMBDA acc, o : acc + o.value, 0, t.outputs)

Tree == INSTANCE DarkTree WITH MaxNodes <- 3

(* The DarkTree the calls' indexes describe, rooted at call i.             *)
RECURSIVE CallTree(_, _)
CallTree(calls, i) ==
    Tree!DarkTreeNew(i, [k \in DOMAIN calls[i].children |-> CallTree(calls, calls[i].children[k])])

(* The calls of a DAO::Exec transaction, in the order the driver runs     *)
(* them, are the DFS post-order of the call tree their indexes describe   *)
(* (spec section 4.4: auth_xfer and xfer complete before exec observes     *)
(* them), every call's parent_index names a call that lists it among its  *)
(* children, and the proofs and signatures at a call's index are the ones *)
(* made for that call (the three vectors are written by hand, apart).     *)
CallsInPostOrder ==
    \A t \in built :
        LET c == t.calls
            root == CHOOSE i \in DOMAIN c : c[i].parent = None
        IN /\ Tree!PostOrder(CallTree(c, root)) = [i \in DOMAIN c |-> i]
           /\ \A i \in DOMAIN c : c[i].parent # None => i \in ToSet(c[c[i].parent].children)
           /\ DOMAIN t.proofs = DOMAIN c /\ DOMAIN t.signatures = DOMAIN c
           /\ \A i \in DOMAIN c : t.proofs[i] = c[i].data /\ t.signatures[i] \subseteq {c[i].data}

(* Each holder's wallet tree stays the tree its validator keeps, whatever  *)
(* transactions were executed, repeated, or rejected for spending coins    *)
(* already spent (the DAO wallet's coin list is never updated here): the   *)
(* outputs are appended only after add_transactions succeeded.             *)
WalletMirrorsValidator == \A h \in Holders : tree[h] = chain[h]

(* The exec call's serials name the right coins: user_serial is a coin    *)
(* paid to the proposal's recipient and dao_serial the DAO's change coin,   *)
(* as the comment of line 156 intends.                                     *)
ExecSerialsMatch ==
    \A t \in built :
        \A i \in DOMAIN t.outputs :
            /\ t.outputs[i].id = t.userSerial => t.outputs[i].owner = "user"
            /\ t.outputs[i].id = t.daoSerial => t.outputs[i].owner = "dao"

=============================================================================
