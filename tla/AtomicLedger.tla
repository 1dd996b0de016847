---------------------------- MODULE AtomicLedger ----------------------------
(***************************************************************************)
(* Abstract specification of what committing transactions of              *)
(* Consensus::UnstakeRequestV1 calls does to the ledger (spec.md sections *)
(* 1, 4.2, 4.4), stated over the ledger's meaning rather than its storage: *)
(* the set of spent nullifiers and the sequence of unstaked coins in the  *)
(* Merkle tree.  A transaction commits whole or not at all; its calls are *)
(* taken one after another, each judged against the ledger its            *)
(* predecessors left, and the metered cost of their appends must fit the  *)
(* transaction's gas budget.                                               *)
(*                                                                         *)
(* Nothing here is taken from the contract or host code: a call is valid  *)
(* when its proof holds, its coin was staked in an accepted root more      *)
(* than GRACE_PERIOD epochs ago (or at genesis), its nullifier is unspent *)
(* and its coin is new.                                                    *)
(***************************************************************************)
EXTENDS Naturals, Sequences, SequencesExt

CONSTANTS TxInputs,        \* the transactions (sequences of calls) submitted
          StakedRoots,     \* the accepted roots of staked coins
          CurrentEpoch,    \* the verifying epoch
          GRACE_PERIOD,    \* epochs a staked coin must wait
          GasLimit,        \* the gas budget of one transaction
          InitNullifiers,  \* the nullifiers spent before the first transaction
          InitCoins        \* the unstaked coins before the first transaction

VARIABLES nullifiers,      \* the spent nullifiers
          coins,           \* the unstaked coins, in the order of the tree
          log              \* the committed calls, in commit order

vars == <<nullifiers, coins, log>>

(* The cost merkle_add's comment (merkle.rs 313-317) names for appending  *)
(* one coin to a tree of n leaves: the payload, the tree read, the tree   *)
(* written and the new root, one unit per leaf.                            *)
AppendCost(n) == 2 + n + (n + 1) + 1

(* Whether call c may be applied to the ledger (ns, cs).                   *)
Valid(ns, cs, c) ==
    /\ c.proofOk
    /\ c.root \in StakedRoots
    /\ c.epoch = 0 \/ CurrentEpoch - c.epoch > GRACE_PERIOD
    /\ c.valueMatch
    /\ c.nullifier \notin ns
    /\ c.coin \notin ToSet(cs)

(* Calls i.. of tx taken in order from ledger (ns, cs) with g gas left:   *)
(* whether all are valid and their appends leave gas to run on, and the   *)
(* ledger they leave.                                                      *)
RECURSIVE Execute(_, _, _, _, _)
Execute(ns, cs, tx, i, g) ==
    IF i > Len(tx) THEN [ok |-> TRUE, nullifiers |-> ns, coins |-> cs]
    ELSE IF Valid(ns, cs, tx[i]) /\ g > AppendCost(Len(cs))
         THEN Execute(ns \cup {tx[i].nullifier}, Append(cs, tx[i].coin), tx, i + 1,
                      g - AppendCost(Len(cs)))
         ELSE [ok |-> FALSE, nullifiers |-> ns, coins |-> cs]

CommitTx ==
    \E tx \in TxInputs :
        LET r == Execute(nullifiers, coins, tx, 1, GasLimit) IN
        /\ r.ok
        /\ nullifiers' = r.nullifiers
        /\ coins' = r.coins
        /\ log' = log \o tx

Init == nullifiers = InitNullifiers /\ coins = InitCoins /\ log = <<>>

Spec == Init /\ [][CommitTx]_vars

=============================================================================
