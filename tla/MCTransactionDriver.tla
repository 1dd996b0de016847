------------------------- MODULE MCTransactionDriver -------------------------
(***************************************************************************)
(* Model of TransactionDriver: two nullifiers, two output coins, one      *)
(* staked root; transactions of one or two calls.  A third valid call     *)
(* (n3, c3) lets a two-call transaction follow a committed one, where the *)
(* grown tree makes its second append exhaust a budget of 11.             *)
(***************************************************************************)
EXTENDS TransactionDriver

MCNullifiers == {"n1", "n2"}
MCCoins == {"c1", "c2"}

(* Calls that pass every check on a fresh store (epoch 1 is past the      *)
(* grace period at epoch 3), and one call failing each check.  A call     *)
(* naming a future epoch fails its burn proof: no coin of that epoch is in *)
(* a staked root.                                                          *)
ValidCalls ==
    { [nullifier |-> n, root |-> "r0", epoch |-> e, valueMatch |-> TRUE,
       coin |-> c, proofOk |-> TRUE] : n \in MCNullifiers, c \in MCCoins, e \in {0, 1} }
    \cup { [nullifier |-> "n3", root |-> "r0", epoch |-> 0, valueMatch |-> TRUE,
           coin |-> "c3", proofOk |-> TRUE] }

FailingCalls ==
    { [nullifier |-> "n1", root |-> "r0", epoch |-> 2, valueMatch |-> TRUE,
       coin |-> "c1", proofOk |-> TRUE],
      [nullifier |-> "n1", root |-> "r1", epoch |-> 0, valueMatch |-> TRUE,
       coin |-> "c1", proofOk |-> TRUE],
      [nullifier |-> "n1", root |-> "r0", epoch |-> 0, valueMatch |-> FALSE,
       coin |-> "c1", proofOk |-> TRUE],
      [nullifier |-> "n1", root |-> "r0", epoch |-> 0, valueMatch |-> TRUE,
       coin |-> "c1", proofOk |-> FALSE],
      [nullifier |-> "n2", root |-> "r0", epoch |-> 4, valueMatch |-> TRUE,
       coin |-> "c2", proofOk |-> FALSE] }

MCTxInputs ==
    { <<c>> : c \in ValidCalls \cup FailingCalls }
    \cup { <<a, b>> : a \in ValidCalls, b \in ValidCalls \cup FailingCalls }

(* The consensus contract's namespaces as deployment leaves them: the      *)
(* staked-coin roots hold r0, the unstaked-coin tree is stored empty.      *)
MCInitStore ==
    [ns \in {"nullifiers", "unstaked_coins", "staked_roots", "info", "unstaked_roots"} |->
        CASE ns = "staked_roots" -> ("r0" :> <<>>)
          [] ns = "info"         -> ("tree" :> [size |-> 0, leaves |-> <<>>])
          [] OTHER               -> <<>>]

=============================================================================
