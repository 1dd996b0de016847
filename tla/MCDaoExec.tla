----------------------------- MODULE MCDaoExec -----------------------------
(***************************************************************************)
(* Model of DaoExec: a DAO holding two coins of t1 and one of t2; the      *)
(* proposals a test may execute pay one or two t1 coins, pay more than the *)
(* DAO holds, or mix tokens (which the assert! of line 86 rejects).        *)
(***************************************************************************)
EXTENDS DaoExec

MCDaoCoins ==
    { [id |-> 1, value |-> 2, token |-> "t1"],
      [id |-> 2, value |-> 1, token |-> "t1"],
      [id |-> 3, value |-> 2, token |-> "t2"] }

Attr(v, t) == [value |-> v, token |-> t]

MCProposals ==
    { << Attr(1, "t1") >>,
      << Attr(1, "t1"), Attr(1, "t1") >>,
      << Attr(5, "t1") >>,
      << Attr(1, "t1"), Attr(1, "t2") >> }

=============================================================================
