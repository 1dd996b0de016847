------------------------------ MODULE DarkTree ------------------------------
(***************************************************************************)
(* The DarkTree value of script/research/dark-forest/src/lib.rs: a tree    *)
(* is a record holding its root DarkLeaf and the ordered sequence of its   *)
(* child subtrees.  The data a leaf holds is abstracted to a label; every  *)
(* leaf of a tree gets a distinct label, numbered in pre-order so that the *)
(* post-order the iterators must produce differs from label order.         *)
(*                                                                         *)
(* This module only defines values: the set of trees the iterators are    *)
(* checked over, and the reference post-order they are compared with.     *)
(***************************************************************************)
EXTENDS Naturals, Sequences, SequencesExt

CONSTANT MaxNodes      \* largest tree (number of leaves) that is checked

ASSUME MaxNodes \in Nat \ {0}

Labels == 1..MaxNodes

(* DarkTree::new(data, children): a tree node owning its children.        *)
DarkTreeNew(data, children) == [leaf |-> data, children |-> children]

(* Unlabelled ordered trees with exactly n leaves, and forests (ordered   *)
(* sequences of trees) with exactly n leaves in total.                     *)
RECURSIVE Shapes(_), Forests(_)
Shapes(n) == { DarkTreeNew(0, f) : f \in Forests(n - 1) }
Forests(n) ==
    IF n = 0 THEN { <<>> }
    ELSE UNION { { <<t>> \o f : t \in Shapes(k), f \in Forests(n - k) } : k \in 1..n }

(* Reference definition of DFS post-order: every child subtree, left to   *)
(* right, then the node itself.                                            *)
RECURSIVE PostOrder(_)
PostOrder(t) ==
    FlattenSeq([i \in DOMAIN t.children |-> PostOrder(t.children[i])]) \o << t.leaf >>

Size(t) == Len(PostOrder(t))

(* Number leaves in pre-order starting at `next`: the node first, then    *)
(* each child subtree in order.                                            *)
RECURSIVE LabelTree(_, _), LabelForest(_, _)
LabelTree(t, next) == DarkTreeNew(next, LabelForest(t.children, next + 1))
LabelForest(f, next) ==
    IF f = <<>> THEN <<>>
    ELSE << LabelTree(Head(f), next) >> \o LabelForest(Tail(f), next + Size(Head(f)))

(* Every tree with 1..MaxNodes leaves, as a caller of DarkTree::new can   *)
(* build it.                                                               *)
Trees == UNION { { LabelTree(s, 1) : s \in Shapes(n) } : n \in 1..MaxNodes }

(* Number of leaves on the longest root-to-leaf path.                      *)
RECURSIVE Height(_)
Height(t) ==
    1 + (IF t.children = <<>> THEN 0
         ELSE Max({ Height(t.children[i]) : i \in DOMAIN t.children }))

(* A tree and all the subtrees below it.                                   *)
RECURSIVE Subtrees(_)
Subtrees(t) == {t} \cup UNION { Subtrees(t.children[i]) : i \in DOMAIN t.children }

=============================================================================
