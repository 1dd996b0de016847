-------------------------- MODULE DarkTreeIterMut --------------------------
(***************************************************************************)
(* DarkTreeIterMut, the mutable DFS post-order iterator of                 *)
(* script/research/dark-forest/src/lib.rs (lines 81-85, 150-197).           *)
(*                                                                         *)
(* Each frame holds the slice of sibling subtrees still to visit and the   *)
(* `&mut` borrow of the leaf whose children the slice belongs to          *)
(* (`parent_leaf`); that borrow is handed to the consumer when the frame  *)
(* is exhausted.  The frame chain is a sequence, the last element being   *)
(* `self`.  One next() call, recursion included, is one step.             *)
(***************************************************************************)
EXTENDS DarkTree

VARIABLES tree,     \* the DarkTree being iterated
          iter,     \* the frame chain: iter[1] is the outermost frame
          out,      \* the leaves whose &mut next() has returned so far
          status,   \* "iterating" or "exhausted" once None was returned
          calls     \* nested next() invocations the last call made

vars == <<tree, iter, out, status, calls>>

NoLeaf == 0   \* None; labels start at 1

Frame(children, parentLeaf) == [children |-> children, parent_leaf |-> parentLeaf]

(* DarkTree::iter_mut (lines 83-85).                                       *)
IterMut(t) == << Frame(<<t>>, NoLeaf) >>

(* Mutant: the siblings `rest` are not put back into self (line 185      *)
(* missing), so self keeps the emptied slice.                              *)
RECURSIVE IterMutNextLoseRest(_, _)
IterMutNextLoseRest(stk, depth) ==
    LET top == Last(stk) IN
    IF top.children = <<>>
    THEN IF Len(stk) = 1
         THEN [iter |-> stk, item |-> NoLeaf, depth |-> depth]
         ELSE [iter |-> Front(stk), item |-> top.parent_leaf, depth |-> depth]
    ELSE LET first == Head(top.children) IN
         IterMutNextLoseRest(Append(Append(Front(stk), [top EXCEPT !.children = <<>>]),
                                    Frame(first.children, first.leaf)),
                             depth + 1)

(* Mutant: the pushed frame borrows the current frame's parent_leaf       *)
(* instead of first's leaf (line 191).                                     *)
RECURSIVE IterMutNextWrongBorrow(_, _)
IterMutNextWrongBorrow(stk, depth) ==
    LET top == Last(stk) IN
    IF top.children = <<>>
    THEN IF Len(stk) = 1
         THEN [iter |-> stk, item |-> NoLeaf, depth |-> depth]
         ELSE [iter |-> Front(stk), item |-> top.parent_leaf, depth |-> depth]
    ELSE LET first == Head(top.children) IN
         IterMutNextWrongBorrow(Append(Append(Front(stk), [top EXCEPT !.children = Tail(top.children)]),
                                       Frame(first.children, top.parent_leaf)),
                                depth + 1)

(* DarkTreeIterMut::next (lines 171-196).  The slice is taken out of      *)
(* self (line 172).                                                        *)
(*   - it was empty, no parent: None;                                      *)
(*   - it was empty, a parent: take parent_leaf, become the parent and    *)
(*     return the taken borrow;                                            *)
(*   - (first, rest): self keeps `rest`, then a frame over first's         *)
(*     children borrowing first's leaf is pushed, and next() recurses.     *)
RECURSIVE IterMutNext(_, _)
IterMutNext(stk, depth) ==
    LET top == Last(stk) IN
    IF top.children = <<>>
    THEN IF Len(stk) = 1
         THEN [iter |-> stk, item |-> NoLeaf, depth |-> depth]
         ELSE [iter |-> Front(stk), item |-> top.parent_leaf, depth |-> depth]
    ELSE LET first == Head(top.children) IN
         IterMutNext(Append(Append(Front(stk), [top EXCEPT !.children = Tail(top.children)]),
                            Frame(first.children, first.leaf)),
                     depth + 1)

Init ==
    /\ tree \in Trees
    /\ iter = IterMut(tree)
    /\ out = <<>>
    /\ status = "iterating"
    /\ calls = 0

(* The consumer calls next() and may keep every &mut it was given.         *)
NextItem ==
    LET r == IterMutNext(iter, 1) IN
    /\ iter' = r.iter
    /\ calls' = r.depth
    /\ IF r.item = NoLeaf
       THEN status' = "exhausted" /\ UNCHANGED out
       ELSE out' = Append(out, r.item) /\ UNCHANGED status
    /\ UNCHANGED tree

Next == NextItem

Spec == Init /\ [][Next]_vars /\ WF_vars(NextItem)

-----------------------------------------------------------------------------
TypeOK ==
    /\ tree \in Trees
    /\ Len(iter) \in 1..(Height(tree) + 1)
    /\ iter \in Seq([children : Seq(Subtrees(tree)), parent_leaf : Labels \cup {NoLeaf}])
    /\ \A i \in DOMAIN iter : iter[i].parent_leaf = NoLeaf <=> i = 1
    /\ out \in Seq(Labels)
    /\ status \in {"iterating", "exhausted"}
    /\ calls \in 0..(MaxNodes + 1)

(* Refinement: DarkTreeIterMut implements the abstract post-order         *)
(* iterator (order, every leaf once, root last, fused None, termination). *)
Abs == INSTANCE PostOrderIterator WITH emitted <- out, finished <- (status = "exhausted")
AbsSpec == Abs!Spec

=============================================================================
