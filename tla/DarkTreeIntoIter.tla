-------------------------- MODULE DarkTreeIntoIter --------------------------
(***************************************************************************)
(* DarkTreeIntoIter, the consuming DFS post-order iterator of              *)
(* script/research/dark-forest/src/lib.rs (lines 213-285).                  *)
(*                                                                         *)
(* Each frame owns a VecDeque of subtrees; a subtree with children is     *)
(* split into its children followed by the leaf itself, stripped of its   *)
(* children, and iteration continues one frame deeper.  Leaves are moved  *)
(* out of the tree one by one.  The frame chain is a sequence, the last   *)
(* element being `self`.  One next() call, recursion included, is one     *)
(* step.                                                                   *)
(***************************************************************************)
EXTENDS DarkTree

VARIABLES tree,     \* the DarkTree that was consumed (never changes)
          iter,     \* the frame chain: each frame a deque of owned subtrees
          out,      \* the leaves moved out to the consumer so far
          status,   \* "iterating" or "exhausted" once None was returned
          calls     \* nested next() invocations the last call made

vars == <<tree, iter, out, status, calls>>

NoLeaf == 0   \* None; labels start at 1

(* DarkTree::into_iter (lines 279-284): a deque holding the tree alone.   *)
IntoIter(t) == << <<t>> >>

(* Lines 256-258: the leaf's children are moved into a new deque, the     *)
(* leaf's own children are reset, and the leaf is pushed after them.      *)
PushAfterChildren(t) == t.children \o << [t EXCEPT !.children = <<>>] >>

(* Mutant: after becoming the parent the iterator returns None instead of *)
(* continuing with the parent's remaining subtrees (line 245 missing).     *)
RECURSIVE IntoIterNextStopAtParent(_, _)
IntoIterNextStopAtParent(stk, depth) ==
    LET top == Last(stk) IN
    IF top = <<>>
    THEN IF Len(stk) = 1
         THEN [iter |-> stk, item |-> NoLeaf, depth |-> depth]
         ELSE [iter |-> Front(stk), item |-> NoLeaf, depth |-> depth]
    ELSE LET t == Head(top)
             parent == Append(Front(stk), Tail(top))
         IN IF t.children = <<>>
            THEN [iter |-> parent, item |-> t.leaf, depth |-> depth]
            ELSE IntoIterNextStopAtParent(Append(parent, PushAfterChildren(t)), depth + 1)

(* Mutant: the stripped leaf gets a frame of its own below a frame over  *)
(* its children, instead of being pushed after them in the same deque.     *)
RECURSIVE IntoIterNextLeafFrame(_, _)
IntoIterNextLeafFrame(stk, depth) ==
    LET top == Last(stk) IN
    IF top = <<>>
    THEN IF Len(stk) = 1
         THEN [iter |-> stk, item |-> NoLeaf, depth |-> depth]
         ELSE IntoIterNextLeafFrame(Front(stk), depth + 1)
    ELSE LET t == Head(top)
             parent == Append(Front(stk), Tail(top))
         IN IF t.children = <<>>
            THEN [iter |-> parent, item |-> t.leaf, depth |-> depth]
            ELSE IntoIterNextLeafFrame(Append(Append(parent, << [t EXCEPT !.children = <<>>] >>),
                                              t.children),
                                       depth + 1)

(* DarkTreeIntoIter::next (lines 239-265).                                 *)
(*   - empty deque, no parent: None;                                       *)
(*   - empty deque, a parent: become the parent and recurse;               *)
(*   - front subtree without children: pop and return its leaf;           *)
(*   - front subtree with children: pop it, push a frame over             *)
(*     PushAfterChildren of it, and recurse.                               *)
RECURSIVE IntoIterNext(_, _)
IntoIterNext(stk, depth) ==
    LET top == Last(stk) IN
    IF top = <<>>
    THEN IF Len(stk) = 1
         THEN [iter |-> stk, item |-> NoLeaf, depth |-> depth]
         ELSE IntoIterNext(Front(stk), depth + 1)
    ELSE LET t == Head(top)
             parent == Append(Front(stk), Tail(top))
         IN IF t.children = <<>>
            THEN [iter |-> parent, item |-> t.leaf, depth |-> depth]
            ELSE IntoIterNext(Append(parent, PushAfterChildren(t)), depth + 1)

Init ==
    /\ tree \in Trees
    /\ iter = IntoIter(tree)
    /\ out = <<>>
    /\ status = "iterating"
    /\ calls = 0

NextItem ==
    LET r == IntoIterNext(iter, 1) IN
    /\ iter' = r.iter
    /\ calls' = r.depth
    /\ IF r.item = NoLeaf
       THEN status' = "exhausted" /\ UNCHANGED out
       ELSE out' = Append(out, r.item) /\ UNCHANGED status
    /\ UNCHANGED tree

Next == NextItem

Spec == Init /\ [][Next]_vars /\ WF_vars(NextItem)

-----------------------------------------------------------------------------
Stripped == { DarkTreeNew(l, <<>>) : l \in Labels }

TypeOK ==
    /\ tree \in Trees
    /\ Len(iter) \in 1..(Height(tree) + 1)
    /\ iter \in Seq(Seq(Subtrees(tree) \cup Stripped))
    /\ out \in Seq(Labels)
    /\ status \in {"iterating", "exhausted"}
    /\ calls \in 0..(2 * MaxNodes + 1)

(* Refinement: DarkTreeIntoIter implements the abstract post-order        *)
(* iterator (order, every leaf once, root last, fused None, termination). *)
Abs == INSTANCE PostOrderIterator WITH emitted <- out, finished <- (status = "exhausted")
AbsSpec == Abs!Spec

=============================================================================
