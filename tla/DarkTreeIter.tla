---------------------------- MODULE DarkTreeIter ----------------------------
(***************************************************************************)
(* DarkTreeIter, the immutable DFS post-order iterator of                  *)
(* script/research/dark-forest/src/lib.rs (lines 75-132).                  *)
(*                                                                         *)
(* The iterator is a chain of frames linked by `parent: Option<Box<..>>`;  *)
(* each frame holds a slice `children` of sibling subtrees.  The chain is  *)
(* modelled as a sequence of slices whose last element is `self` and      *)
(* whose earlier elements are the boxed parents.  One call of next(),      *)
(* including every recursive self.next() it makes, is one step.            *)
(***************************************************************************)
EXTENDS DarkTree

VARIABLES tree,     \* the DarkTree being iterated (never changes)
          iter,     \* the frame chain: iter[1] is the outermost frame
          out,      \* the leaves next() has returned so far
          status,   \* "iterating", "exhausted" once None was returned,
                    \* "panicked" if an unwrap() in next() failed
          calls     \* nested next() invocations the last call made

vars == <<tree, iter, out, status, calls>>

NoLeaf == 0   \* None; labels start at 1

(* DarkTree::iter (lines 77-79): one frame holding a one-element slice of *)
(* the tree itself and no parent.                                          *)
Iter(t) == << <<t>> >>

(* Mutant: climbing back to the parent returns its first leaf without     *)
(* dropping it from the parent's slice (line 117 missing).                 *)
RECURSIVE IterNextNoAdvance(_, _)
IterNextNoAdvance(stk, depth) ==
    LET top == Last(stk) IN
    IF top = <<>>
    THEN IF Len(stk) = 1
         THEN [iter |-> stk, item |-> NoLeaf, panic |-> FALSE, depth |-> depth]
         ELSE LET parent == Last(Front(stk)) IN
              IF parent = <<>>
              THEN [iter |-> stk, item |-> NoLeaf, panic |-> TRUE, depth |-> depth]
              ELSE [iter |-> Front(stk), item |-> Head(parent).leaf, panic |-> FALSE, depth |-> depth]
    ELSE IterNextNoAdvance(Append(stk, Head(top).children), depth + 1)

(* Mutant: climbing back to the parent advances the parent's slice but   *)
(* keeps the exhausted frame below it instead of replacing it.             *)
RECURSIVE IterNextLeakFrame(_, _)
IterNextLeakFrame(stk, depth) ==
    LET top == Last(stk) IN
    IF top = <<>>
    THEN IF Len(stk) = 1
         THEN [iter |-> stk, item |-> NoLeaf, panic |-> FALSE, depth |-> depth]
         ELSE LET parent == Last(Front(stk)) IN
              IF parent = <<>>
              THEN [iter |-> stk, item |-> NoLeaf, panic |-> TRUE, depth |-> depth]
              ELSE [iter |-> Append(stk, Tail(parent)),
                    item |-> Head(parent).leaf, panic |-> FALSE, depth |-> depth]
    ELSE IterNextLeakFrame(Append(stk, Head(top).children), depth + 1)

(* Mutant: descending also advances the parent's slice past the subtree   *)
(* being entered, as the mutable iterator does.                            *)
RECURSIVE IterNextAdvanceOnDescend(_, _)
IterNextAdvanceOnDescend(stk, depth) ==
    LET top == Last(stk) IN
    IF top = <<>>
    THEN IF Len(stk) = 1
         THEN [iter |-> stk, item |-> NoLeaf, panic |-> FALSE, depth |-> depth]
         ELSE LET parent == Last(Front(stk)) IN
              IF parent = <<>>
              THEN [iter |-> stk, item |-> NoLeaf, panic |-> TRUE, depth |-> depth]
              ELSE [iter |-> Append(Front(Front(stk)), Tail(parent)),
                    item |-> Head(parent).leaf, panic |-> FALSE, depth |-> depth]
    ELSE IterNextAdvanceOnDescend(Append(Append(Front(stk), Tail(top)), Head(top).children),
                                  depth + 1)

(* DarkTreeIter::next (lines 108-131).  Returns the new frame chain, the  *)
(* leaf returned (NoLeaf for None), whether the unwrap at line 116        *)
(* panicked, and how many next() invocations were nested.                 *)
(*   - empty slice, no parent: None;                                       *)
(*   - empty slice, a parent: become the parent, return the leaf of its   *)
(*     first subtree and drop that subtree from its slice;                 *)
(*   - nonempty slice: push a frame over the first subtree's children     *)
(*     (the parent keeps its slice, first subtree included) and recurse.   *)
RECURSIVE IterNext(_, _)
IterNext(stk, depth) ==
    LET top == Last(stk) IN
    IF top = <<>>
    THEN IF Len(stk) = 1
         THEN [iter |-> stk, item |-> NoLeaf, panic |-> FALSE, depth |-> depth]
         ELSE LET parent == Last(Front(stk)) IN
              IF parent = <<>>
              THEN [iter |-> stk, item |-> NoLeaf, panic |-> TRUE, depth |-> depth]
              ELSE [iter |-> Append(Front(Front(stk)), Tail(parent)),
                    item |-> Head(parent).leaf, panic |-> FALSE, depth |-> depth]
    ELSE IterNext(Append(stk, Head(top).children), depth + 1)

Init ==
    /\ tree \in Trees
    /\ iter = Iter(tree)
    /\ out = <<>>
    /\ status = "iterating"
    /\ calls = 0

(* The consumer calls next(); a `for` loop stops at the first None, a     *)
(* caller that keeps calling a FusedIterator gets None again.              *)
NextItem ==
    /\ status # "panicked"
    /\ LET r == IterNext(iter, 1) IN
       /\ calls' = r.depth
       /\ IF r.panic
          THEN status' = "panicked" /\ UNCHANGED <<iter, out>>
          ELSE /\ iter' = r.iter
               /\ IF r.item = NoLeaf
                  THEN status' = "exhausted" /\ UNCHANGED out
                  ELSE out' = Append(out, r.item) /\ UNCHANGED status
    /\ UNCHANGED tree

Next == NextItem

Spec == Init /\ [][Next]_vars /\ WF_vars(NextItem)

-----------------------------------------------------------------------------
TypeOK ==
    /\ tree \in Trees
    /\ Len(iter) \in 1..(Height(tree) + 1)
    /\ iter \in Seq(Seq(Subtrees(tree)))
    /\ out \in Seq(Labels)
    /\ status \in {"iterating", "exhausted", "panicked"}
    /\ calls \in 0..(MaxNodes + 1)

(* The unwrap at line 116 ("safe ... as we effectively returned to this   *)
(* tree after pushing it after its children") never panics: whenever next *)
(* climbs back to a parent frame, that frame still holds the subtree whose *)
(* children were just iterated.                                            *)
UnwrapNeverPanics == status # "panicked"

(* Refinement: DarkTreeIter implements the abstract post-order iterator.  *)
(* Every leaf is returned once, in post-order, root last; None only after *)
(* the last leaf and forever after; a consumer that keeps calling next()  *)
(* reaches None.                                                           *)
Abs == INSTANCE PostOrderIterator WITH emitted <- out, finished <- (status = "exhausted")
AbsSpec == Abs!Spec

(* What the specification claims of every traversal mode: no call-stack   *)
(* recursion, so one next() call uses a bounded number of stack frames    *)
(* whatever the depth of the tree.                                         *)
NextIsIterative == calls <= 2

=============================================================================
