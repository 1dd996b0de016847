-------------------------- MODULE PostOrderIterator --------------------------
(***************************************************************************)
(* Abstract specification of what every DarkTree iterator promises         *)
(* (script/research/dark-forest/src/lib.rs, lines 54-58, 75-85, 213-215):   *)
(* each call of next() hands out the next leaf of the tree in DFS          *)
(* post-order, every leaf exactly once, the root last; once the tree is    *)
(* exhausted next() returns None, and keeps returning None, since the      *)
(* iterators implement FusedIterator.  A consumer that keeps calling       *)
(* next() eventually sees None.                                            *)
(***************************************************************************)
EXTENDS DarkTree

VARIABLES tree,      \* the tree being iterated
          emitted,   \* the leaves handed out so far, in order
          finished   \* TRUE once next() has returned None

vars == <<tree, emitted, finished>>

Init ==
    /\ tree \in Trees
    /\ emitted = <<>>
    /\ finished = FALSE

Yield ==
    /\ Len(emitted) < Size(tree)
    /\ emitted' = Append(emitted, PostOrder(tree)[Len(emitted) + 1])
    /\ UNCHANGED <<tree, finished>>

Exhausted ==
    /\ Len(emitted) = Size(tree)
    /\ finished' = TRUE
    /\ UNCHANGED <<tree, emitted>>

Next == Yield \/ Exhausted

Spec == Init /\ [][Next]_vars /\ WF_vars(Next)

=============================================================================
