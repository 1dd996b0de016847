------------------------ MODULE MCDarkTreeIterators ------------------------
(***************************************************************************)
(* The three post-order iterators of script/research/dark-forest/src/     *)
(* lib.rs used in turn on the same DarkTree: iter (DarkTreeIter), then     *)
(* iter_mut (DarkTreeIterMut), then into_iter (DarkTreeIntoIter).  Rust's  *)
(* borrow rules fix this order: the shared borrow of iter ends before the  *)
(* exclusive borrow of iter_mut, and into_iter consumes the tree, so the   *)
(* three never interleave.  Each keeps its own frame chain, output and     *)
(* status.                                                                 *)
(***************************************************************************)
EXTENDS DarkTree

VARIABLES tree,                                   \* the tree all three iterate
          iterI, outI, statusI, callsI,           \* DarkTreeIter
          iterM, outM, statusM, callsM,           \* DarkTreeIterMut
          iterO, outO, statusO, callsO            \* DarkTreeIntoIter

varsI == <<iterI, outI, statusI, callsI>>
varsM == <<iterM, outM, statusM, callsM>>
varsO == <<iterO, outO, statusO, callsO>>
vars == <<tree, varsI, varsM, varsO>>

I == INSTANCE DarkTreeIter WITH iter <- iterI, out <- outI, status <- statusI, calls <- callsI
M == INSTANCE DarkTreeIterMut WITH iter <- iterM, out <- outM, status <- statusM, calls <- callsM
O == INSTANCE DarkTreeIntoIter WITH iter <- iterO, out <- outO, status <- statusO, calls <- callsO

Init == I!Init /\ M!Init /\ O!Init

IterStep == I!NextItem /\ UNCHANGED <<varsM, varsO>>
IterMutStep == statusI = "exhausted" /\ M!NextItem /\ UNCHANGED <<varsI, varsO>>
IntoIterStep == statusM = "exhausted" /\ O!NextItem /\ UNCHANGED <<varsI, varsM>>

Next == IterStep \/ IterMutStep \/ IntoIterStep

(* The consumer of each iterator keeps calling next() until it is None.  *)
Spec == Init /\ [][Next]_vars
        /\ WF_vars(IterStep) /\ WF_vars(IterMutStep) /\ WF_vars(IntoIterStep)

-----------------------------------------------------------------------------
IterTypeOK == I!TypeOK
IterMutTypeOK == M!TypeOK
IntoIterTypeOK == O!TypeOK

(* DarkTreeIter: the unwrap of lib.rs line 116 never panics.               *)
UnwrapNeverPanics == I!UnwrapNeverPanics

(* Each of iter, iter_mut and into_iter implements the abstract post-     *)
(* order iterator PostOrderIterator over the shared tree.                  *)
IterAbsSpec == I!AbsSpec
IterMutAbsSpec == M!AbsSpec
IntoIterAbsSpec == O!AbsSpec

=============================================================================
