------------------------------- MODULE MCHeap -------------------------------
(***************************************************************************)
(* Heap on two small pages.  A page of 80 bytes holds up to four blocks;   *)
(* the requests (4, 8 and 44 bytes once rounded) give exact fits, splits,  *)
(* tails too small to split and pages that one block fills.                *)
(***************************************************************************)
EXTENDS Heap, TLC

PageSymmetry == Permutations(Pages)

=============================================================================
