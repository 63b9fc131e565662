------------------------------ MODULE MCMalloc ------------------------------
(***************************************************************************)
(* Malloc on two frames.  A page of 80 bytes can hold four blocks, enough  *)
(* for three adjacent free blocks whose list order differs from their      *)
(* order in memory, and for a sweep that swallows its own predecessor; a   *)
(* request of 26 bytes can be given a block it does not split.             *)
(***************************************************************************)
EXTENDS Malloc
=============================================================================
