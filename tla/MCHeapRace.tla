----------------------------- MODULE MCHeapRace -----------------------------
(***************************************************************************)
(* HeapRace on pages that hold three blocks.                               *)
(***************************************************************************)
EXTENDS HeapRace
=============================================================================
