------------------------------- MODULE MCNe2k -------------------------------
(***************************************************************************)
(* Ne2k with a ring of a few pages, so that it wraps and fills.            *)
(***************************************************************************)
EXTENDS Ne2k
=============================================================================
