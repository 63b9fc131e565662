------------------------------- MODULE MCCow --------------------------------
(***************************************************************************)
(* Cow with tables of five entries and counts modulo 5.  MCCow.cfg: a      *)
(* machine with less than 1GB, whose slot 3 holds the last identity        *)
(* entries (pages 15 and 16) beside user pages; slot 4 is copied by        *)
(* create_mm, slot 5 is not.  MCCow1GB.cfg: more than 1GB, so that slot    *)
(* KMEM>>22 is the first create_mm does not copy.                          *)
(***************************************************************************)
EXTENDS Cow
=============================================================================
