----------------------------- MODULE MCConsole ------------------------------
(***************************************************************************)
(* Console on a screen of two or three rows: a character, an end of line,  *)
(* a number that fills more than a row, and a line that ends in one.       *)
(***************************************************************************)
EXTENDS Console

Texts == { << <<"a", 0>> >>, << NL >>, << <<"esc", 18>> >>, << <<"b", 0>>, NL >> }
=============================================================================
