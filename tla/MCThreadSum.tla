---------------------------- MODULE MCThreadSum -----------------------------
(***************************************************************************)
(* ThreadSum, both programs, with four iterations instead of a million:    *)
(* every way the loads and stores of two short loops can interleave.  A    *)
(* dead local may hold a negative number, or one below or above Loops.     *)
(***************************************************************************)
EXTENDS ThreadSum

Leftovers == {-1, 2, 5}
=============================================================================
