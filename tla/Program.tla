------------------------------ MODULE Program ------------------------------
(***************************************************************************)
(* The book's small programs share no state.  program names the pair that  *)
(* runs; the actions of a module are enabled for its own pairs only.       *)
(***************************************************************************)
VARIABLE program
=============================================================================
