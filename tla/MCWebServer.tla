---------------------------- MODULE MCWebServer -----------------------------
(***************************************************************************)
(* WebServer with two clients that ask for anything.  Two descriptors are  *)
(* what one connection needs; five let both be handled at once.           *)
(***************************************************************************)
EXTENDS WebServer, TLC

CONSTANTS c1, c2

ClientSymmetry == Permutations(Clients)
=============================================================================
