---------------------------- MODULE MCForkServer ----------------------------
(***************************************************************************)
(* ForkServer, both servers, with two clients.  For the safety properties  *)
(* each sends two bytes, which one read can return together or not; for    *)
(* the liveness properties three bytes are enough to fill the pipe for     *)
(* good once the store has made its single read.                           *)
(***************************************************************************)
EXTENDS ForkServer, TLC

CONSTANTS c1, c2

TwoEach == c1 :> 2 @@ c2 :> 2
Three   == c1 :> 2 @@ c2 :> 1

ClientSymmetry == Permutations(Clients)
=============================================================================
