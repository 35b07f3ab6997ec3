------------------------- MODULE MCThreadSemaphore --------------------------
(***************************************************************************)
(* ThreadSemaphore with the program's five rounds and three numbers, one   *)
(* of them negative, so that lost and repeated numbers change the sum.     *)
(***************************************************************************)
EXTENDS ThreadSemaphore

SomeNumbers == {-2, 0, 5}
=============================================================================
