--------------------------- MODULE OnePlaceBuffer ---------------------------
(***************************************************************************)
(* What the two semaphores of ch18/thread_semaphore.c are for: the numbers *)
(* the reader enters go one at a time through one place, and each is taken *)
(* out exactly once before the next one is put there.                      *)
(***************************************************************************)
EXTENDS Integers

CONSTANTS Numbers, Empty

VARIABLES place, total

vars == <<place, total>>

Init == place = Empty /\ total = 0

Put == /\ place = Empty
       /\ place' \in Numbers
       /\ UNCHANGED total

Take == /\ place # Empty
        /\ total' = total + place
        /\ place' = Empty

Next == Put \/ Take

Spec == Init /\ [][Next]_vars
=============================================================================
