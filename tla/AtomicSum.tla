----------------------------- MODULE AtomicSum ------------------------------
(***************************************************************************)
(* What the two worker threads of ch18/thread_mutex.c promise each other:  *)
(* the loop each runs under the mutex changes the shared sum in one step.  *)
(***************************************************************************)
EXTENDS Integers

CONSTANTS Workers, Step(_), Loops

VARIABLES total, finished

vars == <<total, finished>>

Init == total = 0 /\ finished = {}

Run(t) ==
  /\ t \notin finished
  /\ total' = total + Loops * Step(t)
  /\ finished' = finished \cup {t}

Next == \E t \in Workers : Run(t)

Spec == Init /\ [][Next]_vars
=============================================================================
