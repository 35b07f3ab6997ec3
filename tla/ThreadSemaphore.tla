-------------------------- MODULE ThreadSemaphore ---------------------------
(***************************************************************************)
(* ch18/thread_semaphore.c: thread read scans LOOP_SIZE numbers into the   *)
(* global num, thread accu adds each to its local sum.  sem_two (initially *)
(* 1) lets read overwrite num, sem_one (initially 0) lets accu use it.     *)
(* main creates both threads, joins both and destroys the semaphores.      *)
(*                                                                         *)
(* scanf leaves num as it was when the input is no number: the previous    *)
(* number (0 at first) is then handed over again.                          *)
(***************************************************************************)
EXTENDS Integers

CONSTANTS LOOP_SIZE, Numbers, Empty

ASSUME LoopAssumption    == LOOP_SIZE \in Nat \ {0}
ASSUME NumbersAssumption == Numbers \subseteq Int /\ 0 \in Numbers
ASSUME EmptyAssumption   == Empty \notin Numbers

VARIABLES
  mpc,                  (* main                                            *)
  rpc, ri,              (* thread read and its loop counter                *)
  apc, ai, reg, sum,    (* thread accu, its counter, loaded num, its sum   *)
  sem_one, sem_two, num,
  destroyed,            (* the semaphores are gone                         *)
  entered               (* history: the sum of what scanf left in num      *)

rVars == <<rpc, ri>>
aVars == <<apc, ai, reg, sum>>
vars  == <<mpc, rVars, aVars, sem_one, sem_two, num, destroyed, entered>>

Init ==
  /\ mpc = "create_read"
  /\ rpc = "none" /\ ri = 0
  /\ apc = "none" /\ ai = 0 /\ reg = 0 /\ sum = 0
  /\ sem_one = 0 /\ sem_two = 1
  /\ num = 0
  /\ destroyed = FALSE
  /\ entered = 0

-----------------------------------------------------------------------------
(* main: a failed create returns from main, which ends both threads.       *)

CreateRead ==
  /\ mpc = "create_read"
  /\ \/ mpc' = "create_accu" /\ rpc' = "wait"
     \/ mpc' = "exit" /\ rpc' = rpc
  /\ UNCHANGED <<ri, aVars, sem_one, sem_two, num, destroyed, entered>>

CreateAccu ==
  /\ mpc = "create_accu"
  /\ \/ mpc' = "join_read" /\ apc' = "wait"
     \/ mpc' = "exit" /\ apc' = apc
  /\ UNCHANGED <<rVars, ai, reg, sum, sem_one, sem_two, num, destroyed, entered>>

JoinRead ==
  /\ mpc = "join_read" /\ rpc = "end"
  /\ mpc' = "join_accu"
  /\ UNCHANGED <<rVars, aVars, sem_one, sem_two, num, destroyed, entered>>

(* Faulty variant of JoinAccu: the loop joins the first thread only.       *)
JoinAccuForgotten ==
  /\ mpc = "join_accu"
  /\ mpc' = "destroy"
  /\ UNCHANGED <<rVars, aVars, sem_one, sem_two, num, destroyed, entered>>

JoinAccu ==
  /\ mpc = "join_accu" /\ apc = "end"
  /\ mpc' = "destroy"
  /\ UNCHANGED <<rVars, aVars, sem_one, sem_two, num, destroyed, entered>>

Destroy ==
  /\ mpc = "destroy"
  /\ destroyed' = TRUE
  /\ mpc' = "exit"
  /\ UNCHANGED <<rVars, aVars, sem_one, sem_two, num, entered>>

MainThread == CreateRead \/ CreateAccu \/ JoinRead \/ JoinAccu \/ Destroy

-----------------------------------------------------------------------------
(* thread read.                                                            *)

WaitTwo ==
  /\ mpc # "exit" /\ rpc = "wait" /\ ri < LOOP_SIZE
  /\ sem_two > 0 /\ sem_two' = sem_two - 1
  /\ rpc' = "scan"
  /\ UNCHANGED <<mpc, ri, aVars, sem_one, num, destroyed, entered>>

Scan ==
  /\ mpc # "exit" /\ rpc = "scan"
  /\ \E n \in Numbers \cup {num} : num' = n /\ entered' = entered + n
  /\ rpc' = "post"
  /\ UNCHANGED <<mpc, ri, aVars, sem_one, sem_two, destroyed>>

PostOne ==
  /\ mpc # "exit" /\ rpc = "post"
  /\ sem_one' = sem_one + 1
  /\ ri' = ri + 1
  /\ rpc' = IF ri + 1 < LOOP_SIZE THEN "wait" ELSE "end"
  /\ UNCHANGED <<mpc, aVars, sem_two, num, destroyed, entered>>

Reader == WaitTwo \/ Scan \/ PostOne

-----------------------------------------------------------------------------
(* thread accu: sum += num is a load of the shared num and an addition.    *)

WaitOne ==
  /\ mpc # "exit" /\ apc = "wait" /\ ai < LOOP_SIZE
  /\ sem_one > 0 /\ sem_one' = sem_one - 1
  /\ apc' = "load"
  /\ UNCHANGED <<mpc, rVars, ai, reg, sum, sem_two, num, destroyed, entered>>

(* Faulty variant of LoadNum: the reader is let on before num was used.    *)
LoadNumLate ==
  /\ mpc # "exit" /\ apc = "load" /\ sem_two' = sem_two + 1
  /\ reg' = num
  /\ apc' = "add"
  /\ UNCHANGED <<mpc, rVars, ai, sum, sem_one, num, destroyed, entered>>

LoadNum ==
  /\ mpc # "exit" /\ apc = "load"
  /\ reg' = num
  /\ apc' = "add"
  /\ UNCHANGED <<mpc, rVars, ai, sum, sem_one, sem_two, num, destroyed, entered>>

AddNum ==
  /\ mpc # "exit" /\ apc = "add"
  /\ sum' = sum + reg
  /\ apc' = "post"
  /\ UNCHANGED <<mpc, rVars, ai, reg, sem_one, sem_two, num, destroyed, entered>>

(* Faulty variant of PostTwo: accu posts its own semaphore.                *)
PostTwoSwapped ==
  /\ mpc # "exit" /\ apc = "post"
  /\ sem_one' = sem_one + 1
  /\ ai' = ai + 1
  /\ apc' = IF ai + 1 < LOOP_SIZE THEN "wait" ELSE "end"
  /\ UNCHANGED <<mpc, rVars, reg, sum, sem_two, num, destroyed, entered>>

PostTwo ==
  /\ mpc # "exit" /\ apc = "post"
  /\ sem_two' = sem_two + 1
  /\ ai' = ai + 1
  /\ apc' = IF ai + 1 < LOOP_SIZE THEN "wait" ELSE "end"
  /\ UNCHANGED <<mpc, rVars, reg, sum, sem_one, num, destroyed, entered>>

Accumulator == WaitOne \/ LoadNum \/ AddNum \/ PostTwo

-----------------------------------------------------------------------------
(* The process has ended: nothing is left to do, which is no deadlock.     *)
Exited == mpc = "exit" /\ UNCHANGED vars

Next == MainThread \/ Reader \/ Accumulator \/ Exited

Spec == Init /\ [][Next]_vars

(* Every thread that can run runs, and the user keeps typing.  A semaphore *)
(* has one waiter, so nobody can be overtaken.                             *)
FairSpec == Spec /\ WF_vars(MainThread) /\ WF_vars(Reader) /\ WF_vars(Accumulator)

-----------------------------------------------------------------------------
(* Properties.                                                             *)

(* The variables keep their types; the semaphores stay binary (lines 15-17)*)
TypeOK ==
  /\ mpc \in {"create_read", "create_accu", "join_read", "join_accu", "destroy", "exit"}
  /\ rpc \in {"none", "wait", "scan", "post", "end"} /\ ri \in 0 .. LOOP_SIZE
  /\ apc \in {"none", "wait", "load", "add", "post", "end"} /\ ai \in 0 .. LOOP_SIZE
  /\ reg \in Numbers /\ num \in Numbers
  /\ sum \in Int /\ entered \in Int
  /\ sem_one \in 0 .. 1 /\ sem_two \in 0 .. 1
  /\ destroyed \in BOOLEAN

(* num is scanned and not added to sum yet.                                *)
Pending == rpc = "post" \/ sem_one = 1 \/ apc \in {"load", "add"}

(* The numbers are handed over one by one: sum is everything entered, but  *)
(* for the one number that is on its way (lines 65-70, 78-83).             *)
EachAddedOnce == sum + (IF Pending THEN num ELSE 0) = entered

(* The two threads take turns: the reader is never more than one number    *)
(* ahead, and num is not overwritten while accu uses it.                   *)
TakeTurns ==
  /\ ri - ai \in 0 .. 1
  /\ ~ (rpc \in {"scan", "post"} /\ apc \in {"load", "add", "post"})

(* main destroys the semaphores only when no thread can touch them again   *)
(* (lines 46-56).                                                          *)
DestroyedUnused == destroyed => rpc = "end" /\ apc = "end" /\ sum = entered

(* The strengthening the invariants above need: one token goes round, from *)
(* sem_two through the reader, sem_one and accu back to sem_two; the       *)
(* counters tell how often it did; main knows what it waited for.          *)
Has(b) == IF b THEN 1 ELSE 0

Bookkeeping ==
  /\ sem_one + sem_two + Has(rpc \in {"scan", "post"})
       + Has(apc \in {"load", "add", "post"}) = 1
  /\ ri = ai + Has(sem_one = 1 \/ apc \in {"load", "add", "post"})
  /\ apc = "add" => reg = num
  /\ rpc \in {"wait", "scan", "post"} => ri < LOOP_SIZE
  /\ apc \in {"wait", "load", "add", "post"} => ai < LOOP_SIZE
  /\ (rpc = "none" => ri = 0) /\ (rpc = "end" => ri = LOOP_SIZE)
  /\ (apc = "none" => ai = 0) /\ (apc = "end" => ai = LOOP_SIZE)
  /\ mpc = "create_read" => rpc = "none"
  /\ mpc \in {"create_read", "create_accu"} => apc = "none"
  /\ mpc \in {"join_accu", "destroy"} => rpc = "end"
  /\ mpc = "destroy" => apc = "end"
  /\ destroyed => mpc = "exit"

IndInv == TypeOK /\ EachAddedOnce /\ DestroyedUnused /\ Bookkeeping

Buffer == INSTANCE OnePlaceBuffer WITH
  place <- IF Pending THEN num ELSE Empty,
  total <- sum

(* The two semaphores and num implement a buffer with one place: a Scan    *)
(* puts, the addition takes.                                               *)
ImplementsBuffer == Buffer!Spec

(* Both threads run to their end and main returns.                         *)
MainEnds == <>(mpc = "exit")
=============================================================================
