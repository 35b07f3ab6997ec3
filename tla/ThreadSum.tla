----------------------------- MODULE ThreadSum ------------------------------
(***************************************************************************)
(* ch18/thread_1803.c and ch18/thread_mutex.c: two threads change a global *)
(* sum, one by +1 and one by -1, cnt times each; main creates them, joins  *)
(* them and prints sum.  thread_mutex.c runs each loop under a mutex,      *)
(* thread_1803.c has none: Init picks which of the two programs runs.      *)
(*                                                                         *)
(* sum += 1 is a load and a store.  Both programs' workers format their    *)
(* results from sum after the loop, outside the mutex.                     *)
(*                                                                         *)
(* The number of iterations is read through a pointer to pthread_param, a  *)
(* local of the function that creates the threads.  In thread_mutex.c it   *)
(* returns when a create fails, and main destroys the mutex and ends: a    *)
(* worker created before may meanwhile read what is left of the local, and *)
(* lock a mutex that is gone.                                              *)
(***************************************************************************)
EXTENDS Integers

CONSTANTS
  Loops,       (* pthread_param, the number of iterations                  *)
  Stale,       (* what a worker may find there once the local is dead      *)
  Nobody       (* the mutex's owner when nobody holds it                   *)

Workers == {"inc", "des"}
Step(t) == IF t = "inc" THEN 1 ELSE -1

ASSUME LoopsAssumption  == Loops \in Nat /\ Stale \subseteq Int
ASSUME NobodyAssumption == Nobody \notin Workers

VARIABLES
  locking,     (* TRUE: thread_mutex.c; FALSE: thread_1803.c               *)
  mpc,         (* main: what it does next                                  *)
  pc, cnt, j,  (* the workers: where they are, their loops' ends, counters *)
  reg,         (* the value a worker loaded and has not stored yet         *)
  sum, mutex,
  destroyed,   (* the mutex is gone                                        *)
  result,      (* the sum each worker put in its result message            *)
  printed      (* what main printed                                        *)

vars == <<locking, mpc, pc, cnt, j, reg, sum, mutex, destroyed, result, printed>>

Init ==
  /\ locking \in BOOLEAN
  /\ mpc = "create_inc"
  /\ pc = [t \in Workers |-> "none"]
  /\ cnt = [t \in Workers |-> 0]
  /\ j = [t \in Workers |-> 0]
  /\ reg = [t \in Workers |-> 0]
  /\ sum = 0
  /\ mutex = Nobody
  /\ destroyed = FALSE
  /\ result = [t \in Workers |-> 0]
  /\ printed = 0

-----------------------------------------------------------------------------
(* main: the two creates, the two joins in the same order, the printf and, *)
(* in thread_mutex.c, the end of thread_dispatch and of the mutex.         *)

AfterDispatch == IF locking THEN "destroy" ELSE "exit"

Create(t, at, next) ==
  /\ mpc = at
  /\ \/ mpc' = next /\ pc' = [pc EXCEPT ![t] = "arg"]
     \/ mpc' = AfterDispatch /\ pc' = pc            \* create failed: return -1
  /\ UNCHANGED <<locking, cnt, j, reg, sum, mutex, destroyed, result, printed>>

Join(t, at, next) ==
  /\ mpc = at /\ pc[t] = "end"
  /\ mpc' = next
  /\ UNCHANGED <<locking, pc, cnt, j, reg, sum, mutex, destroyed, result, printed>>

PrintSum ==
  /\ mpc = "print"
  /\ printed' = sum
  /\ mpc' = AfterDispatch
  /\ UNCHANGED <<locking, pc, cnt, j, reg, sum, mutex, destroyed, result>>

(* A mutex somebody holds is not destroyed (EBUSY, which main ignores).    *)
DestroyMutex ==
  /\ mpc = "destroy"
  /\ destroyed' = (mutex = Nobody)
  /\ mpc' = "return"
  /\ UNCHANGED <<locking, pc, cnt, j, reg, sum, mutex, result, printed>>

Return ==
  /\ mpc = "return"
  /\ mpc' = "exit"
  /\ UNCHANGED <<locking, pc, cnt, j, reg, sum, mutex, destroyed, result, printed>>

MainThread ==
  \/ Create("inc", "create_inc", "create_des") \/ Create("des", "create_des", "join_inc")
  \/ Join("inc", "join_inc", "join_des") \/ Join("des", "join_des", "print")
  \/ PrintSum \/ DestroyMutex \/ Return

-----------------------------------------------------------------------------
(* A worker; main's return ends the process and with it every thread.      *)

Dispatched == mpc \in {"destroy", "return", "exit"}   \* pthread_param is dead

ReadArg(t) ==
  /\ mpc # "exit" /\ pc[t] = "arg"
  /\ \E n \in {Loops} \cup (IF Dispatched THEN Stale ELSE {}) : cnt' = [cnt EXCEPT ![t] = n]
  /\ pc' = [pc EXCEPT ![t] = "lock"]
  /\ UNCHANGED <<locking, mpc, j, reg, sum, mutex, destroyed, result, printed>>

(* Faulty variant of Lock: thread_mutex.c without its lock.                *)
LockForgotten(t) ==
  /\ mpc # "exit" /\ pc[t] = "lock"
  /\ pc' = [pc EXCEPT ![t] = "load"]
  /\ UNCHANGED <<locking, mpc, cnt, j, reg, sum, mutex, destroyed, result, printed>>

(* Locking a destroyed mutex fails (EINVAL), which nobody looks at.        *)
Lock(t) ==
  /\ mpc # "exit" /\ pc[t] = "lock"
  /\ IF locking /\ ~destroyed THEN mutex = Nobody /\ mutex' = t ELSE mutex' = mutex
  /\ pc' = [pc EXCEPT ![t] = "load"]
  /\ UNCHANGED <<locking, mpc, cnt, j, reg, sum, destroyed, result, printed>>

Load(t) ==
  /\ mpc # "exit" /\ pc[t] = "load" /\ j[t] < cnt[t]
  /\ reg' = [reg EXCEPT ![t] = sum]
  /\ pc' = [pc EXCEPT ![t] = "store"]
  /\ UNCHANGED <<locking, mpc, cnt, j, sum, mutex, destroyed, result, printed>>

(* Faulty variant of Store: one iteration changes sum by two.              *)
StoreTwice(t) ==
  /\ mpc # "exit" /\ pc[t] = "store"
  /\ sum' = reg[t] + 2 * Step(t)
  /\ j' = [j EXCEPT ![t] = @ + 1]
  /\ pc' = [pc EXCEPT ![t] = "load"]
  /\ UNCHANGED <<locking, mpc, cnt, reg, mutex, destroyed, result, printed>>

Store(t) ==
  /\ mpc # "exit" /\ pc[t] = "store"
  /\ sum' = reg[t] + Step(t)
  /\ j' = [j EXCEPT ![t] = @ + 1]
  /\ pc' = [pc EXCEPT ![t] = "load"]
  /\ UNCHANGED <<locking, mpc, cnt, reg, mutex, destroyed, result, printed>>

(* Faulty variant of Unlock: the mutex is not given back.                  *)
UnlockKept(t) ==
  /\ mpc # "exit" /\ pc[t] = "load" /\ j[t] >= cnt[t]
  /\ pc' = [pc EXCEPT ![t] = "report"]
  /\ UNCHANGED <<locking, mpc, cnt, j, reg, sum, mutex, destroyed, result, printed>>

Unlock(t) ==
  /\ mpc # "exit" /\ pc[t] = "load" /\ j[t] >= cnt[t]
  /\ mutex' = IF mutex = t THEN Nobody ELSE mutex
  /\ pc' = [pc EXCEPT ![t] = "report"]
  /\ UNCHANGED <<locking, mpc, cnt, j, reg, sum, destroyed, result, printed>>

(* Faulty variant of Report: the result is formatted from what the thread  *)
(* last loaded instead of from sum.                                        *)
ReportStale(t) ==
  /\ mpc # "exit" /\ pc[t] = "report"
  /\ result' = [result EXCEPT ![t] = reg[t]]
  /\ pc' = [pc EXCEPT ![t] = "end"]
  /\ UNCHANGED <<locking, mpc, cnt, j, reg, sum, mutex, destroyed, printed>>

Report(t) ==
  /\ mpc # "exit" /\ pc[t] = "report"
  /\ result' = [result EXCEPT ![t] = sum]
  /\ pc' = [pc EXCEPT ![t] = "end"]
  /\ UNCHANGED <<locking, mpc, cnt, j, reg, sum, mutex, destroyed, printed>>

Worker(t) == ReadArg(t) \/ Lock(t) \/ Load(t) \/ Store(t) \/ Unlock(t) \/ Report(t)

(* The process has ended: nothing is left to do, which is no deadlock.     *)
Exited == mpc = "exit" /\ UNCHANGED vars

Next == MainThread \/ (\E t \in Workers : Worker(t)) \/ Exited

Spec == Init /\ [][Next]_vars

(* Every thread that can run runs; the mutex is released for good by its   *)
(* first owner, so weak fairness is enough to get it.                      *)
FairSpec == /\ Spec /\ WF_vars(MainThread)
            /\ WF_vars(Worker("inc")) /\ WF_vars(Worker("des"))

-----------------------------------------------------------------------------
(* Properties.                                                             *)

(* The variables keep their types (thread_1803.c:13, thread_mutex.c:13-14).*)
TypeOK ==
  /\ locking \in BOOLEAN
  /\ mpc \in {"create_inc", "create_des", "join_inc", "join_des", "print",
              "destroy", "return", "exit"}
  /\ pc \in [Workers -> {"none", "arg", "lock", "load", "store", "report", "end"}]
  /\ cnt \in [Workers -> Int]
  /\ j \in [Workers -> Nat] /\ \A t \in Workers : j[t] = 0 \/ j[t] <= cnt[t]
  /\ reg \in [Workers -> Int] /\ result \in [Workers -> Int]
  /\ sum \in Int /\ printed \in Int
  /\ mutex \in Workers \cup {Nobody} /\ destroyed \in BOOLEAN

(* Updates get lost without the mutex, yet every value sum ever has, and   *)
(* every value loaded, reported or printed, is one that some of the        *)
(* decrements and some of the increments made so far add up to.            *)
WithinLostUpdates ==
  /\ -j["des"] <= sum /\ sum <= j["inc"]
  /\ \A t \in Workers : /\ -j["des"] <= reg[t] /\ reg[t] <= j["inc"]
                        /\ -j["des"] <= result[t] /\ result[t] <= j["inc"]
  /\ -j["des"] <= printed /\ printed <= j["inc"]

InLoop(t) == pc[t] \in {"load", "store"}

(* What a worker that is in its loop has added to sum so far.              *)
Partial(t) == IF InLoop(t) THEN j[t] * Step(t) ELSE 0

(* thread_mutex.c: the two loops never overlap, and the increments and     *)
(* decrements made are all in sum, whatever main prints being 0: even when *)
(* a create fails and a worker goes on while main takes the mutex away.    *)
NoLostUpdate ==
  locking =>
    /\ ~ (InLoop("inc") /\ InLoop("des"))
    /\ sum = j["inc"] - j["des"]
    /\ printed = 0

(* The results are formatted after the unlock and may be out of date, but  *)
(* the worker that finished its loop last reported what main then prints.  *)
SomeReportIsFinal ==
  mpc = "print" => \E t \in Workers : result[t] = sum

(* The strengthening the invariants above need: what the program counters  *)
(* say of the loop counters, of the mutex and of what main waited for.     *)
Bookkeeping ==
  /\ \A t \in Workers :
       /\ pc[t] \in {"none", "arg", "lock"} => j[t] = 0
       /\ pc[t] = "store" => j[t] < cnt[t]
       /\ pc[t] \in {"report", "end"} => j[t] >= cnt[t]
       /\ pc[t] \notin {"none", "arg"} /\ ~Dispatched => cnt[t] = Loops
       /\ mutex = t => locking /\ InLoop(t)
       /\ locking /\ InLoop(t) => mutex = t \/ destroyed
       /\ locking /\ pc[t] = "store" => reg[t] = sum
  /\ mpc = "create_inc" => pc["inc"] = "none"
  /\ mpc \in {"create_inc", "create_des"} => pc["des"] = "none"
  /\ mpc \in {"join_des", "print"} => pc["inc"] = "end"
  /\ mpc = "print" => pc["des"] = "end"
  /\ Dispatched => pc["des"] = "none" \/ \A t \in Workers : pc[t] = "end"
  /\ destroyed => mpc \in {"return", "exit"} /\ mutex = Nobody
  /\ (\A t \in Workers : pc[t] \in {"report", "end"}) =>
       \E t \in Workers : pc[t] = "report" \/ result[t] = sum

IndInv == TypeOK /\ WithinLostUpdates /\ NoLostUpdate /\ Bookkeeping

Atomic == INSTANCE AtomicSum WITH
  total    <- sum - Partial("inc") - Partial("des"),
  finished <- {t \in Workers : pc[t] \in {"report", "end"}}

(* With the mutex each loop is one atomic change of sum (AtomicSum), as    *)
(* long as thread_dispatch, whose local tells how far to count, has not    *)
(* returned.                                                               *)
LoopsAreAtomic ==
  Atomic!Init /\ [][locking /\ ~Dispatched => Atomic!Next]_(Atomic!vars)

(* Both workers come to an end and main prints, unless a create failed.    *)
MainEnds == <>(mpc = "exit")
=============================================================================
