-------------------------- MODULE ThreadSumProofs ---------------------------
(***************************************************************************)
(* For every number of iterations: with the mutex no update is lost and    *)
(* each loop is one atomic change of sum; without it, sum stays within     *)
(* what lost updates can make of it.                                       *)
(***************************************************************************)
EXTENDS ThreadSum, TLAPS

USE LoopsAssumption, NobodyAssumption DEF Workers, Step

(* The initial state satisfies the inductive invariant.                    *)
LEMMA InitIndInv == Init => IndInv
  <1> SUFFICES ASSUME Init PROVE IndInv
    OBVIOUS
  <1>1. TypeOK /\ WithinLostUpdates
    <2>1. \A t \in Workers : j[t] = 0
      BY DEF Init
    <2>2. cnt \in [Workers -> Int] /\ j \in [Workers -> Nat]
      BY DEF Init
    <2>3. TypeOK
      BY <2>1, <2>2 DEF Init, TypeOK
    <2>4. WithinLostUpdates
      BY DEF Init, WithinLostUpdates
    <2>5. QED
      BY <2>3, <2>4
  <1>2. NoLostUpdate /\ Bookkeeping
    BY DEF Init, NoLostUpdate, Bookkeeping, InLoop, Dispatched
  <1>3. QED
    BY <1>1, <1>2 DEF IndInv

(* A step of main changes none of the workers' data.                       *)
LEMMA MainKeeps ==
  ASSUME IndInv, MainThread
  PROVE  IndInv'
  <1> USE DEF IndInv, Dispatched, AfterDispatch
  <1>1. ASSUME NEW t \in Workers, NEW at, NEW next, Create(t, at, next),
               <<t, at, next>> \in {<<"inc", "create_inc", "create_des">>,
                                    <<"des", "create_des", "join_inc">>}
        PROVE  IndInv'
    <2>1. pc[t] = "none" /\ j[t] = 0 /\ mutex # t
      BY <1>1 DEF Create, Bookkeeping, InLoop
    <2>2. TypeOK'
      BY <1>1 DEF Create, TypeOK
    <2>3. WithinLostUpdates'
      BY <1>1 DEF Create, WithinLostUpdates
    <2>4. NoLostUpdate'
      BY <1>1, <2>1 DEF Create, NoLostUpdate, InLoop, TypeOK, Bookkeeping
    <2>5. Bookkeeping'
      BY <1>1, <2>1 DEF Create, Bookkeeping, InLoop, TypeOK
    <2>6. QED
      BY <2>2, <2>3, <2>4, <2>5
  <1>2. ASSUME NEW t \in Workers, NEW at, NEW next, Join(t, at, next),
               <<t, at, next>> \in {<<"inc", "join_inc", "join_des">>,
                                    <<"des", "join_des", "print">>}
        PROVE  IndInv'
    BY <1>2 DEF Join, TypeOK, WithinLostUpdates, NoLostUpdate, Bookkeeping, InLoop
  <1>3. CASE PrintSum
    <2>1. TypeOK' /\ WithinLostUpdates'
      BY <1>3 DEF PrintSum, TypeOK, WithinLostUpdates
    <2>2. j["inc"] = Loops /\ j["des"] = Loops
      BY <1>3 DEF PrintSum, TypeOK, Bookkeeping
    <2>3. NoLostUpdate' /\ Bookkeeping'
      BY <1>3, <2>2 DEF PrintSum, TypeOK, NoLostUpdate, Bookkeeping, InLoop
    <2>4. QED
      BY <2>1, <2>3
  <1>4. CASE DestroyMutex
    BY <1>4 DEF DestroyMutex, TypeOK, WithinLostUpdates, NoLostUpdate, Bookkeeping, InLoop
  <1>5. CASE Return
    BY <1>5 DEF Return, TypeOK, WithinLostUpdates, NoLostUpdate, Bookkeeping, InLoop
  <1>6. QED
    BY <1>1, <1>2, <1>3, <1>4, <1>5 DEF MainThread

LEMMA ReadArgKeeps ==
  ASSUME IndInv, NEW t \in Workers, ReadArg(t)
  PROVE  IndInv'
  <1> USE DEF IndInv, Dispatched
  <1>1. TypeOK' /\ WithinLostUpdates'
    BY DEF ReadArg, TypeOK, WithinLostUpdates, Bookkeeping
  <1>2. NoLostUpdate' /\ Bookkeeping'
    BY DEF ReadArg, TypeOK, NoLostUpdate, Bookkeeping, InLoop
  <1>3. QED
    BY <1>1, <1>2

LEMMA LockKeeps ==
  ASSUME IndInv, NEW t \in Workers, Lock(t)
  PROVE  IndInv'
  <1> USE DEF IndInv, Dispatched
  <1>1. TypeOK' /\ WithinLostUpdates'
    BY DEF Lock, TypeOK, WithinLostUpdates
  <1>2. NoLostUpdate'
    BY DEF Lock, TypeOK, NoLostUpdate, Bookkeeping, InLoop
  <1>3. Bookkeeping'
    BY DEF Lock, TypeOK, Bookkeeping, InLoop
  <1>4. QED
    BY <1>1, <1>2, <1>3

LEMMA LoadKeeps ==
  ASSUME IndInv, NEW t \in Workers, Load(t)
  PROVE  IndInv'
  <1> USE DEF IndInv, Dispatched
  <1>1. TypeOK' /\ WithinLostUpdates'
    BY DEF Load, TypeOK, WithinLostUpdates
  <1>2. NoLostUpdate' /\ Bookkeeping'
    BY DEF Load, TypeOK, NoLostUpdate, Bookkeeping, InLoop
  <1>3. QED
    BY <1>1, <1>2

(* The loaded value is out of date only without the mutex; with it nobody  *)
(* else is between a load and a store.                                     *)
LEMMA StoreKeeps ==
  ASSUME IndInv, NEW t \in Workers, Store(t)
  PROVE  IndInv'
  <1> USE DEF IndInv, Dispatched
  <1>1. /\ pc[t] = "store" /\ j[t] < cnt[t] /\ mpc # "exit"
        /\ sum' = reg[t] + Step(t) /\ j' = [j EXCEPT ![t] = @ + 1]
        /\ pc' = [pc EXCEPT ![t] = "load"]
        /\ UNCHANGED <<locking, mpc, cnt, reg, mutex, destroyed, result, printed>>
    BY DEF Store, Bookkeeping
  <1>2. TypeOK' /\ WithinLostUpdates'
    <2>1. TypeOK'
      <3>1. cnt \in [Workers -> Int] /\ j \in [Workers -> Nat]
        BY DEF TypeOK
      <3>2. j' \in [Workers -> Nat] /\ \A u \in Workers : j'[u] = 0 \/ j'[u] <= cnt[u]
        BY <1>1, <3>1 DEF TypeOK
      <3>3. sum' \in Int
        BY <1>1 DEF TypeOK
      <3>4. QED
        BY <1>1, <3>2, <3>3 DEF TypeOK
    <2>2. WithinLostUpdates'
      BY <1>1 DEF TypeOK, WithinLostUpdates
    <2>3. QED
      BY <2>1, <2>2
  <1>3. \A u \in Workers : locking /\ u # t => ~ InLoop(u)
    BY <1>1 DEF NoLostUpdate, InLoop
  <1>4. locking => reg[t] = sum
    BY <1>1 DEF Bookkeeping
  <1>5. NoLostUpdate'
    BY <1>1, <1>3, <1>4 DEF NoLostUpdate, InLoop, TypeOK
  <1>6. Bookkeeping'
    BY <1>1, <1>3 DEF Bookkeeping, InLoop, TypeOK
  <1>7. QED
    BY <1>2, <1>5, <1>6

LEMMA UnlockKeeps ==
  ASSUME IndInv, NEW t \in Workers, Unlock(t)
  PROVE  IndInv'
  <1> USE DEF IndInv, Dispatched
  <1>1. TypeOK' /\ WithinLostUpdates'
    BY DEF Unlock, TypeOK, WithinLostUpdates
  <1>2. NoLostUpdate' /\ Bookkeeping'
    BY DEF Unlock, TypeOK, NoLostUpdate, Bookkeeping, InLoop
  <1>3. QED
    BY <1>1, <1>2

LEMMA ReportKeeps ==
  ASSUME IndInv, NEW t \in Workers, Report(t)
  PROVE  IndInv'
  <1> USE DEF IndInv, Dispatched
  <1>1. TypeOK' /\ WithinLostUpdates'
    BY DEF Report, TypeOK, WithinLostUpdates
  <1>2. NoLostUpdate' /\ Bookkeeping'
    BY DEF Report, TypeOK, NoLostUpdate, Bookkeeping, InLoop
  <1>3. QED
    BY <1>1, <1>2

(* IndInv is inductive, hence an invariant.                                *)
THEOREM Invariance == Spec => []IndInv
  <1>1. IndInv /\ [Next]_vars => IndInv'
    <2> SUFFICES ASSUME IndInv, [Next]_vars PROVE IndInv'
      OBVIOUS
    <2>1. CASE MainThread
      BY <2>1, MainKeeps
    <2>2. ASSUME NEW t \in Workers, Worker(t) PROVE IndInv'
      BY <2>2, ReadArgKeeps, LockKeeps, LoadKeeps, StoreKeeps, UnlockKeeps, ReportKeeps DEF Worker
    <2>3. CASE UNCHANGED vars
      BY <2>3 DEF vars, IndInv, TypeOK, WithinLostUpdates, NoLostUpdate,
         Bookkeeping, InLoop, Dispatched
    <2>4. QED
      BY <2>1, <2>2, <2>3 DEF Next, Exited
  <1>2. QED
    BY <1>1, InitIndInv, PTL DEF Spec

(* Both programs: the types, and the bounds lost updates leave.            *)
THEOREM Bounds == Spec => [](TypeOK /\ WithinLostUpdates)
  BY Invariance, PTL DEF IndInv

(* thread_mutex.c: no update is lost, main prints 0, even when a create    *)
(* failed and a worker outlives thread_dispatch.                           *)
THEOREM MutexKeepsUpdates == Spec => []NoLostUpdate
  BY Invariance, PTL DEF IndInv

(* Whoever finished last reported what main prints.                        *)
THEOREM LastReport == Spec => []SomeReportIsFinal
  <1>1. IndInv => SomeReportIsFinal
    BY DEF IndInv, Bookkeeping, SomeReportIsFinal, TypeOK, Dispatched
  <1>2. QED
    BY <1>1, Invariance, PTL

-----------------------------------------------------------------------------
(* thread_mutex.c implements AtomicSum: a loop takes effect, as far as the *)
(* abstract sum can tell, when it is left.                                 *)
THEOREM LoopsAtomic == Spec => LoopsAreAtomic
  <1>1. Init => Atomic!Init
    BY DEF Init, Atomic!Init, Partial, InLoop
  <1>2. IndInv /\ IndInv' /\ [Next]_vars =>
          [locking /\ ~Dispatched => Atomic!Next]_(Atomic!vars)
    <2> SUFFICES ASSUME IndInv, IndInv', [Next]_vars, locking, ~Dispatched
                 PROVE  Atomic!Next \/ UNCHANGED Atomic!vars
      OBVIOUS
    <2> USE DEF Partial, InLoop, Dispatched, Atomic!vars
    <2>1. CASE MainThread
      BY <2>1 DEF MainThread, Create, Join, PrintSum, DestroyMutex, Return, IndInv, TypeOK,
         Bookkeeping
    <2>2. ASSUME NEW t \in Workers, ReadArg(t) \/ Lock(t) \/ Load(t) \/ Store(t) \/ Report(t)
          PROVE  UNCHANGED Atomic!vars
      <3>5. CASE ReadArg(t)
        BY <3>5 DEF ReadArg, IndInv, TypeOK, Bookkeeping
      <3>1. CASE Lock(t)
        BY <3>1 DEF Lock, IndInv, TypeOK, Bookkeeping
      <3>2. CASE Load(t)
        BY <3>2 DEF Load, IndInv, TypeOK
      <3>3. CASE Store(t)
        <4>1. /\ pc[t] = "store" /\ pc' = [pc EXCEPT ![t] = "load"]
              /\ j' = [j EXCEPT ![t] = @ + 1] /\ sum' = sum + Step(t)
          BY <3>3 DEF Store, IndInv, Bookkeeping
        <4>2. QED
          BY <4>1 DEF IndInv, TypeOK
      <3>4. CASE Report(t)
        BY <3>4 DEF Report, IndInv, TypeOK
      <3>6. QED
        BY <2>2, <3>1, <3>2, <3>3, <3>4, <3>5
    <2>3. ASSUME NEW t \in Workers, Unlock(t) PROVE Atomic!Run(t)
      BY <2>3 DEF Unlock, Atomic!Run, IndInv, TypeOK, Bookkeeping
    <2>4. CASE UNCHANGED vars
      BY <2>4 DEF vars
    <2>5. QED
      BY <2>1, <2>2, <2>3, <2>4 DEF Next, Exited, Worker, Atomic!Next
  <1>3. QED
    BY <1>1, <1>2, Invariance, PTL DEF Spec, LoopsAreAtomic
=============================================================================
