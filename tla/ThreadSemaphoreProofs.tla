----------------------- MODULE ThreadSemaphoreProofs ------------------------
(***************************************************************************)
(* For every number of rounds and every set of numbers: the two semaphores *)
(* pass one token round, so each number is added exactly once and num with *)
(* its semaphores implements a one-place buffer.                           *)
(***************************************************************************)
EXTENDS ThreadSemaphore, TLAPS

USE LoopAssumption, NumbersAssumption, EmptyAssumption DEF Has

(* The initial state satisfies the inductive invariant.                    *)
LEMMA InitIndInv == Init => IndInv
  <1> SUFFICES ASSUME Init PROVE IndInv
    OBVIOUS
  <1>1. TypeOK
    <2>1. 0 \in 0 .. LOOP_SIZE /\ 0 \in 0 .. 1 /\ 1 \in 0 .. 1 /\ 0 \in Int
      OBVIOUS
    <2>2. QED
      BY <2>1 DEF Init, TypeOK
  <1>2. EachAddedOnce /\ DestroyedUnused
    BY DEF Init, EachAddedOnce, Pending, DestroyedUnused
  <1>3. Bookkeeping
    BY DEF Init, Bookkeeping
  <1>4. QED
    BY <1>1, <1>2, <1>3 DEF IndInv

LEMMA MainKeeps ==
  ASSUME IndInv, MainThread
  PROVE  IndInv'
  <1> USE DEF IndInv, rVars, aVars
  <1>1. CASE CreateRead \/ CreateAccu
    <2>1. TypeOK' /\ EachAddedOnce' /\ DestroyedUnused'
      BY <1>1 DEF CreateRead, CreateAccu, TypeOK, EachAddedOnce, Pending,
         DestroyedUnused, Bookkeeping
    <2>2. CASE CreateRead
      <3>1. Bookkeeping'
        BY <2>2 DEF CreateRead, TypeOK, Bookkeeping
      <3>2. QED
        BY <2>1, <3>1
    <2>3. CASE CreateAccu
      <3>1. Bookkeeping'
        BY <2>3 DEF CreateAccu, TypeOK, Bookkeeping
      <3>2. QED
        BY <2>1, <3>1
    <2>4. QED
      BY <1>1, <2>2, <2>3
  <1>2. CASE JoinRead \/ JoinAccu
    BY <1>2 DEF JoinRead, JoinAccu, TypeOK, EachAddedOnce, Pending,
       DestroyedUnused, Bookkeeping
  <1>3. CASE Destroy
    BY <1>3 DEF Destroy, TypeOK, EachAddedOnce, Pending, DestroyedUnused, Bookkeeping
  <1>4. QED
    BY <1>1, <1>2, <1>3 DEF MainThread

LEMMA ReaderKeeps ==
  ASSUME IndInv, Reader
  PROVE  IndInv'
  <1> USE DEF IndInv, rVars, aVars
  <1>1. CASE WaitTwo
    BY <1>1 DEF WaitTwo, TypeOK, EachAddedOnce, Pending, DestroyedUnused, Bookkeeping
  <1>2. CASE Scan
    BY <1>2 DEF Scan, TypeOK, EachAddedOnce, Pending, DestroyedUnused, Bookkeeping
  <1>3. CASE PostOne
    BY <1>3 DEF PostOne, TypeOK, EachAddedOnce, Pending, DestroyedUnused, Bookkeeping
  <1>4. QED
    BY <1>1, <1>2, <1>3 DEF Reader

LEMMA AccumulatorKeeps ==
  ASSUME IndInv, Accumulator
  PROVE  IndInv'
  <1> USE DEF IndInv, rVars, aVars
  <1>1. CASE WaitOne
    BY <1>1 DEF WaitOne, TypeOK, EachAddedOnce, Pending, DestroyedUnused, Bookkeeping
  <1>2. CASE LoadNum
    BY <1>2 DEF LoadNum, TypeOK, EachAddedOnce, Pending, DestroyedUnused, Bookkeeping
  <1>3. CASE AddNum
    BY <1>3 DEF AddNum, TypeOK, EachAddedOnce, Pending, DestroyedUnused, Bookkeeping
  <1>4. CASE PostTwo
    BY <1>4 DEF PostTwo, TypeOK, EachAddedOnce, Pending, DestroyedUnused, Bookkeeping
  <1>5. QED
    BY <1>1, <1>2, <1>3, <1>4 DEF Accumulator

(* IndInv is inductive, hence an invariant.                                *)
THEOREM Invariance == Spec => []IndInv
  <1>1. IndInv /\ [Next]_vars => IndInv'
    <2> SUFFICES ASSUME IndInv, [Next]_vars PROVE IndInv'
      OBVIOUS
    <2>1. CASE UNCHANGED vars
      BY <2>1 DEF vars, rVars, aVars, IndInv, TypeOK, EachAddedOnce, Pending,
         DestroyedUnused, Bookkeeping
    <2>2. QED
      BY <2>1, MainKeeps, ReaderKeeps, AccumulatorKeeps DEF Next, Exited
  <1>2. QED
    BY <1>1, InitIndInv, PTL DEF Spec

(* The types: both semaphores stay binary.                                 *)
THEOREM TypeCorrect == Spec => []TypeOK
  BY Invariance, PTL DEF IndInv

(* No number is lost, none is added twice.                                 *)
THEOREM AddedOnce == Spec => []EachAddedOnce
  BY Invariance, PTL DEF IndInv

(* The reader is at most one number ahead and never writes num while accu  *)
(* uses it.                                                                *)
THEOREM Turns == Spec => []TakeTurns
  <1>1. IndInv => TakeTurns
    BY DEF IndInv, TypeOK, Bookkeeping, TakeTurns
  <1>2. QED
    BY <1>1, Invariance, PTL

(* The semaphores are destroyed only after their last use.                 *)
THEOREM DestroyedLast == Spec => []DestroyedUnused
  BY Invariance, PTL DEF IndInv

-----------------------------------------------------------------------------
(* Scan puts a number into the buffer, AddNum takes it out, every other    *)
(* step leaves the buffer as it is.                                        *)
THEOREM Refinement == Spec => ImplementsBuffer
  <1>1. Init => Buffer!Init
    BY DEF Init, Buffer!Init, Pending
  <1>2. IndInv /\ [Next]_vars => [Buffer!Next]_(Buffer!vars)
    <2> SUFFICES ASSUME IndInv, [Next]_vars
                 PROVE  Buffer!Next \/ UNCHANGED Buffer!vars
      OBVIOUS
    <2> USE DEF IndInv, TypeOK, Bookkeeping, Pending, rVars, aVars
    <2>1. CASE MainThread
      BY <2>1 DEF MainThread, CreateRead, CreateAccu, JoinRead, JoinAccu, Destroy,
         Buffer!vars
    <2>2. CASE WaitTwo \/ PostOne \/ WaitOne \/ LoadNum \/ PostTwo
      BY <2>2 DEF WaitTwo, PostOne, WaitOne, LoadNum, PostTwo, Buffer!vars
    <2>3. CASE Scan
      <3>1. ~ Pending /\ Pending' /\ num' \in Numbers /\ UNCHANGED sum
        BY <2>3 DEF Scan
      <3>2. Buffer!Put
        BY <3>1 DEF Buffer!Put
      <3>3. QED
        BY <3>2 DEF Buffer!Next
    <2>4. CASE AddNum
      <3>1. Pending /\ ~ Pending' /\ sum' = sum + num /\ num \in Numbers
        BY <2>4 DEF AddNum
      <3>2. Buffer!Take
        BY <3>1 DEF Buffer!Take
      <3>3. QED
        BY <3>2 DEF Buffer!Next
    <2>5. CASE UNCHANGED vars
      BY <2>5 DEF vars, Buffer!vars
    <2>6. QED
      BY <2>1, <2>2, <2>3, <2>4, <2>5 DEF Next, Reader, Accumulator, Exited
  <1>3. QED
    BY <1>1, <1>2, Invariance, PTL DEF Spec, ImplementsBuffer, Buffer!Spec
=============================================================================
