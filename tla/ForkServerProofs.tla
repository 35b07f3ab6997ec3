-------------------------- MODULE ForkServerProofs --------------------------
(***************************************************************************)
(* For every set of clients, buffer and pipe: the types, that a process    *)
(* which ended is noticed although SIGCHLD is not queued, that nobody      *)
(* keeps a copy of another's connection, and that the bytes of each client *)
(* are stored whole and in order, are invariants of ForkServer.            *)
(***************************************************************************)
EXTENDS ForkServer, SequenceTheorems, TLAPS

USE SizesAssumption, NamesAssumption

(* The initial state satisfies the inductive invariant.                    *)
LEMMA InitIndInv == Init => IndInv
  <1> SUFFICES ASSUME Init PROVE IndInv
    OBVIOUS
  <1>1. spc \in {"none", "read"} /\ opened \in BOOLEAN
    BY DEF Init
  <1>2. TypeOK
    <2>1. /\ backlog \in Seq(Clients) /\ holds \in [Processes -> SUBSET Clients]
          /\ pipe \in Seq(Clients \X Nat) /\ file \in Seq(Clients \X Nat) /\ Len(pipe) = 0
      BY DEF Init
    <2>2. /\ arrived \in [Clients -> Nat] /\ taken \in [Clients -> Nat]
          /\ echoed \in [Clients -> Nat] /\ len \in [Clients -> 0 .. BUFFER_SIZE]
          /\ \A c \in Clients : echoed[c] <= taken[c] /\ taken[c] <= arrived[c]
      BY DEF Init
    <2>3. rounds \in 0 .. Rounds
      BY DEF Init
    <2>4. /\ storing \in BOOLEAN /\ pending \in BOOLEAN /\ inHandler \in BOOLEAN
          /\ peer \in [Clients -> {"idle", "open", "closed", "reset"}]
          /\ mpc \in {"accept", "fork", "close"} /\ client_fd \in Clients \cup {NoClient}
          /\ hpc \in [Clients -> {"none", "read", "pipe", "write", "exit", "zombie",
                                  "reaped"}]
      BY DEF Init
    <2>5. QED
      BY <1>1, <2>1, <2>2, <2>3, <2>4 DEF TypeOK
  <1>3. ZombiesNoticed /\ NoStrayCopies
    BY <1>1 DEF Init, ZombiesNoticed, Zombies, NoStrayCopies, Processes
  <1>4. Bookkeeping
    BY DEF Init, Bookkeeping
  <1>5. QED
    BY <1>2, <1>3, <1>4 DEF IndInv

(* What the buffer of a handler holds is a sequence of its bytes.          *)
LEMMA BufferedType ==
  ASSUME TypeOK, Bookkeeping, NEW h \in Clients
  PROVE  Buffered(h) \in Seq(Clients \X Nat) /\ Len(Buffered(h)) = len[h]
  <1>1. len[h] \in Nat /\ taken[h] \in Nat /\ len[h] <= taken[h]
    BY DEF TypeOK, Bookkeeping
  <1>2. \A n \in 1 .. len[h] : taken[h] - len[h] + n \in Nat
    BY <1>1
  <1>3. Buffered(h) \in [1 .. len[h] -> Clients \X Nat]
    BY <1>2 DEF Buffered
  <1>4. QED
    BY <1>1, <1>3

(* The clients change nothing the invariant says of the processes.         *)
LEMMA ClientKeeps ==
  ASSUME IndInv, NEW c \in Clients, Client(c)
  PROVE  IndInv'
  <1> USE DEF IndInv
  <1>1. UNCHANGED <<mainVars, pending, holds, hVars, storeVars, taken, echoed>>
    BY DEF Client, Connect, Arrive, Leave
  <1>2. TypeOK'
    <2>1. CASE Connect(c)
      <3>1. backlog' \in Seq(Clients)
        BY <2>1 DEF Connect, TypeOK
      <3>2. peer' \in [Clients -> {"idle", "open", "closed", "reset"}]
        BY <2>1 DEF Connect, TypeOK
      <3>3. QED
        BY <2>1, <3>1, <3>2 DEF Connect, TypeOK, confVars, mainVars, hVars, storeVars
    <2>2. CASE Arrive(c)
      <3>1. arrived' \in [Clients -> Nat] /\ \A d \in Clients : arrived[d] <= arrived'[d]
        BY <2>2, SMTT(30) DEF Arrive, TypeOK
      <3>2. \A d \in Clients : echoed[d] <= taken[d] /\ taken[d] <= arrived'[d]
        BY <3>1, SMTT(30) DEF TypeOK
      <3>3. QED
        BY <2>2, <3>1, <3>2 DEF Arrive, TypeOK, confVars, mainVars, hVars, storeVars
    <2>3. CASE Leave(c)
      BY <2>3 DEF Leave, TypeOK, confVars, mainVars, hVars, storeVars
    <2>4. QED
      BY <2>1, <2>2, <2>3 DEF Client
  <1>3. ZombiesNoticed' /\ NoStrayCopies' /\ Bookkeeping'
    BY <1>1 DEF ZombiesNoticed, Zombies, NoStrayCopies, Bookkeeping, mainVars, hVars,
       storeVars
  <1>4. QED
    BY <1>2, <1>3

-----------------------------------------------------------------------------
(* The parent.                                                             *)

LEMMA AcceptKeeps ==
  ASSUME IndInv, Accept \/ AcceptFails
  PROVE  IndInv'
  <1> USE DEF IndInv
  <1>1. Head(backlog) \in Clients /\ Tail(backlog) \in Seq(Clients)
    BY DEF Accept, AcceptFails, TypeOK
  <1>2. CASE Accept
    <2>1. TypeOK'
      BY <1>1, <1>2 DEF Accept, TypeOK, Processes, confVars, hVars, storeVars
    <2>2. ZombiesNoticed'
      BY <1>2 DEF Accept, ZombiesNoticed, Zombies, hVars, storeVars
    <2>3. holds[Parent] = {} /\ holds' = [holds EXCEPT ![Parent] = {Head(backlog)}]
      BY <1>2 DEF Accept, NoStrayCopies
    <2>4. NoStrayCopies'
      BY <1>1, <1>2, <2>3 DEF Accept, NoStrayCopies, TypeOK, Processes
    <2>5. Bookkeeping'
      BY <1>1, <1>2, <2>3 DEF Accept, Bookkeeping, TypeOK, Processes, hVars, storeVars
    <2>6. QED
      BY <2>1, <2>2, <2>4, <2>5
  <1>3. CASE AcceptFails
    <2>1. TypeOK'
      BY <1>1, <1>3 DEF AcceptFails, TypeOK, confVars, mainVars, hVars, storeVars
    <2>2. ZombiesNoticed' /\ NoStrayCopies' /\ Bookkeeping'
      BY <1>3 DEF AcceptFails, ZombiesNoticed, Zombies, NoStrayCopies, Bookkeeping,
         mainVars, hVars, storeVars
    <2>3. QED
      BY <2>1, <2>2
  <1>4. QED
    BY <1>2, <1>3

(* The child gets the parent's one connection and no other.                *)
LEMMA ForkKeeps ==
  ASSUME IndInv, Fork
  PROVE  IndInv'
  <1> USE DEF IndInv
  <1>1. client_fd \in Clients /\ holds[Parent] \subseteq {client_fd}
    BY DEF Fork, Bookkeeping
  <1>2. TypeOK'
    BY <1>1 DEF Fork, TypeOK, Processes, confVars, netVars, storeVars
  <1>3. ZombiesNoticed'
    BY <1>1 DEF Fork, ZombiesNoticed, Zombies, TypeOK, storeVars
  <1>4. holds'[Parent] = holds[Parent]
    BY <1>1 DEF Fork, TypeOK, Processes
  <1>5. NoStrayCopies'
    <2>1. mpc' # "accept"
      BY DEF Fork
    <2>2. \A c \in Clients : holds'[c] = holds[c] \/ (c = client_fd /\ holds'[c] = holds[Parent])
      BY <1>1 DEF Fork, TypeOK, Processes
    <2>3. QED
      BY <1>1, <2>1, <2>2 DEF NoStrayCopies
  <1>6. Bookkeeping'
    BY <1>1, <1>4 DEF Fork, Bookkeeping, TypeOK, netVars, storeVars
  <1>7. QED
    BY <1>2, <1>3, <1>5, <1>6

LEMMA CloseInParentKeeps ==
  ASSUME IndInv, CloseInParent
  PROVE  IndInv'
  <1> USE DEF IndInv
  <1>1. holds[Parent] \subseteq {client_fd}
    BY DEF CloseInParent, Bookkeeping
  <1>2. holds' = [holds EXCEPT ![Parent] = {}]
    BY <1>1 DEF CloseInParent
  <1>3. TypeOK'
    BY <1>2 DEF CloseInParent, TypeOK, Processes, confVars, netVars, hVars, storeVars
  <1>4. ZombiesNoticed'
    BY DEF CloseInParent, ZombiesNoticed, Zombies, hVars, storeVars
  <1>5. NoStrayCopies'
    BY <1>2 DEF CloseInParent, NoStrayCopies, TypeOK, Processes
  <1>6. Bookkeeping'
    BY DEF CloseInParent, Bookkeeping, netVars, hVars, storeVars
  <1>7. QED
    BY <1>3, <1>4, <1>5, <1>6

(* The signal handler: it leaves no process behind when it ends.           *)
LEMMA SignalKeeps ==
  ASSUME IndInv, EnterHandler \/ Reap \/ LeaveHandler
  PROVE  IndInv'
  <1> USE DEF IndInv
  <1>1. CASE EnterHandler
    <2>1. TypeOK'
      BY <1>1 DEF EnterHandler, TypeOK, confVars, netVars, hVars, storeVars
    <2>2. ZombiesNoticed'
      BY <1>1 DEF EnterHandler, ZombiesNoticed, Zombies, hVars, storeVars
    <2>3. NoStrayCopies' /\ Bookkeeping'
      BY <1>1 DEF EnterHandler, NoStrayCopies, Bookkeeping, netVars, hVars, storeVars
    <2>4. QED
      BY <2>1, <2>2, <2>3
  <1>2. CASE Reap
    <2>1. TypeOK'
      BY <1>2 DEF Reap, Collect, TypeOK, confVars, netVars, mainVars
    <2>2. ZombiesNoticed' /\ NoStrayCopies'
      BY <1>2 DEF Reap, ZombiesNoticed, NoStrayCopies, mainVars
    <2>3. Bookkeeping'
      BY <1>2 DEF Reap, Collect, Bookkeeping, TypeOK, netVars, mainVars
    <2>4. QED
      BY <2>1, <2>2, <2>3
  <1>3. CASE LeaveHandler
    <2>1. TypeOK'
      BY <1>3 DEF LeaveHandler, TypeOK, confVars, netVars, hVars, storeVars
    <2>2. ZombiesNoticed'
      BY <1>3 DEF LeaveHandler, ZombiesNoticed, Zombies, hVars, storeVars
    <2>3. NoStrayCopies' /\ Bookkeeping'
      BY <1>3 DEF LeaveHandler, NoStrayCopies, Bookkeeping, netVars, hVars, storeVars
    <2>4. QED
      BY <2>1, <2>2, <2>3
  <1>4. QED
    BY <1>1, <1>2, <1>3

-----------------------------------------------------------------------------
(* The handlers and the storing process.                                   *)

LEMMA ReadKeeps ==
  ASSUME IndInv, NEW h \in Clients, Read(h)
  PROVE  IndInv'
  <1> USE DEF IndInv
  <1> DEFINE n == Min2(arrived[h] - taken[h], BUFFER_SIZE)
  <1>1. taken[h] \in Nat /\ arrived[h] \in Nat /\ echoed[h] \in Nat
    BY DEF TypeOK
  <1>2. n \in 0 .. BUFFER_SIZE /\ n <= arrived[h] - taken[h]
    BY <1>1 DEF Min2, Read
  <1>3. len' = [len EXCEPT ![h] = n] /\ len'[h] = n
    BY DEF Read, TypeOK
  <1>4. taken' = [taken EXCEPT ![h] = @ + n]
    BY <1>3 DEF Read
  <1>5. \E s \in {"pipe", "write"} : hpc' = [hpc EXCEPT ![h] = s]
    BY DEF Read
  <1> HIDE DEF n
  <1>6. TypeOK'
    <2>1. /\ taken' \in [Clients -> Nat] /\ len' \in [Clients -> 0 .. BUFFER_SIZE]
          /\ hpc' \in [Clients -> {"none", "read", "pipe", "write", "exit", "zombie", "reaped"}]
      BY <1>1, <1>2, <1>3, <1>4, <1>5, SMTT(30) DEF TypeOK
    <2>2. \A c \in Clients : echoed[c] <= taken'[c] /\ taken'[c] <= arrived[c]
      BY <1>1, <1>2, <1>4 DEF TypeOK
    <2>3. QED
      BY <2>1, <2>2 DEF Read, TypeOK, confVars, mainVars, storeVars
  <1>7. ZombiesNoticed' /\ NoStrayCopies'
    BY <1>5 DEF Read, ZombiesNoticed, Zombies, NoStrayCopies, TypeOK, mainVars, storeVars
  <1>8. len'[h] <= taken'[h] /\ echoed[h] + len'[h] <= taken'[h]
    BY <1>1, <1>2, <1>3, <1>4 DEF TypeOK
  <1>9. Bookkeeping'
    BY <1>3, <1>4, <1>5, <1>8 DEF Read, Bookkeeping, TypeOK, mainVars, storeVars
  <1>10. QED
    BY <1>6, <1>7, <1>9

LEMMA PipeWriteKeeps ==
  ASSUME IndInv, NEW h \in Clients, PipeWrite(h)
  PROVE  IndInv'
  <1> USE DEF IndInv
  <1>1. Buffered(h) \in Seq(Clients \X Nat) /\ Len(Buffered(h)) = len[h]
    BY BufferedType
  <1>2. pipe' \in Seq(Clients \X Nat) /\ Len(pipe') <= PipeSize
    BY <1>1 DEF PipeWrite, TypeOK
  <1>3. TypeOK'
    BY <1>2 DEF PipeWrite, TypeOK, confVars, netVars, mainVars, storeVars
  <1>4. hpc[h] = "pipe" /\ hpc' = [hpc EXCEPT ![h] = "write"]
    BY DEF PipeWrite
  <1>5. ZombiesNoticed' /\ NoStrayCopies'
    BY <1>4, SMTT(30) DEF PipeWrite, TypeOK, ZombiesNoticed, Zombies, NoStrayCopies, mainVars,
       storeVars
  <1>6. Bookkeeping'
    BY <1>4 DEF PipeWrite, TypeOK, Bookkeeping, netVars, mainVars, storeVars
  <1>7. QED
    BY <1>3, <1>5, <1>6

LEMMA EchoKeeps ==
  ASSUME IndInv, NEW h \in Clients, Echo(h)
  PROVE  IndInv'
  <1> USE DEF IndInv
  <1>1. /\ len[h] \in Nat /\ echoed[h] \in Nat /\ taken[h] \in Nat
        /\ echoed[h] + len[h] <= taken[h]
    BY DEF Echo, TypeOK, Bookkeeping
  <1> DEFINE more == echoed[h] + len[h]
  <1>2. echoed' \in [Clients -> Nat] /\ \A c \in Clients : echoed'[c] <= taken[c]
    <2>1. more \in Nat /\ more <= taken[h]
      BY <1>1
    <2>2. echoed' = echoed \/ echoed' = [echoed EXCEPT ![h] = more]
      BY DEF Echo
    <2> HIDE DEF more
    <2>3. echoed \in [Clients -> Nat] /\ \A c \in Clients : echoed[c] <= taken[c]
      BY DEF TypeOK
    <2>4. QED
      BY <2>1, <2>2, <2>3
  <1>3. hpc' = [hpc EXCEPT ![h] = "read"] /\ len' = [len EXCEPT ![h] = 0]
    BY DEF Echo
  <1>4. TypeOK'
    <2>1. /\ len' \in [Clients -> 0 .. BUFFER_SIZE]
          /\ hpc' \in [Clients -> {"none", "read", "pipe", "write", "exit", "zombie",
                                   "reaped"}]
      BY <1>3 DEF TypeOK
    <2>2. peer' \in [Clients -> {"idle", "open", "closed", "reset"}]
      BY DEF Echo, TypeOK
    <2>3. UNCHANGED <<confVars, backlog, arrived, taken, mainVars, pending, holds,
                      storeVars, pipe>>
      BY DEF Echo
    <2>4. QED
      BY <1>2, <2>1, <2>2, <2>3 DEF TypeOK, confVars, mainVars, storeVars
  <1>5. ZombiesNoticed' /\ NoStrayCopies'
    BY <1>3, SMTT(30) DEF Echo, ZombiesNoticed, Zombies, NoStrayCopies, TypeOK, mainVars, storeVars
  <1>6. Bookkeeping'
    <2>1. \A c \in Clients : c # h => hpc'[c] = hpc[c] /\ len'[c] = len[c] /\ echoed'[c] = echoed[c]
      BY <1>3 DEF Echo, TypeOK
    <2>2. hpc'[h] = "read" /\ len'[h] = 0
      BY <1>3 DEF TypeOK
    <2>3. UNCHANGED <<taken, mpc, client_fd, holds, spc, rounds>>
      BY DEF Echo, mainVars, storeVars
    <2>4. QED
      BY <1>1, <2>1, <2>2, <2>3 DEF Bookkeeping
  <1>7. QED
    BY <1>4, <1>5, <1>6

(* The process that ends raises SIGCHLD: it is noticed.                    *)
LEMMA EndKeeps ==
  ASSUME IndInv, NEW h \in Clients, ReadEnd(h) \/ EchoFails(h) \/ Exit(h)
  PROVE  IndInv'
  <1> USE DEF IndInv
  <1>1. CASE ReadEnd(h) \/ EchoFails(h)
    <2>1. /\ hpc' = [hpc EXCEPT ![h] = "exit"]
          /\ UNCHANGED <<confVars, netVars, mainVars, pending, holds, len, storeVars, pipe>>
      BY <1>1 DEF ReadEnd, EchoFails
    <2>2. TypeOK'
      BY <2>1 DEF TypeOK, confVars, netVars, mainVars, storeVars
    <2>3. ZombiesNoticed' /\ NoStrayCopies'
      BY <2>1 DEF TypeOK, ZombiesNoticed, Zombies, NoStrayCopies, mainVars, storeVars
    <2>4. Bookkeeping'
      BY <2>1 DEF TypeOK, Bookkeeping, netVars, mainVars, storeVars
    <2>5. QED
      BY <2>2, <2>3, <2>4
  <1>2. CASE Exit(h)
    <2>1. TypeOK'
      BY <1>2 DEF Exit, TypeOK, Processes, confVars, netVars, mainVars, storeVars
    <2>2. ZombiesNoticed'
      BY <1>2 DEF Exit, ZombiesNoticed
    <2>3. NoStrayCopies' /\ Bookkeeping'
      BY <1>2, SMTT(30) DEF Exit, NoStrayCopies, Bookkeeping, TypeOK, Processes, netVars, mainVars,
         storeVars
    <2>4. QED
      BY <2>1, <2>2, <2>3
  <1>3. QED
    BY <1>1, <1>2

LEMMA StoreKeeps ==
  ASSUME IndInv, Store
  PROVE  IndInv'
  <1> USE DEF IndInv
  <1> DEFINE n == Min2(Len(pipe), BUFFER_SIZE)
             S == Clients \X Nat
  <1>1. pipe \in Seq(S) /\ file \in Seq(S) /\ Len(pipe) \in Nat /\ Len(pipe) <= PipeSize
    BY DEF TypeOK
  <1>2. n \in 0 .. Len(pipe)
    BY <1>1 DEF Min2
  <1>3. /\ pipe' = SubSeq(pipe, n + 1, Len(pipe))
        /\ file' = IF opened THEN file \o SubSeq(pipe, 1, n) ELSE file
    BY DEF Store
  <1> HIDE DEF n, S
  <1>4. SubSeq(pipe, n + 1, Len(pipe)) \in Seq(S) /\ SubSeq(pipe, 1, n) \in Seq(S)
    BY <1>1, <1>2, SubSeqProperties
  <1>5. Len(SubSeq(pipe, n + 1, Len(pipe))) <= Len(pipe)
    BY <1>1, <1>2, SubSeqProperties
  <1>6. pipe' \in Seq(S) /\ Len(pipe') <= PipeSize
    BY <1>1, <1>2, <1>3, <1>4, <1>5
  <1>7. file' \in Seq(S)
    BY <1>1, <1>3, <1>4
  <1>8. /\ rounds' \in 0 .. Rounds /\ spc' \in {"read", "zombie"}
        /\ spc' = "read" => rounds' < Rounds
        /\ spc' = "zombie" => pending'
        /\ pending => pending'
    <2>1. rounds \in Nat /\ rounds < Rounds
      BY DEF Store, TypeOK, Bookkeeping
    <2>2. rounds' = rounds + 1
      BY DEF Store
    <2>3. spc' = IF ~opened \/ rounds + 1 = Rounds THEN "zombie" ELSE "read"
      BY DEF Store
    <2>4. pending' = (pending \/ ~opened \/ rounds + 1 = Rounds)
      BY DEF Store
    <2>5. rounds' \in 0 .. Rounds /\ (rounds + 1 # Rounds => rounds' < Rounds)
      BY <2>1, <2>2
    <2>6. QED
      BY <2>3, <2>4, <2>5
  <1>9. pending' \in BOOLEAN
    BY DEF Store, TypeOK
  <1>10. TypeOK'
    BY <1>6, <1>7, <1>8, <1>9 DEF S, Store, TypeOK, confVars, netVars, mainVars, hVars
  <1>11. ZombiesNoticed' /\ NoStrayCopies' /\ Bookkeeping'
    BY <1>8 DEF Store, ZombiesNoticed, Zombies, NoStrayCopies, Bookkeeping, netVars,
       mainVars, hVars
  <1>12. QED
    BY <1>10, <1>11

-----------------------------------------------------------------------------
(* The stored bytes.                                                       *)

(* Steps that fork nothing and move no connection out of the backlog.      *)
LEMMA ForkedStays ==
  ASSUME IndInv, ForkedOnce, UNCHANGED <<backlog, client_fd>>, mpc' \in {mpc, "accept"},
         \A c \in Clients : /\ hpc[c] = "none" <=> hpc'[c] = "none"
                            /\ peer'[c] = "idle" => peer[c] = "idle"
  PROVE  ForkedOnce'
  <1>1. \A i \in DOMAIN backlog : backlog[i] \in Clients
    BY DEF IndInv, TypeOK
  <1>2. mpc = "fork" => client_fd \in Clients
    BY DEF IndInv, Bookkeeping
  <1>3. QED
    BY <1>1, <1>2 DEF ForkedOnce

LEMMA ForkedKeeps ==
  ASSUME IndInv, ForkedOnce, Next
  PROVE  ForkedOnce'
  <1>1. /\ backlog \in Seq(Clients)
        /\ peer \in [Clients -> {"idle", "open", "closed", "reset"}]
        /\ hpc \in [Clients -> {"none", "read", "pipe", "write", "exit", "zombie", "reaped"}]
    BY DEF IndInv, TypeOK
  <1>2. ASSUME NEW c \in Clients, Connect(c) PROVE ForkedOnce'
    <2>1. /\ peer[c] = "idle" /\ peer' = [peer EXCEPT ![c] = "open"]
          /\ backlog' = Append(backlog, c) /\ UNCHANGED <<hpc, mpc, client_fd>>
      BY <1>2 DEF Connect, mainVars, hVars
    <2>2. \A i \in DOMAIN backlog : backlog[i] \in Clients /\ backlog[i] # c
      BY <1>1, <2>1 DEF ForkedOnce
    <2>3. /\ DOMAIN backlog' = DOMAIN backlog \cup {Len(backlog) + 1}
          /\ \A i \in DOMAIN backlog : backlog'[i] = backlog[i]
          /\ backlog'[Len(backlog) + 1] = c
      BY <1>1, <2>1
    <2>4. \A d \in Clients : d # c => peer'[d] = peer[d]
      BY <1>1, <2>1
    <2>5. peer'[c] # "idle" /\ hpc[c] = "none"
      BY <1>1, <2>1 DEF ForkedOnce
    <2>6. mpc = "fork" => client_fd \in Clients /\ client_fd # c
      BY <2>1 DEF IndInv, Bookkeeping, ForkedOnce
    <2>7. QED
      BY <2>1, <2>2, <2>3, <2>4, <2>5, <2>6 DEF ForkedOnce
  <1>3. ASSUME NEW c \in Clients, Arrive(c) \/ Leave(c) PROVE ForkedOnce'
    <2>1. /\ UNCHANGED <<backlog, client_fd, mpc, hpc>>
          /\ \A d \in Clients : peer'[d] = "idle" => peer[d] = "idle"
      BY <1>1, <1>3 DEF Arrive, Leave, mainVars, hVars
    <2>2. QED
      BY <2>1, ForkedStays
  <1>4. CASE Accept \/ AcceptFails
    <2>1. /\ backlog # <<>> /\ backlog' = Tail(backlog) /\ UNCHANGED <<hpc, peer>>
          /\ mpc = "accept"
          /\ \/ mpc' = "fork" /\ client_fd' = Head(backlog)
             \/ mpc' = mpc
      BY <1>4 DEF Accept, AcceptFails, mainVars, hVars
    <2>2. /\ DOMAIN backlog' = 1 .. Len(backlog) - 1
          /\ \A i \in DOMAIN backlog' : backlog'[i] = backlog[i + 1] /\ i + 1 \in DOMAIN backlog
          /\ Head(backlog) = backlog[1] /\ 1 \in DOMAIN backlog
          /\ \A i, j \in DOMAIN backlog' : i + 1 = j + 1 => i = j
          /\ \A i \in DOMAIN backlog' : i + 1 # 1
      BY <1>1, <2>1
    <2>3. QED
      BY <2>1, <2>2 DEF ForkedOnce
  <1>5. CASE Fork
    <2>1. /\ UNCHANGED <<backlog, peer, client_fd>> /\ mpc = "fork" /\ mpc' = "close"
          /\ hpc' = hpc \/ hpc' = [hpc EXCEPT ![client_fd] = "read"]
      BY <1>5 DEF Fork, netVars
    <2>2. \A c \in Clients : c # client_fd => hpc'[c] = hpc[c]
      BY <1>1, <2>1
    <2>3. peer[client_fd] # "idle"
      BY <2>1 DEF ForkedOnce
    <2>4. \A i \in DOMAIN backlog : backlog[i] \in Clients /\ backlog[i] # client_fd
      BY <1>1, <2>1 DEF ForkedOnce
    <2>5. QED
      BY <2>1, <2>2, <2>3, <2>4 DEF ForkedOnce
  <1>6. CASE CloseInParent
    <2>1. /\ UNCHANGED <<backlog, peer, hpc>> /\ mpc' = "accept"
      BY <1>6 DEF CloseInParent, netVars, hVars
    <2>2. QED
      BY <2>1 DEF ForkedOnce
  <1>7. CASE EnterHandler \/ Reap \/ LeaveHandler \/ Store
    <2>1. UNCHANGED <<backlog, client_fd, mpc, peer>>
      BY <1>7 DEF EnterHandler, Reap, LeaveHandler, Store, netVars, mainVars
    <2>2. \A c \in Clients : hpc[c] = "none" <=> hpc'[c] = "none"
      BY <1>1, <1>7 DEF EnterHandler, Reap, Collect, LeaveHandler, Store, hVars
    <2>3. QED
      BY <2>1, <2>2, ForkedStays
  <1>8. ASSUME NEW h \in Clients, Handler(h) PROVE ForkedOnce'
    <2>1. UNCHANGED <<backlog, client_fd, mpc>>
      BY <1>8 DEF Handler, Read, ReadEnd, PipeWrite, Echo, EchoFails, Exit, netVars, mainVars
    <2>2. \A c \in Clients : peer'[c] = "idle" => peer[c] = "idle"
      BY <1>1, <1>8 DEF Handler, Read, ReadEnd, PipeWrite, Echo, EchoFails, Exit, netVars
    <2>3. /\ hpc[h] # "none"
          /\ \E s \in {"pipe", "write", "read", "exit", "zombie"} : hpc' = [hpc EXCEPT ![h] = s]
      BY <1>8 DEF Handler, Read, ReadEnd, PipeWrite, Echo, EchoFails, Exit
    <2>4. \A c \in Clients : hpc[c] = "none" <=> hpc'[c] = "none"
      BY <1>1, <2>3
    <2>5. QED
      BY <2>1, <2>2, <2>4, ForkedStays
  <1>9. QED
    BY <1>2, <1>3, <1>4, <1>5, <1>6, <1>7, <1>8 DEF Next, Server, Client

(* Steps that put nothing in the pipe.                                     *)
LEMMA StoredStays ==
  ASSUME StoredInOrder, UNCHANGED confVars,
         storing /\ opened => file' \o pipe' = file \o pipe,
         storing => \A c \in Clients : PutInPipe(c)' = PutInPipe(c)
  PROVE  StoredInOrder'
  <1> SUFFICES ASSUME storing, opened
               PROVE  Complete(file \o pipe)' /\ EachInOrder(file \o pipe)'
    BY DEF StoredInOrder, confVars
  <1>1. Complete(file \o pipe) /\ EachInOrder(file \o pipe)
    BY DEF StoredInOrder
  <1>2. file' \o pipe' = file \o pipe /\ \A c \in Clients : PutInPipe(c)' = PutInPipe(c)
    OBVIOUS
  <1>3. EachInOrder(file \o pipe)'
    BY <1>1, <1>2 DEF EachInOrder
  <1>4. Complete(file \o pipe)'
    BY <1>1, <1>2 DEF Complete
  <1>5. QED
    BY <1>3, <1>4

(* A handler's write puts its next bytes behind all others.                *)
LEMMA PipeWriteStores ==
  ASSUME IndInv, StoredInOrder, NEW h \in Clients, PipeWrite(h)
  PROVE  StoredInOrder'
  <1> DEFINE S == Clients \X Nat
             s == file \o pipe
             b == Buffered(h)
             q == s \o b
             P == taken[h] - len[h]
  <1>1. SUFFICES ASSUME storing, opened PROVE Complete(file \o pipe)' /\ EachInOrder(file \o pipe)'
    BY DEF StoredInOrder, PipeWrite, confVars
  <1>2. /\ UNCHANGED <<taken, len, file>> /\ pipe' = pipe \o b
        /\ hpc[h] = "pipe" /\ hpc' = [hpc EXCEPT ![h] = "write"]
    BY DEF PipeWrite, netVars, storeVars
  <1>3. TypeOK /\ Bookkeeping /\ Complete(s) /\ EachInOrder(s)
    BY <1>1 DEF IndInv, StoredInOrder
  <1>4. b \in Seq(S) /\ Len(b) = len[h] /\ pipe \in Seq(S) /\ file \in Seq(S)
    BY <1>3, BufferedType DEF TypeOK
  <1>5. len[h] \in Nat /\ taken[h] \in Nat /\ P \in Nat /\ P + len[h] = taken[h]
    BY <1>3, SMTT(30) DEF TypeOK, Bookkeeping
  <1>6. \A n \in 1 .. len[h] : b[n] = <<h, P + n>>
    BY DEF Buffered
  <1>7. /\ PutInPipe(h) = P /\ PutInPipe(h)' = taken[h]
        /\ \A c \in Clients : c # h => PutInPipe(c)' = PutInPipe(c)
    BY <1>2, <1>3 DEF PutInPipe, TypeOK
  <1> HIDE DEF S, P, b
  <1>8. file' \o pipe' = q
    BY <1>2, <1>4, SMTT(30)
  <1>9. s \in Seq(S)
    BY <1>4
  <1> HIDE DEF s
  <1>10. /\ DOMAIN q = 1 .. Len(s) + len[h] /\ DOMAIN s = 1 .. Len(s) /\ Len(s) \in Nat
         /\ \A i \in DOMAIN s : q[i] = s[i]
         /\ \A n \in 1 .. len[h] : q[Len(s) + n] = b[n] /\ Len(s) + n \in DOMAIN q
    <2>1. /\ q \in Seq(S) /\ Len(q) = Len(s) + Len(b)
          /\ \A i \in 1 .. Len(s) + Len(b) : q[i] = IF i <= Len(s) THEN s[i] ELSE b[i - Len(s)]
      BY <1>4, <1>9, ConcatProperties
    <2> HIDE DEF q
    <2>2. /\ DOMAIN q = 1 .. Len(s) + len[h] /\ DOMAIN s = 1 .. Len(s) /\ Len(s) \in Nat
      BY <2>1, <1>4, <1>9
    <2>3. \A n \in 1 .. len[h] : Len(s) + n \in 1 .. Len(s) + len[h] /\ ~ (Len(s) + n <= Len(s))
                               /\ (Len(s) + n) - Len(s) = n
      BY <2>2, <1>5
    <2>4. \A i \in 1 .. Len(s) : i \in 1 .. Len(s) + len[h] /\ i <= Len(s)
      BY <2>2, <1>5
    <2>5. QED
      BY <2>1, <2>2, <2>3, <2>4, <1>4
  <1> HIDE DEF q
  <1>11. ASSUME NEW i \in DOMAIN q
         PROVE  i \in DOMAIN s \/ \E n \in 1 .. len[h] : i = Len(s) + n /\ q[i] = <<h, P + n>>
    <2>1. ASSUME i \notin DOMAIN s PROVE i - Len(s) \in 1 .. len[h] /\ i = Len(s) + (i - Len(s))
      BY <2>1, <1>5, <1>10
    <2>2. QED
      BY <2>1, <1>6, <1>10
  <1>12. ASSUME NEW i \in DOMAIN s
         PROVE  \E c \in Clients : \E k \in 1 .. PutInPipe(c) : s[i] = <<c, k>>
    BY <1>3 DEF Complete
  <1>13. Complete(file \o pipe)'
    <2>1. ASSUME NEW c \in Clients, NEW k \in 1 .. PutInPipe(c)'
          PROVE  \E i \in DOMAIN q : q[i] = <<c, k>>
      <3>1. CASE k \in 1 .. PutInPipe(c)
        <4>1. <<c, k>> \in {s[i] : i \in DOMAIN s}
          <5>1. <<c, k>> \in {c} \X (1 .. PutInPipe(c))
            BY <3>1
          <5>2. <<c, k>> \in UNION {{d} \X (1 .. PutInPipe(d)) : d \in Clients}
            BY <5>1
          <5>3. QED
            BY <5>2, <1>3 DEF Complete
        <4>2. DOMAIN s \subseteq DOMAIN q
          BY <1>5, <1>10
        <4>3. QED
          BY <4>1, <4>2, <1>10
      <3>2. CASE k \notin 1 .. PutInPipe(c)
        <4>1. c = h
          BY <3>2, <1>7
        <4>2. k - P \in 1 .. len[h] /\ k = P + (k - P)
          BY <4>1, <3>2, <1>5, <1>7
        <4>3. QED
          BY <4>1, <4>2, <1>6, <1>10
      <3>3. QED
        BY <3>1, <3>2
    <2>2. ASSUME NEW i \in DOMAIN q
          PROVE  \E c \in Clients : \E k \in 1 .. PutInPipe(c)' : q[i] = <<c, k>>
      <3>1. CASE i \in DOMAIN s
        <4>1. \A c \in Clients : 1 .. PutInPipe(c) \subseteq 1 .. PutInPipe(c)'
          BY <1>5, <1>7
        <4>2. QED
          BY <3>1, <4>1, <1>10, <1>12
      <3>2. ASSUME NEW n \in 1 .. len[h], i = Len(s) + n, q[i] = <<h, P + n>>
            PROVE  \E k \in 1 .. PutInPipe(h)' : q[i] = <<h, k>>
        <4>1. P + n \in 1 .. PutInPipe(h)'
          BY <1>5, <1>7
        <4>2. QED
          BY <3>2, <4>1
      <3>3. QED
        BY <1>11, <3>1, <3>2
    <2>3. {q[i] : i \in DOMAIN q} = UNION {{c} \X (1 .. PutInPipe(c)') : c \in Clients}
      <3>1. \A c \in Clients : \A k \in 1 .. PutInPipe(c)' : <<c, k>> \in {q[i] : i \in DOMAIN q}
        BY <2>1
      <3>2. \A i \in DOMAIN q : q[i] \in UNION {{c} \X (1 .. PutInPipe(c)') : c \in Clients}
        BY <2>2
      <3>3. QED
        BY <3>1, <3>2
    <2>4. QED
      BY <2>3, <1>8 DEF Complete
  <1>14. EachInOrder(q)
    <2> SUFFICES ASSUME NEW i \in DOMAIN q, NEW j \in DOMAIN q, i < j, q[i][1] = q[j][1]
                 PROVE  q[i][2] < q[j][2]
      BY DEF EachInOrder
    <2>1. CASE j \in DOMAIN s
      <3>1. i \in DOMAIN s
        BY <2>1, <1>10
      <3>2. QED
        BY <2>1, <3>1, <1>3, <1>10 DEF EachInOrder
    <2>2. ASSUME NEW n \in 1 .. len[h], j = Len(s) + n, q[j] = <<h, P + n>>
          PROVE  q[i][2] < q[j][2]
      <3>1. CASE i \in DOMAIN s
        <4>1. PICK c \in Clients : \E k \in 1 .. PutInPipe(c) : s[i] = <<c, k>>
          BY <3>1, <1>12
        <4>2. PICK k \in 1 .. PutInPipe(c) : s[i] = <<c, k>>
          BY <4>1
        <4>3. q[i] = <<c, k>> /\ c = h
          BY <3>1, <4>2, <2>2, <1>10
        <4>4. k < P + n
          BY <4>3, <1>5, <1>7
        <4>5. QED
          BY <4>3, <4>4, <2>2
      <3>2. ASSUME NEW m \in 1 .. len[h], i = Len(s) + m, q[i] = <<h, P + m>>
            PROVE  q[i][2] < q[j][2]
        <4>1. P + m < P + n
          BY <2>2, <3>2, <1>5, <1>10
        <4>2. QED
          BY <4>1, <2>2, <3>2
      <3>3. QED
        BY <1>11, <3>1, <3>2
    <2>3. QED
      BY <1>11, <2>1, <2>2
  <1>15. QED
    BY <1>8, <1>13, <1>14 DEF EachInOrder

(* Bytes that move from the front of one sequence to the end of another    *)
(* keep their place.                                                       *)
LEMMA Moved ==
  ASSUME NEW S, NEW f \in Seq(S), NEW p \in Seq(S), NEW n \in 1 .. Len(p)
  PROVE  (f \o SubSeq(p, 1, n)) \o SubSeq(p, n + 1, Len(p)) = f \o p
  <1>1. SubSeq(p, 1, n) \in Seq(S) /\ SubSeq(p, n + 1, Len(p)) \in Seq(S)
    OBVIOUS
  <1>2. SubSeq(p, 1, n) \o SubSeq(p, n + 1, Len(p)) = p
    OBVIOUS
  <1>3. ASSUME NEW a \in Seq(S), NEW b \in Seq(S)
        PROVE  (f \o a) \o b = f \o (a \o b)
    BY SMTT(30)
  <1>4. (f \o SubSeq(p, 1, n)) \o SubSeq(p, n + 1, Len(p))
          = f \o (SubSeq(p, 1, n) \o SubSeq(p, n + 1, Len(p)))
    BY <1>1, <1>3
  <1>5. QED
    BY <1>2, <1>4

(* store moves bytes from the pipe to the file: cut where it may, they     *)
(* stay in order.                                                          *)
LEMMA StoreStores ==
  ASSUME IndInv, StoredInOrder, Store
  PROVE  StoredInOrder'
  <1>1. pipe \in Seq(Clients \X Nat) /\ file \in Seq(Clients \X Nat)
    BY DEF IndInv, TypeOK
  <1>2. PICK n \in 1 .. Len(pipe) :
          /\ UNCHANGED <<confVars, taken, hpc, len>>
          /\ pipe' = SubSeq(pipe, n + 1, Len(pipe))
          /\ opened => file' = file \o SubSeq(pipe, 1, n)
    <2>1. Min2(Len(pipe), BUFFER_SIZE) \in 1 .. Len(pipe)
      BY <1>1 DEF Store, Min2
    <2>2. QED
      BY <2>1 DEF Store, netVars, hVars
  <1>3. opened => file' \o pipe' = file \o pipe
    <2>1. (file \o SubSeq(pipe, 1, n)) \o SubSeq(pipe, n + 1, Len(pipe)) = file \o pipe
      BY <1>1, Moved, Zenon
    <2>2. QED
      BY <1>2, <2>1
  <1>4. \A c \in Clients : PutInPipe(c)' = PutInPipe(c)
    BY <1>2 DEF PutInPipe
  <1>5. QED
    BY <1>2, <1>3, <1>4, StoredStays

LEMMA StoredKeeps ==
  ASSUME IndInv, ForkedOnce, StoredInOrder, Next
  PROVE  StoredInOrder'
  <1>1. /\ hpc \in [Clients -> {"none", "read", "pipe", "write", "exit", "zombie", "reaped"}]
        /\ taken \in [Clients -> Nat] /\ len \in [Clients -> 0 .. BUFFER_SIZE]
    BY DEF IndInv, TypeOK
  (* The other steps leave the file and the pipe alone.                    *)
  <1>2. ASSUME UNCHANGED <<confVars, file, pipe>>,
               storing => \A c \in Clients : PutInPipe(c)' = PutInPipe(c)
        PROVE  StoredInOrder'
    BY <1>2, StoredStays
  <1>3. ASSUME UNCHANGED <<confVars, file, pipe, taken, len>>,
               \A c \in Clients : hpc'[c] = "pipe" <=> hpc[c] = "pipe"
        PROVE  StoredInOrder'
    <2>1. \A c \in Clients : PutInPipe(c)' = PutInPipe(c)
      BY <1>3 DEF PutInPipe
    <2>2. QED
      BY <2>1, <1>2, <1>3
  <1>4. ASSUME NEW c \in Clients, Client(c) PROVE StoredInOrder'
    <2>1. UNCHANGED <<confVars, file, pipe, taken, len, hpc>>
      BY <1>4 DEF Client, Connect, Arrive, Leave, hVars, storeVars
    <2>2. QED
      BY <2>1, <1>3
  <1>5. CASE Server
    <2>1. UNCHANGED <<confVars, file, pipe, taken, len>>
      BY <1>5 DEF Server, Accept, AcceptFails, Fork, CloseInParent, EnterHandler, Reap,
         LeaveHandler, netVars, hVars, storeVars
    <2>2. CASE Fork
      <3>1. client_fd \in Clients /\ hpc[client_fd] = "none"
        BY <2>2 DEF Fork, IndInv, Bookkeeping, ForkedOnce
      <3>2. hpc' \in {hpc, [hpc EXCEPT ![client_fd] = "read"]}
        BY <2>2 DEF Fork
      <3>3. \A c \in Clients : hpc'[c] = "pipe" <=> hpc[c] = "pipe"
        BY <3>1, <3>2, <1>1
      <3>4. QED
        BY <2>1, <3>3, <1>3
    <2>3. CASE Reap
      <3>1. \A c \in Clients : hpc'[c] = "pipe" <=> hpc[c] = "pipe"
        BY <2>3, <1>1 DEF Reap, Collect
      <3>2. QED
        BY <2>1, <3>1, <1>3
    <2>4. CASE ~Fork /\ ~Reap
      <3>1. hpc' = hpc
        BY <1>5, <2>4 DEF Server, Accept, AcceptFails, CloseInParent, EnterHandler,
           LeaveHandler, hVars
      <3>2. QED
        BY <2>1, <3>1, <1>3
    <2>5. QED
      BY <2>2, <2>3, <2>4
  <1>6. ASSUME NEW h \in Clients, Read(h) PROVE StoredInOrder'
    <2> DEFINE n == Min2(arrived[h] - taken[h], BUFFER_SIZE)
    <2>1. /\ UNCHANGED <<confVars, file, pipe>> /\ hpc[h] = "read"
          /\ len' = [len EXCEPT ![h] = n] /\ taken' = [taken EXCEPT ![h] = @ + len'[h]]
          /\ hpc' = [hpc EXCEPT ![h] = IF storing THEN "pipe" ELSE "write"]
      BY <1>6 DEF Read, storeVars
    <2>2. n \in Nat /\ taken[h] \in Nat
      BY <1>6, <1>1 DEF Read, Min2, IndInv, TypeOK
    <2> HIDE DEF n
    <2>3. taken'[h] = taken[h] + n /\ len'[h] = n
      BY <2>1, <1>1
    <2>4. ASSUME storing, NEW c \in Clients PROVE PutInPipe(c)' = PutInPipe(c)
      <3>1. CASE c = h
        <4>1. hpc'[h] = "pipe"
          BY <2>1, <2>4, <1>1
        <4>2. QED
          BY <3>1, <4>1, <2>1, <2>2, <2>3 DEF PutInPipe
      <3>2. CASE c # h
        BY <3>2, <2>1, <1>1 DEF PutInPipe
      <3>3. QED
        BY <3>1, <3>2
    <2>5. QED
      BY <2>1, <2>4, <1>2
  <1>7. ASSUME NEW h \in Clients, Echo(h) PROVE StoredInOrder'
    <2>1. /\ UNCHANGED <<confVars, file, pipe, taken>> /\ hpc[h] = "write"
          /\ hpc' = [hpc EXCEPT ![h] = "read"] /\ len' = [len EXCEPT ![h] = 0]
      BY <1>7 DEF Echo, storeVars
    <2>2. \A c \in Clients : PutInPipe(c)' = PutInPipe(c)
      BY <2>1, <1>1 DEF PutInPipe
    <2>3. QED
      BY <2>1, <2>2, <1>2
  <1>8. ASSUME NEW h \in Clients, ReadEnd(h) \/ EchoFails(h) \/ Exit(h) PROVE StoredInOrder'
    <2>1. UNCHANGED <<confVars, file, pipe, taken, len>>
      BY <1>8 DEF ReadEnd, EchoFails, Exit, netVars, storeVars
    <2>2. hpc[h] # "pipe" /\ \E s \in {"exit", "zombie"} : hpc' = [hpc EXCEPT ![h] = s]
      BY <1>8 DEF ReadEnd, EchoFails, Exit
    <2>3. \A c \in Clients : hpc'[c] = "pipe" <=> hpc[c] = "pipe"
      BY <2>2, <1>1
    <2>4. QED
      BY <2>1, <2>3, <1>3
  <1>9. QED
    BY <1>4, <1>5, <1>6, <1>7, <1>8, PipeWriteStores, StoreStores DEF Next, Handler

-----------------------------------------------------------------------------
(* IndInv is inductive, hence an invariant.                                *)
THEOREM Invariance == Spec => []IndInv
  <1>1. IndInv /\ [Next]_vars => IndInv'
    <2> SUFFICES ASSUME IndInv, [Next]_vars PROVE IndInv'
      OBVIOUS
    <2>1. CASE Server
      BY <2>1, AcceptKeeps, ForkKeeps, CloseInParentKeeps, SignalKeeps DEF Server
    <2>2. ASSUME NEW c \in Clients, Client(c) PROVE IndInv'
      BY <2>2, ClientKeeps
    <2>3. ASSUME NEW h \in Clients, Handler(h) PROVE IndInv'
      BY <2>3, ReadKeeps, PipeWriteKeeps, EchoKeeps, EndKeeps DEF Handler
    <2>4. CASE Store
      BY <2>4, StoreKeeps
    <2>5. CASE UNCHANGED vars
      BY <2>5, SMTT(30) DEF vars, confVars, netVars, mainVars, hVars, storeVars, IndInv, TypeOK,
         ZombiesNoticed, Zombies, NoStrayCopies, Bookkeeping
    <2>6. QED
      BY <2>1, <2>2, <2>3, <2>4, <2>5 DEF Next
  <1>2. QED
    BY <1>1, InitIndInv, PTL DEF Spec

(* The types, the bound of the pipe, and echoed <= taken <= arrived.       *)
THEOREM TypeCorrect == Spec => []TypeOK
  BY Invariance, PTL DEF IndInv

(* No process that ended is forgotten by read_child_proc.                  *)
THEOREM AllNoticed == Spec => []ZombiesNoticed
  BY Invariance, PTL DEF IndInv

(* No handler inherits another client's connection.                        *)
THEOREM OwnCopiesOnly == Spec => []NoStrayCopies
  BY Invariance, PTL DEF IndInv

(* Every client's bytes reach the file in its order, each once, however    *)
(* the handlers' writes to the pipe and the reads of store interleave      *)
(* (echo_storeserv.c:61, 107-113).                                         *)
THEOREM OrderedInFile == Spec => []StoredInOrder
  <1>1. Init => ForkedOnce /\ StoredInOrder
    <2> SUFFICES ASSUME Init PROVE ForkedOnce /\ StoredInOrder
      OBVIOUS
    <2>1. ForkedOnce
      BY DEF Init, ForkedOnce
    <2>2. file \o pipe = <<>>
      BY DEF Init
    <2>3. \A c \in Clients : PutInPipe(c) = 0
      BY DEF Init, PutInPipe
    <2>4. Complete(file \o pipe) /\ EachInOrder(file \o pipe)
      BY <2>2, <2>3 DEF Complete, EachInOrder
    <2>5. QED
      BY <2>1, <2>4 DEF StoredInOrder
  <1>2. IndInv /\ ForkedOnce /\ StoredInOrder /\ [Next]_vars => (ForkedOnce /\ StoredInOrder)'
    <2>1. ASSUME IndInv, ForkedOnce, StoredInOrder, UNCHANGED vars
          PROVE  (ForkedOnce /\ StoredInOrder)'
      <3>1. ForkedOnce'
        BY <2>1 DEF ForkedOnce, vars, netVars, mainVars, hVars
      <3>2. \A c \in Clients : PutInPipe(c)' = PutInPipe(c)
        BY <2>1 DEF PutInPipe, vars, netVars, hVars
      <3>3. QED
        BY <2>1, <3>1, <3>2, StoredStays DEF vars, storeVars
    <2>2. QED
      BY <2>1, ForkedKeeps, StoredKeeps
  <1>3. QED
    BY <1>1, <1>2, Invariance, PTL DEF Spec
=============================================================================
