-------------------------- MODULE EventLoopProofs ---------------------------
(***************************************************************************)
(* For every set of clients, input, buffer and descriptor limit, and for   *)
(* all three servers: the types, that the loop watches and handles only    *)
(* connections that are open, and that a client gets back the text it      *)
(* sent, are invariants of EventLoop.                                      *)
(***************************************************************************)
EXTENDS EventLoop, SequenceTheorems, WellFoundedInduction, TLAPS

USE BoundsAssumption, NamesAssumption

(* Connections have numbers above the listener's.                          *)
LEMMA Numbers ==
  /\ Fds \subseteq Nat \ {0} /\ Listener \notin Fds
  /\ \A n \in Limits : 1 .. n \subseteq Fds
  BY DEF Fds, Listener

(* The initial state satisfies the inductive invariant.                    *)
LEMMA InitIndInv == Init => IndInv
  <1> SUFFICES ASSUME Init PROVE IndInv
    OBVIOUS
  <1>1. /\ backlog \in Seq(Clients) /\ buf \in Seq(Bytes)
        /\ echoed \in [Clients -> Seq(Bytes \cup {Nul})]
    BY DEF Init
  <1>2. \A c \in Clients : Len(Input[c]) \in Nat
    OBVIOUS
  <1>3. \A c \in Clients : taken[c] <= arrived[c] /\ arrived[c] <= Len(Input[c])
    BY <1>2 DEF Init
  <1>4. TypeOK
    BY <1>1, <1>3 DEF Init, TypeOK
  <1>5. WatchedOpen /\ Bookkeeping
    BY DEF Init, WatchedOpen, Running, Bookkeeping
  <1>6. QED
    BY <1>4, <1>5 DEF IndInv

(* What the invariant says of the server depends on the server's           *)
(* variables, and on whether the backlog is empty.                         *)
LEMMA LoopUnchanged ==
  ASSUME IndInv, UNCHANGED <<interest, file, todo, mpc, cur>>,
         backlog # <<>> => backlog' # <<>>
  PROVE  WatchedOpen' /\ Bookkeeping'
  BY DEF IndInv, WatchedOpen, Running, Bookkeeping

(* The clients disturb nothing the loop relies on.                         *)
LEMMA ClientKeeps ==
  ASSUME IndInv, NEW c \in Clients, Client(c)
  PROVE  IndInv'
  <1> USE DEF IndInv
  <1>1. UNCHANGED <<conf, srvVars, taken, echoed>>
    BY DEF Client, Connect, Arrive, Leave, Stall, Resume
  <1>2. backlog' \in Seq(Clients) /\ (backlog # <<>> => backlog' # <<>>)
    <2>1. CASE Connect(c)
      <3>1. backlog \in Seq(Clients) /\ backlog' = Append(backlog, c)
        BY <2>1 DEF Connect, TypeOK
      <3>2. backlog' \in Seq(Clients) /\ Len(backlog') = Len(backlog) + 1
        BY <3>1
      <3>3. Len(backlog') # 0
        BY <3>1, <3>2
      <3>4. QED
        BY <3>2, <3>3
    <2>2. CASE ~ Connect(c)
      BY <2>2 DEF Client, Arrive, Leave, Stall, Resume, TypeOK
    <2>3. QED
      BY <2>1, <2>2
  <1>3. /\ arrived' \in [Clients -> Nat]
        /\ \A d \in Clients : taken[d] <= arrived'[d] /\ arrived'[d] <= Len(Input[d])
    <2>1. CASE Arrive(c)
      <3>1. arrived[c] \in Nat /\ Len(Input[c]) \in Nat /\ taken[c] \in Nat
        BY DEF TypeOK
      <3>2. arrived[c] + 1 <= Len(Input[c])
        BY <2>1, <3>1 DEF Arrive
      <3>3. QED
        BY <2>1, <3>1, <3>2 DEF Arrive, TypeOK
    <2>2. CASE ~ Arrive(c)
      BY <2>2 DEF Client, Connect, Leave, Stall, Resume, TypeOK
    <2>3. QED
      BY <2>1, <2>2
  <1>4. /\ peer' \in [Clients -> {"idle", "open", "closed", "reset", "aborted"}]
        /\ stalled' \subseteq Clients
    BY ZenonT(30) DEF Client, Connect, Arrive, Leave, Stall, Resume, TypeOK
  <1>5. edge' \subseteq Fds
    BY DEF Client, Connect, Arrive, Leave, Stall, Resume, TypeOK, Signal
  <1>6. TypeOK'
    BY <1>1, <1>2, <1>3, <1>4, <1>5 DEF TypeOK, conf, srvVars
  <1>7. WatchedOpen' /\ Bookkeeping'
    BY <1>1, <1>2, LoopUnchanged DEF srvVars
  <1>8. QED
    BY <1>6, <1>7

-----------------------------------------------------------------------------
(* The loop.                                                               *)

(* The events handed over are for descriptors that are watched.            *)
LEMMA WaitKeeps ==
  ASSUME IndInv, Wait \/ WaitFails \/ WaitAgain
  PROVE  IndInv'
  <1> USE DEF IndInv
  <1>1. CASE Wait
    <2>1. todo' \subseteq interest /\ (Listener \in todo' => backlog # <<>>)
      BY <1>1 DEF Wait, Ready
    <2>2. edge' \subseteq Fds /\ mpc' = "next"
      BY <1>1 DEF Wait, TypeOK
    <2>3. TypeOK'
      BY <1>1, <2>1, <2>2 DEF Wait, TypeOK, conf, netVars
    <2>4. WatchedOpen' /\ Bookkeeping'
      BY <1>1, <2>1, <2>2 DEF Wait, WatchedOpen, Running, Bookkeeping, netVars
    <2>5. QED
      BY <2>3, <2>4
  <1>2. CASE WaitFails
    BY <1>2, LoopUnchanged DEF WaitFails, TypeOK, conf, netVars
  <1>3. CASE WaitAgain
    BY <1>3 DEF WaitAgain, TypeOK, WatchedOpen, Running, Bookkeeping, conf, netVars
  <1>4. QED
    BY <1>1, <1>2, <1>3

(* accept_request: a number that was free is open when it is watched.      *)
LEMMA AcceptKeeps ==
  ASSUME IndInv, AcceptFails \/ AcceptSelect \/ AcceptLT \/ AcceptET
  PROVE  IndInv'
  <1> USE DEF IndInv
  <1>1. /\ up /\ mpc = "next" /\ Listener \in todo /\ todo' = todo \ {Listener}
        /\ UNCHANGED <<conf, peer, arrived, taken, echoed, stalled, up, mpc, cur, buf>>
    BY DEF AcceptFails, AcceptSelect, AcceptLT, AcceptET, Turn
  <1>2. Head(backlog) \in Clients /\ Tail(backlog) \in Seq(Clients)
    BY <1>1 DEF Bookkeeping, TypeOK
  <1>3. CASE AcceptFails
    <2>1. backlog' \in Seq(Clients)
      BY <1>2, <1>3 DEF AcceptFails, TypeOK
    <2>2. TypeOK'
      BY <1>1, <1>3, <2>1 DEF AcceptFails, TypeOK, conf
    <2>3. WatchedOpen' /\ Bookkeeping'
      BY <1>1, <1>3 DEF AcceptFails, WatchedOpen, Running, Bookkeeping
    <2>4. QED
      BY <2>2, <2>3
  <1>4. ASSUME NEW f \in Fds, Accepted(f), interest' \in {interest, interest \cup {f}},
               fd_max' \in Fds \cup {Listener}, edge' \subseteq Fds
        PROVE  IndInv'
    <2>1. file' = [file EXCEPT ![f] = Head(backlog)] /\ backlog' = Tail(backlog)
      BY <1>4 DEF Accepted
    <2>2. interest' \subseteq Fds \cup {Listener}
      BY <1>4 DEF TypeOK
    <2>3. TypeOK'
      BY <1>1, <1>2, <1>4, <2>1, <2>2 DEF TypeOK, conf
    <2>4. \A g \in Fds : file[g] # NoClient => file'[g] # NoClient
      BY <1>2, <2>1 DEF TypeOK
    <2>5. file'[f] # NoClient
      BY <1>2, <2>1 DEF TypeOK
    <2>6. WatchedOpen'
      BY <1>1, <1>4, <2>2, <2>4, <2>5 DEF WatchedOpen, Running, TypeOK
    <2>7. Bookkeeping'
      BY <1>1, <1>4 DEF Bookkeeping
    <2>8. QED
      BY <2>3, <2>6, <2>7
  <1>5. CASE AcceptSelect
    BY <1>4, <1>5 DEF AcceptSelect, TypeOK
  <1>6. CASE AcceptLT
    BY <1>4, <1>6 DEF AcceptLT, TypeOK
  <1>7. CASE AcceptET
    <2>1. PICK f \in Fds : /\ Accepted(f) /\ interest' \in {interest, interest \cup {f}}
                           /\ edge' = edge \cup {g \in interest' \ interest :
                                                   HasInput(Head(backlog))}
      BY <1>7 DEF AcceptET
    <2>2. edge' \subseteq Fds
      BY <2>1 DEF TypeOK
    <2>3. fd_max' \in Fds \cup {Listener}
      BY <1>7 DEF AcceptET, TypeOK
    <2>4. QED
      BY <1>4, <2>1, <2>2, <2>3
  <1>8. QED
    BY <1>3, <1>5, <1>6, <1>7

(* A connection that is handled was watched, and has no other event.       *)
LEMMA StartRunKeeps ==
  ASSUME IndInv, StartRun
  PROVE  IndInv'
  <1> USE DEF IndInv
  <1>1. PICK f \in Fds : Turn(f) /\ cur' = f
    BY DEF StartRun
  <1>2. f \in todo /\ todo' = todo \ {f} /\ mpc' = "read"
    BY <1>1 DEF StartRun, Turn
  <1>3. TypeOK'
    BY <1>1, <1>2 DEF StartRun, TypeOK, conf, netVars
  <1>4. WatchedOpen'
    BY <1>1, <1>2 DEF StartRun, WatchedOpen, Running
  <1>5. Bookkeeping'
    BY <1>1, <1>2, Numbers DEF StartRun, Bookkeeping, netVars
  <1>6. QED
    BY <1>3, <1>4, <1>5

-----------------------------------------------------------------------------
(* run.                                                                    *)

(* What is written back are bytes of the client, or a NUL.                 *)
LEMMA ReplyType ==
  ASSUME TypeOK
  PROVE  Reply \in Seq(Bytes \cup {Nul})
  <1>1. buf \in Seq(Bytes \cup {Nul}) /\ Len(buf) \in Nat
    BY DEF TypeOK
  <1>2. CASE Len(buf) = 0 \/ buf[Len(buf)] # Newline
    BY <1>1, <1>2 DEF Reply
  <1>3. CASE ~ (Len(buf) = 0 \/ buf[Len(buf)] # Newline)
    <2>1. [buf EXCEPT ![Len(buf)] = Nul] \in Seq(Bytes \cup {Nul})
      <3>1. Len(buf) \in 1 .. Len(buf)
        BY <1>1, <1>3
      <3>2. QED
        BY <1>1, <3>1, ExceptSeq
    <2>2. SubSeq(buf, 1, Len(buf) - 1) \in Seq(Bytes \cup {Nul})
      BY <1>1, <1>3
    <2>3. QED
      BY <1>3, <2>1, <2>2 DEF Reply
  <1>4. QED
    BY <1>2, <1>3

(* A step of run that stays in the connection, or ends it: what the loop   *)
(* watches is the same.                                                    *)
LEMMA RunLoop ==
  ASSUME IndInv, mpc \in {"read", "write"}, UNCHANGED <<interest, file, todo, cur, backlog>>
  PROVE  WatchedOpen' /\ Bookkeeping'
  BY DEF IndInv, WatchedOpen, Running, Bookkeeping

LEMMA RunKeeps ==
  ASSUME IndInv, NEW c \in Clients, Run(c)
  PROVE  IndInv'
  <1> USE DEF IndInv
  <1>1. /\ mpc \in {"read", "write"}
        /\ UNCHANGED <<conf, backlog, arrived, stalled, edge, file, interest, fd_max, todo,
                       cur>>
    BY DEF Run, Reading, Writing, ReadSome, ReadEof, ReadError, ReadAgain, WriteBack,
       WriteFails, WriteKills, netVars, conf
  <1>2. WatchedOpen' /\ Bookkeeping'
    BY <1>1, RunLoop
  <1>3. Reply \in Seq(Bytes \cup {Nul})
    BY ReplyType
  <1>4. /\ taken[c] \in Nat /\ arrived[c] \in Nat /\ Len(Input[c]) \in Nat
        /\ taken[c] <= arrived[c] /\ arrived[c] <= Len(Input[c])
    BY DEF TypeOK
  <1>5. CASE ReadSome(c)
    <2> DEFINE n == Min2(arrived[c] - taken[c], BUFFER_SIZE)
    <2>1. n \in Nat /\ taken[c] + n <= arrived[c]
      BY <1>4, <1>5 DEF ReadSome, Min2
    <2>2. /\ buf' = SubSeq(Input[c], taken[c] + 1, taken[c] + n)
          /\ taken' = [taken EXCEPT ![c] = @ + n]
      BY <1>5 DEF ReadSome
    <2>3. buf' \in Seq(Bytes)
      BY <1>4, <2>1, <2>2, SMTT(30)
    <2>4. taken' \in [Clients -> Nat] /\ \A d \in Clients : taken'[d] <= arrived[d]
      BY <2>1, <2>2 DEF TypeOK
    <2>5. mpc' = "write" /\ UNCHANGED <<peer, echoed, up>>
      BY <1>5 DEF ReadSome
    <2>6. TypeOK'
      BY <1>1, <2>3, <2>4, <2>5 DEF TypeOK, conf
    <2>7. QED
      BY <1>2, <2>6
  <1>6. CASE ReadEof(c) \/ ReadAgain(c) \/ WriteKills(c)
    BY <1>1, <1>2, <1>6 DEF ReadEof, ReadAgain, WriteKills, TypeOK, conf, netVars
  <1>7. CASE ReadError(c)
    <2>1. taken' \in [Clients -> Nat] /\ \A d \in Clients : taken'[d] <= arrived[d]
      BY <1>4, <1>7 DEF ReadError, TypeOK
    <2>2. buf' \in Seq(Bytes) /\ mpc' \in {"read", "write", "close"}
      <3>1. <<>> \in Seq(Bytes) /\ buf \in Seq(Bytes)
        BY DEF TypeOK
      <3>2. CASE mode = "select"
        BY <1>7, <3>1, <3>2 DEF ReadError
      <3>3. CASE mode = "lt"
        BY <1>7, <3>1, <3>3 DEF ReadError
      <3>4. CASE mode = "et"
        BY <1>7, <3>1, <3>4 DEF ReadError
      <3>5. QED
        BY <3>2, <3>3, <3>4 DEF TypeOK, Modes
    <2>3. /\ peer' \in [Clients -> {"idle", "open", "closed", "reset", "aborted"}]
          /\ UNCHANGED <<echoed, up>>
      BY <1>7 DEF ReadError, TypeOK
    <2>4. TypeOK'
      BY <1>1, <2>1, <2>2, <2>3 DEF TypeOK, conf
    <2>5. QED
      BY <1>2, <2>4
  <1>8. CASE WriteBack(c)
    <2>1. echoed' \in [Clients -> Seq(Bytes \cup {Nul})]
      <3>1. echoed[c] \o Reply \in Seq(Bytes \cup {Nul})
        BY <1>3 DEF TypeOK
      <3>2. echoed' \in {echoed, [echoed EXCEPT ![c] = echoed[c] \o Reply]}
        BY <1>8 DEF WriteBack
      <3>3. QED
        BY <3>1, <3>2 DEF TypeOK
    <2>2. /\ peer' \in [Clients -> {"idle", "open", "closed", "reset", "aborted"}]
          /\ mpc' \in {"read", "next"} /\ UNCHANGED <<taken, up, buf>>
      BY <1>8 DEF WriteBack, AfterWrite, TypeOK
    <2>3. TypeOK'
      BY <1>1, <2>1, <2>2 DEF TypeOK, conf
    <2>4. QED
      BY <1>2, <2>3
  <1>9. CASE WriteFails(c)
    <2>1. \A k \in 0 .. Len(Reply) - 1 :
            echoed[c] \o SubSeq(Reply, 1, k) \in Seq(Bytes \cup {Nul})
      BY <1>3 DEF TypeOK
    <2>2. echoed' \in [Clients -> Seq(Bytes \cup {Nul})]
      <3>1. CASE echoed' = echoed
        BY <3>1 DEF TypeOK
      <3>2. ASSUME NEW k \in 0 .. Len(Reply) - 1,
                   echoed' = [echoed EXCEPT ![c] = @ \o SubSeq(Reply, 1, k)]
            PROVE  echoed' \in [Clients -> Seq(Bytes \cup {Nul})]
        <4>1. echoed' = [echoed EXCEPT ![c] = echoed[c] \o SubSeq(Reply, 1, k)]
          BY <3>2
        <4>2. QED
          BY <2>1, <4>1 DEF TypeOK
      <3>3. QED
        BY <1>9, <3>1, <3>2 DEF WriteFails
    <2>3. /\ peer' \in [Clients -> {"idle", "open", "closed", "reset", "aborted"}]
          /\ mpc' = "close" /\ UNCHANGED <<taken, up, buf>>
      BY <1>9 DEF WriteFails, TypeOK
    <2>4. TypeOK'
      BY <1>1, <2>2, <2>3 DEF TypeOK, conf
    <2>5. QED
      BY <1>2, <2>4
  <1>10. QED
    BY <1>5, <1>6, <1>7, <1>8, <1>9 DEF Run

(* The number is closed after it was taken out of the set, and no event    *)
(* for it is left in this round.                                           *)
LEMMA CloseKeeps ==
  ASSUME IndInv, CloseConn
  PROVE  IndInv'
  <1> USE DEF IndInv
  <1>1. cur \in Fds \ todo
    BY DEF CloseConn, Bookkeeping
  <1>2. /\ interest' = interest \ {cur} /\ file' = [file EXCEPT ![cur] = NoClient]
        /\ mpc' = "next" /\ edge' = edge \ {cur}
        /\ UNCHANGED <<conf, netVars, up, fd_max, todo, cur, buf>>
    BY DEF CloseConn
  <1>3. TypeOK'
    BY <1>1, <1>2 DEF TypeOK, conf, netVars
  <1>4. WatchedOpen'
    BY <1>1, <1>2 DEF WatchedOpen, Running, TypeOK
  <1>5. Bookkeeping'
    BY <1>1, <1>2, Numbers DEF Bookkeeping, netVars
  <1>6. QED
    BY <1>3, <1>4, <1>5

-----------------------------------------------------------------------------
(* The inductive invariant holds in every reachable state.                 *)
THEOREM Invariance == Spec => []IndInv
  <1>1. IndInv /\ [Next]_vars => IndInv'
    <2> SUFFICES ASSUME IndInv, [Next]_vars PROVE IndInv'
      OBVIOUS
    <2>1. CASE Server
      <3>1. ASSUME NEW c \in Clients, Run(c) PROVE IndInv'
        BY <3>1, RunKeeps
      <3>2. QED
        BY <2>1, <3>1, WaitKeeps, AcceptKeeps, StartRunKeeps, CloseKeeps DEF Server
    <2>2. CASE WaitFails
      BY <2>2, WaitKeeps
    <2>3. ASSUME NEW c \in Clients, Client(c) PROVE IndInv'
      BY <2>3, ClientKeeps
    <2>4. CASE UNCHANGED vars
      BY <2>4 DEF vars, conf, netVars, srvVars, IndInv, TypeOK, WatchedOpen, Running,
         Bookkeeping
    <2>5. QED
      BY <2>1, <2>2, <2>3, <2>4 DEF Next
  <1>2. QED
    BY <1>1, InitIndInv, PTL DEF Spec

(* Types, and taken <= arrived <= what the client has.                     *)
THEOREM TypeCorrect == Spec => []TypeOK
  BY Invariance, PTL DEF IndInv

(* No event is handled for a connection that is gone, whatever the events, *)
(* their order and the descriptor numbers.                                 *)
THEOREM HandlesOpenOnly == Spec => []WatchedOpen
  BY Invariance, PTL DEF IndInv
-----------------------------------------------------------------------------
(* The text of a sequence of bytes.                                        *)

Chars == Bytes \cup {Nul, Newline}

(* f gives the text of the first k bytes, for each k up to n.              *)
Texts(f, s, n) ==
  f = [k \in 0 .. n |-> IF k = 0 THEN <<>>
                        ELSE IF s[k] \in {Newline, Nul} THEN f[k - 1] ELSE Append(f[k - 1], s[k])]

(* A nonempty set of numbers has a least element: with it, a proof by      *)
(* induction is one from the least counterexample.                         *)
LEMMA LeastOf ==
  ASSUME NEW S, S \subseteq Nat, S # {}
  PROVE  \E x \in S : \A y \in S : x <= y
  <1> DEFINE R == {p \in Nat \X Nat : p[1] < p[2]}
  <1>1. IsWellFoundedOn(R, Nat)
    BY NatLessThanWellFounded DEF OpToRel
  <1> HIDE DEF R
  <1>2. PICK x \in S : \A y \in S : ~ (<<y, x>> \in R)
    BY <1>1, WFMin
  <1>3. ASSUME NEW y \in S PROVE x <= y
    <2>1. ~ (y < x)
      BY <1>2 DEF R
    <2>2. QED
      BY <2>1
  <1>4. QED
    BY <1>3

LEMMA TextsExist ==
  ASSUME NEW s, Len(s) \in Nat
  PROVE  \E f : Texts(f, s, Len(s))
  <1> DEFINE Missing == {n \in Nat : n <= Len(s) /\ ~ \E f : Texts(f, s, n)}
  <1>1. SUFFICES ASSUME Missing # {} PROVE FALSE
    OBVIOUS
  <1>2. PICK n \in Missing : \A m \in Missing : n <= m
    BY <1>1, LeastOf
  <1>3. n # 0
    <2>1. Texts([k \in 0 .. 0 |-> <<>>], s, 0)
      BY DEF Texts
    <2>2. QED
      BY <2>1
  <1>4. PICK g : Texts(g, s, n - 1)
    <2>1. n - 1 \in Nat /\ n - 1 <= Len(s) /\ ~ (n <= n - 1)
      BY <1>3
    <2>2. n - 1 \notin Missing
      BY <2>1, <1>2
    <2>3. QED
      BY <2>1, <2>2
  <1> DEFINE Next1(h, k) == IF s[k] \in {Newline, Nul} THEN h[k - 1] ELSE Append(h[k - 1], s[k])
             f == [k \in 0 .. n |-> IF k = n THEN Next1(g, n) ELSE g[k]]
  <1>5. ASSUME NEW k \in 0 .. n
        PROVE  f[k] = IF k = 0 THEN <<>> ELSE Next1(f, k)
    <2>1. \A i \in 0 .. n - 1 : g[i] = IF i = 0 THEN <<>> ELSE Next1(g, i)
      BY <1>4, Zenon DEF Texts
    <2>2. CASE k = n
      BY <2>2, <1>3
    <2>3. CASE k \in 0 .. n - 1
      <3>1. f[k] = g[k] /\ (k # 0 => f[k - 1] = g[k - 1])
        BY <2>3
      <3>2. QED
        BY <2>1, <2>3, <3>1
    <2>4. QED
      BY <2>2, <2>3
  <1>6. Texts(f, s, n)
    BY <1>5, Zenon DEF Texts
  <1>7. QED
    BY <1>6

LEMMA TextStep ==
  ASSUME NEW s, Len(s) \in Nat
  PROVE  /\ TextOfFirst(s)[0] = <<>>
         /\ \A k \in 1 .. Len(s) :
              TextOfFirst(s)[k] = IF s[k] \in {Newline, Nul} THEN TextOfFirst(s)[k - 1]
                                  ELSE Append(TextOfFirst(s)[k - 1], s[k])
  <1>1. Texts(TextOfFirst(s), s, Len(s))
    BY TextsExist, Zenon DEF TextOfFirst, Texts
  <1>2. \A k \in 0 .. Len(s) :
          TextOfFirst(s)[k] = IF k = 0 THEN <<>>
                              ELSE IF s[k] \in {Newline, Nul} THEN TextOfFirst(s)[k - 1]
                              ELSE Append(TextOfFirst(s)[k - 1], s[k])
    BY <1>1, Zenon DEF Texts
  <1>3. QED
    BY <1>2

(* Facts about sequences of bytes.                                         *)
LEMMA CharSeqs ==
  <<>> \in Seq(Chars) /\ \A r \in Seq(Chars), c \in Chars : Append(r, c) \in Seq(Chars)
  OBVIOUS

LEMMA AppendToBoth ==
  ASSUME NEW r \in Seq(Chars), NEW t \in Seq(Chars), NEW c \in Chars
  PROVE  Append(r \o t, c) = r \o Append(t, c)
  <1> DEFINE u == <<c>>
  <1>1. u \in Seq(Chars) /\ r \o t \in Seq(Chars)
    OBVIOUS
  <1>2. Append(t, c) = t \o u /\ Append(r \o t, c) = (r \o t) \o u
    BY <1>1
  <1> HIDE DEF u
  <1>3. (r \o t) \o u = r \o (t \o u)
    BY <1>1
  <1>4. QED
    BY <1>2, <1>3

(* Every text is a sequence of bytes.                                      *)
LEMMA TextType ==
  ASSUME NEW s \in Seq(Chars)
  PROVE  /\ \A k \in 0 .. Len(s) : TextOfFirst(s)[k] \in Seq(Chars)
         /\ Text(s) \in Seq(Chars)
  <1> DEFINE T(k) == TextOfFirst(s)[k]
             Bad == {k \in Nat : k <= Len(s) /\ T(k) \notin Seq(Chars)}
  <1>1. Len(s) \in Nat /\ \A k \in 1 .. Len(s) : s[k] \in Chars
    OBVIOUS
  <1>2. ASSUME Bad # {} PROVE FALSE
    <2>1. PICK k \in Bad : \A i \in Bad : k <= i
      BY <1>2, LeastOf
    <2>2. k # 0
      <3>1. T(0) \in Seq(Chars)
        BY <1>1, TextStep, CharSeqs
      <3>2. QED
        BY <2>1, <3>1
    <2>3. k - 1 \in Nat /\ k - 1 <= Len(s) /\ ~ (k <= k - 1) /\ k \in 1 .. Len(s)
      BY <1>1, <2>1, <2>2
    <2>4. k - 1 \notin Bad
      BY <2>1, <2>3
    <2>5. T(k - 1) \in Seq(Chars)
      BY <2>3, <2>4
    <2>6. T(k) = T(k - 1) \/ T(k) = Append(T(k - 1), s[k])
      BY <1>1, <2>3, TextStep
    <2> HIDE DEF T
    <2>7. T(k) \in Seq(Chars)
      <3>1. T(k - 1) \in Seq(Chars) /\ s[k] \in Chars
        BY <1>1, <2>3, <2>5
      <3>2. Append(T(k - 1), s[k]) \in Seq(Chars)
        BY <3>1, CharSeqs
      <3>3. QED
        BY <2>5, <2>6, <3>2
    <2>8. QED
      BY <2>1, <2>7
  <1>3. \A k \in 0 .. Len(s) : T(k) \in Seq(Chars)
    BY <1>1, <1>2
  <1>4. QED
    BY <1>1, <1>3 DEF Text

(* The text of the first bytes does not depend on the others.              *)
LEMMA TextLocal ==
  ASSUME NEW s \in Seq(Chars), NEW q \in Seq(Chars), NEW m \in Nat,
         m <= Len(s), m <= Len(q), \A i \in 1 .. m : s[i] = q[i]
  PROVE  TextOfFirst(s)[m] = TextOfFirst(q)[m]
  <1> DEFINE T(k) == TextOfFirst(s)[k]
             U(k) == TextOfFirst(q)[k]
             Bad == {k \in Nat : k <= m /\ T(k) # U(k)}
  <1>1. Len(s) \in Nat /\ Len(q) \in Nat
    OBVIOUS
  <1>2. ASSUME Bad # {} PROVE FALSE
    <2>1. PICK k \in Bad : \A i \in Bad : k <= i
      BY <1>2, LeastOf
    <2>2. k # 0
      BY <1>1, <2>1, TextStep
    <2>3. k - 1 \in Nat /\ k - 1 <= m /\ ~ (k <= k - 1) /\ k \in 1 .. Len(s) /\ k \in 1 .. Len(q)
          /\ k \in 1 .. m
      BY <1>1, <2>1, <2>2
    <2>4. k - 1 \notin Bad
      BY <2>1, <2>3
    <2>5. T(k - 1) = U(k - 1) /\ s[k] = q[k]
      BY <2>3, <2>4
    <2>6. /\ T(k) = IF s[k] \in {Newline, Nul} THEN T(k - 1) ELSE Append(T(k - 1), s[k])
          /\ U(k) = IF q[k] \in {Newline, Nul} THEN U(k - 1) ELSE Append(U(k - 1), q[k])
      BY <1>1, <2>3, TextStep
    <2> HIDE DEF T, U
    <2>7. T(k) = U(k)
      BY <2>5, <2>6
    <2>8. QED
      BY <2>1, <2>7
  <1>3. QED
    BY <1>2

(* The text of two pieces is the text of one and that of the other.        *)
LEMMA TextOfBoth ==
  ASSUME NEW s \in Seq(Chars), NEW t \in Seq(Chars)
  PROVE  Text(s \o t) = Text(s) \o Text(t)
  <1> DEFINE q == s \o t
             n == Len(s)
             Q(k) == TextOfFirst(q)[n + k]
             T(k) == TextOfFirst(t)[k]
             Bad == {k \in Nat : k <= Len(t) /\ Q(k) # Text(s) \o T(k)}
  <1>1. /\ q \in Seq(Chars) /\ n \in Nat /\ Len(t) \in Nat /\ Len(q) = n + Len(t)
        /\ \A i \in 1 .. n : q[i] = s[i]
        /\ \A i \in 1 .. Len(t) : q[n + i] = t[i]
        /\ \A i \in 1 .. Len(t) : t[i] \in Chars
    OBVIOUS
  <1>2. Text(s) \in Seq(Chars) /\ \A k \in 0 .. Len(t) : T(k) \in Seq(Chars)
    BY TextType
  <1>3. TextOfFirst(q)[n] = Text(s)
    <2> HIDE DEF q
    <2>1. n <= Len(s) /\ n <= Len(q) /\ \A i \in 1 .. n : s[i] = q[i]
      BY <1>1
    <2>2. TextOfFirst(s)[n] = TextOfFirst(q)[n]
      BY <1>1, <2>1, TextLocal
    <2>3. QED
      BY <2>2 DEF Text
  <1> HIDE DEF q
  <1>4. ASSUME Bad # {} PROVE FALSE
    <2>1. PICK k \in Bad : \A i \in Bad : k <= i
      BY <1>4, LeastOf
    <2>2. k # 0
      <3> SUFFICES ASSUME k = 0 PROVE Q(k) = Text(s) \o T(k)
        BY <2>1
      <3>1. T(0) = <<>> /\ Q(0) = Text(s)
        BY <1>1, <1>3, TextStep
      <3> HIDE DEF T, Q
      <3>2. Text(s) \o <<>> = Text(s)
        BY <1>2
      <3>3. QED
        BY <3>1, <3>2
    <2>3. k - 1 \in Nat /\ k - 1 <= Len(t) /\ ~ (k <= k - 1) /\ k \in 1 .. Len(t)
          /\ n + k \in 1 .. Len(q) /\ (n + k) - 1 = n + (k - 1)
      BY <1>1, <2>1, <2>2
    <2>4. k - 1 \notin Bad
      BY <2>1, <2>3
    <2>5. Q(k - 1) = Text(s) \o T(k - 1)
      BY <2>3, <2>4
    <2>6. T(k) = IF t[k] \in {Newline, Nul} THEN T(k - 1) ELSE Append(T(k - 1), t[k])
      BY <1>1, <2>3, TextStep
    <2>7. Q(k) = IF t[k] \in {Newline, Nul} THEN Q(k - 1) ELSE Append(Q(k - 1), t[k])
      <3>1. \A j \in 1 .. Len(q) :
              TextOfFirst(q)[j] = IF q[j] \in {Newline, Nul} THEN TextOfFirst(q)[j - 1]
                                  ELSE Append(TextOfFirst(q)[j - 1], q[j])
        <4>1. Len(q) \in Nat
          BY <1>1
        <4>2. QED
          BY <4>1, TextStep
      <3>2. q[n + k] = t[k]
        BY <1>1, <2>3
      <3>3. QED
        BY <2>3, <3>1, <3>2
    <2>8. T(k - 1) \in Seq(Chars) /\ t[k] \in Chars
      BY <1>1, <1>2, <2>3
    <2> HIDE DEF T, Q
    <2>9. Append(Text(s) \o T(k - 1), t[k]) = Text(s) \o Append(T(k - 1), t[k])
      <3>1. PICK r \in Seq(Chars), u \in Seq(Chars), c \in Chars :
                 r = Text(s) /\ u = T(k - 1) /\ c = t[k]
        BY <1>2, <2>8
      <3>2. Append(r \o u, c) = r \o Append(u, c)
        BY AppendToBoth
      <3>3. QED
        BY <3>1, <3>2
    <2>10. Q(k) = Text(s) \o T(k)
      BY <2>5, <2>6, <2>7, <2>9
    <2>11. QED
      BY <2>1, <2>10
  <1>5. Q(Len(t)) = Text(s) \o T(Len(t))
    BY <1>1, <1>4
  <1>6. QED
    BY <1>1, <1>5 DEF Text, q

LEMMA TextOfNone == Text(<<>>) = <<>>
  <1>1. Len(<<>>) = 0
    OBVIOUS
  <1>2. QED
    BY <1>1, TextStep DEF Text

(* A newline or a NUL is no text.                                          *)
LEMMA TextOfMark ==
  ASSUME NEW b \in {Newline, Nul}
  PROVE  Text(<<b>>) = <<>>
  <1> DEFINE s == <<b>>
  <1>1. Len(s) = 1 /\ s[1] = b
    OBVIOUS
  <1> HIDE DEF s
  <1>2. TextOfFirst(s)[1] = TextOfFirst(s)[0] /\ TextOfFirst(s)[0] = <<>>
    BY <1>1, TextStep
  <1>3. QED
    BY <1>1, <1>2 DEF Text, s

-----------------------------------------------------------------------------
(* The text of what run reads and writes.                                  *)

Heard(c) == Text(SubSeq(Input[c], 1, taken[c]))

(* f's connection: what the client was sent is what was read from it; but  *)
(* for the bytes of the buffer; or the write failed before all was sent.   *)
UpToDate(f, c) == mpc = "read" \/ ~ Running(f) => Text(echoed[c]) = Heard(c)
InBuffer(f, c) == mpc = "write" /\ Running(f) => Text(echoed[c]) \o Text(buf) = Heard(c)
CutShort(f, c) ==
  mpc = "close" /\ Running(f) =>
    \E n \in 0 .. Len(Heard(c)) : Text(echoed[c]) = SubSeq(Heard(c), 1, n)

InStep(f, c) == UpToDate(f, c) /\ InBuffer(f, c) /\ CutShort(f, c)

(* A client is in the backlog once, before it has a descriptor, and has    *)
(* one at most.                                                            *)
NotYet(c)  == peer[c] = "idle" \/ \E i \in DOMAIN backlog : backlog[i] = c
Waiting    == /\ \A c \in Clients : NotYet(c) => /\ taken[c] = 0 /\ echoed[c] = <<>>
                                                 /\ \A f \in Fds : file[f] # c
              /\ \A i \in DOMAIN backlog : peer[backlog[i]] # "idle"
              /\ \A i, j \in DOMAIN backlog : backlog[i] = backlog[j] => i = j
OneNumber  == \A f, g \in Fds : file[f] = file[g] /\ file[f] # NoClient => f = g

Echoing == \A f \in Fds : \A c \in Clients : file[f] = c /\ peer[c] = "open" => InStep(f, c)

TextInv == Waiting /\ OneNumber /\ Echoing

(* It is all a client may be promised.                                     *)
LEMMA TextPromised == IndInv /\ TextInv => EchoesText
  <1> SUFFICES ASSUME IndInv, TextInv, NEW c \in Clients, peer[c] = "open",
                      NEW f \in Fds, file[f] = c
               PROVE  LET busy == mpc \in {"write", "close"} /\ file[cur] = c
                          got  == Text(SubSeq(Input[c], 1, taken[c]))
                      IN  IF busy
                            THEN \E n \in 0 .. Len(got) : Text(echoed[c]) = SubSeq(got, 1, n)
                            ELSE Text(echoed[c]) = got
    BY DEF EchoesText
  <1>1. InStep(f, c) /\ c # NoClient
    BY DEF TextInv, Echoing
  <1>2. mpc \in {"wait", "next", "read", "write", "close"} /\ taken[c] \in Nat
        /\ taken[c] <= Len(Input[c]) /\ Input[c] \in Seq(Bytes) /\ buf \in Seq(Chars)
        /\ echoed[c] \in Seq(Chars)
    <2>1. taken[c] \in Nat /\ arrived[c] \in Nat /\ taken[c] <= arrived[c]
          /\ arrived[c] <= Len(Input[c]) /\ Len(Input[c]) \in Nat
      BY DEF IndInv, TypeOK
    <2>2. buf \in Seq(Bytes) /\ echoed[c] \in Seq(Bytes \cup {Nul})
      BY DEF IndInv, TypeOK
    <2>3. buf \in Seq(Chars) /\ echoed[c] \in Seq(Chars)
      BY <2>2 DEF Chars
    <2>4. QED
      BY <2>1, <2>3 DEF IndInv, TypeOK
  <1>3. CASE mpc \in {"write", "close"} /\ file[cur] = c
    <2>1. cur = f /\ Running(f)
      BY <1>1, <1>3 DEF IndInv, Bookkeeping, TextInv, OneNumber, Running
    <2>2. CASE mpc = "close"
      BY <1>1, <1>3, <2>1, <2>2 DEF InStep, CutShort, Heard
    <2>3. CASE mpc = "write"
      <3>1. PICK r \in Seq(Chars), t \in Seq(Chars) : r = Text(echoed[c]) /\ t = Text(buf)
        BY <1>2, TextType
      <3>2. Heard(c) = r \o t
        BY <1>1, <2>1, <2>3, <3>1 DEF InStep, InBuffer
      <3>3. Len(r) \in 0 .. Len(r \o t) /\ r = SubSeq(r \o t, 1, Len(r))
        OBVIOUS
      <3>4. QED
        BY <1>3, <3>1, <3>2, <3>3 DEF Heard
    <2>4. QED
      BY <1>3, <2>2, <2>3
  <1>4. CASE ~ (mpc \in {"write", "close"} /\ file[cur] = c)
    <2>1. mpc = "read" \/ ~ Running(f)
      BY <1>2, <1>4 DEF Running
    <2>2. QED
      BY <1>1, <1>4, <2>1 DEF InStep, UpToDate, Heard
  <1>5. QED
    BY <1>3, <1>4

LEMMA TextStarts == Init => TextInv
  BY DEF Init, TextInv, Waiting, NotYet, OneNumber, Echoing

(* What is said of a connection, when nothing it depends on changes.       *)
LEMMA InStepStays ==
  ASSUME NEW f \in Fds, NEW c \in Clients, InStep(f, c),
         taken'[c] = taken[c], echoed'[c] = echoed[c], UNCHANGED buf,
         mpc' = "read" \/ ~ Running(f)' => mpc = "read" \/ ~ Running(f),
         mpc' = "write" /\ Running(f)' => mpc = "write" /\ Running(f),
         mpc' = "close" /\ Running(f)' => mpc = "close" /\ Running(f)
  PROVE  InStep(f, c)'
  <1>1. Heard(c)' = Heard(c) /\ Text(echoed[c])' = Text(echoed[c]) /\ Text(buf)' = Text(buf)
    BY DEF Heard
  <1>2. QED
    BY <1>1 DEF InStep, UpToDate, InBuffer, CutShort

(* ... and for all, when the server does not touch a connection.           *)
LEMMA TextStays ==
  ASSUME IndInv, TextInv, UNCHANGED <<taken, echoed, file, mpc, cur, buf, backlog>>,
         \A c \in Clients : (peer'[c] = "open" => peer[c] = "open")
                            /\ (peer'[c] = "idle" <=> peer[c] = "idle")
  PROVE  TextInv'
  <1>1. Running(cur)' = Running(cur) /\ \A f \in Fds : Running(f)' = Running(f)
    BY DEF Running
  <1>2. \A f \in Fds : \A c \in Clients : InStep(f, c) => InStep(f, c)'
    BY <1>1, InStepStays
  <1>3. Echoing'
    BY <1>2 DEF TextInv, Echoing
  <1>4. backlog \in Seq(Clients)
    BY DEF IndInv, TypeOK
  <1>5. Waiting'
    BY <1>4 DEF TextInv, Waiting, NotYet
  <1>6. OneNumber'
    BY DEF TextInv, OneNumber
  <1>7. QED
    BY <1>3, <1>5, <1>6 DEF TextInv

(* The clients: connecting queues one that was not queued.                 *)
LEMMA TextClient ==
  ASSUME IndInv, TextInv, NEW c \in Clients, Client(c)
  PROVE  TextInv'
  <1>1. CASE ~ Connect(c)
    <2>1. UNCHANGED <<taken, echoed, file, mpc, cur, buf, backlog>>
      BY <1>1 DEF Client, Arrive, Leave, Stall, Resume, srvVars
    <2>2. \A d \in Clients : (peer'[d] = "open" => peer[d] = "open")
                             /\ (peer'[d] = "idle" <=> peer[d] = "idle")
      BY <1>1 DEF Client, Arrive, Leave, Stall, Resume, IndInv, TypeOK
    <2>3. QED
      BY <2>1, <2>2, TextStays
  <1>2. CASE Connect(c)
    <2>1. /\ peer[c] = "idle" /\ peer' = [peer EXCEPT ![c] = "open"]
          /\ backlog' = Append(backlog, c)
          /\ UNCHANGED <<taken, echoed, file, mpc, cur, buf>>
      BY <1>2 DEF Connect, srvVars
    <2>2. /\ backlog \in Seq(Clients) /\ backlog' \in Seq(Clients)
          /\ DOMAIN backlog' = DOMAIN backlog \cup {Len(backlog) + 1}
          /\ \A i \in DOMAIN backlog : backlog'[i] = backlog[i]
          /\ backlog'[Len(backlog) + 1] = c
          /\ Len(backlog) + 1 \notin DOMAIN backlog
      <3>1. backlog \in Seq(Clients)
        BY DEF IndInv, TypeOK
      <3>2. QED
        BY <2>1, <3>1
    <2>3. /\ peer'[c] = "open"
          /\ \A d \in Clients \ {c} : peer'[d] = peer[d]
      BY <2>1 DEF IndInv, TypeOK
    <2>4. NotYet(c) /\ \A d \in Clients : NotYet(d)' <=> NotYet(d)
      BY <2>1, <2>2, <2>3 DEF NotYet
    <2>5. \A i \in DOMAIN backlog : backlog[i] # c /\ backlog[i] \in Clients
      BY <2>1, <2>2 DEF TextInv, Waiting
    <2>6. Waiting'
      <3>1. \A d \in Clients : NotYet(d)' => /\ taken'[d] = 0 /\ echoed'[d] = <<>>
                                             /\ \A f \in Fds : file'[f] # d
        BY <2>1, <2>4 DEF TextInv, Waiting
      <3>2. \A i \in DOMAIN backlog' : peer'[backlog'[i]] # "idle"
        BY <2>2, <2>3, <2>5 DEF TextInv, Waiting
      <3>3. \A i, j \in DOMAIN backlog' : backlog'[i] = backlog'[j] => i = j
        BY <2>2, <2>5 DEF TextInv, Waiting
      <3>4. QED
        BY <3>1, <3>2, <3>3 DEF Waiting
    <2>7. Echoing'
      <3> SUFFICES ASSUME NEW f \in Fds, NEW d \in Clients, file[f] = d, peer'[d] = "open"
                   PROVE  InStep(f, d)'
        BY <2>1 DEF Echoing
      <3>1. d # c /\ peer[d] = "open"
        BY <2>3, <2>4 DEF TextInv, Waiting
      <3>2. InStep(f, d)
        BY <3>1 DEF TextInv, Echoing
      <3>3. Running(f)' = Running(f)
        BY <2>1 DEF Running
      <3>4. QED
        BY <2>1, <3>2, <3>3, InStepStays
    <2>8. OneNumber'
      BY <2>1 DEF TextInv, OneNumber
    <2>9. QED
      BY <2>6, <2>7, <2>8 DEF TextInv
  <1>3. QED
    BY <1>1, <1>2

(* The loop between two connections.                                       *)
LEMMA TextLoop ==
  ASSUME IndInv, TextInv, Wait \/ WaitFails \/ WaitAgain \/ StartRun
  PROVE  TextInv'
  <1>1. /\ UNCHANGED <<taken, echoed, file, buf, backlog, peer>>
        /\ \/ mpc \in {"wait", "next"} /\ mpc' \in {"wait", "next", "read"}
           \/ UNCHANGED <<mpc, cur>>
    BY DEF Wait, WaitFails, WaitAgain, StartRun, Turn, netVars
  <1>2. CASE UNCHANGED <<mpc, cur>>
    BY <1>1, <1>2, TextStays
  <1>3. CASE mpc \in {"wait", "next"} /\ mpc' \in {"wait", "next", "read"}
    <2>1. \A f \in Fds : ~ Running(f)
      BY <1>3 DEF Running
    <2>2. \A f \in Fds : \A c \in Clients : InStep(f, c) => InStep(f, c)'
      BY <1>1, <1>3, <2>1, InStepStays
    <2>3. Echoing'
      BY <1>1, <2>2 DEF TextInv, Echoing
    <2>4. Waiting' /\ OneNumber'
      BY <1>1 DEF TextInv, Waiting, NotYet, OneNumber
    <2>5. QED
      BY <2>3, <2>4 DEF TextInv
  <1>4. QED
    BY <1>1, <1>2, <1>3

(* accept_request: the client at the head of the queue leaves it, and gets *)
(* a number.                                                               *)
LEMMA Dequeued ==
  ASSUME IndInv, TextInv, backlog # <<>>, backlog' = Tail(backlog)
  PROVE  /\ Head(backlog) \in Clients /\ NotYet(Head(backlog)) /\ peer[Head(backlog)] # "idle"
         /\ \A i \in DOMAIN backlog' : /\ backlog'[i] # Head(backlog)
                                       /\ i + 1 \in DOMAIN backlog /\ backlog'[i] = backlog[i + 1]
         /\ \A i, j \in DOMAIN backlog' : backlog'[i] = backlog'[j] => i = j
  <1>1. /\ backlog \in Seq(Clients) /\ Head(backlog) = backlog[1] /\ 1 \in DOMAIN backlog
        /\ Head(backlog) \in Clients
        /\ \A i \in DOMAIN backlog' : i \in Nat \ {0} /\ i + 1 \in DOMAIN backlog
                                      /\ backlog'[i] = backlog[i + 1]
    <2>1. backlog \in Seq(Clients)
      BY DEF IndInv, TypeOK
    <2>2. QED
      BY <2>1
  <1>2. \A i, j \in DOMAIN backlog : backlog[i] = backlog[j] => i = j
    BY DEF TextInv, Waiting
  <1>3. \A i \in DOMAIN backlog' : backlog'[i] # Head(backlog)
    <2> SUFFICES ASSUME NEW i \in DOMAIN backlog', backlog[i + 1] = backlog[1] PROVE FALSE
      BY <1>1
    <2>1. i + 1 = 1
      BY <1>1, <1>2
    <2>2. QED
      BY <1>1, <2>1
  <1>4. \A i, j \in DOMAIN backlog' : backlog'[i] = backlog'[j] => i = j
    <2> SUFFICES ASSUME NEW i \in DOMAIN backlog', NEW j \in DOMAIN backlog',
                        backlog[i + 1] = backlog[j + 1]
                 PROVE  i = j
      BY <1>1
    <2>1. i + 1 = j + 1
      BY <1>1, <1>2
    <2>2. QED
      BY <1>1, <2>1
  <1>5. QED
    BY <1>1, <1>3, <1>4 DEF TextInv, Waiting, NotYet

LEMMA TextAccept ==
  ASSUME IndInv, TextInv, AcceptFails \/ AcceptSelect \/ AcceptLT \/ AcceptET
  PROVE  TextInv'
  <1>1. /\ mpc = "next" /\ Listener \in todo
        /\ UNCHANGED <<peer, taken, echoed, mpc, cur, buf>>
    BY DEF AcceptFails, AcceptSelect, AcceptLT, AcceptET, Turn
  <1>2. backlog # <<>>
    BY <1>1 DEF IndInv, Bookkeeping
  <1>3. (\A f \in Fds : ~ Running(f)) /\ (\A f \in Fds : ~ Running(f)')
    BY <1>1 DEF Running
  <1>4. \A f \in Fds : \A c \in Clients : InStep(f, c) => InStep(f, c)'
    BY <1>1, <1>3, InStepStays
  <1>5. CASE backlog' = backlog /\ file' = file
    BY <1>1, <1>5, TextStays DEF IndInv, TypeOK
  <1>6. CASE backlog' = Tail(backlog) /\ file' = file
    <2>1. \A c \in Clients : NotYet(c)' => NotYet(c)
      BY <1>1, <1>2, <1>6, Dequeued DEF NotYet
    <2>2. \A i \in DOMAIN backlog' : peer'[backlog'[i]] # "idle"
      BY <1>1, <1>2, <1>6, Dequeued DEF TextInv, Waiting
    <2>3. Waiting'
      BY <1>1, <1>2, <1>6, <2>1, <2>2, Dequeued DEF TextInv, Waiting
    <2>4. QED
      BY <1>1, <1>4, <1>6, <2>3 DEF TextInv, Echoing, OneNumber
  <1>7. ASSUME NEW f \in Fds, Accepted(f) PROVE TextInv'
    <2>0. PICK c \in Clients : c = Head(backlog)
      BY <1>2, <1>7, Dequeued DEF Accepted
    <2>1. file' = [file EXCEPT ![f] = c] /\ backlog' = Tail(backlog) /\ file[f] = NoClient
      <3>1. \E m \in FreeFds : \A g \in FreeFds : m <= g
        <4>1. FreeFds \subseteq Nat /\ FreeFds # {}
          BY <1>7 DEF FreeFds, Accepted
        <4>2. QED
          BY <4>1, LeastOf
      <3>2. Lowest(FreeFds) \in FreeFds
        BY <3>1, Zenon DEF Lowest
      <3>3. QED
        BY <1>7, <2>0, <3>2 DEF Accepted, FreeFds
    <2>2. /\ c \in Clients /\ NotYet(c) /\ peer[c] # "idle"
          /\ \A i \in DOMAIN backlog' : backlog'[i] # c
      BY <1>2, <2>0, <2>1, Dequeued
    <2>3. file'[f] = c /\ \A g \in Fds \ {f} : file'[g] = file[g]
      BY <2>1 DEF IndInv, TypeOK
    <2>4. taken[c] = 0 /\ echoed[c] = <<>> /\ \A g \in Fds : file[g] # c
      BY <2>2 DEF TextInv, Waiting
    <2>5. \A d \in Clients : NotYet(d)' => NotYet(d) /\ d # c
      BY <1>1, <1>2, <2>0, <2>1, <2>2, Dequeued DEF NotYet
    <2>6. Waiting'
      <3>1. \A i \in DOMAIN backlog' : peer'[backlog'[i]] # "idle"
        BY <1>1, <1>2, <2>1, Dequeued DEF TextInv, Waiting
      <3>2. \A d \in Clients : NotYet(d)' => /\ taken'[d] = 0 /\ echoed'[d] = <<>>
                                             /\ \A g \in Fds : file'[g] # d
        BY <1>1, <2>3, <2>5 DEF TextInv, Waiting
      <3>3. QED
        BY <1>2, <2>1, <3>1, <3>2, Dequeued DEF Waiting
    <2>7. OneNumber'
      BY <2>3, <2>4 DEF TextInv, OneNumber
    <2>8. InStep(f, c)'
      <3>1. SubSeq(Input[c], 1, 0) = <<>>
        BY <2>2
      <3>2. Heard(c)' = <<>> /\ Text(echoed[c])' = <<>>
        <4>1. Heard(c)' = Text(SubSeq(Input[c], 1, taken'[c])) /\ taken'[c] = 0
          BY <1>1, <2>4 DEF Heard
        <4>2. Text(echoed[c])' = Text(echoed'[c]) /\ echoed'[c] = <<>>
          BY <1>1, <2>4
        <4>3. QED
          BY <3>1, <4>1, <4>2, TextOfNone
      <3>3. QED
        BY <1>1, <1>3, <3>2 DEF InStep, UpToDate, InBuffer, CutShort
    <2>9. Echoing'
      <3> SUFFICES ASSUME NEW g \in Fds, NEW d \in Clients, file'[g] = d, peer[d] = "open"
                   PROVE  InStep(g, d)'
        BY <1>1 DEF Echoing
      <3>1. CASE g = f
        BY <2>3, <2>8, <3>1
      <3>2. CASE g # f
        BY <1>4, <2>3, <3>2 DEF TextInv, Echoing
      <3>3. QED
        BY <3>1, <3>2
    <2>10. QED
      BY <2>6, <2>7, <2>9 DEF TextInv
  <1>8. CASE AcceptFails
    BY <1>5, <1>6, <1>8 DEF AcceptFails
  <1>9. CASE AcceptSelect \/ AcceptLT \/ AcceptET
    BY <1>7, <1>9 DEF AcceptSelect, AcceptLT, AcceptET
  <1>10. QED
    BY <1>8, <1>9

-----------------------------------------------------------------------------
(* run: the other connections are not touched.                             *)
LEMMA RunOthers ==
  ASSUME IndInv, TextInv, NEW c \in Clients, NEW k \in Fds, k = cur, file[k] = c,
         mpc \in {"read", "write"},
         UNCHANGED <<cur, file, backlog>>,
         \A d \in Clients \ {c} : taken'[d] = taken[d] /\ echoed'[d] = echoed[d]
                                  /\ peer'[d] = peer[d],
         peer'[c] # "idle", peer'[c] = "open" => InStep(k, c)'
  PROVE  TextInv'
  <1>1. \A d \in Clients : NotYet(d)' => NotYet(d) /\ d # c
    <2>1. ~ NotYet(c)
      BY DEF TextInv, Waiting
    <2>2. ~ NotYet(c)'
      BY <2>1 DEF NotYet
    <2>3. QED
      BY <2>2 DEF NotYet
  <1>2. \A i \in DOMAIN backlog : backlog[i] \in Clients \ {c} /\ peer[backlog[i]] # "idle"
    <2>1. backlog \in Seq(Clients)
      BY DEF IndInv, TypeOK
    <2>2. \A i \in DOMAIN backlog : backlog[i] # c
      BY DEF TextInv, Waiting, NotYet
    <2>3. QED
      BY <2>1, <2>2 DEF TextInv, Waiting
  <1>3. Waiting'
    BY <1>1, <1>2 DEF TextInv, Waiting
  <1>4. OneNumber'
    BY DEF TextInv, OneNumber
  <1>5. ASSUME NEW f \in Fds, NEW d \in Clients, file[f] = d, peer'[d] = "open"
        PROVE  InStep(f, d)'
    <2>1. CASE f = k
      BY <1>5, <2>1
    <2>2. CASE f # k
      <3>1. d # c
        BY <1>5, <2>2 DEF TextInv, OneNumber
      <3>2. peer[d] = "open" /\ taken'[d] = taken[d] /\ echoed'[d] = echoed[d]
        BY <1>5, <3>1
      <3>3. ~ Running(f) /\ ~ Running(f)'
        BY <2>2 DEF Running
      <3>4. Text(echoed[d]) = Heard(d)
        BY <1>5, <3>2, <3>3 DEF TextInv, Echoing, InStep, UpToDate
      <3>5. Heard(d)' = Heard(d) /\ Text(echoed[d])' = Text(echoed[d])
        BY <3>2 DEF Heard
      <3>6. QED
        BY <3>3, <3>4, <3>5 DEF InStep, UpToDate, InBuffer, CutShort
    <2>3. QED
      BY <2>1, <2>2
  <1>6. QED
    BY <1>3, <1>4, <1>5 DEF TextInv, Echoing

(* What is written is the text of what was read: cutting the newline off,  *)
(* or putting a NUL in its place, leaves the text.                         *)
LEMMA ReplyText ==
  ASSUME TypeOK
  PROVE  Reply \in Seq(Chars) /\ buf \in Seq(Chars) /\ Text(Reply) = Text(buf)
  <1>1. buf \in Seq(Chars) /\ Reply \in Seq(Chars) /\ Len(buf) \in Nat
    <2>1. Seq(Bytes) \subseteq Seq(Chars) /\ Seq(Bytes \cup {Nul}) \subseteq Seq(Chars)
      BY DEF Chars
    <2>2. buf \in Seq(Bytes) /\ Reply \in Seq(Bytes \cup {Nul})
      BY ReplyType DEF TypeOK
    <2>3. QED
      BY <2>1, <2>2
  <1>2. CASE Len(buf) = 0 \/ buf[Len(buf)] # Newline
    BY <1>1, <1>2 DEF Reply
  <1>3. CASE ~ (Len(buf) = 0 \/ buf[Len(buf)] # Newline)
    <2>1. PICK front \in Seq(Chars), n \in Nat \ {0} :
            front = SubSeq(buf, 1, Len(buf) - 1) /\ n = Len(buf) /\ buf[n] = Newline
      <3>1. SubSeq(buf, 1, Len(buf) - 1) \in Seq(Chars)
        BY <1>1, <1>3
      <3>2. QED
        BY <1>1, <1>3, <3>1
    <2>2. PICK last \in Seq(Chars), none \in Seq(Chars) : last = <<Newline>> /\ none = <<Nul>>
      <3>1. Newline \in Chars /\ Nul \in Chars
        BY DEF Chars
      <3>2. <<Newline>> \in Seq(Chars) /\ <<Nul>> \in Seq(Chars)
        BY <3>1
      <3>3. QED
        BY <3>2
    <2>3. buf = front \o last
      BY <1>1, <2>1, <2>2
    <2>4. [buf EXCEPT ![n] = Nul] = front \o none
      BY <1>1, <2>1, <2>2
    <2>5. Reply = front \/ Reply = front \o none
      BY <1>3, <2>1, <2>4 DEF Reply
    <2>6. Text(front) \in Seq(Chars) /\ Text(last) = <<>> /\ Text(none) = <<>>
      BY <2>1, <2>2, TextType, TextOfMark
    <2>7. Text(front) \o <<>> = Text(front)
      <3>1. PICK r \in Seq(Chars) : r = Text(front)
        BY <2>6
      <3>2. r \o <<>> = r
        OBVIOUS
      <3>3. QED
        BY <3>1, <3>2
    <2>8. Text(front \o last) = Text(front) \o Text(last)
          /\ Text(front \o none) = Text(front) \o Text(none)
      BY TextOfBoth
    <2>9. QED
      BY <1>1, <2>3, <2>5, <2>6, <2>7, <2>8
  <1>4. QED
    BY <1>2, <1>3

(* A sequence cut in two is both parts.                                    *)
LEMMA CutInTwo ==
  ASSUME NEW s \in Seq(Chars), NEW m \in 0 .. Len(s)
  PROVE  s = SubSeq(s, 1, m) \o SubSeq(s, m + 1, Len(s))
  <1>1. CASE m = 0
    <2>1. SubSeq(s, 1, 0) = <<>> /\ SubSeq(s, 1, Len(s)) = s
      OBVIOUS
    <2>2. QED
      BY <1>1, <2>1
  <1>2. CASE m # 0
    <2>1. m \in 1 .. Len(s)
      BY <1>2
    <2>2. QED
      BY <2>1
  <1>3. QED
    BY <1>1, <1>2

(* A piece read goes to the buffer.                                        *)
LEMMA HeardMore ==
  ASSUME NEW s \in Seq(Chars), NEW m \in Nat, NEW n \in Nat, m + n <= Len(s)
  PROVE  Text(SubSeq(s, 1, m + n)) = Text(SubSeq(s, 1, m)) \o Text(SubSeq(s, m + 1, m + n))
  <1>1. PICK r \in Seq(Chars), t \in Seq(Chars) :
          r = SubSeq(s, 1, m) /\ t = SubSeq(s, m + 1, m + n)
    <2>1. SubSeq(s, 1, m) \in Seq(Chars) /\ SubSeq(s, m + 1, m + n) \in Seq(Chars)
      OBVIOUS
    <2>2. QED
      BY <2>1
  <1>2. SubSeq(s, 1, m + n) = r \o t
    BY <1>1
  <1>3. QED
    BY <1>1, <1>2, TextOfBoth

LEMMA TextRun ==
  ASSUME IndInv, TextInv, NEW c \in Clients, Run(c)
  PROVE  TextInv'
  <1>1. /\ mpc \in {"read", "write"} /\ file[cur] = c
        /\ UNCHANGED <<cur, file, backlog>>
    BY DEF Run, Reading, Writing, ReadSome, ReadEof, ReadError, ReadAgain, WriteBack,
       WriteFails, WriteKills, netVars
  <1>2. PICK k \in Fds : k = cur
    BY <1>1 DEF IndInv, Bookkeeping
  <1>3. Running(k) /\ (mpc' \in {"read", "write", "close"} => Running(k)')
        /\ (mpc' = "next" => ~ Running(k)')
    BY <1>1, <1>2 DEF Running
  <1>4. /\ \A d \in Clients \ {c} : taken'[d] = taken[d] /\ echoed'[d] = echoed[d]
                                    /\ peer'[d] = peer[d]
        /\ peer'[c] # "idle"
    <2>1. peer[c] # "idle"
      BY <1>1, <1>2 DEF TextInv, Waiting, NotYet
    <2>2. /\ taken' = [taken EXCEPT ![c] = taken'[c]] /\ echoed' = [echoed EXCEPT ![c] = echoed'[c]]
          /\ peer' = [peer EXCEPT ![c] = peer'[c]] /\ peer'[c] \in {peer[c], "closed", "reset", "aborted"}
      BY DEF Run, Reading, Writing, ReadSome, ReadEof, ReadError, ReadAgain, WriteBack,
         WriteFails, WriteKills, netVars, IndInv, TypeOK
    <2>3. QED
      BY <2>1, <2>2 DEF IndInv, TypeOK
  <1>5. SUFFICES ASSUME peer'[c] = "open" PROVE InStep(k, c)'
    BY <1>1, <1>2, <1>4, RunOthers
  <1>6. TypeOK /\ (peer[c] = "open" => InStep(k, c)) /\ echoed[c] \in Seq(Chars)
        /\ echoed[c] \in Seq(Bytes \cup {Nul})
    <2>1. echoed[c] \in Seq(Bytes \cup {Nul})
      BY DEF IndInv, TypeOK
    <2>2. Seq(Bytes \cup {Nul}) \subseteq Seq(Chars)
      BY DEF Chars
    <2>3. QED
      BY <1>1, <1>2, <2>1, <2>2 DEF IndInv, TextInv, Echoing
  <1>7. CASE ReadSome(c)
    <2> DEFINE n == Min2(arrived[c] - taken[c], BUFFER_SIZE)
    <2>1. /\ taken[c] \in Nat /\ n \in Nat /\ taken[c] + n <= Len(Input[c])
          /\ Input[c] \in Seq(Chars)
      <3>1. taken[c] \in Nat /\ arrived[c] \in Nat /\ arrived[c] <= Len(Input[c])
        BY <1>6 DEF TypeOK
      <3>2. n \in Nat /\ taken[c] + n <= arrived[c]
        BY <1>7, <3>1 DEF ReadSome, Min2
      <3>3. Input[c] \in Seq(Bytes) /\ Seq(Bytes) \subseteq Seq(Chars)
        BY DEF Chars
      <3>4. QED
        BY <3>1, <3>2, <3>3
    <2>2. /\ buf' = SubSeq(Input[c], taken[c] + 1, taken[c] + n) /\ taken'[c] = taken[c] + n
          /\ mpc' = "write" /\ mpc = "read" /\ UNCHANGED <<peer, echoed>>
      BY <1>6, <1>7 DEF ReadSome, Reading, TypeOK
    <2> HIDE DEF n
    <2>3. Text(echoed[c]) = Heard(c)
      BY <1>5, <1>6, <2>2 DEF InStep, UpToDate
    <2>4. /\ Heard(c)' = Text(SubSeq(Input[c], 1, taken[c] + n))
          /\ Text(buf)' = Text(SubSeq(Input[c], taken[c] + 1, taken[c] + n))
          /\ Text(echoed[c])' = Text(echoed[c])
      <3>1. Heard(c)' = Text(SubSeq(Input[c], 1, taken'[c])) /\ Text(buf)' = Text(buf')
            /\ Text(echoed[c])' = Text(echoed'[c])
        BY DEF Heard
      <3>2. QED
        BY <2>2, <3>1
    <2>5. Heard(c)' = Heard(c) \o Text(buf)'
      <3>1. PICK s \in Seq(Chars), m \in Nat : s = Input[c] /\ m = taken[c]
        BY <2>1
      <3>2. Text(SubSeq(s, 1, m + n)) = Text(SubSeq(s, 1, m)) \o Text(SubSeq(s, m + 1, m + n))
        BY <2>1, <3>1, HeardMore
      <3>3. QED
        BY <2>4, <3>1, <3>2 DEF Heard
    <2>6. QED
      BY <1>3, <2>2, <2>3, <2>4, <2>5 DEF InStep, UpToDate, InBuffer, CutShort
  <1>8. CASE ReadAgain(c)
    <2>1. mpc = "read" /\ mpc' = "next" /\ UNCHANGED <<taken, echoed, buf, peer>>
      BY <1>8 DEF ReadAgain, Reading, netVars
    <2>2. QED
      BY <1>3, <1>5, <1>6, <2>1, InStepStays
  <1>9. CASE WriteKills(c) \/ ReadEof(c) \/ ReadError(c)
    BY <1>5, <1>6, <1>9 DEF WriteKills, ReadEof, ReadError, netVars, TypeOK
  <1>10. CASE WriteBack(c)
    <2>1. /\ mpc = "write" /\ mpc' \in {"read", "next"} /\ UNCHANGED taken
          /\ peer[c] = "open" /\ echoed'[c] = echoed[c] \o Reply
      BY <1>5, <1>6, <1>10 DEF WriteBack, Writing, AfterWrite, TypeOK
    <2>2. Text(echoed[c]) \o Text(buf) = Heard(c)
      BY <1>3, <1>6, <2>1 DEF InStep, InBuffer
    <2>3. Text(echoed[c] \o Reply) = Text(echoed[c]) \o Text(Reply)
      BY <1>6, ReplyText, TextOfBoth
    <2>4. Heard(c)' = Heard(c) /\ Text(echoed[c])' = Text(echoed'[c])
      BY <2>1 DEF Heard
    <2>5. Text(echoed[c])' = Heard(c)'
      BY <1>6, <2>1, <2>2, <2>3, <2>4, ReplyText
    <2>6. QED
      BY <2>1, <2>5 DEF InStep, UpToDate, InBuffer, CutShort
  <1>11. CASE WriteFails(c)
    <2>1. /\ mpc = "write" /\ mpc' = "close" /\ UNCHANGED taken /\ peer[c] = "open"
          /\ \E m \in 0 .. Len(Reply) - 1 : echoed'[c] = echoed[c] \o SubSeq(Reply, 1, m)
      BY <1>5, <1>6, <1>11 DEF WriteFails, Writing, TypeOK
    <2>2. Text(echoed[c]) \o Text(buf) = Heard(c)
      BY <1>3, <1>6, <2>1 DEF InStep, InBuffer
    <2>3. PICK m \in 0 .. Len(Reply) - 1 : echoed'[c] = echoed[c] \o SubSeq(Reply, 1, m)
      BY <2>1
    <2>4. PICK e \in Seq(Chars), p \in Seq(Chars), q \in Seq(Chars) :
            e = echoed[c] /\ p = SubSeq(Reply, 1, m) /\ q = SubSeq(Reply, m + 1, Len(Reply))
            /\ Reply = p \o q
      <3>1. PICK r \in Seq(Chars) : r = Reply
        BY <1>6, ReplyText
      <3>2. m \in 0 .. Len(r) /\ Len(r) \in Nat
        BY <3>1
      <3>3. SubSeq(r, 1, m) \in Seq(Chars) /\ SubSeq(r, m + 1, Len(r)) \in Seq(Chars)
        BY <3>2
      <3>4. r = SubSeq(r, 1, m) \o SubSeq(r, m + 1, Len(r))
        BY <3>2, CutInTwo
      <3>5. QED
        BY <1>6, <3>1, <3>3, <3>4
    <2>5. Text(buf) = Text(p) \o Text(q) /\ Text(e \o p) = Text(e) \o Text(p)
      BY <1>6, <2>4, ReplyText, TextOfBoth
    <2>6. PICK x \in Seq(Chars), y \in Seq(Chars), z \in Seq(Chars) :
            x = Text(e) /\ y = Text(p) /\ z = Text(q)
      BY TextType
    <2>7. Heard(c)' = x \o (y \o z) /\ Text(echoed[c])' = x \o y
      <3>1. Heard(c)' = Heard(c) /\ Text(echoed[c])' = Text(echoed'[c])
        BY <2>1 DEF Heard
      <3>2. QED
        BY <2>2, <2>3, <2>4, <2>5, <2>6, <3>1
    <2>8. Len(x \o y) \in 0 .. Len(x \o (y \o z))
          /\ x \o y = SubSeq(x \o (y \o z), 1, Len(x \o y))
      OBVIOUS
    <2>9. \E j \in 0 .. Len(Heard(c)') : Text(echoed[c])' = SubSeq(Heard(c)', 1, j)
      BY <2>7, <2>8
    <2>10. QED
      BY <1>3, <2>1, <2>9 DEF InStep, UpToDate, InBuffer, CutShort
  <1>12. QED
    BY <1>7, <1>8, <1>9, <1>10, <1>11 DEF Run

(* A connection that is closed promises nothing any more.                  *)
LEMMA TextClose ==
  ASSUME IndInv, TextInv, CloseConn
  PROVE  TextInv'
  <1>1. /\ cur \in Fds /\ mpc = "close" /\ mpc' = "next"
        /\ file' = [file EXCEPT ![cur] = NoClient]
        /\ UNCHANGED <<peer, backlog, taken, echoed, cur, buf>>
    BY DEF CloseConn, netVars, IndInv, Bookkeeping
  <1>2. \A f \in Fds : file'[f] = file[f] \/ file'[f] = NoClient
    BY <1>1 DEF IndInv, TypeOK
  <1>3. Waiting'
    BY <1>1, <1>2 DEF TextInv, Waiting, NotYet
  <1>4. OneNumber'
    BY <1>2 DEF TextInv, OneNumber
  <1>5. ASSUME NEW f \in Fds, NEW c \in Clients, file'[f] = c, peer[c] = "open"
        PROVE  InStep(f, c)'
    <2>1. f # cur /\ file[f] = c
      BY <1>1, <1>2, <1>5 DEF IndInv, TypeOK
    <2>2. ~ Running(f) /\ ~ Running(f)' /\ InStep(f, c)
      BY <1>1, <1>5, <2>1 DEF Running, TextInv, Echoing
    <2>3. QED
      BY <1>1, <2>2, InStepStays
  <1>6. QED
    BY <1>1, <1>3, <1>4, <1>5 DEF TextInv, Echoing

-----------------------------------------------------------------------------
(* However the bytes arrive and whatever the length of the reads, a client *)
(* gets back the text the server has read from it, in order and with       *)
(* nothing missing (echo_selectserv.c:34-60, echo_epollserv.c:19-49,       *)
(* echo_epoll_et_serv.c:29-68).                                            *)
THEOREM TextEchoed == Spec => []EchoesText
  <1>1. IndInv /\ TextInv /\ [Next]_vars => TextInv'
    <2> SUFFICES ASSUME IndInv, TextInv, [Next]_vars PROVE TextInv'
      OBVIOUS
    <2>1. CASE Server
      <3>1. ASSUME NEW c \in Clients, Run(c) PROVE TextInv'
        BY <3>1, TextRun
      <3>2. QED
        BY <2>1, <3>1, TextLoop, TextAccept, TextClose DEF Server
    <2>2. CASE WaitFails
      BY <2>2, TextLoop
    <2>3. ASSUME NEW c \in Clients, Client(c) PROVE TextInv'
      BY <2>3, TextClient
    <2>4. CASE UNCHANGED vars
      BY <2>4, TextStays DEF vars, netVars, srvVars
    <2>5. QED
      BY <2>1, <2>2, <2>3, <2>4 DEF Next
  <1>2. QED
    BY <1>1, Invariance, TextStarts, TextPromised, PTL DEF Spec
=============================================================================
