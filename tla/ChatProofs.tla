----------------------------- MODULE ChatProofs -----------------------------
(***************************************************************************)
(* For every set of clients, table size and descriptor limit: the types,   *)
(* the exclusion of the locked regions and the meaning of client_cnt are    *)
(* invariants of ChatServer.  They are proved together, as IndInv: the     *)
(* count stays in the table because it counts a set of connections, and    *)
(* the set changes only under the mutex.                                   *)
(*                                                                         *)
(* On top of it, RosterInv: as long as every handler got its own           *)
(* descriptor (~Raced), the table names exactly the connections that were  *)
(* not removed, and a broadcast reaches every one of them whose client is  *)
(* still there.  And OrderInv: all clients hear in the same order.         *)
(*                                                                         *)
(* ChatServer's peers were left free to send, stop reading and leave at    *)
(* will.  The real clients, two threads each, do nothing that those peers  *)
(* could not: ChatRoom implements ChatServer's specification, and what is  *)
(* proved of the server holds among its own clients.                       *)
(***************************************************************************)
EXTENDS ChatRoom, FiniteSetTheorems, SequenceTheorems, WellFoundedInduction, TLAPS

(* A nonempty set of numbers has a least element, so the descriptor that   *)
(* Lowest picks for accept is one of those that are free.                  *)
LEMMA LowestType ==
  ASSUME NEW S, S \subseteq Nat, S # {}
  PROVE  Lowest(S) \in S
  <1> DEFINE R == {p \in Nat \X Nat : p[1] < p[2]}
  <1>1. IsWellFoundedOn(R, Nat)
    BY NatLessThanWellFounded DEF OpToRel
  <1> HIDE DEF R
  <1>2. PICK x \in S : \A y \in S : ~ (<<y, x>> \in R)
    BY <1>1, WFMin
  <1>3. \A y \in S : ~ (y < x)
    BY <1>2 DEF R
  <1>4. \A y \in S : x <= y
    BY <1>3
  <1>5. QED
    BY <1>4 DEF Lowest

USE ClientsAssumption, BoundsAssumption, NamesAssumption

(* The appended connections are finitely many: they can be counted.        *)
LEMMA AppendedFinite == IsFiniteSet(Appended)
  BY FS_Subset DEF Appended

(* The initial state satisfies the inductive invariant.                    *)
LEMMA InitIndInv == Init => IndInv
  <1> SUFFICES ASSUME Init PROVE IndInv
    OBVIOUS
  <1> USE DEF Init
  <1>1. TypeOK
    BY DEF TypeOK, Threads, HandlerStates
  <1>2. RegionsExclude
    BY DEF RegionsExclude, InRegion, Threads
  <1>3. CountIsUnremoved
    <2>1. Appended = {}
      BY DEF Appended
    <2>2. QED
      BY <2>1, FS_EmptySet DEF CountIsUnremoved
  <1>4. QueueFresh /\ Progress
    BY DEF QueueFresh, Progress
  <1>5. QED
    BY <1>1, <1>2, <1>3, <1>4 DEF IndInv

(* The backlog stays fresh when no connection is queued or taken from it   *)
(* and none becomes idle again.                                            *)
LEMMA QueueKeeps ==
  ASSUME TypeOK, QueueFresh, UNCHANGED <<backlog, hpc, current>>,
         \A c \in Clients : peer'[c] = "idle" => peer[c] = "idle"
  PROVE  QueueFresh'
  <1>1. \A n \in DOMAIN backlog : backlog[n] \in Clients
    BY LenProperties DEF TypeOK
  <1>2. QED
    BY <1>1 DEF QueueFresh

-----------------------------------------------------------------------------
(* The clients' actions.  None of them touches the server's variables.     *)

LEMMA ClientKeeps ==
  ASSUME IndInv, NEW c \in Clients, Client(c)
  PROVE  IndInv'
  <1> USE DEF IndInv
  <1>1. UNCHANGED <<file, tblVars, mainVars, hVars, accepted, nofile, up, received, taken>>
    BY DEF Client, Connect, Send, Leave, Stall, Resume
  <1>2. TypeOK'
    <2>1. CASE Connect(c)
      BY <2>1 DEF Connect, TypeOK, tblVars, mainVars, hVars
    <2>2. CASE Send(c)
      BY <2>2, SMTT(30) DEF Send, TypeOK, tblVars, mainVars, hVars
    <2>3. CASE Leave(c)
      BY <2>3 DEF Leave, TypeOK, tblVars, mainVars, hVars
    <2>4. CASE Stall(c)
      BY <2>4 DEF Stall, TypeOK, tblVars, mainVars, hVars
    <2>5. CASE Resume(c)
      BY <2>5 DEF Resume, TypeOK, tblVars, mainVars, hVars
    <2>6. QED
      BY <2>1, <2>2, <2>3, <2>4, <2>5 DEF Client
  <1>3. RegionsExclude'
    BY <1>1 DEF RegionsExclude, InRegion, tblVars, mainVars, hVars
  <1>4. CountIsUnremoved'
    BY <1>1 DEF CountIsUnremoved, Appended, tblVars, mainVars, hVars
  <1>5. QueueFresh'
    <2>1. CASE Connect(c)
      <3>1. hpc[c] = "none" /\ current # c
        BY <2>1 DEF Connect, QueueFresh
      <3>2. \A n \in DOMAIN backlog : backlog[n] \in Clients /\ backlog[n] # c
        BY <2>1, LenProperties DEF Connect, QueueFresh, TypeOK
      <3>3. peer' = [peer EXCEPT ![c] = "open"] /\ \A d \in Clients : d # c => peer'[d] = peer[d]
        BY <2>1 DEF Connect, TypeOK
      <3>4. /\ DOMAIN backlog = 1 .. Len(backlog) /\ Len(backlog) \in Nat
            /\ DOMAIN backlog' = 1 .. Len(backlog) + 1
            /\ backlog'[Len(backlog) + 1] = c
            /\ \A n \in 1 .. Len(backlog) : backlog'[n] = backlog[n]
        BY <2>1, LenProperties, AppendProperties DEF Connect, TypeOK
      <3>5. ASSUME NEW n \in DOMAIN backlog'
            PROVE  /\ hpc[backlog'[n]] = "none" /\ current # backlog'[n]
                   /\ peer'[backlog'[n]] # "idle"
                   /\ \A m \in DOMAIN backlog' : backlog'[m] = backlog'[n] => m = n
        <4>1. CASE n = Len(backlog) + 1
          <5>1. backlog'[n] = c /\ peer'[c] = "open"
            BY <3>3, <3>4, <4>1 DEF TypeOK
          <5>2. ASSUME NEW m \in DOMAIN backlog', backlog'[m] = c
                PROVE  m = n
            BY <3>2, <3>4, <4>1, <5>2
          <5>3. QED
            BY <3>1, <5>1, <5>2
        <4>2. CASE n \in 1 .. Len(backlog)
          <5>1. backlog[n] \in Clients /\ backlog[n] # c /\ backlog'[n] = backlog[n]
            BY <3>2, <3>4, <4>2
          <5>2. \A m \in DOMAIN backlog' : backlog'[m] = backlog'[n] => m = n
            BY <3>4, <4>2, <5>1 DEF QueueFresh
          <5>3. QED
            BY <3>3, <3>4, <4>2, <5>1, <5>2 DEF QueueFresh
        <4>3. QED
          BY <3>4, <3>5, <4>1, <4>2
      <3>6. \A d \in Clients : peer'[d] = "idle" => hpc[d] = "none" /\ current # d
        BY <3>3 DEF QueueFresh, TypeOK
      <3>7. QED
        BY <1>1, <3>5, <3>6 DEF QueueFresh, mainVars, hVars
    <2>2. CASE Send(c) \/ Stall(c) \/ Resume(c)
      BY <1>1, <2>2, QueueKeeps DEF Send, Stall, Resume, mainVars, hVars
    <2>3. CASE Leave(c)
      <3>1. PICK end \in {"closed", "reset"} : peer' = [peer EXCEPT ![c] = end]
        BY <2>3 DEF Leave
      <3>2. \A d \in Clients : peer'[d] = "idle" => peer[d] = "idle"
        BY <3>1 DEF TypeOK
      <3>3. QED
        BY <1>1, <2>3, <3>2, QueueKeeps DEF Leave, mainVars, hVars
    <2>4. QED
      BY <2>1, <2>2, <2>3 DEF Client
  <1>6. Progress'
    BY <1>1 DEF Progress, tblVars, mainVars, hVars
  <1>7. QED
    BY <1>2, <1>3, <1>4, <1>5, <1>6

-----------------------------------------------------------------------------
(* main.  accept takes a fresh connection; the append and the count that   *)
(* follow it hold the mutex, so nobody else is between the two.            *)

(* What is left of the backlog after its head was taken.                   *)
LEMMA QueueTail ==
  ASSUME TypeOK, QueueFresh, backlog # <<>>, backlog' = Tail(backlog)
  PROVE  /\ Head(backlog) \in Clients /\ hpc[Head(backlog)] = "none"
         /\ peer[Head(backlog)] # "idle"
         /\ backlog' \in Seq(Clients)
         /\ \A n \in DOMAIN backlog' :
              /\ n \in Nat /\ n + 1 \in DOMAIN backlog
              /\ backlog'[n] = backlog[n + 1]
              /\ backlog'[n] # Head(backlog)
  <1>1. /\ Len(backlog) \in Nat \ {0} /\ DOMAIN backlog = 1 .. Len(backlog)
        /\ Head(backlog) = backlog[1] /\ 1 \in DOMAIN backlog
    BY LenProperties, EmptySeq DEF TypeOK
  <1>2. /\ backlog' \in Seq(Clients) /\ Head(backlog) \in Clients
        /\ DOMAIN backlog' = 1 .. Len(backlog) - 1
        /\ \A n \in 1 .. Len(backlog) - 1 : backlog'[n] = backlog[n + 1]
    BY <1>1, HeadTailProperties, LenProperties DEF TypeOK
  <1>3. \A n \in DOMAIN backlog' : backlog'[n] # Head(backlog)
    BY <1>1, <1>2 DEF QueueFresh
  <1>4. QED
    BY <1>1, <1>2, <1>3 DEF QueueFresh

LEMMA AcceptOkKeeps ==
  ASSUME IndInv, AcceptOk
  PROVE  IndInv'
  <1> USE DEF IndInv
  <1> DEFINE c == Head(backlog)
             f == Lowest(FreeFds)
  <1>1. /\ c \in Clients /\ hpc[c] = "none" /\ peer[c] # "idle"
        /\ backlog' \in Seq(Clients)
        /\ \A n \in DOMAIN backlog' :
             /\ n \in Nat /\ n + 1 \in DOMAIN backlog
             /\ backlog'[n] = backlog[n + 1] /\ backlog'[n] # c
    BY QueueTail DEF AcceptOk
  <1>2. f \in Fds
    <2>1. f \in FreeFds
      <3>1. nofile \in Nat
        BY DEF TypeOK
      <3>2. FreeFds \subseteq Nat /\ FreeFds # {}
        BY <3>1 DEF FreeFds, AcceptOk
      <3>3. QED
        BY <3>2, LowestType
    <2>2. FreeFds \subseteq Fds
      BY DEF FreeFds, Fds, TypeOK
    <2>3. QED
      BY <2>1, <2>2
  <1>3. /\ file' = [file EXCEPT ![f] = c] /\ accepted' = [accepted EXCEPT ![c] = f]
        /\ client_socket' = f /\ current' = c /\ mpc' = "append" /\ mpc = "accept"
        /\ UNCHANGED <<peer, sent, taken, received, stalled, nofile, up,
                       client_cnt, client_socks, mutex, hpc, sock, msg, i>>
    BY DEF AcceptOk, tblVars, hVars
  <1> HIDE DEF c, f
  <1>4. TypeOK'
    BY <1>1, <1>2, <1>3 DEF TypeOK
  <1>5. RegionsExclude'
    BY <1>3 DEF RegionsExclude, InRegion
  <1>6. CountIsUnremoved'
    <2>1. Appended' = Appended
      BY <1>3 DEF Appended
    <2>2. QED
      BY <1>3, <2>1 DEF CountIsUnremoved
  <1>7. QueueFresh'
    BY <1>1, <1>3 DEF QueueFresh
  <1>8. Progress'
    BY <1>1, <1>2, <1>3 DEF Progress
  <1>9. QED
    BY <1>4, <1>5, <1>6, <1>7, <1>8

LEMMA AcceptFailKeeps ==
  ASSUME IndInv, AcceptFail
  PROVE  IndInv'
  <1> USE DEF IndInv
  <1>1. /\ client_socket' = -1 /\ backlog # <<>> /\ mpc = "accept"
        /\ UNCHANGED <<peer, sent, taken, received, stalled, nofile, up, file,
                       client_cnt, client_socks, mutex, mpc, current, hpc, sock,
                       msg, i, accepted>>
    BY DEF AcceptFail, tblVars, hVars
  <1>2. backlog' \in Seq(Clients) /\ QueueFresh'
    <2>1. CASE backlog' = backlog
      BY <1>1, <2>1, QueueKeeps DEF TypeOK
    <2>2. CASE backlog' = Tail(backlog)
      BY <1>1, <2>2, QueueTail DEF QueueFresh
    <2>3. QED
      BY <2>1, <2>2 DEF AcceptFail
  <1>3. TypeOK'
    BY <1>1, <1>2 DEF TypeOK
  <1>4. RegionsExclude'
    BY <1>1 DEF RegionsExclude, InRegion
  <1>5. CountIsUnremoved'
    BY <1>1 DEF CountIsUnremoved, Appended
  <1>6. Progress'
    BY <1>1 DEF Progress
  <1>7. QED
    BY <1>2, <1>3, <1>4, <1>5, <1>6

LEMMA AppendSockKeeps ==
  ASSUME IndInv, AppendSock
  PROVE  IndInv'
  <1> USE DEF IndInv
  <1>1. /\ mpc = "append" /\ mutex = Free /\ mutex' = Main
        /\ \/ /\ client_cnt < MAX_CLIENT /\ mpc' = "count" /\ up' = up
              /\ client_socks' = [client_socks EXCEPT ![client_cnt] = client_socket]
           \/ mpc' = "overrun" /\ up' = FALSE /\ UNCHANGED client_socks
        /\ UNCHANGED <<peer, backlog, sent, taken, received, stalled, nofile, file,
                       client_cnt, client_socket, current, hpc, sock, msg, i,
                       accepted>>
    BY DEF AppendSock, Acquire, netVars, hVars
  <1>2. TypeOK'
    <2>1. client_socks' \in [0 .. MAX_CLIENT - 1 -> {0} \cup Fds]
      BY <1>1 DEF TypeOK, Progress
    <2>2. QED
      BY <1>1, <2>1 DEF TypeOK, Threads
  <1>3. RegionsExclude'
    BY <1>1 DEF RegionsExclude, InRegion, Threads
  <1>4. CountIsUnremoved'
    <2>1. Appended' = Appended
      BY <1>1 DEF Appended
    <2>2. QED
      BY <1>1, <2>1 DEF CountIsUnremoved
  <1>5. QueueFresh'
    BY <1>1, QueueKeeps
  <1>6. Progress'
    BY <1>1 DEF Progress
  <1>7. QED
    BY <1>2, <1>3, <1>4, <1>5, <1>6

LEMMA CountSockKeeps ==
  ASSUME IndInv, CountSock
  PROVE  IndInv'
  <1> USE DEF IndInv
  <1>1. /\ mpc = "count" /\ client_cnt' = client_cnt + 1 /\ mutex' = Free
        /\ mpc' = "create"
        /\ UNCHANGED <<peer, backlog, sent, taken, received, stalled, nofile, up,
                       file, client_socks, client_socket, current, hpc, sock, msg,
                       i, accepted>>
    BY DEF CountSock, Release, netVars, hVars
  <1>2. client_cnt < MAX_CLIENT /\ current \in Clients /\ hpc[current] = "none"
    BY <1>1 DEF Progress
  <1>3. TypeOK'
    BY <1>1, <1>2 DEF TypeOK
  <1>4. RegionsExclude'
    BY <1>1 DEF RegionsExclude, InRegion, Threads
  <1>5. CountIsUnremoved'
    <2>1. Appended' = Appended \cup {current} /\ current \notin Appended
      BY <1>1, <1>2 DEF Appended
    <2>2. QED
      BY <1>1, <2>1, AppendedFinite, FS_AddElement DEF CountIsUnremoved
  <1>6. QueueFresh'
    BY <1>1, QueueKeeps
  <1>7. Progress'
    BY <1>1 DEF Progress
  <1>8. QED
    BY <1>3, <1>4, <1>5, <1>6, <1>7

LEMMA CreateThreadKeeps ==
  ASSUME IndInv, CreateThread
  PROVE  IndInv'
  <1> USE DEF IndInv
  <1>1. PICK outcome \in {"start", "orphan"} :
          hpc' = [hpc EXCEPT ![current] = outcome]
    BY DEF CreateThread
  <1>2. /\ mpc = "create" /\ mpc' = "accept" /\ current' = NoClient
        /\ UNCHANGED <<peer, backlog, sent, taken, received, stalled, nofile,
                       file, client_cnt, client_socks, mutex, client_socket,
                       sock, msg, i, accepted>>
        /\ up' \in BOOLEAN
    BY DEF CreateThread, netVars, tblVars, TypeOK
  <1>3. current \in Clients /\ hpc[current] = "none"
    BY <1>2 DEF Progress
  <1>4. TypeOK'
    BY <1>1, <1>2 DEF TypeOK, HandlerStates
  <1>5. RegionsExclude'
    BY <1>1, <1>2, <1>3 DEF RegionsExclude, InRegion, Threads, TypeOK
  <1>6. CountIsUnremoved'
    <2>1. Appended' = Appended
      BY <1>1, <1>2, <1>3 DEF Appended, TypeOK
    <2>2. QED
      BY <1>2, <2>1 DEF CountIsUnremoved
  <1>7. QueueFresh'
    <2>1. \A n \in DOMAIN backlog : backlog[n] \in Clients /\ backlog[n] # current
      BY LenProperties DEF QueueFresh, TypeOK
    <2>2. \A d \in Clients : d # current => hpc'[d] = hpc[d]
      BY <1>1 DEF TypeOK
    <2>3. \A d \in Clients : peer[d] = "idle" => d # current
      BY DEF QueueFresh
    <2>4. QED
      BY <1>2, <2>1, <2>2, <2>3 DEF QueueFresh
  <1>8. Progress'
    BY <1>1, <1>2, <1>3 DEF Progress, TypeOK
  <1>9. QED
    BY <1>4, <1>5, <1>6, <1>7, <1>8

-----------------------------------------------------------------------------
(* The handlers.  Only a handler that has taken the mutex is in the table, *)
(* and only the one that ends its removal leaves the appended connections. *)

(* Whatever a running handler does, the backlog stays fresh and main keeps *)
(* the connection it is about to start a thread for.                       *)
LEMMA HandlerQueue ==
  ASSUME IndInv, NEW h \in Clients, hpc[h] # "none", NEW to \in HandlerStates,
         hpc' = [hpc EXCEPT ![h] = to], UNCHANGED <<backlog, mpc, current>>,
         \A c \in Clients : peer'[c] = "idle" => peer[c] = "idle"
  PROVE  /\ QueueFresh' /\ hpc' \in [Clients -> HandlerStates]
         /\ mpc \in {"append", "count", "create"} => hpc'[current] = "none"
  <1> USE DEF IndInv
  <1>1. hpc' \in [Clients -> HandlerStates] /\ hpc'[h] = to
        /\ \A d \in Clients : d # h => hpc'[d] = hpc[d]
    BY DEF TypeOK
  <1>2. \A n \in DOMAIN backlog : backlog[n] \in Clients /\ backlog[n] # h
    BY LenProperties DEF QueueFresh, TypeOK
  <1>3. QueueFresh'
    BY <1>1, <1>2 DEF QueueFresh
  <1>4. mpc \in {"append", "count", "create"} => hpc'[current] = "none"
    BY <1>1 DEF Progress
  <1>5. QED
    BY <1>1, <1>3, <1>4

(* Until it has ended its removal, it stays one of those that count.       *)
LEMMA HandlerMoves ==
  ASSUME IndInv, NEW h \in Clients, hpc[h] \notin {"none", "orphan", "list", "close", "done"},
         NEW to \in {"read", "lock", "cast", "remove", "count"},
         hpc' = [hpc EXCEPT ![h] = to],
         UNCHANGED <<client_cnt, backlog, mpc, current>>,
         \A c \in Clients : peer'[c] = "idle" => peer[c] = "idle"
  PROVE  /\ CountIsUnremoved' /\ QueueFresh'
         /\ hpc' \in [Clients -> HandlerStates]
         /\ mpc \in {"append", "count", "create"} => hpc'[current] = "none"
  <1> USE DEF IndInv
  <1>1. to \in HandlerStates /\ hpc[h] # "none"
    BY DEF HandlerStates
  <1>2. Appended' = Appended
    <2>1. /\ hpc[h] \in {"start", "read", "lock", "cast", "remove", "count"}
          /\ hpc'[h] \in {"read", "lock", "cast", "remove", "count"}
          /\ \A d \in Clients : d # h => hpc'[d] = hpc[d]
      BY DEF TypeOK, HandlerStates
    <2>2. \A d \in Clients : d \in Appended' <=> d \in Appended
      BY <2>1 DEF Appended
    <2>3. Appended \subseteq Clients /\ Appended' \subseteq Clients
      BY DEF Appended
    <2>4. QED
      BY <2>2, <2>3
  <1>3. QED
    BY <1>1, <1>2, HandlerQueue DEF CountIsUnremoved

LEMMA ReadArgKeeps ==
  ASSUME IndInv, NEW h \in Clients, ReadArg(h)
  PROVE  IndInv'
  <1> USE DEF IndInv
  <1>1. /\ hpc[h] = "start" /\ hpc' = [hpc EXCEPT ![h] = "read"]
        /\ sock' = [sock EXCEPT ![h] = client_socket]
        /\ UNCHANGED <<netVars, nofile, up, file, tblVars, mainVars, msg, i, accepted>>
    BY DEF ReadArg
  <1> USE DEF netVars, tblVars, mainVars
  <1>2. /\ CountIsUnremoved' /\ QueueFresh' /\ hpc' \in [Clients -> HandlerStates]
        /\ mpc \in {"append", "count", "create"} => hpc'[current] = "none"
    BY <1>1, HandlerMoves
  <1>3. TypeOK'
    BY <1>1, <1>2 DEF TypeOK
  <1>4. RegionsExclude'
    BY <1>1 DEF RegionsExclude, InRegion, Threads, TypeOK
  <1>5. Progress'
    BY <1>1, <1>2 DEF Progress, TypeOK
  <1>6. QED
    BY <1>2, <1>3, <1>4, <1>5

LEMMA ReadMsgKeeps ==
  ASSUME IndInv, NEW h \in Clients, ReadMsg(h)
  PROVE  IndInv'
  <1> USE DEF IndInv
  <1> DEFINE c == PeerOf(h)
  <1>1. /\ hpc[h] = "read" /\ hpc' = [hpc EXCEPT ![h] = "lock"] /\ c # NoClient
        /\ taken' = [taken EXCEPT ![c] = @ + 1]
        /\ msg' = [msg EXCEPT ![h] = <<c, taken[c] + 1>>]
        /\ UNCHANGED <<peer, backlog, sent, received, stalled, nofile, up, file,
                       tblVars, mainVars, sock, i, accepted>>
    BY DEF ReadMsg
  <1> USE DEF tblVars, mainVars
  <1>2. c \in Clients
    BY <1>1 DEF PeerOf, TypeOK
  <1> HIDE DEF c
  <1>3. taken[c] + 1 \in Nat /\ <<c, taken[c] + 1>> \in Msgs
    <2>1. taken[c] + 1 \in Nat
      BY <1>2, SMTT(30) DEF TypeOK
    <2>2. QED
      BY <1>2, <2>1 DEF Msgs
  <1>4. /\ CountIsUnremoved' /\ QueueFresh' /\ hpc' \in [Clients -> HandlerStates]
        /\ mpc \in {"append", "count", "create"} => hpc'[current] = "none"
    BY <1>1, HandlerMoves
  <1>5. TypeOK'
    <2>1. taken' \in [Clients -> Nat]
      BY <1>1, <1>3 DEF TypeOK
    <2>2. msg' \in [Clients -> Msgs \cup {<<>>}]
      BY <1>1, <1>3 DEF TypeOK
    <2>3. QED
      BY <1>1, <1>4, <2>1, <2>2 DEF TypeOK
  <1>6. RegionsExclude'
    BY <1>1 DEF RegionsExclude, InRegion, Threads, TypeOK
  <1>7. Progress'
    BY <1>1, <1>3, <1>4 DEF Progress, TypeOK
  <1>8. QED
    BY <1>4, <1>5, <1>6, <1>7

LEMMA ReadEndKeeps ==
  ASSUME IndInv, NEW h \in Clients, ReadEnd(h)
  PROVE  IndInv'
  <1> USE DEF IndInv
  <1>1. /\ hpc[h] = "read" /\ hpc' = [hpc EXCEPT ![h] = "remove"]
        /\ UNCHANGED <<netVars, nofile, up, file, tblVars, mainVars, sock, msg, i,
                       accepted>>
    BY DEF ReadEnd
  <1> USE DEF netVars, tblVars, mainVars
  <1>2. /\ CountIsUnremoved' /\ QueueFresh' /\ hpc' \in [Clients -> HandlerStates]
        /\ mpc \in {"append", "count", "create"} => hpc'[current] = "none"
    BY <1>1, HandlerMoves
  <1>3. TypeOK'
    BY <1>1, <1>2 DEF TypeOK
  <1>4. RegionsExclude'
    BY <1>1 DEF RegionsExclude, InRegion, Threads, TypeOK
  <1>5. Progress'
    BY <1>1, <1>2 DEF Progress, TypeOK
  <1>6. QED
    BY <1>2, <1>3, <1>4, <1>5

LEMMA BeginCastKeeps ==
  ASSUME IndInv, NEW h \in Clients, BeginCast(h)
  PROVE  IndInv'
  <1> USE DEF IndInv
  <1>1. /\ hpc[h] = "lock" /\ hpc' = [hpc EXCEPT ![h] = "cast"]
        /\ mutex = Free /\ mutex' = h /\ i' = [i EXCEPT ![h] = 0]
        /\ UNCHANGED <<netVars, nofile, up, file, client_cnt, client_socks, mainVars,
                       sock, msg, accepted>>
    BY DEF BeginCast, Acquire
  <1> USE DEF netVars, mainVars
  <1>2. /\ CountIsUnremoved' /\ QueueFresh' /\ hpc' \in [Clients -> HandlerStates]
        /\ mpc \in {"append", "count", "create"} => hpc'[current] = "none"
    BY <1>1, HandlerMoves
  <1>3. TypeOK'
    BY <1>1, <1>2 DEF TypeOK, Threads
  <1>4. RegionsExclude'
    BY <1>1 DEF RegionsExclude, InRegion, Threads, TypeOK
  <1>5. Progress'
    BY <1>1, <1>2 DEF Progress, TypeOK
  <1>6. QED
    BY <1>2, <1>3, <1>4, <1>5

LEMMA CastWriteKeeps ==
  ASSUME IndInv, NEW h \in Clients, CastWrite(h)
  PROVE  IndInv'
  <1> USE DEF IndInv
  <1> DEFINE c == file[client_socks[i[h]]]
  <1>1. /\ hpc[h] = "cast" /\ i' = [i EXCEPT ![h] = @ + 1]
        /\ UNCHANGED <<backlog, sent, taken, stalled, nofile, file, tblVars, mainVars,
                       hpc, sock, msg, accepted>>
        /\ up \in BOOLEAN /\ up = TRUE
    BY DEF CastWrite, TypeOK
  <1>2. \/ UNCHANGED <<peer, received>> /\ up' \in BOOLEAN
        \/ /\ received' = [received EXCEPT ![c] = Append(@, msg[h])]
           /\ UNCHANGED <<peer, up>>
        \/ /\ \E end \in {"closed", "reset"} : peer' = [peer EXCEPT ![c] = end]
           /\ UNCHANGED <<received, up>>
    BY <1>1 DEF CastWrite
  <1> HIDE DEF c
  <1> USE DEF tblVars, mainVars
  <1>3. /\ peer' \in [Clients -> {"idle", "open", "closed", "reset"}]
        /\ \A d \in Clients : peer'[d] = "idle" => peer[d] = "idle"
    <2>1. CASE UNCHANGED peer
      BY <2>1 DEF TypeOK
    <2>2. ASSUME NEW end \in {"closed", "reset"}, peer' = [peer EXCEPT ![c] = end]
          PROVE  /\ peer' \in [Clients -> {"idle", "open", "closed", "reset"}]
                 /\ \A d \in Clients : peer'[d] = "idle" => peer[d] = "idle"
      BY <2>2 DEF TypeOK
    <2>3. QED
      BY <1>2, <2>1, <2>2
  <1>4. received' \in [Clients -> Seq(Msgs)]
    <2>1. msg[h] \in Msgs
      BY <1>1 DEF Progress
    <2>2. \A d \in Clients : Append(received[d], msg[h]) \in Seq(Msgs)
      BY <2>1, AppendProperties DEF TypeOK
    <2>3. received \in [Clients -> Seq(Msgs)]
      BY DEF TypeOK
    <2>4. CASE received' = [received EXCEPT ![c] = Append(@, msg[h])]
      BY <2>2, <2>3, <2>4
    <2>5. QED
      BY <1>2, <2>3, <2>4
  <1>5. i' \in [Clients -> Nat]
    BY <1>1 DEF TypeOK
  <1>6. TypeOK'
    BY <1>1, <1>2, <1>3, <1>4, <1>5 DEF TypeOK
  <1>7. RegionsExclude'
    BY <1>1 DEF RegionsExclude, InRegion
  <1>8. CountIsUnremoved'
    BY <1>1 DEF CountIsUnremoved, Appended
  <1>9. QueueFresh'
    BY <1>1, <1>3, QueueKeeps
  <1>10. Progress'
    BY <1>1 DEF Progress
  <1>11. QED
    BY <1>6, <1>7, <1>8, <1>9, <1>10

LEMMA EndCastKeeps ==
  ASSUME IndInv, NEW h \in Clients, EndCast(h)
  PROVE  IndInv'
  <1> USE DEF IndInv
  <1>1. /\ hpc[h] = "cast" /\ hpc' = [hpc EXCEPT ![h] = "read"] /\ mutex' = Free
        /\ i' = [i EXCEPT ![h] = 0] /\ msg' = [msg EXCEPT ![h] = <<>>]
        /\ UNCHANGED <<netVars, nofile, up, file, client_cnt, client_socks, mainVars,
                       sock, accepted>>
    BY DEF EndCast, Release
  <1> USE DEF netVars, mainVars
  <1>2. /\ CountIsUnremoved' /\ QueueFresh' /\ hpc' \in [Clients -> HandlerStates]
        /\ mpc \in {"append", "count", "create"} => hpc'[current] = "none"
    BY <1>1, HandlerMoves
  <1>3. TypeOK'
    BY <1>1, <1>2 DEF TypeOK
  <1>4. RegionsExclude'
    BY <1>1 DEF RegionsExclude, InRegion, Threads, TypeOK
  <1>5. Progress'
    BY <1>1, <1>2 DEF Progress, TypeOK
  <1>6. QED
    BY <1>2, <1>3, <1>4, <1>5

LEMMA BeginRemoveKeeps ==
  ASSUME IndInv, NEW h \in Clients, BeginRemove(h)
  PROVE  IndInv'
  <1> USE DEF IndInv
  <1>1. /\ hpc[h] = "remove" /\ hpc' = [hpc EXCEPT ![h] = "count"]
        /\ mutex = Free /\ mutex' = h /\ client_socks' = Removed(sock[h])
        /\ UNCHANGED <<netVars, nofile, up, file, client_cnt, mainVars, sock, msg, i,
                       accepted>>
    BY DEF BeginRemove, Acquire
  <1> USE DEF netVars, mainVars
  <1>2. /\ CountIsUnremoved' /\ QueueFresh' /\ hpc' \in [Clients -> HandlerStates]
        /\ mpc \in {"append", "count", "create"} => hpc'[current] = "none"
    BY <1>1, HandlerMoves
  <1>3. client_socks' \in [0 .. MAX_CLIENT - 1 -> {0} \cup Fds]
    BY <1>1 DEF Removed, TypeOK
  <1>4. TypeOK'
    BY <1>1, <1>2, <1>3 DEF TypeOK, Threads
  <1>5. RegionsExclude'
    BY <1>1 DEF RegionsExclude, InRegion, Threads, TypeOK
  <1>6. Progress'
    BY <1>1, <1>2 DEF Progress, TypeOK
  <1>7. QED
    BY <1>2, <1>4, <1>5, <1>6

(* The count was that of a set the handler belongs to: it does not go      *)
(* below zero.                                                             *)
LEMMA EndRemoveKeeps ==
  ASSUME IndInv, NEW h \in Clients, EndRemove(h)
  PROVE  IndInv'
  <1> USE DEF IndInv
  <1>1. /\ hpc[h] = "count" /\ hpc' = [hpc EXCEPT ![h] = "list"]
        /\ mutex' = Free /\ client_cnt' = client_cnt - 1
        /\ UNCHANGED <<netVars, nofile, up, file, client_socks, mainVars, sock, msg, i,
                       accepted>>
    BY DEF EndRemove, Release
  <1> USE DEF netVars, mainVars
  <1>2. /\ QueueFresh' /\ hpc' \in [Clients -> HandlerStates]
        /\ mpc \in {"append", "count", "create"} => hpc'[current] = "none"
    BY <1>1, HandlerQueue DEF HandlerStates
  <1>3. mutex = h /\ mpc \notin {"count", "overrun"}
    BY <1>1 DEF RegionsExclude, InRegion, Threads
  <1>4. CountIsUnremoved' /\ client_cnt' \in 0 .. MAX_CLIENT
    <2>1. h \in Appended /\ Appended' = Appended \ {h}
      <3>1. h \in Appended
        BY <1>1 DEF Appended
      <3>2. mpc = "create" => current # h
        BY <1>1 DEF Progress
      <3>3. QED
        BY <1>1, <3>1, <3>2 DEF Appended, TypeOK
    <2>2. /\ Cardinality(Appended') = Cardinality(Appended) - 1
          /\ Cardinality(Appended') \in Nat
      BY <2>1, AppendedFinite, FS_RemoveElement, FS_CardinalityType
    <2>3. QED
      BY <1>1, <2>2 DEF CountIsUnremoved, TypeOK
  <1>5. TypeOK'
    BY <1>1, <1>2, <1>4 DEF TypeOK
  <1>6. RegionsExclude'
    BY <1>1, <1>3 DEF RegionsExclude, InRegion, Threads, TypeOK
  <1>7. Progress'
    BY <1>1, <1>2, <1>3 DEF Progress, TypeOK
  <1>8. QED
    BY <1>2, <1>4, <1>5, <1>6, <1>7

LEMMA ListSocksKeeps ==
  ASSUME IndInv, NEW h \in Clients, ListSocks(h)
  PROVE  IndInv'
  <1> USE DEF IndInv
  <1>1. /\ hpc[h] = "list" /\ hpc' = [hpc EXCEPT ![h] = "close"]
        /\ UNCHANGED <<netVars, nofile, up, file, tblVars, mainVars, sock, msg, i, accepted>>
    BY DEF ListSocks
  <1> USE DEF netVars, tblVars, mainVars
  <1>2. /\ QueueFresh' /\ hpc' \in [Clients -> HandlerStates]
        /\ mpc \in {"append", "count", "create"} => hpc'[current] = "none"
    BY <1>1, HandlerQueue DEF HandlerStates
  <1>3. TypeOK'
    BY <1>1, <1>2 DEF TypeOK
  <1>4. RegionsExclude'
    BY <1>1 DEF RegionsExclude, InRegion, Threads, TypeOK
  <1>5. CountIsUnremoved'
    <2>1. \A d \in Clients : hpc'[d] = IF d = h THEN "close" ELSE hpc[d]
      BY <1>1 DEF TypeOK
    <2>2. Appended' = Appended
      BY <1>1, <2>1 DEF Appended
    <2>3. QED
      BY <1>1, <2>2 DEF CountIsUnremoved
  <1>6. Progress'
    BY <1>1, <1>2 DEF Progress, TypeOK
  <1>7. QED
    BY <1>2, <1>3, <1>4, <1>5, <1>6

LEMMA CloseSockKeeps ==
  ASSUME IndInv, NEW h \in Clients, CloseSock(h)
  PROVE  IndInv'
  <1> USE DEF IndInv
  <1>1. /\ hpc[h] = "close" /\ hpc' = [hpc EXCEPT ![h] = "done"]
        /\ file' = [f \in Fds |-> IF f = sock[h] THEN NoClient ELSE file[f]]
        /\ UNCHANGED <<netVars, nofile, up, tblVars, mainVars, sock, msg, i, accepted>>
    BY DEF CloseSock
  <1> USE DEF netVars, tblVars, mainVars
  <1>2. /\ QueueFresh' /\ hpc' \in [Clients -> HandlerStates]
        /\ mpc \in {"append", "count", "create"} => hpc'[current] = "none"
    BY <1>1, HandlerQueue DEF HandlerStates
  <1>3. TypeOK'
    BY <1>1, <1>2 DEF TypeOK
  <1>4. RegionsExclude'
    BY <1>1 DEF RegionsExclude, InRegion, Threads, TypeOK
  <1>5. CountIsUnremoved'
    <2>1. \A d \in Clients : d # h => hpc'[d] = hpc[d]
      BY <1>1 DEF TypeOK
    <2>2. Appended' = Appended
      BY <1>1, <2>1 DEF Appended, TypeOK
    <2>3. QED
      BY <1>1, <2>2 DEF CountIsUnremoved
  <1>6. Progress'
    BY <1>1, <1>2 DEF Progress, TypeOK
  <1>7. QED
    BY <1>2, <1>3, <1>4, <1>5, <1>6

(* The end of the process leaves everything as it was.                     *)
LEMMA StopKeeps ==
  ASSUME IndInv, Stop
  PROVE  IndInv'
  <1> USE DEF IndInv
  <1>1. /\ up' = FALSE
        /\ UNCHANGED <<peer, backlog, sent, taken, received, stalled, nofile, file,
                       client_cnt, client_socks, mutex, mpc, client_socket,
                       current, hpc, sock, msg, i, accepted>>
    BY DEF Stop, netVars, tblVars, mainVars, hVars
  <1>2. TypeOK'
    BY <1>1 DEF TypeOK
  <1>3. RegionsExclude' /\ CountIsUnremoved'
    BY <1>1 DEF RegionsExclude, InRegion, CountIsUnremoved, Appended
  <1>4. QueueFresh'
    BY <1>1, QueueKeeps
  <1>5. Progress'
    BY <1>1 DEF Progress
  <1>6. QED
    BY <1>2, <1>3, <1>4, <1>5

-----------------------------------------------------------------------------
(* IndInv is inductive, hence an invariant.                                *)
THEOREM Invariance == Spec => []IndInv
  <1>1. Init => IndInv
    BY InitIndInv
  <1>2. IndInv /\ [Next]_vars => IndInv'
    <2> SUFFICES ASSUME IndInv, [Next]_vars PROVE IndInv'
      OBVIOUS
    <2>1. CASE MainThread
      BY <2>1, AcceptOkKeeps, AcceptFailKeeps, AppendSockKeeps, CountSockKeeps,
         CreateThreadKeeps DEF MainThread
    <2>2. ASSUME NEW c \in Clients, Client(c) PROVE IndInv'
      BY <2>2, ClientKeeps
    <2>3. ASSUME NEW h \in Clients, Handler(h) PROVE IndInv'
      BY <2>3, ReadArgKeeps, ReadMsgKeeps, ReadEndKeeps, BeginCastKeeps,
         CastWriteKeeps, EndCastKeeps, BeginRemoveKeeps, EndRemoveKeeps,
         ListSocksKeeps, CloseSockKeeps DEF Handler
    <2>4. CASE UNCHANGED vars
      BY <2>4 DEF vars, netVars, tblVars, mainVars, hVars, IndInv, TypeOK,
         RegionsExclude, InRegion, CountIsUnremoved, Appended, QueueFresh, Progress
    <2>5. CASE Stop
      BY <2>5, StopKeeps
    <2>6. QED
      BY <2>1, <2>2, <2>3, <2>4, <2>5 DEF Next
  <1>3. QED
    BY <1>1, <1>2, PTL DEF Spec

(* The table, its count and every descriptor stay within their types: the  *)
(* decrement that is not tied to a removal (line 148) never takes the      *)
(* count below zero, and main counts only the slots it filled.             *)
THEOREM TypeCorrect == Spec => []TypeOK
  BY Invariance, PTL DEF IndInv

(* Append, broadcast and removal exclude each other: a thread is in one of *)
(* them exactly while it owns the mutex.                                   *)
THEOREM Exclusion == Spec => []RegionsExclude
  BY Invariance, PTL DEF IndInv

(* A step that leaves a thread in its region was not another thread's      *)
(* append, count or removal: each of them needs the mutex, and the         *)
(* thread's own would have ended its region or begun it.                   *)
LEMMA StillStep ==
  ASSUME IndInv, [Next]_vars, NEW t \in Threads, InRegion(t), InRegion(t)'
  PROVE  UNCHANGED <<client_cnt, client_socks>>
  <1>1. mutex = t /\ t # Free
    BY NamesAssumption DEF IndInv, RegionsExclude, Threads
  <1>2. ~ AppendSock
    BY <1>1 DEF AppendSock, Acquire
  <1>3. ~ CountSock
    <2> SUFFICES ASSUME CountSock PROVE FALSE
      OBVIOUS
    <2>1. mpc = "count" /\ mpc' = "create"
      BY DEF CountSock
    <2>2. t = Main
      BY <1>1, <2>1 DEF IndInv, RegionsExclude, Threads, InRegion
    <2>3. QED
      BY <2>1, <2>2 DEF InRegion
  <1>4. ASSUME NEW h \in Clients PROVE ~ BeginRemove(h)
    BY <1>1 DEF BeginRemove, Acquire
  <1>5. ASSUME NEW h \in Clients, EndRemove(h) PROVE FALSE
    <2>1. hpc[h] = "count" /\ hpc' = [hpc EXCEPT ![h] = "list"]
      BY <1>5 DEF EndRemove
    <2>2. t = h /\ t # Main
      BY <1>1, <2>1, NamesAssumption DEF IndInv, RegionsExclude, Threads, InRegion
    <2>3. hpc'[h] = "list"
      BY <2>1 DEF IndInv, TypeOK
    <2>4. QED
      BY <2>2, <2>3 DEF InRegion
  <1>6. CASE MainThread
    BY <1>2, <1>3, <1>6 DEF MainThread, AcceptOk, AcceptFail, CreateThread, tblVars
  <1>7. ASSUME NEW h \in Clients, Handler(h) PROVE UNCHANGED <<client_cnt, client_socks>>
    BY <1>4, <1>5, <1>7 DEF Handler, ReadArg, ReadMsg, ReadEnd, BeginCast, CastWrite, EndCast,
       ListSocks, CloseSock, tblVars
  <1>8. CASE Stop \/ UNCHANGED vars \/ \E c \in Clients : Client(c)
    BY <1>8 DEF Stop, vars, tblVars, Client, Connect, Send, Leave, Stall, Resume
  <1>9. QED
    BY <1>6, <1>7, <1>8 DEF Next

(* Between a thread's lock and its unlock nobody else changes the table.   *)
THEOREM HeldStill == Spec => TableHeldStill
  <1> DEFINE Still == \A t \in Threads :
               InRegion(t) /\ InRegion(t)' => UNCHANGED <<client_cnt, client_socks>>
  <1>1. IndInv /\ [Next]_vars => [Still]_vars
    BY StillStep
  <1>2. QED
    BY <1>1, Invariance, PTL DEF Spec, TableHeldStill

(* client_cnt is the number of connections whose handler has not ended its *)
(* removal, even when handlers read each other's descriptors.              *)
THEOREM CountCorrect == Spec => []CountIsUnremoved
  BY Invariance, PTL DEF IndInv

-----------------------------------------------------------------------------
(* The table names the connections.                                        *)

(* The connections that are open, and those that have an entry.            *)
Live == {c \in Clients :
           \/ hpc[c] \in HandlerStates \ {"none", "done"}
           \/ mpc \in {"append", "count", "create"} /\ current = c}

Entered == {c \in Clients :
              \/ hpc[c] \in {"orphan", "start", "read", "lock", "cast", "remove"}
              \/ mpc \in {"count", "create"} /\ current = c}

(* The number of entries, which client_cnt is behind or ahead of while a   *)
(* thread is between its two steps.                                        *)
Filled == IF mpc = "count" THEN client_cnt + 1
          ELSE IF \E h \in Clients : hpc[h] = "count" THEN client_cnt - 1
          ELSE client_cnt

(* The first k entries are the numbers of S, each once.                    *)
Lists(socks, k, S, number) ==
  /\ \A n \in 0 .. k - 1 : \E c \in S : socks[n] = number[c]
  /\ \A c \in S : \E n \in 0 .. k - 1 : socks[n] = number[c]
  /\ \A m, n \in 0 .. k - 1 : socks[m] = socks[n] => m = n

(* What a connection's descriptor leads to; main's variable; the table;    *)
(* the part of a broadcast that is done.                                   *)
Own == \A c \in Live : accepted[c] \in Fds /\ file[accepted[c]] = c

MainOwn == mpc \in {"append", "count", "create"} => client_socket = accepted[current]

TableNames == Lists(client_socks, Filled, Entered, accepted)

CastSoFar ==
  \A h, c \in Clients : \A n \in 0 .. client_cnt - 1 :
    hpc[h] = "cast" /\ n < i[h] /\ c = file[client_socks[n]] /\ peer[c] = "open" =>
      received[c] # <<>> /\ received[c][Len(received[c])] = msg[h]

RosterInv == ~Raced => Own /\ MainOwn /\ TableNames /\ CastSoFar

-----------------------------------------------------------------------------
(* Lists.                                                                  *)

(* A number not listed yet goes to the next entry.                         *)
LEMMA ListsAdd ==
  ASSUME NEW s, NEW t, NEW k \in Nat, NEW S, NEW a, NEW c,
         Lists(s, k, S, a), \A d \in S : a[d] # a[c],
         \A n \in 0 .. k - 1 : t[n] = s[n], t[k] = a[c]
  PROVE  Lists(t, k + 1, S \cup {c}, a)
  <1>1. \A n \in 0 .. (k + 1) - 1 : n \in 0 .. k - 1 \/ n = k
    OBVIOUS
  <1>2. 0 .. k - 1 \subseteq 0 .. (k + 1) - 1 /\ k \in 0 .. (k + 1) - 1
    OBVIOUS
  <1>3. \A n \in 0 .. (k + 1) - 1 : \E d \in S \cup {c} : t[n] = a[d]
    BY <1>1 DEF Lists
  <1>4. \A d \in S \cup {c} : \E n \in 0 .. (k + 1) - 1 : t[n] = a[d]
    BY <1>2 DEF Lists
  <1>5. \A n \in 0 .. k - 1 : t[n] # a[c]
    BY DEF Lists
  <1>6. \A m, n \in 0 .. (k + 1) - 1 : t[m] = t[n] => m = n
    BY <1>1, <1>5 DEF Lists
  <1>7. QED
    BY <1>3, <1>4, <1>6 DEF Lists

(* Shifting the entries behind one down takes it out.                      *)
LEMMA ListsRemove ==
  ASSUME NEW s, NEW t, NEW k \in Nat, NEW S, NEW a, NEW h \in S, NEW p \in 0 .. k - 1,
         Lists(s, k, S, a), \A c, d \in S : a[c] = a[d] => c = d,
         s[p] = a[h],
         \A n \in 0 .. k - 2 : t[n] = IF n >= p THEN s[n + 1] ELSE s[n]
  PROVE  Lists(t, k - 1, S \ {h}, a)
  <1>1. \A n \in 0 .. (k - 1) - 1 : n \in 0 .. k - 2 /\ n \in 0 .. k - 1 /\ n + 1 \in 0 .. k - 1
    OBVIOUS
  <1>2. \A n \in 0 .. k - 1 : n # p => s[n] # a[h]
    BY DEF Lists
  <1>3. \A n \in 0 .. (k - 1) - 1 : \E c \in S \ {h} : t[n] = a[c]
    <2> SUFFICES ASSUME NEW n \in 0 .. (k - 1) - 1
                 PROVE  \E c \in S \ {h} : t[n] = a[c]
      OBVIOUS
    <2>1. PICK m \in 0 .. k - 1 : m # p /\ t[n] = s[m]
      BY <1>1
    <2>2. PICK c \in S : s[m] = a[c]
      BY DEF Lists
    <2>3. QED
      BY <1>2, <2>1, <2>2
  <1>4. \A c \in S \ {h} : \E n \in 0 .. (k - 1) - 1 : t[n] = a[c]
    <2> SUFFICES ASSUME NEW c \in S \ {h}
                 PROVE  \E n \in 0 .. (k - 1) - 1 : t[n] = a[c]
      OBVIOUS
    <2>1. PICK m \in 0 .. k - 1 : s[m] = a[c]
      BY DEF Lists
    <2>2. m # p
      BY <2>1
    <2>3. CASE m < p
      <3>1. m \in 0 .. (k - 1) - 1 /\ m \in 0 .. k - 2 /\ ~ (m >= p)
        BY <2>3
      <3>2. QED
        BY <2>1, <3>1
    <2>4. CASE m > p
      <3>1. m - 1 \in 0 .. (k - 1) - 1 /\ m - 1 \in 0 .. k - 2 /\ m - 1 >= p /\ (m - 1) + 1 = m
        BY <2>4
      <3>2. t[m - 1] = s[m]
        BY <3>1
      <3>3. QED
        BY <2>1, <3>1, <3>2
    <2>5. QED
      BY <2>2, <2>3, <2>4
  <1>5. \A m, n \in 0 .. (k - 1) - 1 : t[m] = t[n] => m = n
    <2> SUFFICES ASSUME NEW m \in 0 .. (k - 1) - 1, NEW n \in 0 .. (k - 1) - 1, t[m] = t[n]
                 PROVE  m = n
      OBVIOUS
    <2>1. PICK x \in 0 .. k - 1 : t[m] = s[x] /\ x = IF m >= p THEN m + 1 ELSE m
      BY <1>1
    <2>2. PICK y \in 0 .. k - 1 : t[n] = s[y] /\ y = IF n >= p THEN n + 1 ELSE n
      BY <1>1
    <2>3. x = y
      <3>1. s[x] = s[y]
        BY <2>1, <2>2
      <3>2. \A v, w \in 0 .. k - 1 : s[v] = s[w] => v = w
        BY DEF Lists
      <3>3. QED
        BY <3>1, <3>2
    <2>4. QED
      BY <2>1, <2>2, <2>3
  <1>6. QED
    BY <1>3, <1>4, <1>5 DEF Lists

-----------------------------------------------------------------------------
(* What the invariants say together.                                       *)

(* A handler that read another's descriptor stays one.                     *)
LEMMA RacedStays ==
  ASSUME IndInv, Raced, [Next]_vars
  PROVE  Raced'
  <1>1. PICK h \in Clients : hpc[h] \notin {"none", "orphan", "start"} /\ sock[h] # accepted[h]
    BY DEF Raced
  <1>2. accepted'[h] = accepted[h]
    <2>1. CASE AcceptOk
      <3>1. Head(backlog) \in Clients /\ hpc[Head(backlog)] = "none"
        BY <2>1, QueueTail DEF AcceptOk, IndInv
      <3>2. accepted' = [accepted EXCEPT ![Head(backlog)] = Lowest(FreeFds)]
        BY <2>1 DEF AcceptOk
      <3>3. QED
        BY <1>1, <3>1, <3>2 DEF IndInv, TypeOK
    <2>2. CASE ~ AcceptOk
      BY <2>2 DEF Next, vars, Stop, MainThread, AcceptFail, AppendSock, CountSock,
         CreateThread, Client, Connect, Send, Leave, Stall, Resume, Handler, ReadArg,
         ReadMsg, ReadEnd, BeginCast, CastWrite, EndCast, BeginRemove, EndRemove, ListSocks,
         CloseSock
    <2>3. QED
      BY <2>1, <2>2
  <1>3. sock'[h] = sock[h] /\ hpc'[h] \notin {"none", "orphan", "start"}
    <2>1. CASE MainThread
      <3>1. sock' = sock
        BY <2>1 DEF MainThread, AcceptOk, AcceptFail, AppendSock, CountSock, CreateThread, hVars
      <3>2. CASE CreateThread
        <4>1. hpc[current] = "none" /\ current \in Clients
          BY <3>2 DEF CreateThread, IndInv, Progress
        <4>2. QED
          BY <1>1, <3>1, <3>2, <4>1 DEF CreateThread, IndInv, TypeOK
      <3>3. CASE ~ CreateThread
        BY <1>1, <2>1, <3>1, <3>3 DEF MainThread, AcceptOk, AcceptFail, AppendSock,
           CountSock, hVars
      <3>4. QED
        BY <3>2, <3>3
    <2>2. ASSUME NEW d \in Clients, Handler(d)
          PROVE  sock'[h] = sock[h] /\ hpc'[h] \notin {"none", "orphan", "start"}
      <3>1. CASE ReadArg(d)
        <4>1. d # h /\ sock' = [sock EXCEPT ![d] = client_socket]
              /\ hpc' = [hpc EXCEPT ![d] = "read"]
          BY <1>1, <3>1 DEF ReadArg
        <4>2. QED
          BY <1>1, <4>1 DEF IndInv, TypeOK
      <3>2. CASE ~ ReadArg(d)
        <4>1. sock' = sock
          BY <2>2, <3>2 DEF Handler, ReadMsg, ReadEnd, BeginCast, CastWrite, EndCast,
             BeginRemove, EndRemove, ListSocks, CloseSock
        <4>2. \/ hpc' = hpc
              \/ \E v \in HandlerStates \ {"none", "orphan", "start"} :
                   hpc' = [hpc EXCEPT ![d] = v]
          BY <2>2, <3>2 DEF Handler, ReadMsg, ReadEnd, BeginCast, CastWrite, EndCast,
             BeginRemove, EndRemove, ListSocks, CloseSock, HandlerStates
        <4>3. QED
          BY <1>1, <4>1, <4>2 DEF IndInv, TypeOK
      <3>3. QED
        BY <3>1, <3>2
    <2>3. CASE Stop \/ UNCHANGED vars \/ \E c \in Clients : Client(c)
      BY <1>1, <2>3 DEF Stop, vars, Client, Connect, Send, Leave, Stall, Resume, hVars
    <2>4. QED
      BY <2>1, <2>2, <2>3 DEF Next
  <1>4. QED
    BY <1>1, <1>2, <1>3 DEF Raced

(* Numbers that lead to different connections differ.                      *)
LEMMA Distinct ==
  ASSUME Own
  PROVE  Entered \subseteq Live /\ \A c, d \in Live : accepted[c] = accepted[d] => c = d
  BY DEF Own, Live, Entered, HandlerStates

(* The thread that has the mutex is the only one in the table.             *)
LEMMA FilledIs ==
  ASSUME IndInv
  PROVE  /\ Filled \in Nat /\ Filled <= client_cnt + 1
         /\ \A h \in Clients : hpc[h] = "cast" => Filled = client_cnt
         /\ \A h \in Clients : hpc[h] = "count" => Filled = client_cnt - 1 /\ client_cnt # 0
         /\ mutex = Free => Filled = client_cnt
         /\ mpc = "count" => Filled = client_cnt + 1
  <1>1. client_cnt \in Nat
    BY DEF IndInv, TypeOK
  <1>2. \A h \in Clients : InRegion(h) <=> mutex = h
    BY DEF IndInv, RegionsExclude, Threads
  <1>3. InRegion(Main) <=> mutex = Main
    BY DEF IndInv, RegionsExclude, Threads
  <1>4. \A h \in Clients : hpc[h] \in {"cast", "count"} <=> mutex = h
    BY <1>2 DEF InRegion
  <1>5. mpc = "count" => mutex = Main
    BY <1>3 DEF InRegion
  <1>6. ASSUME NEW h \in Clients, hpc[h] = "count" PROVE client_cnt # 0
    <2>1. h \in Appended
      BY <1>6 DEF Appended
    <2>2. Cardinality(Appended) # 0
      BY <2>1, AppendedFinite, FS_EmptySet
    <2>3. QED
      BY <2>2 DEF IndInv, CountIsUnremoved
  <1>7. QED
    BY <1>1, <1>4, <1>5, <1>6 DEF Filled

(* An entry of the table leads to a connection that has it.                *)
LEMMA EntryLeads ==
  ASSUME Own, TableNames, NEW n \in 0 .. Filled - 1
  PROVE  /\ client_socks[n] \in Fds /\ file[client_socks[n]] \in Entered
         /\ client_socks[n] = accepted[file[client_socks[n]]]
  <1>1. PICK c \in Entered : client_socks[n] = accepted[c]
    BY DEF TableNames, Lists
  <1>2. accepted[c] \in Fds /\ file[accepted[c]] = c
    BY Distinct DEF Own
  <1>3. QED
    BY <1>1, <1>2
-----------------------------------------------------------------------------
(* The steps that leave the table alone.                                   *)

LEMMA OwnStays ==
  ASSUME Own, Live' \subseteq Live, UNCHANGED <<file, accepted>>
  PROVE  Own'
  BY DEF Own

LEMMA NamesStay ==
  ASSUME TableNames, Entered' = Entered, Filled' = Filled,
         UNCHANGED <<client_socks, accepted>>
  PROVE  TableNames'
  BY DEF TableNames

(* A broadcast that nothing disturbs; what comes into a descriptor that    *)
(* was free is in no entry, and nobody in the table opens its end anew.    *)
LEMMA CastStays ==
  ASSUME IndInv, Own, TableNames, CastSoFar,
         \A h \in Clients : hpc'[h] = "cast" =>
           hpc[h] = "cast" /\ i'[h] = i[h] /\ msg'[h] = msg[h],
         UNCHANGED <<client_cnt, client_socks, received>>,
         \A c \in Live : peer'[c] = "open" => peer[c] = "open",
         \A f \in Fds : file[f] # NoClient => file'[f] \in {file[f], NoClient}
  PROVE  CastSoFar'
  <1> SUFFICES ASSUME NEW h \in Clients, NEW c \in Clients, NEW n \in 0 .. client_cnt - 1,
                      hpc'[h] = "cast", n < i[h], c = file'[client_socks[n]],
                      peer'[c] = "open"
               PROVE  received[c] # <<>> /\ received[c][Len(received[c])] = msg[h]
    <2>1. client_cnt' = client_cnt /\ client_socks' = client_socks /\ received' = received
      OBVIOUS
    <2>2. \A h \in Clients : hpc'[h] = "cast" => i'[h] = i[h] /\ msg'[h] = msg[h]
      OBVIOUS
    <2>3. QED
      BY <2>1, <2>2 DEF CastSoFar
  <1>1. hpc[h] = "cast" /\ n \in 0 .. Filled - 1
    BY FilledIs
  <1>2. client_socks[n] \in Fds /\ file[client_socks[n]] \in Entered
    BY <1>1, EntryLeads
  <1>3. c = file[client_socks[n]] /\ c \in Live
    BY <1>2, Distinct DEF Entered
  <1>4. QED
    BY <1>1, <1>3 DEF CastSoFar

(* The peers, and the end of the server.                                   *)
LEMMA PeerKeepsRoster ==
  ASSUME IndInv, RosterInv, ~Raced,
         Stop \/ UNCHANGED vars \/ \E c \in Clients : Client(c)
  PROVE  RosterInv'
  <1> USE DEF RosterInv
  <1>1. UNCHANGED <<file, client_cnt, client_socks, mpc, client_socket, current, hpc, msg, i,
                    accepted, received>>
    BY DEF Stop, vars, netVars, tblVars, mainVars, hVars, Client, Connect, Send, Leave,
       Stall, Resume
  <1>2. Live' = Live /\ Entered' = Entered /\ Filled' = Filled
    BY <1>1 DEF Live, Entered, Filled
  <1>3. \A c \in Live : peer'[c] = "open" => peer[c] = "open"
    <2>1. ASSUME NEW d \in Clients, Connect(d)
          PROVE  \A c \in Live : peer'[c] = "open" => peer[c] = "open"
      <3>1. d \notin Live
        BY <2>1 DEF Connect, IndInv, QueueFresh, Live
      <3>2. QED
        BY <2>1, <3>1 DEF Connect, IndInv, TypeOK, Live
    <2>2. ASSUME NEW d \in Clients, Leave(d)
          PROVE  \A c \in Live : peer'[c] = "open" => peer[c] = "open"
      BY <2>2 DEF Leave, IndInv, TypeOK, Live
    <2>3. CASE UNCHANGED peer
      BY <2>3
    <2>4. QED
      BY <2>1, <2>2, <2>3 DEF Stop, vars, netVars, Client, Send, Stall, Resume
  <1>4. Own' /\ TableNames' /\ MainOwn'
    BY <1>1, <1>2, OwnStays, NamesStay DEF MainOwn
  <1>5. CastSoFar'
    BY <1>1, <1>3, CastStays
  <1>6. QED
    BY <1>4, <1>5

-----------------------------------------------------------------------------
(* main.                                                                   *)

LEMMA AcceptKeepsRoster ==
  ASSUME IndInv, RosterInv, ~Raced, AcceptOk \/ AcceptFail
  PROVE  RosterInv'
  <1> USE DEF RosterInv
  <1>1. CASE AcceptFail
    <2>1. UNCHANGED <<file, client_cnt, client_socks, mpc, current, hpc, msg, i, accepted,
                      received, peer>> /\ mpc = "accept"
      BY <1>1 DEF AcceptFail, tblVars, hVars
    <2>2. Live' = Live /\ Entered' = Entered /\ Filled' = Filled
      BY <2>1 DEF Live, Entered, Filled
    <2>3. Own' /\ TableNames' /\ MainOwn'
      BY <2>1, <2>2, OwnStays, NamesStay DEF MainOwn
    <2>4. QED
      BY <2>1, <2>3, CastStays
  <1>2. CASE AcceptOk
    <2> DEFINE c == Head(backlog)
               f == Lowest(FreeFds)
    <2>1. c \in Clients /\ hpc[c] = "none"
      BY <1>2, QueueTail DEF AcceptOk, IndInv
    <2>2. f \in FreeFds /\ f \in Fds
      <3>1. nofile \in Limits /\ nofile \in Nat
        BY DEF IndInv, TypeOK
      <3>2. FreeFds \subseteq Nat /\ FreeFds # {}
        BY <1>2, <3>1 DEF FreeFds, AcceptOk
      <3>3. f \in FreeFds
        BY <3>2, LowestType
      <3>4. QED
        BY <3>1, <3>3 DEF FreeFds, Fds
    <2>3. file[f] = NoClient
      BY <2>2 DEF FreeFds
    <2> HIDE DEF f, c
    <2>4. /\ mpc = "accept" /\ mpc' = "append" /\ client_socket' = f /\ current' = c
          /\ file' = [file EXCEPT ![f] = c] /\ accepted' = [accepted EXCEPT ![c] = f]
          /\ UNCHANGED <<peer, received, client_cnt, client_socks, hpc, msg, i>>
      BY <1>2 DEF AcceptOk, tblVars, hVars, f, c
    <2>5. Entered' = Entered /\ Filled' = Filled /\ c \notin Entered
      BY <2>1, <2>4 DEF Entered, Filled
    <2>6. file \in [Fds -> Clients \cup {NoClient}] /\ accepted \in [Clients -> {0} \cup Fds]
      BY DEF IndInv, TypeOK
    <2>7. Own'
      <3> SUFFICES ASSUME NEW d \in Live' PROVE accepted'[d] \in Fds /\ file'[accepted'[d]] = d
        BY DEF Own
      <3>1. CASE d = c
        BY <2>1, <2>2, <2>4, <2>6, <3>1
      <3>2. CASE d # c
        <4>1. d \in Live /\ d \in Clients
          BY <2>4, <3>2 DEF Live
        <4>2. accepted[d] # f /\ accepted[d] \in Fds /\ file[accepted[d]] = d
          BY <2>3, <4>1 DEF Own
        <4>3. QED
          BY <2>4, <2>6, <3>2, <4>2
      <3>3. QED
        BY <3>1, <3>2
    <2>8. TableNames'
      <3>1. \A d \in Entered : accepted'[d] = accepted[d]
        BY <2>4, <2>5, <2>6 DEF Entered
      <3>2. QED
        BY <2>4, <2>5, <3>1 DEF TableNames, Lists
    <2>9. MainOwn'
      BY <2>1, <2>4, <2>6 DEF MainOwn
    <2>10. \A g \in Fds : file[g] # NoClient => file'[g] \in {file[g], NoClient}
      BY <2>3, <2>4, <2>6
    <2>11. CastSoFar'
      BY <2>4, <2>10, CastStays
    <2>12. QED
      BY <2>7, <2>8, <2>9, <2>11
  <1>3. QED
    BY <1>1, <1>2

(* The new entry: the mutex was free, so the table had client_cnt of them. *)
LEMMA AppendKeepsRoster ==
  ASSUME IndInv, RosterInv, ~Raced, AppendSock
  PROVE  RosterInv'
  <1> USE DEF RosterInv
  <1>1. /\ mutex = Free /\ mutex' = Main /\ mpc = "append"
        /\ UNCHANGED <<peer, received, file, client_cnt, client_socket, current, hpc, msg, i,
                       accepted>>
    BY DEF AppendSock, Acquire, netVars, hVars
  <1>2. client_cnt \in Nat /\ Filled = client_cnt
    BY <1>1, FilledIs DEF IndInv, TypeOK
  <1>3. \A h \in Clients : hpc[h] \notin {"cast", "count"}
    BY <1>1 DEF IndInv, RegionsExclude, Threads, InRegion
  <1>4. current \in Clients /\ hpc[current] = "none"
    BY <1>1 DEF IndInv, Progress
  <1>5. Live' \subseteq Live
    BY <1>1 DEF Live
  <1>6. Own'
    BY <1>1, <1>5, OwnStays
  <1>7. CastSoFar'
    BY <1>1, <1>3 DEF CastSoFar
  <1>8. CASE mpc' = "count"
    <2>1. client_cnt < MAX_CLIENT
          /\ client_socks' = [client_socks EXCEPT ![client_cnt] = client_socket]
      BY <1>8 DEF AppendSock
    <2>2. client_socket = accepted[current]
      BY <1>1 DEF MainOwn
    <2>3. client_socks'[client_cnt] = accepted[current]
          /\ \A n \in 0 .. client_cnt - 1 : client_socks'[n] = client_socks[n]
      BY <1>2, <2>1, <2>2 DEF IndInv, TypeOK
    <2>4. Entered' = Entered \cup {current}
      BY <1>1, <1>4, <1>8 DEF Entered
    <2>5. Filled' = client_cnt + 1
      BY <1>1, <1>8 DEF Filled
    <2>6. current \in Live /\ current \notin Entered
      BY <1>1, <1>4 DEF Live, Entered
    <2>7. \A d \in Entered : accepted[d] # accepted[current]
      BY <2>6, Distinct
    <2>8. Lists(client_socks', client_cnt + 1, Entered \cup {current}, accepted)
      BY <1>2, <2>3, <2>7, ListsAdd DEF TableNames
    <2>9. TableNames'
      BY <1>1, <2>4, <2>5, <2>8 DEF TableNames
    <2>10. QED
      BY <1>1, <1>6, <1>7, <2>9 DEF MainOwn
  <1>9. CASE mpc' = "overrun"
    <2>1. UNCHANGED client_socks
      BY <1>9 DEF AppendSock
    <2>2. Entered' = Entered /\ Filled' = Filled
      BY <1>1, <1>9 DEF Entered, Filled
    <2>3. QED
      BY <1>1, <1>6, <1>7, <1>9, <2>1, <2>2, NamesStay DEF MainOwn
  <1>10. QED
    BY <1>8, <1>9 DEF AppendSock

LEMMA MainKeepsRoster ==
  ASSUME IndInv, RosterInv, ~Raced, CountSock \/ CreateThread
  PROVE  RosterInv'
  <1> USE DEF RosterInv
  <1>1. CASE CountSock
    <2>1. /\ mpc = "count" /\ mpc' = "create" /\ client_cnt' = client_cnt + 1
          /\ UNCHANGED <<peer, received, file, client_socks, client_socket, current, hpc, msg,
                         i, accepted>>
      BY <1>1 DEF CountSock, netVars, hVars
    <2>2. \A h \in Clients : hpc[h] \notin {"cast", "count"}
      BY <2>1 DEF IndInv, RegionsExclude, Threads, InRegion
    <2>3. Live' = Live /\ Entered' = Entered /\ Filled' = Filled
      BY <2>1, <2>2 DEF Live, Entered, Filled
    <2>4. Own' /\ TableNames' /\ MainOwn'
      BY <2>1, <2>3, OwnStays, NamesStay DEF MainOwn
    <2>5. CastSoFar'
      BY <2>1, <2>2 DEF CastSoFar
    <2>6. QED
      BY <2>4, <2>5
  <1>2. CASE CreateThread
    <2>1. /\ mpc = "create" /\ mpc' = "accept" /\ current' = NoClient
          /\ UNCHANGED <<peer, received, file, client_cnt, client_socks, msg, i, accepted>>
      BY <1>2 DEF CreateThread, netVars, tblVars
    <2>2. PICK v \in {"start", "orphan"} : hpc' = [hpc EXCEPT ![current] = v]
      BY <1>2 DEF CreateThread
    <2>3. current \in Clients /\ hpc[current] = "none" /\ hpc \in [Clients -> HandlerStates]
      BY <2>1 DEF IndInv, Progress, TypeOK
    <2>4. \A h \in Clients : hpc'[h] = IF h = current THEN v ELSE hpc[h]
      BY <2>2, <2>3
    <2>5. Live' = Live
      BY <2>1, <2>3, <2>4 DEF Live, HandlerStates
    <2>6. Entered' = Entered
      BY <2>1, <2>3, <2>4 DEF Entered
    <2>7. Filled' = Filled
      BY <2>1, <2>3, <2>4 DEF Filled
    <2>8. Own' /\ TableNames' /\ MainOwn'
      BY <2>1, <2>5, <2>6, <2>7, OwnStays, NamesStay DEF MainOwn
    <2>9. CastSoFar'
      BY <2>1, <2>4, CastStays
    <2>10. QED
      BY <2>8, <2>9
  <1>3. QED
    BY <1>1, <1>2

-----------------------------------------------------------------------------
(* The handlers.                                                           *)

(* A handler's step from one place to another, the table as it was.        *)
LEMMA HandlerFrame ==
  ASSUME IndInv, Own, TableNames, MainOwn, NEW h \in Clients, NEW v,
         hpc' = [hpc EXCEPT ![h] = v],
         hpc[h] \in {"start", "read", "lock", "cast"}, v \in {"read", "lock", "cast", "remove"},
         UNCHANGED <<file, client_cnt, client_socks, mpc, client_socket, current, accepted>>
  PROVE  Own' /\ TableNames' /\ MainOwn' /\ Live' = Live
  <1>1. \A g \in Clients : hpc'[g] = IF g = h THEN v ELSE hpc[g]
    BY DEF IndInv, TypeOK
  <1>2. Live' = Live /\ Entered' = Entered
    BY <1>1 DEF Live, Entered, HandlerStates
  <1>3. Filled' = Filled
    BY <1>1 DEF Filled
  <1>4. QED
    BY <1>2, <1>3, OwnStays, NamesStay DEF MainOwn

LEMMA ReadKeepsRoster ==
  ASSUME IndInv, RosterInv, ~Raced, NEW h \in Clients,
         ReadArg(h) \/ ReadMsg(h) \/ ReadEnd(h) \/ EndCast(h)
  PROVE  RosterInv'
  <1> USE DEF RosterInv
  <1>1. PICK v \in {"read", "lock", "remove"} : hpc' = [hpc EXCEPT ![h] = v]
    BY DEF ReadArg, ReadMsg, ReadEnd, EndCast
  <1>2. /\ hpc[h] \in {"start", "read", "cast"}
        /\ UNCHANGED <<peer, received, file, client_cnt, client_socks, mpc, client_socket,
                       current, accepted>>
    BY DEF ReadArg, ReadMsg, ReadEnd, EndCast, netVars, tblVars, mainVars
  <1>3. \A g \in Clients \ {h} : i'[g] = i[g] /\ msg'[g] = msg[g]
    BY DEF ReadArg, ReadMsg, ReadEnd, EndCast, IndInv, TypeOK
  <1>4. \A g \in Clients : hpc'[g] = IF g = h THEN v ELSE hpc[g]
    BY <1>1 DEF IndInv, TypeOK
  <1>5. Own' /\ TableNames' /\ MainOwn'
    BY <1>1, <1>2, HandlerFrame
  <1>6. \A g \in Clients : hpc'[g] = "cast" =>
          hpc[g] = "cast" /\ i'[g] = i[g] /\ msg'[g] = msg[g]
    BY <1>3, <1>4
  <1>7. CastSoFar'
    BY <1>2, <1>6, CastStays
  <1>8. QED
    BY <1>5, <1>7

(* A broadcast begins with nothing done, and no other under way.           *)
LEMMA BeginCastKeepsRoster ==
  ASSUME IndInv, RosterInv, ~Raced, NEW h \in Clients, BeginCast(h)
  PROVE  RosterInv'
  <1> USE DEF RosterInv
  <1>1. /\ hpc[h] = "lock" /\ mutex = Free
        /\ hpc' = [hpc EXCEPT ![h] = "cast"] /\ i' = [i EXCEPT ![h] = 0]
        /\ UNCHANGED <<peer, received, file, client_cnt, client_socks, mpc, client_socket,
                       current, accepted, msg>>
    BY DEF BeginCast, Acquire, netVars, mainVars
  <1>2. Own' /\ TableNames' /\ MainOwn'
    BY <1>1, HandlerFrame
  <1>3. \A g \in Clients : hpc[g] # "cast"
    BY <1>1 DEF IndInv, RegionsExclude, Threads, InRegion
  <1>4. \A g \in Clients : hpc'[g] = "cast" => i'[g] = 0
    BY <1>1, <1>3 DEF IndInv, TypeOK
  <1>5. client_cnt' \in Nat
    BY <1>1 DEF IndInv, TypeOK
  <1>6. CastSoFar'
    BY <1>4, <1>5 DEF CastSoFar
  <1>7. QED
    BY <1>2, <1>6

(* One write: the message is now the last its client got, unless that has  *)
(* left.                                                                   *)
LEMMA CastWriteKeepsRoster ==
  ASSUME IndInv, RosterInv, ~Raced, NEW h \in Clients, CastWrite(h)
  PROVE  RosterInv'
  <1> USE DEF RosterInv
  <1> DEFINE d == file[client_socks[i[h]]]
  <1>1. /\ hpc[h] = "cast" /\ i[h] < client_cnt /\ i' = [i EXCEPT ![h] = @ + 1]
        /\ UNCHANGED <<file, client_cnt, client_socks, mpc, client_socket, current, hpc, msg,
                       accepted>>
    BY DEF CastWrite, tblVars, mainVars
  <1>2. Live' = Live /\ Entered' = Entered /\ Filled' = Filled
    BY <1>1 DEF Live, Entered, Filled
  <1>3. Own' /\ TableNames' /\ MainOwn'
    BY <1>1, <1>2, OwnStays, NamesStay DEF MainOwn
  <1>4. i \in [Clients -> Nat] /\ client_cnt \in Nat /\ received \in [Clients -> Seq(Msgs)]
        /\ peer \in [Clients -> {"idle", "open", "closed", "reset"}] /\ msg[h] \in Msgs
    <2>1. msg[h] \in Msgs
      BY <1>1 DEF IndInv, Progress
    <2>2. QED
      BY <2>1 DEF IndInv, TypeOK
  <1>5. d \in Clients
    <2>1. i[h] \in 0 .. Filled - 1
      BY <1>1, <1>4, FilledIs
    <2>2. d \in Entered
      BY <2>1, EntryLeads
    <2>3. QED
      BY <2>2 DEF Entered
  <1> HIDE DEF d
  <1>6. \/ /\ peer[d] = "open" /\ peer' = peer
           /\ received' = [received EXCEPT ![d] = Append(@, msg[h])]
        \/ /\ received' = received
           /\ \E v \in {"closed", "reset"} : peer' = [peer EXCEPT ![d] = v]
        \/ received' = received /\ peer' = peer /\ peer[d] = "reset"
    BY <1>5 DEF CastWrite, d
  <1>7. ASSUME NEW g \in Clients, hpc[g] = "cast" PROVE g = h
    BY <1>1, <1>7 DEF IndInv, RegionsExclude, Threads, InRegion
  <1>8. ASSUME NEW c \in Clients, NEW n \in 0 .. client_cnt - 1,
               n < i'[h], c = file[client_socks[n]], peer'[c] = "open"
        PROVE  received'[c] # <<>> /\ received'[c][Len(received'[c])] = msg[h]
    <2>1. n < i[h] \/ n = i[h]
      BY <1>1, <1>4, <1>8
    <2>2. peer[c] = "open"
      BY <1>4, <1>5, <1>6, <1>8
    <2>3. CASE received' = received /\ (peer[d] = "reset" \/ peer'[d] # "open")
      <3>1. c # d
        BY <1>8, <2>2, <2>3
      <3>2. n < i[h]
        BY <1>8, <2>1, <3>1 DEF d
      <3>3. QED
        BY <1>1, <1>8, <2>2, <2>3, <3>2 DEF CastSoFar
    <2>4. CASE received' = [received EXCEPT ![d] = Append(@, msg[h])] /\ c = d
      <3>1. received'[c] = Append(received[c], msg[h]) /\ received[c] \in Seq(Msgs)
        BY <1>4, <2>4
      <3>2. msg[h] \in Msgs
        BY <1>4
      <3>3. /\ received'[c] # <<>> /\ Len(received'[c]) = Len(received[c]) + 1
            /\ received'[c][Len(received[c]) + 1] = msg[h]
        BY <3>1, <3>2, AppendProperties
      <3>4. QED
        BY <3>3
    <2>5. CASE received' = [received EXCEPT ![d] = Append(@, msg[h])] /\ c # d
      <3>1. received'[c] = received[c]
        BY <1>4, <2>5
      <3>2. n < i[h]
        BY <1>8, <2>1, <2>5 DEF d
      <3>3. QED
        BY <1>1, <1>8, <2>2, <3>1, <3>2 DEF CastSoFar
    <2>6. QED
      BY <1>4, <1>5, <1>6, <2>3, <2>4, <2>5
  <1>9. CastSoFar'
    BY <1>1, <1>7, <1>8 DEF CastSoFar
  <1>10. QED
    BY <1>3, <1>9

(* The entry that is taken out is the handler's own.                       *)
LEMMA BeginRemoveKeepsRoster ==
  ASSUME IndInv, RosterInv, ~Raced, NEW h \in Clients, BeginRemove(h)
  PROVE  RosterInv'
  <1> USE DEF RosterInv
  <1>1. /\ hpc[h] = "remove" /\ mutex = Free /\ hpc' = [hpc EXCEPT ![h] = "count"]
        /\ client_socks' = Removed(sock[h])
        /\ UNCHANGED <<peer, received, file, client_cnt, mpc, client_socket, current, accepted,
                       msg, i>>
    BY DEF BeginRemove, Acquire, netVars, mainVars
  <1>2. \A g \in Clients : hpc'[g] = IF g = h THEN "count" ELSE hpc[g]
    BY <1>1 DEF IndInv, TypeOK
  <1>3. client_cnt \in Nat /\ client_cnt <= MAX_CLIENT /\ Filled = client_cnt
    BY <1>1, FilledIs, SMTT(30) DEF IndInv, TypeOK
  <1>4. (\A g \in Clients : hpc[g] \notin {"cast", "count"}) /\ mpc # "count"
    BY <1>1 DEF IndInv, RegionsExclude, Threads, InRegion
  <1>5. current # h \/ mpc # "create"
    BY <1>1 DEF IndInv, Progress
  <1>6. h \in Entered /\ Entered' = Entered \ {h} /\ Live' = Live
    BY <1>1, <1>2, <1>5, <1>4 DEF Entered, Live, HandlerStates
  <1>7. Filled' = client_cnt - 1
    BY <1>1, <1>2, <1>4 DEF Filled
  <1>8. sock[h] = accepted[h]
    BY <1>1 DEF Raced
  <1>9. PICK p \in 0 .. client_cnt - 1 : client_socks[p] = accepted[h]
    BY <1>3, <1>6 DEF TableNames, Lists
  <1>10. Positions(sock[h]) = {p}
    BY <1>3, <1>8, <1>9 DEF Positions, TableNames, Lists
  <1>11. Lowest({p}) = p
    BY <1>9 DEF Lowest
  <1>12. \A n \in 0 .. client_cnt - 2 :
           client_socks'[n] = IF n >= p THEN client_socks[n + 1] ELSE client_socks[n]
    <2>1. client_socks' = [n \in DOMAIN client_socks |->
                             IF n >= p /\ n + 1 < client_cnt THEN client_socks[n + 1]
                             ELSE client_socks[n]]
      BY <1>1, <1>10, <1>11 DEF Removed
    <2>2. DOMAIN client_socks = 0 .. MAX_CLIENT - 1
      BY DEF IndInv, TypeOK
    <2>3. QED
      BY <1>3, <2>1, <2>2
  <1>13. \A c, d \in Entered : accepted[c] = accepted[d] => c = d
    BY Distinct
  <1>14. Lists(client_socks, client_cnt, Entered, accepted)
    BY <1>3 DEF TableNames
  <1>15. Lists(client_socks', client_cnt - 1, Entered \ {h}, accepted)
    BY <1>3, <1>6, <1>9, <1>12, <1>13, <1>14, ListsRemove
  <1>16. Own' /\ TableNames' /\ MainOwn'
    BY <1>1, <1>6, <1>7, <1>15, OwnStays DEF TableNames, MainOwn
  <1>17. CastSoFar'
    BY <1>2, <1>4 DEF CastSoFar
  <1>18. QED
    BY <1>16, <1>17

LEMMA EndRemoveKeepsRoster ==
  ASSUME IndInv, RosterInv, ~Raced, NEW h \in Clients, EndRemove(h)
  PROVE  RosterInv'
  <1> USE DEF RosterInv
  <1>1. /\ hpc[h] = "count" /\ hpc' = [hpc EXCEPT ![h] = "list"]
        /\ client_cnt' = client_cnt - 1
        /\ UNCHANGED <<peer, received, file, client_socks, mpc, client_socket, current, accepted>>
    BY DEF EndRemove, netVars, mainVars
  <1>2. \A g \in Clients : hpc'[g] = IF g = h THEN "list" ELSE hpc[g]
    BY <1>1 DEF IndInv, TypeOK
  <1>3. (\A g \in Clients \ {h} : hpc[g] \notin {"cast", "count"}) /\ mpc # "count"
    BY <1>1 DEF IndInv, RegionsExclude, Threads, InRegion
  <1>4. Filled = client_cnt - 1 /\ Filled' = client_cnt'
    BY <1>1, <1>2, <1>3 DEF Filled
  <1>5. Entered' = Entered /\ Live' = Live
    BY <1>1, <1>2 DEF Entered, Live, HandlerStates
  <1>6. Own' /\ TableNames' /\ MainOwn'
    BY <1>1, <1>4, <1>5, OwnStays, NamesStay DEF MainOwn
  <1>7. CastSoFar'
    BY <1>2, <1>3 DEF CastSoFar
  <1>8. QED
    BY <1>6, <1>7

(* While it lists the table a handler keeps its descriptor, in no entry.   *)
LEMMA ListKeepsRoster ==
  ASSUME IndInv, RosterInv, ~Raced, NEW h \in Clients, ListSocks(h)
  PROVE  RosterInv'
  <1> USE DEF RosterInv
  <1>1. /\ hpc[h] = "list" /\ hpc' = [hpc EXCEPT ![h] = "close"]
        /\ UNCHANGED <<peer, received, file, client_cnt, client_socks, mpc, client_socket,
                       current, accepted, msg, i>>
    BY DEF ListSocks, netVars, tblVars, mainVars
  <1>2. \A g \in Clients : hpc'[g] = IF g = h THEN "close" ELSE hpc[g]
    BY <1>1 DEF IndInv, TypeOK
  <1>3. Entered' = Entered /\ Live' = Live /\ Filled' = Filled
    BY <1>1, <1>2 DEF Entered, Live, Filled, HandlerStates
  <1>4. Own' /\ TableNames' /\ MainOwn'
    BY <1>1, <1>3, OwnStays, NamesStay DEF MainOwn
  <1>5. CastSoFar'
    BY <1>1, <1>2, CastStays
  <1>6. QED
    BY <1>4, <1>5

(* The descriptor that is closed is the handler's own, and in no entry.    *)
LEMMA CloseKeepsRoster ==
  ASSUME IndInv, RosterInv, ~Raced, NEW h \in Clients, CloseSock(h)
  PROVE  RosterInv'
  <1> USE DEF RosterInv
  <1>1. /\ hpc[h] = "close" /\ hpc' = [hpc EXCEPT ![h] = "done"]
        /\ file' = [f \in Fds |-> IF f = sock[h] THEN NoClient ELSE file[f]]
        /\ UNCHANGED <<peer, received, client_cnt, client_socks, mpc, client_socket, current,
                       accepted, msg, i>>
    BY DEF CloseSock, netVars, tblVars, mainVars
  <1>2. \A g \in Clients : hpc'[g] = IF g = h THEN "done" ELSE hpc[g]
    BY <1>1 DEF IndInv, TypeOK
  <1>3. sock[h] = accepted[h] /\ h \in Live
    BY <1>1 DEF Raced, Live, HandlerStates
  <1>4. Entered' = Entered /\ Filled' = Filled
    BY <1>1, <1>2 DEF Entered, Filled
  <1>5. mpc \in {"append", "count", "create"} => current # h
    BY <1>1 DEF IndInv, Progress
  <1>6. Live' \subseteq Live \ {h}
    BY <1>1, <1>2, <1>5 DEF Live, HandlerStates
  <1>7. \A c \in Live \ {h} : accepted[c] # accepted[h]
    BY <1>3, Distinct
  <1>8. Own'
    BY <1>1, <1>3, <1>6, <1>7 DEF Own
  <1>9. TableNames' /\ MainOwn'
    BY <1>1, <1>4, NamesStay DEF MainOwn
  <1>10. \A f \in Fds : file[f] # NoClient => file'[f] \in {file[f], NoClient}
    BY <1>1
  <1>11. CastSoFar'
    BY <1>1, <1>2, <1>10, CastStays
  <1>12. QED
    BY <1>8, <1>9, <1>11

-----------------------------------------------------------------------------
(* The initial state, and every step.                                      *)

LEMMA RosterInit == Init => RosterInv
  <1> SUFFICES ASSUME Init PROVE Own /\ MainOwn /\ TableNames /\ CastSoFar
    BY DEF RosterInv
  <1>1. Live = {} /\ Entered = {} /\ Filled = 0
    BY DEF Init, Live, Entered, Filled, HandlerStates
  <1>2. QED
    BY <1>1 DEF Init, Own, MainOwn, TableNames, Lists, CastSoFar

LEMMA RosterNext ==
  ASSUME IndInv, RosterInv, [Next]_vars
  PROVE  RosterInv'
  <1> SUFFICES ASSUME ~Raced' PROVE RosterInv'
    BY DEF RosterInv
  <1>1. ~Raced
    BY RacedStays
  <1>2. CASE MainThread
    BY <1>1, <1>2, AcceptKeepsRoster, AppendKeepsRoster, MainKeepsRoster DEF MainThread
  <1>3. ASSUME NEW h \in Clients, Handler(h) PROVE RosterInv'
    BY <1>1, <1>3, ReadKeepsRoster, BeginCastKeepsRoster, CastWriteKeepsRoster,
       BeginRemoveKeepsRoster, EndRemoveKeepsRoster, ListKeepsRoster, CloseKeepsRoster
       DEF Handler
  <1>4. CASE Stop \/ UNCHANGED vars \/ \E c \in Clients : Client(c)
    BY <1>1, <1>4, PeerKeepsRoster
  <1>5. QED
    BY <1>2, <1>3, <1>4 DEF Next

(* The strengthened invariant holds in every reachable state.              *)
THEOREM RosterInvariance == Spec => [](IndInv /\ RosterInv)
  <1>1. Init => RosterInv
    BY RosterInit
  <1>2. IndInv /\ RosterInv /\ [Next]_vars => RosterInv'
    BY RosterNext
  <1>3. QED
    BY <1>1, <1>2, Invariance, PTL DEF Spec

-----------------------------------------------------------------------------
(* The theorems.                                                           *)

(* In any state of the invariant the table is exact.                       *)
LEMMA ExactTable == IndInv /\ RosterInv => RosterExact
  <1> SUFFICES ASSUME IndInv, RosterInv, ~Raced, mutex = Free
               PROVE  /\ Cardinality(Roster) = client_cnt
                      /\ {file[f] : f \in Roster} = Appended
    BY DEF RosterExact
  <1>1. Own /\ TableNames
    BY DEF RosterInv
  <1>2. Filled = client_cnt /\ client_cnt = Cardinality(Appended)
    BY FilledIs DEF IndInv, CountIsUnremoved
  <1>3. Entered = Appended
    <2>1. (\A h \in Clients : hpc[h] # "count") /\ mpc # "count"
      BY DEF IndInv, RegionsExclude, Threads, InRegion
    <2>2. QED
      BY <2>1 DEF Entered, Appended
  <1>4. \A f \in Roster : file[f] \in Appended /\ f = accepted[file[f]]
    BY <1>1, <1>2, <1>3, EntryLeads DEF Roster
  <1>5. \A c \in Appended : accepted[c] \in Roster /\ file[accepted[c]] = c
    <2>1. \A c \in Entered : \E n \in 0 .. client_cnt - 1 : client_socks[n] = accepted[c]
      BY <1>1, <1>2 DEF TableNames, Lists
    <2>2. \A c \in Entered : file[accepted[c]] = c
      BY <1>1, Distinct DEF Own
    <2>3. QED
      BY <1>3, <2>1, <2>2 DEF Roster
  <1>6. Cardinality(Roster) = Cardinality(Appended)
    <2> DEFINE g == [c \in Appended |-> accepted[c]]
    <2>1. g \in Bijection(Appended, Roster)
      <3>1. g \in [Appended -> Roster]
        BY <1>5
      <3>2. \A c, d \in Appended : g[c] = g[d] => c = d
        BY <1>5
      <3>3. \A f \in Roster : \E c \in Appended : g[c] = f
        BY <1>4
      <3>4. QED
        BY <3>1, <3>2, <3>3 DEF Bijection, Injection, Surjection, IsInjective
    <2>2. QED
      BY <2>1, AppendedFinite, FS_Bijection DEF ExistsBijection
  <1>7. QED
    BY <1>2, <1>4, <1>5, <1>6

(* As long as no handler got another's descriptor the table names exactly  *)
(* the connections not removed, each once and by a descriptor that is      *)
(* still its own.                                                          *)
THEOREM TableExact == Spec => []RosterExact
  BY RosterInvariance, ExactTable, PTL

(* At the end of a broadcast every open connection of the table has the    *)
(* message last, whatever came and went during it.                         *)
THEOREM CastComplete == Spec => CastReachesAll
  <1> DEFINE Reached == \A h \in Clients :
               hpc[h] = "cast" /\ hpc'[h] = "read" /\ ~Raced =>
                 \A c \in Clients : c \in Appended /\ peer[c] = "open" =>
                   received[c] # <<>> /\ received[c][Len(received[c])] = msg[h]
  <1>1. IndInv /\ RosterInv /\ [Next]_vars => [Reached]_vars
    <2> SUFFICES ASSUME IndInv, RosterInv, [Next]_vars,
                        NEW h \in Clients, NEW c \in Clients,
                        ~Raced, hpc[h] = "cast", hpc'[h] = "read",
                        c \in Appended, peer[c] = "open"
                 PROVE  received[c] # <<>> /\ received[c][Len(received[c])] = msg[h]
      OBVIOUS
    <2>1. i[h] >= client_cnt
      <3>1. CASE MainThread
        <4>1. hpc' = hpc \/ (\E v \in {"start", "orphan"} : hpc' = [hpc EXCEPT ![current] = v])
          BY <3>1 DEF MainThread, AcceptOk, AcceptFail, AppendSock, CountSock, CreateThread,
             hVars
        <4>2. QED
          BY <4>1 DEF IndInv, TypeOK
      <3>2. ASSUME NEW g \in Clients, Handler(g) PROVE i[h] >= client_cnt
        <4>1. \/ EndCast(g) \/ hpc' = hpc
              \/ hpc[g] # "cast" /\ \E v \in HandlerStates : hpc' = [hpc EXCEPT ![g] = v]
          BY <3>2 DEF Handler, ReadArg, ReadMsg, ReadEnd, BeginCast, CastWrite, BeginRemove,
             EndRemove, ListSocks, CloseSock, HandlerStates
        <4>2. EndCast(g) => g = h
          BY DEF EndCast, IndInv, TypeOK
        <4>3. ASSUME NEW v, hpc[g] # "cast", hpc' = [hpc EXCEPT ![g] = v] PROVE FALSE
          <5>1. g # h /\ hpc'[h] = hpc[h]
            BY <4>3
          <5>2. QED
            BY <5>1
        <4>4. EndCast(g)
          BY <4>1, <4>3
        <4>5. QED
          BY <4>2, <4>4 DEF EndCast
      <3>3. CASE Stop \/ UNCHANGED vars \/ \E d \in Clients : Client(d)
        BY <3>3 DEF Stop, vars, hVars, Client, Connect, Send, Leave, Stall, Resume
      <3>4. QED
        BY <3>1, <3>2, <3>3 DEF Next
    <2>2. Own /\ TableNames /\ CastSoFar
      BY DEF RosterInv
    <2>3. \A g \in Clients : hpc[g] # "count"
      BY DEF IndInv, RegionsExclude, Threads, InRegion
    <2>4. c \in Entered /\ Filled = client_cnt
      BY <2>3, FilledIs DEF Appended, Entered
    <2>5. PICK n \in 0 .. client_cnt - 1 : client_socks[n] = accepted[c]
      BY <2>2, <2>4 DEF TableNames, Lists
    <2>6. file[client_socks[n]] = c
      BY <2>2, <2>4, <2>5, Distinct DEF Own
    <2>7. n < i[h]
      BY <2>1, <2>5 DEF IndInv, TypeOK
    <2>8. QED
      BY <2>2, <2>6, <2>7 DEF CastSoFar
  <1>2. QED
    BY <1>1, RosterInvariance, PTL DEF Spec, CastReachesAll

-----------------------------------------------------------------------------
(* The order of the broadcasts, raced or not.                              *)

Holds(h) == hpc[h] \in {"lock", "cast"}

(* No two threads hold the same message; nobody has heard of one that was  *)
(* not read yet or waits for the mutex; and one being broadcast is last    *)
(* wherever its broadcast has put it.                                      *)
OneHand == \A h, g \in Clients : Holds(h) /\ Holds(g) /\ msg[h] = msg[g] => h = g

Counted ==
  /\ \A h \in Clients : Holds(h) => msg[h][2] <= taken[msg[h][1]]
  /\ \A a \in Clients : \A p \in DOMAIN received[a] :
       received[a][p][2] <= taken[received[a][p][1]]

Unheard ==
  \A h, a \in Clients : hpc[h] = "lock" =>
    \A p \in DOMAIN received[a] : received[a][p] # msg[h]

Latest ==
  \A h, a \in Clients : hpc[h] = "cast" =>
    \A p, q \in DOMAIN received[a] :
      received[a][p] = msg[h] /\ p < q => received[a][q] = msg[h]

OrderInv == OneHand /\ Counted /\ Unheard /\ Latest /\ SameOrder

LEMMA OrderStays ==
  ASSUME OrderInv, UNCHANGED <<taken, received>>,
         \A h \in Clients : hpc'[h] \in {"lock", "cast"} =>
           hpc'[h] = hpc[h] /\ msg'[h] = msg[h]
  PROVE  OrderInv'
  <1>1. \A h \in Clients : Holds(h)' => Holds(h) /\ hpc'[h] = hpc[h] /\ msg'[h] = msg[h]
    BY DEF Holds
  <1>2. OneHand' /\ Counted'
    BY <1>1 DEF OrderInv, OneHand, Counted
  <1>3. Unheard' /\ Latest'
    BY DEF OrderInv, Unheard, Latest
  <1>4. SameOrder'
    BY DEF OrderInv, SameOrder
  <1>5. QED
    BY <1>2, <1>3, <1>4 DEF OrderInv

(* What is read has a number that nothing read before has.                 *)
LEMMA ReadMsgKeepsOrder ==
  ASSUME IndInv, OrderInv, NEW h \in Clients, ReadMsg(h)
  PROVE  OrderInv'
  <1> DEFINE c == PeerOf(h)
  <1>1. c \in Clients
    BY DEF ReadMsg, PeerOf, IndInv, TypeOK
  <1>2. /\ hpc' = [hpc EXCEPT ![h] = "lock"] /\ msg' = [msg EXCEPT ![h] = <<c, taken[c] + 1>>]
        /\ taken' = [taken EXCEPT ![c] = @ + 1] /\ received' = received
        /\ hpc[h] = "read"
    BY DEF ReadMsg
  <1> HIDE DEF c
  <1>3. /\ taken \in [Clients -> Nat] /\ received \in [Clients -> Seq(Clients \X Nat)]
        /\ hpc \in [Clients -> HandlerStates]
        /\ msg \in [Clients -> (Clients \X Nat) \cup {<<>>}]
    BY DEF IndInv, TypeOK, Msgs
  <1>4. \A g \in Clients : Holds(g) => msg[g] \in Clients \X Nat
    BY DEF IndInv, Progress, Holds, Msgs
  <1>5. \A m \in Clients \X Nat : m[2] <= taken[m[1]] =>
          m[2] <= taken'[m[1]] /\ m # <<c, taken[c] + 1>>
    BY <1>1, <1>2, <1>3
  <1>6. \A g \in Clients \ {h} : hpc'[g] = hpc[g] /\ msg'[g] = msg[g]
    BY <1>2, <1>3
  <1>7. msg'[h] = <<c, taken[c] + 1>> /\ hpc'[h] = "lock" /\ taken'[c] = taken[c] + 1
    BY <1>1, <1>2, <1>3
  <1>8. \A a \in Clients : \A p \in DOMAIN received[a] :
          received[a][p] \in Clients \X Nat /\ received[a][p][2] <= taken[received[a][p][1]]
    BY <1>3 DEF OrderInv, Counted
  <1>9. \A g \in Clients \ {h} : Holds(g)' => Holds(g) /\ msg[g][2] <= taken[msg[g][1]]
    BY <1>6 DEF Holds, OrderInv, Counted
  <1>10. OneHand'
    <2> SUFFICES ASSUME NEW g \in Clients, NEW k \in Clients, Holds(g)', Holds(k)',
                        msg'[g] = msg'[k]
                 PROVE  g = k
      BY DEF OneHand
    <2>1. CASE g # h /\ k # h
      BY <1>6, <1>9, <2>1 DEF OrderInv, OneHand
    <2>2. CASE g = h /\ k # h
      BY <1>4, <1>5, <1>6, <1>7, <1>9, <2>2
    <2>3. CASE g # h /\ k = h
      BY <1>4, <1>5, <1>6, <1>7, <1>9, <2>3
    <2>4. QED
      BY <2>1, <2>2, <2>3
  <1>11. Counted'
    <2>1. ASSUME NEW g \in Clients, Holds(g)' PROVE msg'[g][2] <= taken'[msg'[g][1]]
      <3>1. CASE g = h
        BY <1>1, <1>3, <1>7, <3>1
      <3>2. CASE g # h
        BY <1>4, <1>5, <1>6, <1>9, <2>1, <3>2
      <3>3. QED
        BY <3>1, <3>2
    <2>2. \A a \in Clients : \A p \in DOMAIN received'[a] :
            received'[a][p][2] <= taken'[received'[a][p][1]]
      BY <1>2, <1>5, <1>8
    <2>3. QED
      BY <2>1, <2>2 DEF Counted
  <1>12. Unheard'
    <2> SUFFICES ASSUME NEW g \in Clients, NEW a \in Clients, hpc'[g] = "lock",
                        NEW p \in DOMAIN received[a]
                 PROVE  received[a][p] # msg'[g]
      BY <1>2 DEF Unheard
    <2>1. CASE g = h
      BY <1>5, <1>7, <1>8, <2>1
    <2>2. CASE g # h
      BY <1>6, <2>2 DEF OrderInv, Unheard
    <2>3. QED
      BY <2>1, <2>2
  <1>13. Latest'
    BY <1>2, <1>6, <1>7 DEF OrderInv, Latest
  <1>14. SameOrder'
    BY <1>2 DEF OrderInv, SameOrder
  <1>15. QED
    BY <1>10, <1>11, <1>12, <1>13, <1>14 DEF OrderInv

LEMMA BeginCastKeepsOrder ==
  ASSUME IndInv, OrderInv, NEW h \in Clients, BeginCast(h)
  PROVE  OrderInv'
  <1>1. hpc[h] = "lock" /\ hpc' = [hpc EXCEPT ![h] = "cast"] /\ UNCHANGED <<taken, received, msg>>
    BY DEF BeginCast, netVars
  <1>2. \A g \in Clients : hpc'[g] = IF g = h THEN "cast" ELSE hpc[g]
    BY <1>1 DEF IndInv, TypeOK
  <1>3. \A g \in Clients : Holds(g)' => Holds(g)
    BY <1>1, <1>2 DEF Holds
  <1>4. OneHand' /\ Counted'
    BY <1>1, <1>3 DEF OrderInv, OneHand, Counted
  <1>5. Unheard' /\ Latest'
    BY <1>1, <1>2 DEF OrderInv, Unheard, Latest
  <1>6. SameOrder'
    BY <1>1 DEF OrderInv, SameOrder
  <1>7. QED
    BY <1>4, <1>5, <1>6 DEF OrderInv

(* What goes behind a sequence leaves the rest of it where it is.          *)
LEMMA Behind ==
  ASSUME NEW S, NEW s \in Seq(S), NEW e \in S
  PROVE  /\ DOMAIN s = 1 .. Len(s) /\ Len(s) \in Nat
         /\ DOMAIN Append(s, e) = 1 .. Len(s) + 1
         /\ \A p \in DOMAIN s : Append(s, e)[p] = s[p]
         /\ Append(s, e)[Len(s) + 1] = e
  <1>1. Append(s, e) \in Seq(S) /\ Len(Append(s, e)) = Len(s) + 1
    BY AppendProperties
  <1>2. DOMAIN s = 1 .. Len(s) /\ Len(s) \in Nat
    BY LenProperties
  <1>3. DOMAIN Append(s, e) = 1 .. Len(s) + 1
    BY <1>1, LenProperties
  <1>4. (\A p \in 1 .. Len(s) : Append(s, e)[p] = s[p]) /\ Append(s, e)[Len(s) + 1] = e
    BY AppendProperties
  <1>5. QED
    BY <1>2, <1>3, <1>4

(* The message goes behind everything that was there, and nothing goes     *)
(* behind it before the mutex is given back.                               *)
LEMMA CastWriteKeepsOrder ==
  ASSUME IndInv, OrderInv, NEW h \in Clients, CastWrite(h)
  PROVE  OrderInv'
  <1> DEFINE x == msg[h]
  <1>1. hpc[h] = "cast" /\ UNCHANGED <<taken, hpc, msg>>
    BY DEF CastWrite
  <1>2. CASE received' = received
    BY <1>1, <1>2, OrderStays
  <1>3. ASSUME NEW d \in Clients, received' = [received EXCEPT ![d] = Append(@, x)]
        PROVE  OrderInv'
    <2>1. received \in [Clients -> Seq(Clients \X Nat)] /\ x \in Clients \X Nat
      <3>1. x \in Msgs
        BY <1>1 DEF IndInv, Progress
      <3>2. QED
        BY <3>1 DEF IndInv, TypeOK, Msgs
    <2>2. /\ \A a \in Clients \ {d} : received'[a] = received[a]
          /\ received'[d] = Append(received[d], x)
      BY <1>3, <2>1
    <2>3. /\ DOMAIN received[d] = 1 .. Len(received[d]) /\ Len(received[d]) \in Nat
          /\ DOMAIN received'[d] = 1 .. Len(received[d]) + 1
          /\ \A p \in DOMAIN received[d] : received'[d][p] = received[d][p]
          /\ received'[d][Len(received[d]) + 1] = x
      <3>1. received[d] \in Seq(Clients \X Nat)
        BY <2>1
      <3>2. msg[h] \in Clients \X Nat
        BY <2>1
      <3>3. /\ DOMAIN received[d] = 1 .. Len(received[d]) /\ Len(received[d]) \in Nat
            /\ DOMAIN Append(received[d], x) = 1 .. Len(received[d]) + 1
            /\ \A p \in DOMAIN received[d] : Append(received[d], x)[p] = received[d][p]
            /\ Append(received[d], x)[Len(received[d]) + 1] = x
        <4> DEFINE s == received[d]
                   S == Clients \X Nat
        <4>1. s \in Seq(S) /\ x \in S
          BY <3>1, <3>2
        <4> HIDE DEF x, s, S
        <4>2. /\ DOMAIN s = 1 .. Len(s) /\ Len(s) \in Nat
              /\ DOMAIN Append(s, x) = 1 .. Len(s) + 1
              /\ \A p \in DOMAIN s : Append(s, x)[p] = s[p]
              /\ Append(s, x)[Len(s) + 1] = x
          BY <4>1, Behind
        <4>3. QED
          BY <4>2 DEF s
      <3>4. QED
        BY <2>2, <3>3
    <2>4. \A a \in Clients : \A p \in DOMAIN received'[a] :
            received'[a][p] = x \/ (p \in DOMAIN received[a] /\ received'[a][p] = received[a][p])
      <3> SUFFICES ASSUME NEW a \in Clients, NEW p \in DOMAIN received'[a]
                   PROVE  received'[a][p] = x \/ (p \in DOMAIN received[a]
                                                 /\ received'[a][p] = received[a][p])
        OBVIOUS
      <3>1. CASE a = d
        <4>1. p \in DOMAIN received[d] \/ p = Len(received[d]) + 1
          BY <2>3, <3>1
        <4>2. QED
          BY <2>3, <3>1, <4>1
      <3>2. CASE a # d
        BY <2>2, <3>2
      <3>3. QED
        BY <3>1, <3>2
    <2>5. \A g \in Clients : hpc[g] = "cast" => g = h
      BY <1>1 DEF IndInv, RegionsExclude, Threads, InRegion
    <2>6. \A a \in Clients : \A p, q \in DOMAIN received'[a] :
            received'[a][p] = x /\ p < q => received'[a][q] = x
      <3> SUFFICES ASSUME NEW a \in Clients, NEW p \in DOMAIN received'[a],
                          NEW q \in DOMAIN received'[a], received'[a][p] = x, p < q,
                          received'[a][q] # x
                   PROVE  FALSE
        OBVIOUS
      <3>1. q \in DOMAIN received[a] /\ received'[a][q] = received[a][q]
        BY <2>4
      <3>2. p \in DOMAIN received[a] /\ received[a][p] = x
        <4>1. CASE a = d
          <5>1. q \in 1 .. Len(received[d]) /\ p \in 1 .. Len(received[d]) + 1
            BY <2>3, <3>1, <4>1
          <5>2. p \in 1 .. Len(received[d])
            BY <2>3, <5>1
          <5>3. QED
            BY <2>3, <4>1, <5>2
        <4>2. CASE a # d
          BY <2>2, <4>2
        <4>3. QED
          BY <4>1, <4>2
      <3>3. QED
        BY <1>1, <3>1, <3>2 DEF OrderInv, Latest
    <2>7. Latest'
      BY <1>1, <2>5, <2>6 DEF Latest
    <2>8. OneHand'
      BY <1>1 DEF OrderInv, OneHand, Holds
    <2>9. Counted'
      <3>1. x[2] <= taken[x[1]]
        BY <1>1 DEF OrderInv, Counted, Holds
      <3>2. \A a \in Clients : \A p \in DOMAIN received'[a] :
              received'[a][p][2] <= taken[received'[a][p][1]]
        <4> SUFFICES ASSUME NEW a \in Clients, NEW p \in DOMAIN received'[a]
                     PROVE  received'[a][p][2] <= taken[received'[a][p][1]]
          OBVIOUS
        <4>1. CASE received'[a][p] = x
          BY <3>1, <4>1
        <4>2. CASE p \in DOMAIN received[a] /\ received'[a][p] = received[a][p]
          BY <4>2 DEF OrderInv, Counted
        <4>3. QED
          BY <2>4, <4>1, <4>2
      <3>3. QED
        BY <1>1, <3>2 DEF OrderInv, Counted, Holds
    <2>10. Unheard'
      <3> SUFFICES ASSUME NEW g \in Clients, NEW a \in Clients, hpc[g] = "lock",
                          NEW p \in DOMAIN received'[a]
                   PROVE  received'[a][p] # msg[g]
        BY <1>1 DEF Unheard
      <3>1. msg[g] # x
        BY <1>1 DEF OrderInv, OneHand, Holds
      <3>2. QED
        BY <2>4, <3>1 DEF OrderInv, Unheard
    <2>11. SameOrder'
      <3> SUFFICES ASSUME NEW a \in Clients, NEW b \in Clients,
                          NEW m \in DOMAIN received'[a], NEW n \in DOMAIN received'[a],
                          NEW p \in DOMAIN received'[b], NEW q \in DOMAIN received'[b],
                          received'[a][m] # received'[a][n],
                          received'[a][m] = received'[b][q],
                          received'[a][n] = received'[b][p], m < n, p < q
                   PROVE  FALSE
        BY DEF SameOrder
      <3>1. received'[a][m] # x
        BY <2>6
      <3>2. received'[a][n] # x
        BY <2>6, <3>1
      <3>3. /\ m \in DOMAIN received[a] /\ received'[a][m] = received[a][m]
            /\ n \in DOMAIN received[a] /\ received'[a][n] = received[a][n]
            /\ p \in DOMAIN received[b] /\ received'[b][p] = received[b][p]
            /\ q \in DOMAIN received[b] /\ received'[b][q] = received[b][q]
        BY <2>4, <3>1, <3>2
      <3>4. QED
        BY <3>3 DEF OrderInv, SameOrder
    <2>12. QED
      BY <2>7, <2>8, <2>9, <2>10, <2>11 DEF OrderInv
  <1>4. \/ received' = received
        \/ \E d \in Clients : received' = [received EXCEPT ![d] = Append(@, x)]
    <2>1. \/ received' = received
          \/ LET d == file[client_socks[i[h]]]
             IN  d # NoClient /\ peer[d] = "open"
                 /\ received' = [received EXCEPT ![d] = Append(@, x)]
      BY DEF CastWrite
    <2>2. received \in [Clients -> Seq(Msgs)]
      BY DEF IndInv, TypeOK
    <2>3. \A d : d \notin Clients => [received EXCEPT ![d] = Append(@, x)] = received
      BY <2>2
    <2>4. QED
      BY <2>1, <2>3
  <1>5. QED
    BY <1>2, <1>3, <1>4

LEMMA OrderNext ==
  ASSUME IndInv, OrderInv, [Next]_vars
  PROVE  OrderInv'
  <1>1. CASE MainThread
    <2>1. UNCHANGED <<taken, received, msg>>
      BY <1>1 DEF MainThread, AcceptOk, AcceptFail, AppendSock, CountSock, CreateThread,
         netVars, hVars
    <2>2. hpc' = hpc \/ \E v \in {"start", "orphan"} : hpc' = [hpc EXCEPT ![current] = v]
      BY <1>1 DEF MainThread, AcceptOk, AcceptFail, AppendSock, CountSock, CreateThread, hVars
    <2>3. \A g \in Clients : hpc'[g] \in {"lock", "cast"} => hpc'[g] = hpc[g]
      BY <2>2 DEF IndInv, TypeOK
    <2>4. QED
      BY <2>1, <2>3, OrderStays
  <1>2. ASSUME NEW h \in Clients,
               \/ ReadArg(h) \/ ReadEnd(h) \/ EndCast(h)
               \/ BeginRemove(h) \/ EndRemove(h) \/ ListSocks(h) \/ CloseSock(h)
        PROVE  OrderInv'
    <2>1. UNCHANGED <<taken, received>>
      BY <1>2 DEF ReadArg, ReadEnd, EndCast, BeginRemove, EndRemove, ListSocks,
         CloseSock, netVars
    <2>2. \E v \in HandlerStates \ {"lock", "cast"} : hpc' = [hpc EXCEPT ![h] = v]
      BY <1>2 DEF ReadArg, ReadEnd, EndCast, BeginRemove, EndRemove, ListSocks,
         CloseSock, HandlerStates
    <2>3. \A g \in Clients \ {h} : msg'[g] = msg[g]
      BY <1>2 DEF ReadArg, ReadEnd, EndCast, BeginRemove, EndRemove, ListSocks,
         CloseSock, IndInv, TypeOK
    <2>4. \A g \in Clients : hpc'[g] \in {"lock", "cast"} =>
            hpc'[g] = hpc[g] /\ msg'[g] = msg[g]
      BY <2>2, <2>3 DEF IndInv, TypeOK
    <2>5. QED
      BY <2>1, <2>4, OrderStays
  <1>3. ASSUME NEW h \in Clients, Handler(h) PROVE OrderInv'
    BY <1>2, <1>3, ReadMsgKeepsOrder, BeginCastKeepsOrder, CastWriteKeepsOrder DEF Handler
  <1>4. CASE Stop \/ UNCHANGED vars \/ \E c \in Clients : Client(c)
    BY <1>4, OrderStays DEF Stop, vars, netVars, hVars, Client, Connect, Send, Leave, Stall,
       Resume
  <1>5. QED
    BY <1>1, <1>3, <1>4 DEF Next

(* No two clients ever hear two messages in opposite orders, whatever      *)
(* descriptors the handlers got and whoever reads from whose connection.   *)
THEOREM OrderCorrect == Spec => []SameOrder
  <1>1. Init => OrderInv
    <2> SUFFICES ASSUME Init PROVE OrderInv
      OBVIOUS
    <2>1. (\A a \in Clients : DOMAIN received[a] = {}) /\ \A h \in Clients : ~ Holds(h)
      BY DEF Init, Holds
    <2>2. \A h \in Clients : hpc[h] \notin {"lock", "cast"}
      BY <2>1 DEF Holds
    <2>3. QED
      BY <2>1, <2>2 DEF OrderInv, OneHand, Counted, Unheard, Latest, SameOrder
  <1>2. IndInv /\ OrderInv /\ [Next]_vars => OrderInv'
    BY OrderNext
  <1>3. OrderInv => SameOrder
    BY DEF OrderInv
  <1>4. QED
    BY <1>1, <1>2, <1>3, Invariance, PTL DEF Spec

-----------------------------------------------------------------------------
(* The server among its real clients.                                      *)

(* Whatever the threads of a client do is a step of its ChatServer peer,   *)
(* or leaves the server and the network alone.                             *)
LEMMA ClientStep ==
  ASSUME NEW c \in Clients,
         Start(c) \/ send_msg(c) \/ recv_msg(c) \/ Die(c) \/ Terminal(c)
  PROVE  Client(c) \/ UNCHANGED vars
  <1>1. CASE Start(c)
    BY <1>1 DEF Start, Client
  <1>2. CASE send_msg(c)
    BY <1>2 DEF send_msg, Say, Quit, Drop, Client
  <1>3. CASE recv_msg(c)
    BY <1>3 DEF recv_msg, Call, Return, ReturnEnd, Drop, Client
  <1>4. CASE Die(c)
    BY <1>4 DEF Die, Drop, Client
  <1>5. CASE Terminal(c)
    BY <1>5 DEF Terminal, Client
  <1>6. QED
    BY <1>1, <1>2, <1>3, <1>4, <1>5

(* Every behaviour of the room is a behaviour of ChatServer                *)
(* (chat_server.c:70-157 with chat_client.c:96-133).                       *)
THEOREM RoomImplementsServer == RoomSpec => Spec
  <1>1. RoomInit => Init
    BY DEF RoomInit
  <1>2. [RoomNext]_<<vars, roomVars>> => [Next]_vars
    <2> SUFFICES ASSUME [RoomNext]_<<vars, roomVars>> PROVE [Next]_vars
      OBVIOUS
    <2>1. CASE ServerStep
      BY <2>1 DEF ServerStep, Next
    <2>2. ASSUME NEW c \in Clients,
                 Start(c) \/ send_msg(c) \/ recv_msg(c) \/ Die(c) \/ Terminal(c)
          PROVE  [Next]_vars
      BY <2>2, ClientStep DEF Next
    <2>3. CASE UNCHANGED <<vars, roomVars>>
      BY <2>3
    <2>4. QED
      BY <2>1, <2>2, <2>3 DEF RoomNext
  <1>3. QED
    BY <1>1, <1>2, PTL DEF RoomSpec, Spec

(* The locked regions exclude each other, the count is that of the         *)
(* connections not yet removed, the table names them as long as every      *)
(* handler got its own descriptor, and two people read what they both hear *)
(* in the same order, whatever the real clients do.                        *)
THEOREM RoomTableCorrect ==
  RoomSpec => [](RegionsExclude /\ CountIsUnremoved /\ RosterExact /\ SameOrder)
  BY RoomImplementsServer, Exclusion, CountCorrect, TableExact, OrderCorrect, PTL

-----------------------------------------------------------------------------
(* Who holds a connection.  The server never opens one nor ends an open    *)
(* one: it only turns what a client has closed into a reset.               *)
LEMMA ServerKeepsOpen ==
  ASSUME RoomTypeOK, Stop \/ MainThread \/ \E h \in Clients : Handler(h)
  PROVE  /\ peer' \in [Clients -> {"idle", "open", "closed", "reset"}]
         /\ \A c \in Clients : peer'[c] = "open" <=> peer[c] = "open"
  <1>1. CASE Stop \/ MainThread
    BY <1>1 DEF Stop, MainThread, AcceptOk, AcceptFail, AppendSock, CountSock,
       CreateThread, netVars, RoomTypeOK
  <1>2. ASSUME NEW h \in Clients, Handler(h), UNCHANGED peer
        PROVE  /\ peer' \in [Clients -> {"idle", "open", "closed", "reset"}]
               /\ \A c \in Clients : peer'[c] = "open" <=> peer[c] = "open"
    BY <1>2 DEF RoomTypeOK
  <1>3. ASSUME NEW h \in Clients, CastWrite(h)
        PROVE  /\ peer' \in [Clients -> {"idle", "open", "closed", "reset"}]
               /\ \A c \in Clients : peer'[c] = "open" <=> peer[c] = "open"
    <2> DEFINE d == file[client_socks[i[h]]]
    <2>1. \/ UNCHANGED peer
          \/ /\ peer[d] = "closed"
             /\ \E end \in {"closed", "reset"} : peer' = [peer EXCEPT ![d] = end]
      BY <1>3 DEF CastWrite
    <2> HIDE DEF d
    <2>2. QED
      BY <2>1 DEF RoomTypeOK
  <1>4. ASSUME NEW h \in Clients, Handler(h) PROVE CastWrite(h) \/ UNCHANGED peer
    BY <1>4 DEF Handler, ReadArg, ReadMsg, ReadEnd, BeginCast, EndCast,
       BeginRemove, EndRemove, ListSocks, CloseSock, netVars
  <1>5. QED
    BY <1>1, <1>2, <1>3, <1>4

(* The clients' connection is held, and kept, as HeldWhileRead says, in    *)
(* every behaviour of the room.                                            *)
THEOREM RoomHeld == RoomSpec => [](RoomTypeOK /\ HeldWhileRead)
  <1> DEFINE Inv == RoomTypeOK /\ HeldWhileRead
  <1>1. RoomInit => Inv
    BY DEF RoomInit, Init, RoomTypeOK, HeldWhileRead
  <1>2. Inv /\ [RoomNext]_<<vars, roomVars>> => Inv'
    <2> SUFFICES ASSUME Inv, [RoomNext]_<<vars, roomVars>> PROVE Inv'
      OBVIOUS
    <2> USE DEF RoomTypeOK, HeldWhileRead
    <2>1. CASE ServerStep
      BY <2>1, ServerKeepsOpen DEF ServerStep, roomVars
    <2>2. ASSUME NEW c \in Clients, Start(c) PROVE Inv'
      BY <2>2 DEF Start, Connect
    <2>3. ASSUME NEW c \in Clients, send_msg(c) PROVE Inv'
      <3>1. CASE Say(c)
        BY <3>1 DEF Say, Send, roomVars
      <3>2. CASE Quit(c)
        BY <2>3, <3>2 DEF Quit, Drop, Leave, vars, netVars
      <3>3. QED
        BY <2>3, <3>1, <3>2 DEF send_msg
    <2>4. ASSUME NEW c \in Clients, recv_msg(c) PROVE Inv'
      <3>1. CASE Call(c)
        BY <3>1 DEF Call, vars, netVars
      <3>2. CASE Return(c)
        BY <3>2 DEF Return, Drop, Leave, vars, netVars
      <3>3. CASE ReturnEnd(c)
        BY <3>3 DEF ReturnEnd, Drop, Leave, vars, netVars
      <3>4. QED
        BY <2>4, <3>1, <3>2, <3>3 DEF recv_msg
    <2>5. ASSUME NEW c \in Clients, Die(c) PROVE Inv'
      BY <2>5 DEF Die, Drop, Leave
    <2>6. ASSUME NEW c \in Clients, Terminal(c) PROVE Inv'
      BY <2>6 DEF Terminal, Stall, Resume, roomVars
    <2>7. CASE UNCHANGED <<vars, roomVars>>
      BY <2>7 DEF vars, netVars, roomVars
    <2>8. QED
      BY <2>1, <2>2, <2>3, <2>4, <2>5, <2>6, <2>7 DEF RoomNext
  <1>3. QED
    BY <1>1, <1>2, PTL DEF RoomSpec
=============================================================================
