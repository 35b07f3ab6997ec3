-------------------------- MODULE WebServerProofs --------------------------
(***************************************************************************)
(* For any number of clients and any descriptor limits: threads that leave *)
(* each other's descriptors alone answer their own clients, once; and one  *)
(* connection at a time leaves nothing open.                               *)
(***************************************************************************)
EXTENDS WebServer, SequenceTheorems, WellFoundedInduction, TLAPS

(* A connection in the backlog is there once and has no thread yet, and so *)
(* is the one main is about to create a thread for.                        *)
Fresh(c) == peer[c] # "idle" /\ tpc[c] = "none"

QueueFresh ==
  /\ \A m, n \in DOMAIN backlog : backlog[m] = backlog[n] => m = n
  /\ \A n \in DOMAIN backlog :
       Fresh(backlog[n]) /\ (mpc = "create" => backlog[n] # latest)
  /\ mpc = "create" => latest \in Clients /\ Fresh(latest)
  /\ \A c \in Clients : peer[c] = "idle" => tpc[c] = "none"

(* A thread that runs on has a descriptor, and a second one only after dup.*)
Progress ==
  \A t \in Clients :
    /\ tpc[t] \in {"none", "arg", "dup"} => client_write[t] = NoFd
    /\ up /\ tpc[t] \notin {"none", "arg", "done"} => client_sock[t] # NoFd

(* The rest holds while nothing is crossed.  What the table holds was      *)
(* opened for its owner, or is the page its owner has opened.              *)
Owned ==
  \A f \in Fds : file[f] # None =>
    \/ file[f].of = file[f].by
    \/ file[f].of = Page
       /\ tpc[file[f].by] \in {"respond200", "closeWrite", "closeAgain", "done"}

(* A thread's numbers are those of its own connection while it needs them. *)
OwnFds ==
  up => \A t \in Clients :
    /\ tpc[t] \in {"dup", "gets"} => file[client_sock[t]] = Entry(t, t)
    /\ /\ tpc[t] \in {"gets", "respond", "closeRead", "open", "respond200"}
       /\ client_write[t] # NoFd
       => file[client_write[t]] = Entry(t, t) /\ client_write[t] # client_sock[t]

(* The request a thread answers is its own client's.                       *)
OwnRequest ==
  \A t \in Clients :
    /\ tpc[t] \in {"respond", "closeRead", "open", "respond200"} =>
         req[t] = t \/ (req[t] = None /\ peer[t] = "gone")
    /\ tpc[t] \in {"open", "respond200"} => ~ Refused(req[t])
    /\ tpc[t] = "respond200" => asks[t] = "page"

(* It has answered exactly if it is past its answer, unless the client is  *)
(* gone or the process was ended by the attempt.                           *)
Before(t) ==
  \/ tpc[t] \in {"none", "arg", "dup", "gets", "open", "respond", "respond200"}
  \/ tpc[t] = "closeRead" /\ ~ Refused(req[t])

AnsweredOnce ==
  \A t \in Clients :
    /\ Before(t) => answers[t] = <<>>
    /\ ~ Before(t) /\ (up \/ tpc[t] = "done") /\ peer[t] # "gone" => answers[t] # <<>>
    /\ answers[t] \in {<<>>, <<<<t, 400>>>>, <<<<t, 200>>>>}
    /\ answers[t] = <<<<t, 200>>>> => asks[t] = "page"

AnswerInv == ~ crossed => Owned /\ OwnFds /\ OwnRequest /\ AnsweredOnce

(* One connection at a time: it has descriptor 1, its duplicate 2, and the *)
(* page takes the 1 that was given back.                                   *)
Running(t) == tpc[t] \notin {"none", "done"}

Alone(t) ==
  /\ \A u \in Clients : Running(u) => u = t
  /\ mpc = "accept"
  /\ \A f \in Fds : file[f] # None => file[f].by = t /\ f \in {1, client_write[t]}
  /\ IF tpc[t] = "arg" THEN client_socket = 1 ELSE client_sock[t] = 1
  /\ client_write[t] \in {NoFd, 2}
  /\ tpc[t] \in {"arg", "dup"} => file[1] # None
  /\ tpc[t] = "open" \/ (tpc[t] = "closeWrite" /\ Refused(req[t])) => file[1] = None
  /\ tpc[t] = "closeAgain" => \A f \in Fds : file[f] # None => f = 1

SerialInv ==
  serial /\ up =>
    /\ ~ crossed
    /\ mpc = "accept" /\ Idle => \A f \in Fds : file[f] = None
    /\ mpc = "create" =>
         /\ Idle /\ client_socket = 1
         /\ \A f \in Fds : file[f] # None <=> f = 1
         /\ file[1].by = latest
    /\ \A t \in Clients : Running(t) => Alone(t)

BaseInv == TypeOK /\ QueueFresh /\ Progress
IndInv  == BaseInv /\ AnswerInv /\ SerialInv

USE LimitsAssumption

-----------------------------------------------------------------------------
(* Descriptors.                                                            *)

(* A nonempty set of numbers has a least element: what is opened was free. *)
LEMMA LowestType ==
  ASSUME NEW S, S \subseteq Nat, S # {}
  PROVE  Lowest(S) \in S
  <1> DEFINE R == {p \in Nat \X Nat : p[1] < p[2]}
  <1>1. IsWellFoundedOn(R, Nat)
    BY NatLessThanWellFounded DEF OpToRel
  <1> HIDE DEF R
  <1>2. PICK x \in S : \A y \in S : ~ (<<y, x>> \in R)
    BY <1>1, WFMin
  <1>3. \A y \in S : x <= y
    <2> SUFFICES ASSUME NEW y \in S PROVE x <= y
      OBVIOUS
    <2>1. ~ (y < x)
      BY <1>2 DEF R
    <2>2. QED
      BY <2>1
  <1>4. QED
    BY <1>3 DEF Lowest

LEMMA LowestIs ==
  ASSUME NEW S, S \subseteq Nat, NEW x \in S, \A y \in S : x <= y
  PROVE  Lowest(S) = x
  <1>1. \A z \in S : (\A y \in S : z <= y) => z = x
    OBVIOUS
  <1>2. QED
    BY <1>1 DEF Lowest

LEMMA Numbers ==
  /\ Fds \subseteq Nat \ {0} /\ NoFd \notin Fds
  /\ TypeOK => Free \subseteq Fds /\ (Free # {} => Lowest(Free) \in Free)
  <1>1. Fds \subseteq Nat \ {0}
    BY DEF Fds
  <1>2. ASSUME TypeOK PROVE Free \subseteq Fds
    BY <1>2 DEF TypeOK, Free, Fds
  <1>3. ASSUME TypeOK, Free # {} PROVE Lowest(Free) \in Free
    BY <1>1, <1>2, <1>3, LowestType
  <1>4. QED
    BY <1>1, <1>2, <1>3 DEF NoFd

LEMMA EntryIs ==
  ASSUME NEW what \in Clients \cup {Page}, NEW t \in Clients
  PROVE  /\ Entry(what, t) \in [of : Clients \cup {Page}, by : Clients]
         /\ Entry(what, t) # None
         /\ Entry(what, t).of = what /\ Entry(what, t).by = t
  BY NamesAssumption DEF Entry

(* A function that changes at one argument.                                *)
LEMMA Changed ==
  ASSUME NEW D, NEW R, NEW f \in [D -> R], NEW x, NEW y \in R
  PROVE  [f EXCEPT ![x] = y] \in [D -> R]
  OBVIOUS

-----------------------------------------------------------------------------
(* Types, the backlog and the threads' numbers.                            *)

LEMMA InitBase == Init => BaseInv
  <1> SUFFICES ASSUME Init PROVE BaseInv
    OBVIOUS
  <1>1. TypeOK
    <2>1. \A S : <<>> \in Seq(S)
      OBVIOUS
    <2>2. nofile \in Limits /\ asks \in [Clients -> Requests]
      BY DEF Init
    <2>3. answers \in [Clients -> Seq((Clients \cup {None}) \X {200, 400})]
      BY <2>1 DEF Init
    <2>4. backlog \in Seq(Clients)
      BY <2>1 DEF Init
    <2>5. QED
      BY <2>2, <2>3, <2>4, ZenonT(30) DEF Init, TypeOK
  <1>2. QueueFresh /\ Progress
    BY DEF Init, QueueFresh, Progress
  <1>3. QED
    BY <1>1, <1>2 DEF BaseInv

LEMMA PeerKeepsBase ==
  ASSUME BaseInv, NEW c \in Clients, Connect(c) \/ Ask(c) \/ Leave(c)
  PROVE  BaseInv'
  <1> USE DEF BaseInv
  <1>1. TypeOK'
    <2>1. /\ peer \in [Clients -> {"idle", "open", "asked", "gone"}]
          /\ backlog \in Seq(Clients) /\ pending \subseteq Clients
      BY DEF TypeOK
    <2>2. /\ peer' \in [Clients -> {"idle", "open", "asked", "gone"}]
          /\ backlog' \in Seq(Clients) /\ pending' \subseteq Clients
      <3>1. CASE Connect(c)
        BY <2>1, <3>1, AppendProperties DEF Connect
      <3>2. CASE Ask(c)
        BY <2>1, <3>2 DEF Ask
      <3>3. CASE Leave(c)
        BY <2>1, <3>3 DEF Leave
      <3>4. QED
        BY <3>1, <3>2, <3>3
    <2>3. UNCHANGED <<conf, answers, up, file, mainVars, threadVars, crossed>>
      BY DEF Connect, Ask, Leave
    <2>4. QED
      BY <2>2, <2>3 DEF TypeOK, conf, mainVars, threadVars
  <1>2. Progress'
    BY DEF Progress, Connect, Ask, Leave, threadVars
  <1>3. DOMAIN backlog = 1 .. Len(backlog) /\ \A n \in DOMAIN backlog : backlog[n] \in Clients
    BY LenProperties DEF TypeOK
  <1>4. CASE Connect(c)
    <2>1. /\ peer[c] = "idle" /\ peer' = [peer EXCEPT ![c] = "open"]
          /\ backlog' = Append(backlog, c)
          /\ UNCHANGED <<tpc, mpc, latest>>
      BY <1>4 DEF Connect, mainVars, threadVars
    <2>2. /\ DOMAIN backlog' = 1 .. Len(backlog) + 1 /\ Len(backlog) \in Nat
          /\ \A n \in 1 .. Len(backlog) : backlog'[n] = backlog[n]
          /\ backlog'[Len(backlog) + 1] = c
      BY <2>1, AppendProperties, LenProperties DEF TypeOK
    <2>3. \A n \in DOMAIN backlog' : n \in DOMAIN backlog \/ n = Len(backlog) + 1
      BY <1>3, <2>2
    <2>4. \A n \in DOMAIN backlog : backlog[n] # c
      BY <2>1 DEF QueueFresh, Fresh
    <2>5. \A d \in Clients : Fresh(d) => Fresh(d)'
      BY <2>1 DEF Fresh, TypeOK
    <2>6. Fresh(c)' /\ (mpc = "create" => latest # c)
      BY <2>1 DEF Fresh, QueueFresh, TypeOK
    <2>7. \A m, n \in DOMAIN backlog' : backlog'[m] = backlog'[n] => m = n
      BY <1>3, <2>2, <2>3, <2>4 DEF QueueFresh
    <2>8. \A n \in DOMAIN backlog' :
            Fresh(backlog[n])' /\ (mpc' = "create" => backlog'[n] # latest')
      BY <1>3, <2>1, <2>2, <2>3, <2>5, <2>6 DEF QueueFresh
    <2>9. \A d \in Clients : peer'[d] = "idle" => tpc'[d] = "none"
      BY <2>1 DEF QueueFresh, TypeOK
    <2>10. mpc' = "create" => latest' \in Clients /\ Fresh(latest)'
      BY <2>1, <2>5 DEF QueueFresh
    <2>11. QueueFresh'
      BY <2>7, <2>8, <2>9, <2>10 DEF QueueFresh
    <2>12. QED
      BY <1>1, <1>2, <2>11
  <1>5. CASE Ask(c) \/ Leave(c)
    <2>1. /\ UNCHANGED <<backlog, tpc, mpc, latest>>
          /\ \A d \in Clients : peer'[d] = "idle" <=> peer[d] = "idle"
      BY <1>5 DEF Ask, Leave, mainVars, threadVars, TypeOK
    <2>2. QED
      BY <1>1, <1>2, <1>3, <2>1 DEF QueueFresh, Fresh
  <1>6. QED
    BY <1>4, <1>5

(* What is left of the backlog when its head is taken.                     *)
LEMMA QueueTail ==
  ASSUME BaseInv, backlog # <<>>, backlog' = Tail(backlog)
  PROVE  /\ Head(backlog) \in Clients /\ Fresh(Head(backlog))
         /\ backlog' \in Seq(Clients)
         /\ \A n \in DOMAIN backlog' :
              /\ n \in Nat /\ n + 1 \in DOMAIN backlog
              /\ backlog'[n] = backlog[n + 1] /\ backlog'[n] # Head(backlog)
  <1> USE DEF BaseInv
  <1>1. /\ Len(backlog) \in Nat \ {0} /\ DOMAIN backlog = 1 .. Len(backlog)
        /\ Head(backlog) = backlog[1] /\ 1 \in DOMAIN backlog
    BY LenProperties, EmptySeq DEF TypeOK
  <1>2. /\ backlog' \in Seq(Clients) /\ Head(backlog) \in Clients
        /\ DOMAIN backlog' = 1 .. Len(backlog) - 1
        /\ \A n \in 1 .. Len(backlog) - 1 : backlog'[n] = backlog[n + 1]
    BY <1>1, HeadTailProperties, LenProperties DEF TypeOK
  <1>3. \A n \in DOMAIN backlog' : backlog'[n] # Head(backlog)
    BY <1>1, <1>2 DEF QueueFresh
  <1>4. QED
    BY <1>1, <1>2, <1>3 DEF QueueFresh

LEMMA MainKeepsBase ==
  ASSUME BaseInv, Main
  PROVE  BaseInv'
  <1> USE DEF BaseInv
  <1>1. \A n \in DOMAIN backlog : backlog[n] \in Clients
    BY LenProperties DEF TypeOK
  <1>2. CASE Accept
    <2> DEFINE c == Head(backlog)
               f == Lowest(Free)
    <2>1. /\ c \in Clients /\ Fresh(c) /\ backlog' \in Seq(Clients)
          /\ \A n \in DOMAIN backlog' :
               /\ n \in Nat /\ n + 1 \in DOMAIN backlog
               /\ backlog'[n] = backlog[n + 1] /\ backlog'[n] # c
      BY <1>2, QueueTail DEF Accept
    <2>2. f \in Fds /\ Entry(c, c) \in [of : Clients \cup {Page}, by : Clients]
      BY <1>2, <2>1, Numbers, EntryIs DEF Accept
    <2>3. /\ file' = [file EXCEPT ![f] = Entry(c, c)] /\ client_socket' = f /\ latest' = c
          /\ mpc' = "create" /\ serial' \in BOOLEAN
          /\ UNCHANGED <<conf, peer, pending, answers, up, threadVars, crossed>>
      BY <1>2 DEF Accept, TypeOK
    <2> HIDE DEF c, f
    <2>4. TypeOK'
      BY <2>1, <2>2, <2>3 DEF TypeOK, conf, threadVars
    <2>5. QueueFresh'
      <3>1. \A m, n \in DOMAIN backlog' : backlog'[m] = backlog'[n] => m = n
        <4> SUFFICES ASSUME NEW m \in DOMAIN backlog', NEW n \in DOMAIN backlog',
                            backlog'[m] = backlog'[n]
                     PROVE  m = n
          OBVIOUS
        <4>1. m + 1 = n + 1 /\ m \in Nat /\ n \in Nat
          BY <2>1 DEF QueueFresh
        <4>2. QED
          BY <4>1
      <3>2. \A n \in DOMAIN backlog' : Fresh(backlog[n])'
        BY <1>1, <2>1, <2>3 DEF QueueFresh, Fresh, threadVars
      <3>3. QED
        BY <2>1, <2>3, <3>1, <3>2 DEF QueueFresh, Fresh, threadVars
    <2>6. Progress'
      BY <2>3 DEF Progress, threadVars
    <2>7. QED
      BY <2>4, <2>5, <2>6
  <1>3. CASE AcceptFails
    <2>1. TypeOK'
      BY <1>3 DEF AcceptFails, TypeOK, conf, netVars, threadVars
    <2>2. QueueFresh' /\ Progress'
      BY <1>1, <1>3 DEF AcceptFails, QueueFresh, Fresh, Progress, netVars, threadVars
    <2>3. QED
      BY <2>1, <2>2
  <1>4. CASE CreateThread
    <2>1. /\ latest \in Clients /\ Fresh(latest) /\ mpc = "create" /\ mpc' = "accept"
          /\ tpc' = tpc \/ tpc' = [tpc EXCEPT ![latest] = "arg"]
          /\ serial' \in BOOLEAN
          /\ UNCHANGED <<conf, netVars, up, file, client_socket, latest, client_sock,
                         client_write, req, crossed>>
      BY <1>4 DEF CreateThread, QueueFresh, TypeOK
    <2>2. TypeOK'
      BY <2>1 DEF TypeOK, conf, netVars
    <2>3. QueueFresh'
      <3>1. \A c \in Clients : c # latest => tpc'[c] = tpc[c]
        BY <2>1 DEF TypeOK
      <3>2. \A n \in DOMAIN backlog : Fresh(backlog[n])'
        BY <1>1, <2>1, <3>1 DEF QueueFresh, Fresh, netVars
      <3>3. \A c \in Clients : peer'[c] = "idle" => tpc'[c] = "none"
        BY <2>1, <3>1 DEF QueueFresh, Fresh, netVars
      <3>4. QED
        BY <2>1, <3>2, <3>3 DEF QueueFresh, netVars
    <2>4. Progress'
      BY <2>1 DEF Progress, TypeOK, Fresh
    <2>5. QED
      BY <2>2, <2>3, <2>4
  <1>5. QED
    BY <1>2, <1>3, <1>4 DEF Main

(* What a thread leaves alone, and how what is opened and closed changes.  *)
LEMMA ThreadFrame ==
  ASSUME BaseInv, NEW t \in Clients, request_handler(t)
  PROVE  /\ up /\ UNCHANGED <<conf, peer, backlog, mainVars>>
         /\ tpc[t] \notin {"none", "done"} /\ tpc'[t] \notin {"none", "arg"}
         /\ \A u \in Clients : u # t =>
              /\ tpc'[u] = tpc[u] /\ client_sock'[u] = client_sock[u]
              /\ client_write'[u] = client_write[u] /\ req'[u] = req[u]
         /\ crossed => crossed'
  <1> USE DEF BaseInv
  <1>1. /\ tpc \in [Clients -> {"none", "arg", "dup", "gets", "respond", "closeRead", "open",
                               "respond200", "closeWrite", "closeAgain", "done"}]
        /\ client_sock \in [Clients -> Fds \cup {NoFd}]
        /\ client_write \in [Clients -> Fds \cup {NoFd}]
        /\ req \in [Clients -> Clients \cup {None}]
    BY DEF TypeOK
  <1> USE DEF At, Goto, netVars, mainVars, conf
  <1>2. CASE ReadArg(t)
    BY <1>1, <1>2 DEF ReadArg
  <1>3. CASE Dup(t)
    BY <1>1, <1>3 DEF Dup
  <1>4. CASE Gets(t)
    BY <1>1, <1>4 DEF Gets
  <1>5. CASE Open(t)
    BY <1>1, <1>5 DEF Open
  <1>6. CASE Respond(t)
    BY <1>1, <1>6 DEF Respond
  <1>7. CASE CloseRead(t)
    BY <1>1, <1>7 DEF CloseRead, Close
  <1>8. CASE CloseWrite(t)
    BY <1>1, <1>8 DEF CloseWrite, Close
  <1>9. CASE CloseAgain(t)
    BY <1>1, <1>9 DEF CloseAgain, Close
  <1>10. QED
    BY <1>2, <1>3, <1>4, <1>5, <1>6, <1>7, <1>8, <1>9 DEF request_handler

LEMMA ThreadTypes ==
  ASSUME BaseInv, NEW t \in Clients, request_handler(t)
  PROVE  TypeOK'
  <1> DEFINE Entries == {None} \cup [of : Clients \cup {Page}, by : Clients]
             Pcs == {"none", "arg", "dup", "gets", "respond", "closeRead", "open",
                     "respond200", "closeWrite", "closeAgain", "done"}
             Answers == Seq((Clients \cup {None}) \X {200, 400})
  <1>1. /\ tpc \in [Clients -> Pcs] /\ client_sock \in [Clients -> Fds \cup {NoFd}]
        /\ client_write \in [Clients -> Fds \cup {NoFd}]
        /\ req \in [Clients -> Clients \cup {None}]
        /\ file \in [Fds -> Entries] /\ pending \subseteq Clients
        /\ answers \in [Clients -> Answers] /\ client_socket \in Fds \cup {NoFd}
    BY DEF BaseInv, TypeOK
  <1>2. UNCHANGED <<conf, peer, backlog, mainVars>>
    BY ThreadFrame
  <1>3. \A f \in Fds : file[f] # None => file[f].of \in Clients \cup {Page}
    BY <1>1
  <1>4. tpc' \in [Clients -> Pcs]
    <2>1. \E pc \in Pcs : tpc' = [tpc EXCEPT ![t] = pc]
      BY DEF request_handler, ReadArg, Dup, Gets, Open, Respond, CloseRead, CloseWrite,
             CloseAgain, Goto
    <2>2. QED
      BY <1>1, <2>1
  <1>5. client_sock' \in [Clients -> Fds \cup {NoFd}]
    <2>1. \/ client_sock' = client_sock
          \/ client_sock' = [client_sock EXCEPT ![t] = client_socket]
      BY DEF request_handler, ReadArg, Dup, Gets, Open, Respond, CloseRead, CloseWrite,
             CloseAgain
    <2>2. [client_sock EXCEPT ![t] = client_socket] \in [Clients -> Fds \cup {NoFd}]
      BY <1>1, Changed
    <2>3. QED
      BY <1>1, <2>1, <2>2
  <1>6. client_write' \in [Clients -> Fds \cup {NoFd}]
    <2>1. \/ client_write' = client_write
          \/ Free # {} /\ client_write' = [client_write EXCEPT ![t] = Lowest(Free)]
      BY DEF request_handler, ReadArg, Dup, Gets, Open, Respond, CloseRead, CloseWrite,
             CloseAgain
    <2>2. Free # {} => Lowest(Free) \in Fds \cup {NoFd}
      BY Numbers DEF BaseInv
    <2>3. Free # {} =>
            [client_write EXCEPT ![t] = Lowest(Free)] \in [Clients -> Fds \cup {NoFd}]
      BY <1>1, <2>2, Changed
    <2>4. QED
      BY <1>1, <2>1, <2>3
  <1>7. req' \in [Clients -> Clients \cup {None}] /\ pending' \subseteq Clients
    <2>1. CASE Gets(t)
      <3>1. client_sock[t] \in Sockets => file[client_sock[t]].of \in Clients
        BY <1>3 DEF Sockets
      <3>2. \/ req' = req /\ pending' = pending
            \/ \E r \in Clients \cup {None} :
                 req' = [req EXCEPT ![t] = r] /\ pending' \subseteq pending
        BY <2>1, <3>1 DEF Gets
      <3>3. \A r \in Clients \cup {None} : [req EXCEPT ![t] = r] \in [Clients -> Clients \cup {None}]
        BY <1>1, Changed
      <3>4. req \in [Clients -> Clients \cup {None}] /\ pending \subseteq Clients
        BY <1>1
      <3>5. QED
        BY <3>2, <3>3, <3>4
    <2>2. CASE ~ Gets(t)
      BY <1>1, <2>2 DEF request_handler, ReadArg, Dup, Open, Respond, CloseRead, CloseWrite,
                       CloseAgain, netVars
    <2>3. QED
      BY <2>1, <2>2
  <1>8. file' \in [Fds -> Entries]
    <2>1. CASE Dup(t) \/ Open(t)
      <3>1. Free # {} => Lowest(Free) \in Fds
        BY Numbers DEF BaseInv
      <3>2. Entry(Page, t) \in Entries
        BY EntryIs
      <3>3. Dup(t) /\ file[client_sock[t]] # None => Entry(file[client_sock[t]].of, t) \in Entries
        <4>1. Dup(t) => client_sock[t] \in Fds
          BY <1>1 DEF BaseInv, Progress, Dup, At
        <4>2. QED
          BY <1>3, <4>1, EntryIs
      <3>4. \/ file' = file
            \/ \E e \in Entries : file' = [file EXCEPT ![Lowest(Free)] = e]
        BY <2>1, <3>2, <3>3 DEF Dup, Open
      <3>5. \A e \in Entries : [file EXCEPT ![Lowest(Free)] = e] \in [Fds -> Entries]
        BY <1>1, Changed
      <3>6. QED
        BY <1>1, <3>4, <3>5
    <2>2. CASE CloseRead(t) \/ CloseWrite(t) \/ CloseAgain(t)
      <3>1. \E f : file' = [file EXCEPT ![f] = None]
        BY <2>2 DEF CloseRead, CloseWrite, CloseAgain, Close
      <3>2. \A f : [file EXCEPT ![f] = None] \in [Fds -> Entries]
        BY <1>1, Changed
      <3>3. QED
        BY <3>1, <3>2
    <2>3. CASE ReadArg(t) \/ Gets(t) \/ Respond(t)
      BY <1>1, <2>3 DEF ReadArg, Gets, Respond
    <2>4. QED
      BY <2>1, <2>2, <2>3 DEF request_handler
  <1>9. answers' \in [Clients -> Answers]
    <2>1. CASE Respond(t)
      <3>1. <<req[t], Status(t)>> \in (Clients \cup {None}) \X {200, 400}
        BY <1>1 DEF Status
      <3>2. \A c \in Clients : Append(answers[c], <<req[t], Status(t)>>) \in Answers
        BY <1>1, <3>1, AppendProperties
      <3>3. client_write[t] \in Sockets => file[client_write[t]].of \in Clients
        BY <1>3 DEF Sockets
      <3>4. \/ answers' = answers
            \/ \E c \in Clients :
                 answers' = [answers EXCEPT ![c] = Append(@, <<req[t], Status(t)>>)]
        BY <2>1, <3>3 DEF Respond
      <3>5. \A c \in Clients :
              [answers EXCEPT ![c] = Append(@, <<req[t], Status(t)>>)] \in [Clients -> Answers]
        BY <1>1, <3>2, Changed
      <3>6. answers \in [Clients -> Answers]
        BY <1>1
      <3> HIDE DEF Answers
      <3>7. QED
        BY <3>4, <3>5, <3>6
    <2>2. CASE ~ Respond(t)
      BY <1>1, <2>2 DEF request_handler, ReadArg, Dup, Open, Gets, CloseRead, CloseWrite,
                       CloseAgain, netVars
    <2>3. QED
      BY <2>1, <2>2
  <1>10. up' \in BOOLEAN /\ crossed' \in BOOLEAN
    <2>1. up \in BOOLEAN /\ crossed \in BOOLEAN
      BY DEF BaseInv, TypeOK
    <2>2. CASE ReadArg(t)
      BY <2>2 DEF ReadArg
    <2>3. CASE Dup(t) \/ Open(t)
      BY <2>1, <2>3 DEF Dup, Open
    <2>4. CASE Gets(t)
      BY <2>1, <2>4 DEF Gets
    <2>5. CASE Respond(t)
      BY <2>1, <2>5 DEF Respond
    <2>6. CASE CloseRead(t) \/ CloseWrite(t) \/ CloseAgain(t)
      BY <2>1, <2>6 DEF CloseRead, CloseWrite, CloseAgain, Close
    <2>7. QED
      BY <2>2, <2>3, <2>4, <2>5, <2>6 DEF request_handler
  <1>11. QED
    BY <1>2, <1>4, <1>5, <1>6, <1>7, <1>8, <1>9, <1>10 DEF BaseInv, TypeOK, conf, mainVars

LEMMA ThreadKeepsBase ==
  ASSUME BaseInv, NEW t \in Clients, request_handler(t)
  PROVE  BaseInv'
  <1>1. TypeOK'
    BY ThreadTypes
  <1>2. QueueFresh'
    <2>1. \A n \in DOMAIN backlog : backlog[n] \in Clients
      BY LenProperties DEF BaseInv, TypeOK
    <2>2. \A c \in Clients : Fresh(c) => c # t /\ Fresh(c)'
      BY ThreadFrame DEF Fresh
    <2>3. peer[t] # "idle"
      BY ThreadFrame DEF BaseInv, QueueFresh
    <2>4. QED
      BY <2>1, <2>2, <2>3, ThreadFrame DEF BaseInv, QueueFresh, Fresh, mainVars
  <1>3. Progress'
    <2> SUFFICES ASSUME NEW u \in Clients
                 PROVE  /\ tpc'[u] \in {"none", "arg", "dup"} => client_write'[u] = NoFd
                        /\ up' /\ tpc'[u] \notin {"none", "arg", "done"} =>
                             client_sock'[u] # NoFd
      BY DEF Progress
    <2>1. CASE u # t
      BY <2>1, ThreadFrame DEF BaseInv, Progress
    <2>2. CASE u = t /\ ReadArg(t)
      BY <2>2 DEF BaseInv, Progress, TypeOK, ReadArg, At, Goto
    <2>3. CASE u = t /\ ~ ReadArg(t)
      <3>1. client_sock' = client_sock /\ tpc[t] \notin {"none", "arg", "done"}
        BY <2>3 DEF request_handler, Dup, Gets, Open, Respond, CloseRead, CloseWrite,
                    CloseAgain, At
      <3>2. tpc' = [tpc EXCEPT ![t] = tpc'[t]] /\ tpc'[t] # "dup"
        BY <2>3, SMTT(30) DEF BaseInv, TypeOK, request_handler, Dup, Gets, Open, Respond, CloseRead,
                    CloseWrite, CloseAgain, At, Goto
      <3>3. QED
        BY <2>3, <3>1, <3>2, ThreadFrame DEF BaseInv, Progress
    <2>4. QED
      BY <2>1, <2>2, <2>3
  <1>4. QED
    BY <1>1, <1>2, <1>3 DEF BaseInv

-----------------------------------------------------------------------------
(* Threads that leave each other's descriptors alone.                      *)

(* What others opened stays; what is new is the thread's own.              *)
LEMMA FileFrame ==
  ASSUME BaseInv, NEW t \in Clients, request_handler(t), ~ crossed'
  PROVE  /\ ~ crossed
         /\ \A f \in Fds : file[f] # None /\ file[f].by # t => file'[f] = file[f]
         /\ \A f \in Fds : file'[f] # None =>
              \/ file'[f] = file[f]
              \/ /\ file[f] = None /\ file'[f].by = t
                 /\ \/ Open(t) /\ tpc'[t] = "respond200" /\ file'[f].of = Page
                    \/ Dup(t) /\ file'[f].of = file[client_sock[t]].of
  <1> DEFINE Entries == {None} \cup [of : Clients \cup {Page}, by : Clients]
  <1>1. ~ crossed
    BY ThreadFrame
  <1>2. file \in [Fds -> Entries]
    BY DEF BaseInv, TypeOK
  <1>3. CASE CloseRead(t) \/ CloseWrite(t) \/ CloseAgain(t)
    <2>1. PICK f \in Fds \cup {NoFd} : Close(f, t)
      BY <1>3 DEF CloseRead, CloseWrite, CloseAgain, BaseInv, TypeOK
    <2>2. ~ OthersFd(f, t) /\ file' = [file EXCEPT ![f] = None]
      BY <2>1 DEF Close
    <2>3. \A g \in Fds : file'[g] = IF g = f THEN None ELSE file[g]
      BY <1>2, <2>2
    <2>4. \A g \in Fds : file[g] # None /\ file[g].by # t => g # f
      BY <2>2, Numbers DEF OthersFd
    <2>5. QED
      BY <1>1, <2>3, <2>4
  <1>4. CASE ReadArg(t) \/ Gets(t) \/ Respond(t)
    BY <1>1, <1>4 DEF ReadArg, Gets, Respond
  <1>5. CASE Dup(t)
    <2>1. CASE Free = {} \/ file[client_sock[t]] = None
      BY <1>1, <1>5, <2>1 DEF Dup
    <2>2. CASE ~ (Free = {} \/ file[client_sock[t]] = None)
      <3>1. Lowest(Free) \in Fds /\ file[Lowest(Free)] = None
        BY <2>2, Numbers DEF BaseInv, Free
      <3>2. client_sock[t] \in Fds
        BY <1>5 DEF Dup, At, BaseInv, TypeOK, Progress
      <3>3. file[client_sock[t]].of \in Clients \cup {Page}
        BY <1>2, <2>2, <3>2
      <3>4. file' = [file EXCEPT ![Lowest(Free)] = Entry(file[client_sock[t]].of, t)]
        BY <1>5, <2>2 DEF Dup
      <3>5. \A g \in Fds : file'[g] = IF g = Lowest(Free) THEN Entry(file[client_sock[t]].of, t)
                                                        ELSE file[g]
        BY <1>2, <3>4
      <3>6. QED
        BY <1>1, <1>5, <3>1, <3>3, <3>5, EntryIs
    <2>3. QED
      BY <2>1, <2>2
  <1>6. CASE Open(t)
    <2>1. CASE file' = file
      BY <1>1, <2>1
    <2>2. CASE file' # file
      <3>1. /\ Free # {} /\ Goto(t, "respond200")
            /\ file' = [file EXCEPT ![Lowest(Free)] = Entry(Page, t)]
        BY <1>6, <2>2 DEF Open
      <3>2. Lowest(Free) \in Fds /\ file[Lowest(Free)] = None
        BY <3>1, Numbers DEF BaseInv, Free
      <3>3. \A g \in Fds : file'[g] = IF g = Lowest(Free) THEN Entry(Page, t) ELSE file[g]
        BY <1>2, <3>1
      <3>4. tpc'[t] = "respond200"
        BY <3>1 DEF Goto, BaseInv, TypeOK
      <3>5. QED
        BY <1>1, <1>6, <3>2, <3>3, <3>4, EntryIs
    <2>3. QED
      BY <2>1, <2>2
  <1>7. QED
    BY <1>3, <1>4, <1>5, <1>6 DEF request_handler

(* What the thread's own numbers are before it reads a request.            *)
LEMMA ThreadKeepsOwned ==
  ASSUME BaseInv, AnswerInv, NEW t \in Clients, request_handler(t), ~ crossed'
  PROVE  Owned'
  <1>1. ~ crossed /\ Owned /\ OwnFds /\ OwnRequest
    BY FileFrame DEF AnswerInv
  <1>2. tpc[t] \in {"respond200", "closeWrite", "closeAgain"} =>
          tpc'[t] \in {"respond200", "closeWrite", "closeAgain", "done"}
    BY <1>1 DEF OwnRequest, request_handler, ReadArg, Dup, Gets, Open, Respond, CloseRead,
                CloseWrite, CloseAgain, At, Goto, BaseInv, TypeOK
  <1> SUFFICES ASSUME NEW f \in Fds, file'[f] # None
               PROVE  \/ file'[f].of = file'[f].by
                      \/ /\ file'[f].of = Page
                         /\ tpc'[file'[f].by] \in {"respond200", "closeWrite", "closeAgain", "done"}
    BY DEF Owned
  <1>3. CASE file'[f] = file[f]
    <2>1. file[f].by \in Clients
      BY <1>3 DEF BaseInv, TypeOK
    <2>2. CASE file[f].by = t
      BY <1>1, <1>2, <1>3, <2>2, ThreadFrame DEF Owned
    <2>3. CASE file[f].by # t
      BY <1>1, <1>3, <2>1, <2>3, ThreadFrame DEF Owned
    <2>4. QED
      BY <2>2, <2>3
  <1>4. CASE file'[f].by = t /\ Dup(t) /\ file'[f].of = file[client_sock[t]].of
    <2>1. file[client_sock[t]] = Entry(t, t)
      BY <1>1, <1>4 DEF OwnFds, Dup, At
    <2>2. QED
      BY <1>4, <2>1, EntryIs
  <1>5. CASE file'[f].by = t /\ tpc'[t] = "respond200" /\ file'[f].of = Page
    BY <1>5
  <1>6. QED
    BY <1>3, <1>4, <1>5, FileFrame

(* A thread that reads its argument finds its own connection, or the       *)
(* process ends; nobody else closes it, and its duplicate is another one.  *)
LEMMA ThreadKeepsOwnFds ==
  ASSUME BaseInv, AnswerInv, NEW t \in Clients, request_handler(t), ~ crossed'
  PROVE  OwnFds'
  <1>1. /\ ~ crossed /\ Owned /\ OwnFds /\ up
        /\ file \in [Fds -> {None} \cup [of : Clients \cup {Page}, by : Clients]]
        /\ client_sock \in [Clients -> Fds \cup {NoFd}]
        /\ client_write \in [Clients -> Fds \cup {NoFd}]
        /\ client_socket \in Fds \cup {NoFd}
    BY FileFrame, ThreadFrame DEF AnswerInv, BaseInv, TypeOK
  <1>2. \A f \in Fds : \A u \in Clients :
          file[f] = Entry(u, u) => file[f] # None /\ file[f].by = u
    BY EntryIs
  <1> SUFFICES ASSUME up', NEW u \in Clients
               PROVE  /\ tpc'[u] \in {"dup", "gets"} => file'[client_sock'[u]] = Entry(u, u)
                      /\ /\ tpc'[u] \in {"gets", "respond", "closeRead", "open", "respond200"}
                         /\ client_write'[u] # NoFd
                         => /\ file'[client_write'[u]] = Entry(u, u)
                            /\ client_write'[u] # client_sock'[u]
    BY DEF OwnFds, Entry
  <1>3. CASE u # t
    <2>1. /\ tpc'[u] = tpc[u] /\ client_sock'[u] = client_sock[u]
          /\ client_write'[u] = client_write[u]
      BY <1>3, ThreadFrame
    <2>2. \A f \in Fds : file[f] = Entry(u, u) => file'[f] = file[f]
      BY <1>2, <1>3, FileFrame
    <2>3. tpc[u] \in {"dup", "gets"} => client_sock[u] \in Fds
      BY <1>1 DEF BaseInv, Progress
    <2>4. client_write[u] # NoFd => client_write[u] \in Fds
      BY <1>1
    <2>5. QED
      BY <1>1, <2>1, <2>2, <2>3, <2>4 DEF OwnFds
  <1>4. CASE u = t /\ ReadArg(t)
    <2>1. /\ tpc[t] = "arg" /\ tpc'[t] = "dup" /\ client_sock'[t] = client_socket
          /\ client_socket \in Fds /\ file[client_socket] # None /\ file' = file
          /\ ~ OthersFd(client_socket, t)
      <3>1. client_socket # NoFd /\ file[client_socket] # None /\ file' = file
        BY <1>4 DEF ReadArg
      <3>2. ~ OthersFd(client_socket, t)
        BY <1>4 DEF ReadArg
      <3>3. tpc[t] = "arg" /\ tpc'[t] = "dup" /\ client_sock'[t] = client_socket
        BY <1>4 DEF ReadArg, At, Goto, BaseInv, TypeOK
      <3>4. QED
        BY <1>1, <3>1, <3>2, <3>3
    <2>2. file[client_socket].by = t
      BY <2>1, Numbers DEF OthersFd
    <2>3. file[client_socket].of = t
      BY <1>1, <2>1, <2>2 DEF Owned
    <2>4. file[client_socket] = Entry(t, t)
      BY <1>1, <2>1, <2>2, <2>3 DEF Entry
    <2>5. QED
      BY <1>4, <2>1, <2>4
  <1>5. CASE u = t /\ Dup(t)
    <2>1. /\ tpc[t] = "dup" /\ tpc'[t] = "gets" /\ client_sock'[t] = client_sock[t]
          /\ client_write[t] = NoFd /\ client_sock[t] \in Fds
      BY <1>1, <1>5 DEF Dup, At, Goto, BaseInv, TypeOK, Progress
    <2>2. file[client_sock[t]] = Entry(t, t) /\ file[client_sock[t]] # None
      BY <1>1, <1>2, <2>1 DEF OwnFds
    <2>3. CASE Free = {}
      BY <1>5, <2>1, <2>2, <2>3 DEF Dup
    <2>4. CASE Free # {}
      <3> DEFINE f == Lowest(Free)
      <3>1. f \in Fds /\ file[f] = None
        BY <2>4, Numbers DEF BaseInv, Free
      <3>2. /\ file' = [file EXCEPT ![f] = Entry(file[client_sock[t]].of, t)]
            /\ client_write' = [client_write EXCEPT ![t] = f]
        BY <1>5, <2>2, <2>4 DEF Dup
      <3> HIDE DEF f
      <3>3. file[client_sock[t]].of = t
        BY <2>2, EntryIs
      <3>4. f # client_sock[t] /\ client_write'[t] = f
        BY <1>1, <2>2, <3>1, <3>2
      <3>5. file'[f] = Entry(t, t) /\ file'[client_sock[t]] = Entry(t, t)
        BY <1>1, <2>1, <2>2, <3>1, <3>2, <3>3, <3>4
      <3>6. QED
        BY <1>5, <2>1, <3>4, <3>5
    <2>5. QED
      BY <2>3, <2>4
  <1>6. CASE u = t /\ (Gets(t) \/ Respond(t))
    <2>1. /\ tpc[t] \in {"gets", "respond", "respond200"} /\ tpc'[t] \notin {"dup", "gets"}
          /\ UNCHANGED <<file, client_sock, client_write>>
      BY <1>6 DEF Gets, Respond, At, Goto, BaseInv, TypeOK
    <2>2. QED
      BY <1>1, <1>6, <2>1 DEF OwnFds
  <1>7. CASE u = t /\ Open(t)
    <2>1. /\ tpc[t] = "open" /\ tpc'[t] \in {"respond", "respond200"}
          /\ UNCHANGED <<client_sock, client_write>>
      BY <1>7 DEF Open, At, Goto, BaseInv, TypeOK
    <2>2. CASE client_write[t] # NoFd
      <3>1. /\ client_write[t] \in Fds /\ file[client_write[t]] = Entry(t, t)
            /\ client_write[t] # client_sock[t] /\ file[client_write[t]] # None
        BY <1>1, <1>2, <2>1, <2>2 DEF OwnFds
      <3>2. file'[client_write[t]] = file[client_write[t]]
        <4>1. \/ file' = file
              \/ Free # {} /\ file' = [file EXCEPT ![Lowest(Free)] = Entry(Page, t)]
          BY <1>7 DEF Open
        <4>2. Free # {} => Lowest(Free) # client_write[t]
          BY <3>1, Numbers DEF BaseInv, Free
        <4>3. QED
          BY <1>1, <3>1, <4>1, <4>2
      <3>3. QED
        BY <1>7, <2>1, <3>1, <3>2
    <2>3. QED
      BY <1>7, <2>1, <2>2
  <1>8. CASE u = t /\ CloseRead(t)
    <2>1. /\ tpc[t] = "closeRead" /\ tpc'[t] \in {"closeWrite", "open"}
          /\ UNCHANGED <<client_sock, client_write>>
          /\ file' = [file EXCEPT ![client_sock[t]] = None]
      BY <1>8 DEF CloseRead, Close, At, Goto, BaseInv, TypeOK
    <2>2. QED
      BY <1>1, <1>8, <2>1 DEF OwnFds
  <1>9. CASE u = t /\ (CloseWrite(t) \/ CloseAgain(t))
    <2>1. tpc'[t] \in {"closeAgain", "done"}
      BY <1>9 DEF CloseWrite, CloseAgain, At, Goto, BaseInv, TypeOK
    <2>2. QED
      BY <1>9, <2>1
  <1>10. QED
    BY <1>3, <1>4, <1>5, <1>6, <1>7, <1>8, <1>9 DEF request_handler

(* What it reads comes through its own connection: it is its own client's. *)
LEMMA ThreadKeepsOwnRequest ==
  ASSUME BaseInv, AnswerInv, NEW t \in Clients, request_handler(t), ~ crossed'
  PROVE  OwnRequest'
  <1>1. /\ ~ crossed /\ OwnFds /\ OwnRequest /\ up
        /\ req \in [Clients -> Clients \cup {None}]
        /\ UNCHANGED <<asks, peer>>
    BY FileFrame, ThreadFrame DEF AnswerInv, BaseInv, TypeOK, conf
  <1> SUFFICES ASSUME NEW u \in Clients
               PROVE  /\ tpc'[u] \in {"respond", "closeRead", "open", "respond200"} =>
                           req'[u] = u \/ (req'[u] = None /\ peer'[u] = "gone")
                      /\ tpc'[u] \in {"open", "respond200"} => ~ Refused(req[u])'
                      /\ tpc'[u] = "respond200" => asks'[u] = "page"
    BY DEF OwnRequest, Refused
  <1>2. CASE u # t
    BY <1>1, <1>2, ThreadFrame DEF OwnRequest, Refused
  <1>3. CASE u = t /\ Gets(t)
    <2>1. tpc[t] = "gets" /\ tpc'[t] \in {"respond", "closeRead"}
      BY <1>3 DEF Gets, At, Goto, BaseInv, TypeOK
    <2>2. client_sock[t] \in Fds /\ file[client_sock[t]] = Entry(t, t)
      BY <1>1, <2>1 DEF OwnFds, BaseInv, Progress, TypeOK
    <2>3. file[client_sock[t]] # None /\ file[client_sock[t]].of = t
      BY <2>2, EntryIs
    <2>4. client_sock[t] \in Sockets
      BY <2>2, <2>3, NamesAssumption DEF Sockets
    <2>5. /\ t \in pending \/ peer[t] = "gone"
          /\ req' = [req EXCEPT ![t] = IF t \in pending THEN t ELSE None]
      BY <1>3, <2>3, <2>4 DEF Gets
    <2>6. req'[t] = t \/ (req'[t] = None /\ peer[t] = "gone")
      BY <1>1, <2>5
    <2>7. QED
      BY <1>1, <1>3, <2>1, <2>6
  <1>4. CASE u = t /\ ~ Gets(t)
    <2>1. req' = req
      BY <1>4 DEF request_handler, ReadArg, Dup, Open, Respond, CloseRead, CloseWrite,
                  CloseAgain
    <2>2. tpc'[t] \in {"respond", "closeRead", "open", "respond200"} =>
            tpc[t] \in {"respond", "closeRead", "open", "respond200"}
      BY <1>4, SMTT(30) DEF request_handler, ReadArg, Dup, Open, Respond, CloseRead, CloseWrite,
                  CloseAgain, At, Goto, BaseInv, TypeOK
    <2>3. tpc'[t] = "open" => ~ Refused(req[t])
      BY <1>4, SMTT(30) DEF request_handler, ReadArg, Dup, Open, Respond, CloseRead, CloseWrite,
                  CloseAgain, At, Goto, BaseInv, TypeOK
    <2>4. tpc'[t] = "respond200" => tpc[t] = "open" /\ asks[req[t]] = "page"
      BY <1>4, SMTT(30) DEF request_handler, ReadArg, Dup, Open, Respond, CloseRead, CloseWrite,
                  CloseAgain, At, Goto, BaseInv, TypeOK
    <2>5. tpc[t] = "open" => ~ Refused(req[t]) /\ req[t] = t
      BY <1>1 DEF OwnRequest, Refused
    <2>6. QED
      BY <1>1, <1>4, <2>1, <2>2, <2>3, <2>4, <2>5 DEF OwnRequest, Refused
  <1>5. QED
    BY <1>2, <1>3, <1>4

(* Only the answer itself takes a thread past its answer.                  *)
LEMMA AnswerApart ==
  ASSUME BaseInv, AnswerInv, NEW t \in Clients, request_handler(t), ~ Respond(t), ~ crossed
  PROVE  answers' = answers /\ (Before(t)' <=> Before(t))
  <1> USE DEF At, Goto, BaseInv, TypeOK
  <1>1. asks' = asks
    BY ThreadFrame DEF conf
  <1>2. CASE ReadArg(t) \/ Dup(t)
    BY <1>2 DEF ReadArg, Dup, Before, netVars
  <1>3. CASE Gets(t)
    <2>1. /\ tpc[t] = "gets" /\ answers' = answers
          /\ \/ tpc'[t] = "respond"
             \/ tpc'[t] = "closeRead" /\ ~ Refused(req'[t])
      BY <1>3 DEF Gets
    <2>2. QED
      BY <1>1, <2>1 DEF Before, Refused
  <1>4. CASE Open(t)
    BY <1>4 DEF Open, Before, netVars
  <1>5. CASE CloseRead(t)
    <2>1. /\ tpc[t] = "closeRead" /\ req' = req /\ answers' = answers
          /\ tpc'[t] = IF Refused(req[t]) THEN "closeWrite" ELSE "open"
      BY <1>5 DEF CloseRead, netVars
    <2>2. QED
      BY <2>1 DEF Before
  <1>6. CASE CloseWrite(t) \/ CloseAgain(t)
    BY <1>6 DEF CloseWrite, CloseAgain, Before, netVars
  <1>7. QED
    BY <1>2, <1>3, <1>4, <1>5, <1>6 DEF request_handler

LEMMA ThreadKeepsAnswers ==
  ASSUME BaseInv, AnswerInv, NEW t \in Clients, request_handler(t), ~ crossed'
  PROVE  AnsweredOnce'
  <1>1. /\ ~ crossed /\ OwnFds /\ OwnRequest /\ AnsweredOnce /\ up
        /\ UNCHANGED <<asks, peer>>
        /\ answers \in [Clients -> Seq((Clients \cup {None}) \X {200, 400})]
    BY FileFrame, ThreadFrame DEF AnswerInv, BaseInv, TypeOK, conf
  <1> DEFINE Right(u) ==
        /\ Before(u)' => answers'[u] = <<>>
        /\ ~ Before(u)' /\ (up' \/ tpc'[u] = "done") /\ peer'[u] # "gone" => answers'[u] # <<>>
        /\ answers'[u] \in {<<>>, <<<<u, 400>>>>, <<<<u, 200>>>>}
        /\ answers'[u] = <<<<u, 200>>>> => asks'[u] = "page"
  <1>2. \A u \in Clients : u # t => (Before(u)' <=> Before(u)) /\ tpc'[u] = tpc[u]
    BY <1>1, ThreadFrame DEF Before, Refused
  <1>3. CASE ~ Respond(t)
    <2>1. answers' = answers /\ \A u \in Clients : Before(u)' <=> Before(u)
      BY <1>1, <1>2, <1>3, AnswerApart
    <2>2. QED
      BY <1>1, <2>1 DEF AnsweredOnce
  <1>4. CASE Respond(t)
    <2>1. /\ tpc[t] \in {"respond", "respond200"} /\ req' = req
          /\ tpc'[t] = IF Refused(req[t]) THEN "closeRead" ELSE "closeWrite"
      BY <1>4 DEF Respond, At, Goto, BaseInv, TypeOK
    <2>2. Before(t) /\ ~ Before(t)'
      BY <1>1, <2>1 DEF Before, Refused
    <2>3. answers[t] = <<>>
      BY <1>1, <2>2 DEF AnsweredOnce
    <2>4. CASE client_write[t] = NoFd
      <3>1. answers' = answers /\ ~ up'
        BY <1>4, <2>4, Numbers DEF Respond, Sockets
      <3>2. Right(t)
        BY <1>1, <2>1, <2>2, <3>1 DEF AnsweredOnce
      <3>3. QED
        BY <1>1, <1>2, <3>1, <3>2 DEF AnsweredOnce
    <2>5. CASE client_write[t] # NoFd
      <3>1. client_write[t] \in Fds /\ file[client_write[t]] = Entry(t, t)
        BY <1>1, <2>1, <2>5 DEF OwnFds, BaseInv, TypeOK
      <3>2. client_write[t] \in Sockets /\ file[client_write[t]].of = t
        BY <3>1, EntryIs, NamesAssumption DEF Sockets
      <3>3. CASE peer[t] = "gone"
        <4>1. answers' = answers
          BY <1>4, <3>2, <3>3 DEF Respond
        <4>2. QED
          BY <1>1, <1>2, <2>2, <3>3, <4>1 DEF AnsweredOnce
      <3>4. CASE peer[t] # "gone"
        <4>1. answers' = [answers EXCEPT ![t] = Append(@, <<req[t], Status(t)>>)]
          BY <1>4, <3>2, <3>4 DEF Respond
        <4>2. req[t] = t
          BY <1>1, <2>1, <3>4 DEF OwnRequest
        <4>3. /\ answers'[t] = <<<<t, Status(t)>>>>
              /\ \A u \in Clients : u # t => answers'[u] = answers[u]
          BY <1>1, <2>3, <4>1, <4>2
        <4>4. /\ Status(t) \in {200, 400}
              /\ Status(t) = 200 => asks[t] = "page"
          BY <1>1, <2>1 DEF Status, OwnRequest
        <4>5. Right(t)
          BY <1>1, <2>2, <4>3, <4>4
        <4>6. \A u \in Clients : u # t => Right(u)
          BY <1>1, <1>2, <4>3 DEF AnsweredOnce
        <4>7. \A u \in Clients : Right(u)
          BY <4>5, <4>6
        <4>8. QED
          BY <4>7 DEF AnsweredOnce
      <3>5. QED
        BY <3>3, <3>4
    <2>6. QED
      BY <2>4, <2>5
  <1>5. QED
    BY <1>3, <1>4

(* The peers only ask and leave, main only opens what was free.            *)
LEMMA OthersKeepAnswers ==
  ASSUME BaseInv, AnswerInv, ~ crossed',
         Main \/ \E c \in Clients : Connect(c) \/ Ask(c) \/ Leave(c)
  PROVE  Owned' /\ OwnFds' /\ OwnRequest' /\ AnsweredOnce'
  <1>1. /\ UNCHANGED <<conf, answers, up, client_sock, client_write, req, crossed>>
        /\ \A c \in Clients : peer[c] = "gone" => peer'[c] = "gone"
        /\ \A c \in Clients : tpc'[c] = tpc[c] \/ (tpc[c] = "none" /\ tpc'[c] = "arg")
    <2>1. CASE Main
      <3>1. CASE CreateThread
        <4>1. latest \in Clients /\ tpc[latest] = "none"
          BY <3>1 DEF CreateThread, BaseInv, QueueFresh, Fresh
        <4>2. tpc' = tpc \/ tpc' = [tpc EXCEPT ![latest] = "arg"]
          BY <3>1 DEF CreateThread
        <4>3. UNCHANGED <<conf, netVars, up, client_sock, client_write, req, crossed>>
          BY <3>1 DEF CreateThread
        <4>4. QED
          BY <4>1, <4>2, <4>3 DEF netVars, BaseInv, TypeOK
      <3>2. CASE Accept \/ AcceptFails
        BY <3>2 DEF Accept, AcceptFails, netVars, threadVars
      <3>3. QED
        BY <2>1, <3>1, <3>2 DEF Main
    <2>2. ASSUME NEW c \in Clients, Connect(c) \/ Ask(c) \/ Leave(c)
          PROVE  /\ UNCHANGED <<conf, answers, up, threadVars, crossed>>
                 /\ \A d \in Clients : peer[d] = "gone" => peer'[d] = "gone"
      BY <2>2 DEF Connect, Ask, Leave, BaseInv, TypeOK
    <2>3. QED
      BY <2>1, <2>2 DEF threadVars
  <1>2. \A f \in Fds :
          \/ file'[f] = file[f]
          \/ /\ file[f] = None
             /\ \E c \in Clients : file'[f] = Entry(c, c)
    <2>1. CASE Accept
      <3>1. Lowest(Free) \in Fds /\ file[Lowest(Free)] = None
        BY <2>1, Numbers DEF Accept, BaseInv, Free
      <3>2. Head(backlog) \in Clients
        BY <2>1, QueueTail DEF Accept
      <3>3. file' = [file EXCEPT ![Lowest(Free)] = Entry(Head(backlog), Head(backlog))]
        BY <2>1 DEF Accept
      <3>4. \A f \in Fds : file'[f] = IF f = Lowest(Free) THEN Entry(Head(backlog), Head(backlog))
                                                       ELSE file[f]
        BY <3>3 DEF BaseInv, TypeOK
      <3>5. QED
        BY <3>1, <3>2, <3>4
    <2>2. CASE ~ Accept
      BY <2>2 DEF Main, AcceptFails, CreateThread, Connect, Ask, Leave
    <2>3. QED
      BY <2>1, <2>2
  <1>3. ~ crossed /\ Owned /\ OwnFds /\ OwnRequest /\ AnsweredOnce
    BY <1>1 DEF AnswerInv
  <1>4. Owned'
    <2>1. \A f \in Fds : file[f] # None => file[f].by \in Clients
      BY DEF BaseInv, TypeOK
    <2> SUFFICES ASSUME NEW f \in Fds, file'[f] # None
                 PROVE  \/ file'[f].of = file'[f].by
                        \/ /\ file'[f].of = Page
                           /\ tpc'[file'[f].by] \in {"respond200", "closeWrite", "closeAgain", "done"}
      BY DEF Owned
    <2>2. CASE file'[f] = file[f]
      BY <1>1, <1>3, <2>1, <2>2 DEF Owned
    <2>3. CASE \E c \in Clients : file'[f] = Entry(c, c)
      BY <2>3, EntryIs
    <2>4. QED
      BY <1>2, <2>2, <2>3
  <1>5. OwnFds'
    <2> SUFFICES ASSUME up', NEW t \in Clients
                 PROVE  /\ tpc'[t] \in {"dup", "gets"} => file'[client_sock'[t]] = Entry(t, t)
                        /\ /\ tpc'[t] \in {"gets", "respond", "closeRead", "open", "respond200"}
                           /\ client_write'[t] # NoFd
                           => /\ file'[client_write'[t]] = Entry(t, t)
                              /\ client_write'[t] # client_sock'[t]
      BY DEF OwnFds, Entry
    <2>1. \A f \in Fds : file[f] = Entry(t, t) => file'[f] = Entry(t, t)
      BY <1>2, EntryIs
    <2>2. tpc[t] \in {"dup", "gets"} => client_sock[t] \in Fds
      BY <1>1 DEF BaseInv, Progress, TypeOK
    <2>3. client_write[t] # NoFd => client_write[t] \in Fds
      BY DEF BaseInv, TypeOK
    <2>4. QED
      BY <1>1, <1>3, <2>1, <2>2, <2>3 DEF OwnFds
  <1>6. OwnRequest'
    BY <1>1, <1>3 DEF OwnRequest, Refused, conf
  <1>7. AnsweredOnce'
    <2>1. \A t \in Clients : (Before(t)' <=> Before(t)) /\ (tpc'[t] = "done" => tpc[t] = "done")
      BY <1>1 DEF Before, Refused, conf
    <2>2. QED
      BY <1>1, <1>3, <2>1 DEF AnsweredOnce, conf
  <1>8. QED
    BY <1>4, <1>5, <1>6, <1>7

LEMMA AnswerNext ==
  ASSUME BaseInv, AnswerInv, [Next]_vars
  PROVE  AnswerInv'
  <1>1. CASE UNCHANGED vars
    BY <1>1 DEF vars, conf, netVars, mainVars, threadVars, AnswerInv, Owned, OwnFds,
                OwnRequest, AnsweredOnce, Before, Refused, Entry
  <1>2. ASSUME ~ crossed', NEW t \in Clients, request_handler(t)
        PROVE  Owned' /\ OwnFds' /\ OwnRequest' /\ AnsweredOnce'
    BY <1>2, ThreadKeepsOwned, ThreadKeepsOwnFds, ThreadKeepsOwnRequest, ThreadKeepsAnswers
  <1>3. QED
    BY <1>1, <1>2, OthersKeepAnswers DEF AnswerInv, Next

-----------------------------------------------------------------------------
(* One connection at a time.                                               *)

LEMMA One ==
  ASSUME BaseInv
  PROVE  /\ 1 \in Fds /\ 1 \in 1 .. nofile
         /\ (file[1] = None => 1 \in Free /\ Lowest(Free) = 1)
         /\ \A f \in Free : f = 1 \/ 2 <= f
  <1>1. nofile \in Limits /\ nofile \in Nat \ {0}
    BY DEF BaseInv, TypeOK
  <1>2. 1 \in 1 .. nofile /\ 1 \in Fds
    BY <1>1 DEF Fds
  <1>3. Free \subseteq Nat /\ \A f \in Free : 1 <= f
    BY <1>1 DEF Free
  <1>4. file[1] = None => 1 \in Free
    BY <1>2 DEF Free
  <1>5. file[1] = None => Lowest(Free) = 1
    BY <1>3, <1>4, LowestIs
  <1>6. QED
    BY <1>2, <1>3, <1>4, <1>5

LEMMA SerialStays ==
  ASSUME SerialInv,
         UNCHANGED <<asks, up, file, client_socket, mpc, latest, serial, threadVars, crossed>>
  PROVE  SerialInv'
  BY DEF SerialInv, Alone, Running, Idle, Refused, threadVars

LEMMA MainKeepsSerial ==
  ASSUME BaseInv, SerialInv, Main
  PROVE  SerialInv'
  <1> SUFFICES ASSUME serial', up'
               PROVE  /\ ~ crossed'
                      /\ mpc' = "accept" /\ Idle' => \A f \in Fds : file'[f] = None
                      /\ mpc' = "create" =>
                           /\ Idle' /\ client_socket' = 1
                           /\ \A f \in Fds : file'[f] # None <=> f = 1
                           /\ file'[1].by = latest'
                      /\ \A t \in Clients : Running(t)' => Alone(t)'
    BY DEF SerialInv
  <1>1. serial /\ (mpc = "accept" => Idle) /\ up /\ UNCHANGED <<asks, crossed>>
    BY DEF Main, Accept, AcceptFails, CreateThread, BaseInv, TypeOK, conf
  <1>2. /\ ~ crossed
        /\ mpc = "accept" => Idle /\ \A f \in Fds : file[f] = None
    BY <1>1 DEF SerialInv
  <1>3. CASE Accept
    <2>1. /\ Lowest(Free) = 1 /\ 1 \in Fds /\ Idle
          /\ \A f \in Fds : file[f] = None
      BY <1>2, <1>3, One DEF Accept
    <2>2. Head(backlog) \in Clients
      BY <1>3, QueueTail DEF Accept
    <2>3. /\ file' = [file EXCEPT ![1] = Entry(Head(backlog), Head(backlog))]
          /\ client_socket' = 1 /\ latest' = Head(backlog) /\ mpc' = "create" /\ tpc' = tpc
      BY <1>3, <2>1 DEF Accept, threadVars
    <2>4. \A f \in Fds : file'[f] = IF f = 1 THEN Entry(Head(backlog), Head(backlog)) ELSE None
      BY <2>1, <2>3 DEF BaseInv, TypeOK
    <2>5. /\ \A f \in Fds : file'[f] # None <=> f = 1
          /\ file'[1].by = latest'
      BY <2>1, <2>2, <2>3, <2>4, EntryIs
    <2>6. Idle' /\ \A t \in Clients : ~ Running(t)'
      BY <2>1, <2>3 DEF Idle, Running
    <2>7. QED
      BY <1>1, <1>2, <2>3, <2>5, <2>6
  <1>4. CASE AcceptFails
    <2>1. file[1] = None /\ Free = {}
      BY <1>2, <1>4, One DEF AcceptFails
    <2>2. QED
      BY <2>1, One
  <1>5. CASE CreateThread
    <2>1. /\ mpc = "create" /\ mpc' = "accept" /\ latest \in Clients /\ tpc[latest] = "none"
          /\ UNCHANGED <<file, client_socket, latest, client_sock, client_write, req>>
      BY <1>5 DEF CreateThread, BaseInv, QueueFresh, Fresh
    <2>2. tpc' = [tpc EXCEPT ![latest] = "arg"]
      BY <1>5 DEF CreateThread
    <2>3. /\ Idle /\ client_socket = 1 /\ file[1].by = latest
          /\ \A f \in Fds : file[f] # None <=> f = 1
      BY <1>1, <2>1 DEF SerialInv
    <2>4. client_write[latest] = NoFd
      BY <2>1 DEF BaseInv, Progress
    <2>5. \A u \in Clients : tpc'[u] = IF u = latest THEN "arg" ELSE tpc[u]
      BY <2>2 DEF BaseInv, TypeOK
    <2>6. \A u \in Clients : Running(u)' => u = latest
      BY <2>3, <2>5 DEF Idle, Running
    <2>7. Alone(latest)'
      BY <2>1, <2>3, <2>4, <2>5, <2>6, One DEF Alone
    <2>8. ~ Idle'
      BY <2>1, <2>5 DEF Idle
    <2>9. QED
      BY <1>1, <1>2, <2>1, <2>6, <2>7, <2>8
  <1>6. QED
    BY <1>3, <1>4, <1>5 DEF Main

LEMMA ThreadKeepsSerial ==
  ASSUME BaseInv, SerialInv, NEW t \in Clients, request_handler(t)
  PROVE  SerialInv'
  <1> SUFFICES ASSUME serial', up'
               PROVE  /\ ~ crossed'
                      /\ mpc' = "accept" /\ Idle' => \A f \in Fds : file'[f] = None
                      /\ mpc' = "create" =>
                           /\ Idle' /\ client_socket' = 1
                           /\ \A f \in Fds : file'[f] # None <=> f = 1
                           /\ file'[1].by = latest'
                      /\ \A u \in Clients : Running(u)' => Alone(u)'
    BY DEF SerialInv
  <1>1. /\ serial /\ up /\ UNCHANGED <<mpc, client_socket, asks>>
        /\ tpc[t] \notin {"none", "done"} /\ tpc'[t] \notin {"none", "arg"}
        /\ \A u \in Clients : u # t => tpc'[u] = tpc[u]
    BY ThreadFrame DEF mainVars, conf
  <1>2. Alone(t) /\ ~ crossed
    BY <1>1 DEF SerialInv, Running
  <1>3. mpc = "accept" /\ \A u \in Clients : Running(u)' => u = t
    BY <1>1, <1>2 DEF Alone, Running
  <1>4. /\ \A f \in Fds : file[f] # None => file[f].by = t /\ f \in {1, client_write[t]}
        /\ client_write[t] \in {NoFd, 2}
        /\ file \in [Fds -> {None} \cup [of : Clients \cup {Page}, by : Clients]]
    BY <1>2 DEF Alone, BaseInv, TypeOK
  <1>5. \A f \in Fds \cup {NoFd} : ~ OthersFd(f, t)
    BY <1>4 DEF OthersFd
  <1> DEFINE Shared ==
        /\ ~ crossed'
        /\ \A f \in Fds : file'[f] # None => file'[f].by = t /\ f \in {1, client_write'[t]}
        /\ client_sock'[t] = 1 /\ client_write'[t] \in {NoFd, 2}
        /\ tpc'[t] = "dup" => file'[1] # None
        /\ tpc'[t] = "open" \/ (tpc'[t] = "closeWrite" /\ Refused(req[t])') => file'[1] = None
        /\ tpc'[t] = "closeAgain" => \A f \in Fds : file'[f] # None => f = 1
        /\ tpc'[t] = "done" => \A f \in Fds : file'[f] = None
  <1>6. Shared => /\ Running(t)' => Alone(t)'
                  /\ Idle' => \A f \in Fds : file'[f] = None
    <2>1. Shared /\ Running(t)' => Alone(t)'
      BY <1>1, <1>3 DEF Alone
    <2>2. Shared /\ Idle' => \A f \in Fds : file'[f] = None
      BY <1>1 DEF Idle
    <2>3. QED
      BY <2>1, <2>2
  <1>7. tpc[t] # "arg" => client_sock[t] = 1
    BY <1>2 DEF Alone
  <1>8. CASE ReadArg(t)
    <2>1. /\ tpc[t] = "arg" /\ tpc'[t] = "dup" /\ client_sock'[t] = client_socket
          /\ UNCHANGED <<file, client_write>>
      BY <1>8 DEF ReadArg, At, Goto, BaseInv, TypeOK
    <2>2. client_socket = 1 /\ file[1] # None
      BY <1>2, <2>1 DEF Alone
    <2>3. ~ crossed'
      BY <1>2, <1>5, <1>8 DEF ReadArg, BaseInv, TypeOK
    <2>4. QED
      BY <1>1, <1>3, <1>4, <1>6, <2>1, <2>2, <2>3
  <1>9. CASE Dup(t)
    <2>1. /\ tpc[t] = "dup" /\ tpc'[t] = "gets" /\ client_sock'[t] = 1 /\ client_sock[t] = 1
          /\ client_write[t] = NoFd /\ crossed' = crossed
      BY <1>7, <1>9 DEF Dup, At, Goto, BaseInv, TypeOK, Progress
    <2>2. file[1] # None /\ \A f \in Fds : file[f] # None => f = 1
      BY <1>2, <1>4, <2>1, Numbers DEF Alone
    <2>3. CASE Free = {}
      <3>1. UNCHANGED <<file, client_write>>
        BY <1>9, <2>3 DEF Dup
      <3>2. QED
        BY <1>1, <1>2, <1>3, <1>4, <1>6, <2>1, <3>1
    <2>4. CASE Free # {}
      <3>1. nofile \in Limits /\ nofile \in Nat
        BY DEF BaseInv, TypeOK
      <3>2. 2 \in 1 .. nofile /\ 2 \in Fds
        <4>1. PICK g : g \in Free
          BY <2>4
        <4>2. g \in 1 .. nofile /\ g # 1
          BY <2>2, <4>1 DEF Free
        <4>3. 2 \in 1 .. nofile
          BY <3>1, <4>2
        <4>4. QED
          BY <3>1, <4>3 DEF Fds
      <3>3. 2 \in Free
        BY <2>2, <3>2 DEF Free
      <3>4. \A f \in Free : 2 <= f
        BY <2>2, One DEF Free
      <3>5. Lowest(Free) = 2
        BY <3>3, <3>4, LowestIs, Numbers DEF BaseInv
      <3>6. file' = [file EXCEPT ![2] = Entry(file[1].of, t)] /\ client_write'[t] = 2
        BY <1>9, <2>1, <2>2, <2>4, <3>5 DEF Dup, BaseInv, TypeOK
      <3>7. file[1].of \in Clients \cup {Page}
        BY <1>4, <2>2, One
      <3>8. \A f \in Fds : file'[f] # None => file'[f].by = t /\ f \in {1, 2}
        BY <1>4, <2>2, <3>6, <3>7, EntryIs
      <3>9. QED
        BY <1>1, <1>2, <1>3, <1>6, <2>1, <3>6, <3>8
    <2>5. QED
      BY <2>3, <2>4
  <1>10. CASE Gets(t)
    <2>1. /\ tpc'[t] \in {"respond", "closeRead"} /\ UNCHANGED <<file, client_sock, client_write>>
          /\ tpc[t] = "gets"
      BY <1>10 DEF Gets, At, Goto, BaseInv, TypeOK
    <2>2. ~ crossed'
      BY <1>2, <1>5, <1>10 DEF Gets, BaseInv, TypeOK
    <2>3. QED
      BY <1>1, <1>3, <1>4, <1>6, <1>7, <2>1, <2>2
  <1>11. CASE Open(t)
    <2>1. /\ tpc[t] = "open" /\ tpc'[t] \in {"respond", "respond200"}
          /\ UNCHANGED <<client_sock, client_write, crossed>>
      BY <1>11 DEF Open, At, Goto, BaseInv, TypeOK
    <2>2. file[1] = None
      BY <1>2, <2>1 DEF Alone
    <2>3. file' = file \/ file' = [file EXCEPT ![1] = Entry(Page, t)]
      BY <1>11, <2>2, One DEF Open
    <2>4. \A f \in Fds : file'[f] # None => file'[f].by = t /\ f \in {1, client_write[t]}
      BY <1>4, <2>3, EntryIs
    <2>5. QED
      BY <1>1, <1>2, <1>3, <1>4, <1>6, <1>7, <2>1, <2>4
  <1>12. CASE Respond(t)
    <2>1. /\ tpc[t] \in {"respond", "respond200"}
          /\ UNCHANGED <<file, client_sock, client_write, req>>
          /\ tpc'[t] = IF Refused(req[t]) THEN "closeRead" ELSE "closeWrite"
      BY <1>12 DEF Respond, At, Goto, BaseInv, TypeOK
    <2>2. ~ crossed'
      BY <1>2, <1>5, <1>12 DEF Respond, BaseInv, TypeOK
    <2>3. Refused(req[t])' <=> Refused(req[t])
      BY <1>1, <2>1 DEF Refused
    <2>4. QED
      BY <1>1, <1>3, <1>4, <1>6, <1>7, <2>1, <2>2, <2>3
  <1>13. CASE CloseRead(t)
    <2>1. /\ tpc[t] = "closeRead" /\ tpc'[t] \in {"closeWrite", "open"}
          /\ UNCHANGED <<client_sock, client_write>>
          /\ file' = [file EXCEPT ![client_sock[t]] = None]
      BY <1>13 DEF CloseRead, Close, At, Goto, BaseInv, TypeOK
    <2>2. ~ crossed'
      BY <1>2, <1>5, <1>13 DEF CloseRead, Close, BaseInv, TypeOK
    <2>3. \A f \in Fds : file'[f] = IF f = 1 THEN None ELSE file[f]
      BY <1>4, <1>7, <2>1
    <2>4. QED
      BY <1>1, <1>3, <1>4, <1>6, <1>7, <2>1, <2>2, <2>3, One
  <1>14. CASE CloseWrite(t)
    <2>1. /\ tpc[t] = "closeWrite" /\ UNCHANGED <<client_sock, client_write>>
          /\ tpc'[t] = IF Refused(req[t]) THEN "done" ELSE "closeAgain"
          /\ file' = [file EXCEPT ![client_write[t]] = None]
      BY <1>14 DEF CloseWrite, Close, At, Goto, BaseInv, TypeOK
    <2>2. ~ crossed'
      BY <1>2, <1>5, <1>14 DEF CloseWrite, Close, BaseInv, TypeOK
    <2>3. \A f \in Fds : file'[f] = IF f = client_write[t] THEN None ELSE file[f]
      BY <1>4, <2>1
    <2>4. Refused(req[t]) => file[1] = None
      BY <1>2, <2>1 DEF Alone
    <2>5. QED
      BY <1>1, <1>3, <1>4, <1>6, <1>7, <2>1, <2>2, <2>3, <2>4
  <1>15. CASE CloseAgain(t)
    <2>1. /\ tpc[t] = "closeAgain" /\ tpc'[t] = "done" /\ UNCHANGED <<client_sock, client_write>>
          /\ file' = [file EXCEPT ![client_sock[t]] = None]
      BY <1>15 DEF CloseAgain, Close, At, Goto, BaseInv, TypeOK
    <2>2. ~ crossed'
      BY <1>2, <1>5, <1>15 DEF CloseAgain, Close, BaseInv, TypeOK
    <2>3. \A f \in Fds : file'[f] = IF f = 1 THEN None ELSE file[f]
      BY <1>4, <1>7, <2>1
    <2>4. \A f \in Fds : file'[f] = None
      BY <1>2, <2>1, <2>3 DEF Alone
    <2>5. QED
      BY <1>1, <1>3, <1>4, <1>6, <1>7, <2>1, <2>2, <2>4
  <1>16. QED
    BY <1>8, <1>9, <1>10, <1>11, <1>12, <1>13, <1>14, <1>15 DEF request_handler

(* The peers do not touch what SerialInv speaks of.                        *)
LEMMA SerialNext ==
  ASSUME BaseInv, SerialInv, [Next]_vars
  PROVE  SerialInv'
  <1>1. CASE UNCHANGED vars
    BY <1>1, SerialStays DEF vars, conf, mainVars
  <1>2. CASE Main
    BY <1>2, MainKeepsSerial
  <1>3. ASSUME NEW c \in Clients, Connect(c) \/ Ask(c) \/ Leave(c)
        PROVE  SerialInv'
    BY <1>3, SerialStays DEF Connect, Ask, Leave, conf, mainVars
  <1>4. ASSUME NEW t \in Clients, request_handler(t)
        PROVE  SerialInv'
    BY <1>4, ThreadKeepsSerial
  <1>5. QED
    BY <1>1, <1>2, <1>3, <1>4 DEF Next

LEMMA InitAnswer == Init => AnswerInv /\ SerialInv
  <1> SUFFICES ASSUME Init PROVE AnswerInv /\ SerialInv
    OBVIOUS
  <1>1. /\ tpc = [t \in Clients |-> "none"] /\ file = [f \in Fds |-> None]
        /\ answers = [c \in Clients |-> <<>>] /\ mpc = "accept" /\ crossed = FALSE
    BY DEF Init
  <1>2. Owned /\ OwnFds /\ OwnRequest
    BY <1>1 DEF Owned, OwnFds, OwnRequest
  <1>3. AnsweredOnce
    BY <1>1 DEF AnsweredOnce, Before
  <1>4. SerialInv
    BY <1>1 DEF SerialInv, Running
  <1>5. QED
    BY <1>2, <1>3, <1>4 DEF AnswerInv

-----------------------------------------------------------------------------
(* IndInv is inductive, hence an invariant.                                *)
THEOREM Invariance == Spec => []IndInv
  <1>1. Init => IndInv
    BY InitBase, InitAnswer DEF IndInv
  <1>2. IndInv /\ [Next]_vars => IndInv'
    <2> SUFFICES ASSUME IndInv, [Next]_vars PROVE IndInv'
      OBVIOUS
    <2>1. BaseInv /\ AnswerInv /\ SerialInv
      BY DEF IndInv
    <2>2. BaseInv'
      <3>1. CASE UNCHANGED vars
        BY <2>1, <3>1 DEF vars, conf, netVars, mainVars, threadVars, BaseInv, TypeOK,
           QueueFresh, Fresh, Progress
      <3>2. QED
        BY <2>1, <3>1, PeerKeepsBase, MainKeepsBase, ThreadKeepsBase DEF Next
    <2>3. QED
      BY <2>1, <2>2, AnswerNext, SerialNext DEF IndInv
  <1>3. QED
    BY <1>1, <1>2, PTL DEF Spec

(* Every number main or a thread has is one the process may open, or none, *)
(* in any order of accepts, duplicates and double closes.                  *)
THEOREM TypeCorrect == Spec => []TypeOK
  BY Invariance, PTL DEF IndInv, BaseInv

(* Threads that leave each other's descriptors alone give each client one  *)
(* answer at most, its own, and have given it when they are done.          *)
THEOREM OwnAnswers == Spec => []AnswersOwnRequest
  <1>1. IndInv => AnswersOwnRequest
    BY DEF IndInv, AnswerInv, AnsweredOnce, Before, AnswersOwnRequest
  <1>2. QED
    BY <1>1, Invariance, PTL

(* One connection at a time crosses nothing and leaves nothing open, with  *)
(* any number of clients and any number of descriptors.                    *)
THEOREM SerialClean == Spec => []SerialLeavesNothing
  <1>1. IndInv => SerialLeavesNothing
    BY DEF IndInv, SerialInv, SerialLeavesNothing
  <1>2. QED
    BY <1>1, Invariance, PTL
=============================================================================
