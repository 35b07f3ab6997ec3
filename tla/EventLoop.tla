----------------------------- MODULE EventLoop ------------------------------
(***************************************************************************)
(* The echo servers with one thread and many connections; Init picks one:  *)
(*   "select"  ch12/echo_selectserv.c                                      *)
(*   "lt"      ch17/echo_epollserv.c and echo_epoll_lt_serv.c, which       *)
(*             differ in BUFFER_SIZE only (level-triggered epoll)          *)
(*   "et"      ch17/echo_epoll_et_serv.c: edge-triggered connections and   *)
(*             nonblocking descriptors                                     *)
(* Each waits for ready descriptors and handles those it was told of, one  *)
(* after the other: accept_request for the listener, run for a connection. *)
(* Meanwhile the peers go on sending and leaving.                          *)
(***************************************************************************)
EXTENDS Integers, Sequences, FiniteSets

CONSTANTS
  Clients,        (* the peers; each connects at most once                 *)
  Stallers,       (* those that may stop reading for a while               *)
  Input,          (* the bytes each client sends, a sequence per client    *)
  BUFFER_SIZE, EPOLL_SIZE,
  Limits,         (* how many connections the descriptor limit may allow   *)
  Bytes,          (* what Input is made of                                 *)
  Newline, Nul,   (* the two bytes run treats specially                    *)
  NoClient        (* what a closed descriptor refers to                    *)

Listener == 0     \* listen_fd: opened first, below every connection
Fds      == UNION {1 .. n : n \in Limits}
Modes    == {"select", "lt", "et"}

ASSUME BoundsAssumption == /\ BUFFER_SIZE \in Nat \ {0} /\ EPOLL_SIZE \in Nat \ {0}
                           /\ Limits \subseteq Nat \ {0}
                           /\ Input \in [Clients -> Seq(Bytes)]
ASSUME NamesAssumption  == NoClient \notin Clients /\ Nul \notin Bytes \cup {Newline}

VARIABLES
  mode, nofile,   (* which server; its descriptor limit: 1 .. nofile      *)
  \* the peers and the kernel
  peer,           (* each client's end of its connection                   *)
  backlog,        (* connections waiting for accept                        *)
  arrived, taken, (* bytes of Input the server's socket got, and read      *)
  echoed,         (* the bytes each client got back                        *)
  stalled,        (* clients that do not read at the moment                *)
  edge,           (* "et": connections with an event not reported yet      *)
  \* the server
  up,             (* FALSE once the process has ended                      *)
  file,           (* descriptor table: the client behind each descriptor   *)
  interest,       (* reads of select, the interest list of epoll           *)
  fd_max,
  mpc, todo,      (* where the loop is; events still to be handled         *)
  cur, buf        (* run: its client_fd and the bytes it has read          *)

netVars == <<peer, backlog, arrived, taken, echoed, stalled>>
srvVars == <<up, file, interest, fd_max, mpc, todo, cur, buf>>
conf    == <<mode, nofile>>
vars    == <<conf, netVars, edge, srvVars>>

Init ==
  /\ mode \in Modes /\ nofile \in Limits
  /\ peer = [c \in Clients |-> "idle"]
  /\ backlog = <<>>
  /\ arrived = [c \in Clients |-> 0]
  /\ taken = [c \in Clients |-> 0]
  /\ echoed = [c \in Clients |-> <<>>]
  /\ stalled = {}
  /\ edge = {}
  /\ up = TRUE
  /\ file = [f \in Fds |-> NoClient]
  /\ interest = {Listener}
  /\ fd_max = Listener
  /\ mpc = "wait"
  /\ todo = {}
  /\ cur = 0
  /\ buf = <<>>

-----------------------------------------------------------------------------
(* The clients: external, as the server's calls see them.  Bytes, an end   *)
(* of stream or a reset that arrives on an edge-triggered descriptor       *)
(* leaves an event for it.                                                 *)

Signal(c) ==
  edge' = edge \cup {f \in interest \ {Listener} : mode = "et" /\ file[f] = c}

Connect(c) ==
  /\ peer[c] = "idle"
  /\ peer' = [peer EXCEPT ![c] = "open"]
  /\ backlog' = Append(backlog, c)
  /\ UNCHANGED <<conf, arrived, taken, echoed, stalled, edge, srvVars>>

Arrive(c) ==
  /\ peer[c] = "open" /\ arrived[c] < Len(Input[c])
  /\ arrived' = [arrived EXCEPT ![c] = @ + 1]
  /\ Signal(c)
  /\ UNCHANGED <<conf, peer, backlog, taken, echoed, stalled, srvVars>>

Leave(c) ==
  /\ peer[c] = "open"
  /\ \E end \in {"closed", "reset"} : peer' = [peer EXCEPT ![c] = end]
  /\ stalled' = stalled \ {c}
  /\ Signal(c)
  /\ UNCHANGED <<conf, backlog, arrived, taken, echoed, srvVars>>

Stall(c) ==
  /\ c \in Stallers /\ peer[c] = "open"
  /\ stalled' = stalled \cup {c}
  /\ UNCHANGED <<conf, peer, backlog, arrived, taken, echoed, edge, srvVars>>

Resume(c) ==
  /\ c \in stalled
  /\ stalled' = stalled \ {c}
  /\ UNCHANGED <<conf, peer, backlog, arrived, taken, echoed, edge, srvVars>>

Client(c) == Connect(c) \/ Arrive(c) \/ Leave(c) \/ Stall(c) \/ Resume(c)

-----------------------------------------------------------------------------
(* Waiting.                                                                *)

(* A read of the descriptor would not block.                               *)
HasInput(c) == peer[c] # "open" \/ taken[c] < arrived[c]
Readable(f) == HasInput(file[f])

Ready ==
  {f \in interest :
     IF f = Listener THEN backlog # <<>>
     ELSE CASE mode = "select" -> f <= fd_max /\ Readable(f)
            [] mode = "lt"     -> Readable(f)
            [] mode = "et"     -> f \in edge /\ Readable(f)}

(* select reports every ready descriptor, epoll_wait at most EPOLL_SIZE of *)
(* them; an edge-triggered event is reported once.                         *)
Wait ==
  /\ up /\ mpc = "wait" /\ Ready # {}
  /\ \E S \in SUBSET Ready :
       /\ S # {}
       /\ S = Ready \/ (mode # "select" /\ Cardinality(S) = EPOLL_SIZE)
       /\ todo' = S
       /\ edge' = edge \ S
  /\ mpc' = "next"
  /\ UNCHANGED <<conf, netVars, up, file, interest, fd_max, cur, buf>>

(* The wait itself fails (a signal): the loop is left and main returns.    *)
WaitFails ==
  /\ up /\ mpc = "wait"
  /\ up' = FALSE
  /\ UNCHANGED <<conf, netVars, edge, file, interest, fd_max, mpc, todo, cur, buf>>

WaitAgain ==
  /\ up /\ mpc = "next" /\ todo = {}
  /\ mpc' = "wait"
  /\ UNCHANGED <<conf, netVars, edge, up, file, interest, fd_max, todo, cur, buf>>

(* select's loop goes through the descriptors in ascending order.          *)
Turn(f) ==
  /\ up /\ mpc = "next" /\ f \in todo
  /\ mode = "select" => \A g \in todo : f <= g
  /\ todo' = todo \ {f}

-----------------------------------------------------------------------------
(* accept_request.                                                         *)

FreeFds   == {f \in 1 .. nofile : file[f] = NoClient}
Lowest(S) == CHOOSE f \in S : \A g \in S : f <= g

(* accept fails: no descriptor left (the connection stays queued), or the  *)
(* connection was reset before it was accepted.                            *)
AcceptFails ==
  /\ Turn(Listener)
  /\ \/ FreeFds = {} /\ backlog' = backlog
     \/ peer[Head(backlog)] = "reset" /\ backlog' = Tail(backlog)
  /\ UNCHANGED <<conf, peer, arrived, taken, echoed, stalled, edge, up, file, interest,
                 fd_max, mpc, cur, buf>>

Accepted(f) ==
  /\ FreeFds # {} /\ f = Lowest(FreeFds)
  /\ file' = [file EXCEPT ![f] = Head(backlog)]
  /\ backlog' = Tail(backlog)

(* Faulty variant of AcceptSelect: fd_max is not raised.                   *)
AcceptSelectKeepMax ==
  /\ mode = "select" /\ Turn(Listener)
  /\ \E f \in Fds : Accepted(f) /\ interest' = interest \cup {f}
  /\ UNCHANGED <<conf, peer, arrived, taken, echoed, stalled, edge, up, fd_max, mpc,
                 cur, buf>>

AcceptSelect ==
  /\ mode = "select" /\ Turn(Listener)
  /\ \E f \in Fds :
       /\ Accepted(f)
       /\ interest' = interest \cup {f}
       /\ fd_max' = IF fd_max < f THEN f ELSE fd_max
  /\ UNCHANGED <<conf, peer, arrived, taken, echoed, stalled, edge, up, mpc, cur, buf>>

(* EPOLL_CTL_ADD may fail: the descriptor then stays open, unwatched.      *)
AcceptLT ==
  /\ mode = "lt" /\ Turn(Listener)
  /\ \E f \in Fds : Accepted(f) /\ interest' \in {interest, interest \cup {f}}
  /\ UNCHANGED <<conf, peer, arrived, taken, echoed, stalled, edge, up, fd_max, mpc,
                 cur, buf>>

(* Adding a descriptor that is readable already leaves an event for it.    *)
AcceptET ==
  /\ mode = "et" /\ Turn(Listener)
  /\ \E f \in Fds :
       /\ Accepted(f)
       /\ interest' \in {interest, interest \cup {f}}
       /\ edge' = edge \cup {g \in interest' \ interest : HasInput(Head(backlog))}
  /\ UNCHANGED <<conf, peer, arrived, taken, echoed, stalled, up, fd_max, mpc, cur, buf>>

-----------------------------------------------------------------------------
(* run.                                                                    *)

StartRun ==
  /\ \E f \in Fds : Turn(f) /\ cur' = f
  /\ mpc' = "read"
  /\ UNCHANGED <<conf, netVars, edge, up, file, interest, fd_max, buf>>

Reading(c) == up /\ mpc = "read" /\ c = file[cur]

Min2(a, b) == IF a < b THEN a ELSE b

(* read returns what has arrived, as far as the buffer takes it.           *)
ReadSome(c) ==
  /\ Reading(c) /\ taken[c] < arrived[c]
  /\ LET n == Min2(arrived[c] - taken[c], BUFFER_SIZE)
     IN  /\ buf' = SubSeq(Input[c], taken[c] + 1, taken[c] + n)
         /\ taken' = [taken EXCEPT ![c] = @ + n]
  /\ mpc' = "write"
  /\ UNCHANGED <<conf, peer, backlog, arrived, echoed, stalled, edge, up, file,
                 interest, fd_max, todo, cur>>

ReadEof(c) ==
  /\ Reading(c) /\ peer[c] \in {"closed", "aborted"} /\ taken[c] = arrived[c]
  /\ mpc' = "close"
  /\ UNCHANGED <<conf, netVars, edge, up, file, interest, fd_max, todo, cur, buf>>

(* A reset makes one read fail (bytes not read yet may be lost with it);   *)
(* later ones return 0.  select closes.  In "lt" len is a size_t, so -1    *)
(* counts as positive and the empty buffer is written back.  "et" ignores  *)
(* every error but EAGAIN and reads again.                                 *)
ReadError(c) ==
  /\ Reading(c) /\ peer[c] = "reset"
  /\ peer' = [peer EXCEPT ![c] = "aborted"]
  /\ taken' = [taken EXCEPT ![c] = arrived[c]]
  /\ CASE mode = "select" -> mpc' = "close" /\ buf' = buf
       [] mode = "lt"     -> mpc' = "write" /\ buf' = <<>>
       [] mode = "et"     -> mpc' = "read"  /\ buf' = buf
  /\ UNCHANGED <<conf, backlog, arrived, echoed, stalled, edge, up, file, interest,
                 fd_max, todo, cur>>

(* EAGAIN on a nonblocking descriptor: everything has been read.           *)
ReadAgain(c) ==
  /\ Reading(c) /\ mode = "et" /\ peer[c] = "open" /\ taken[c] = arrived[c]
  /\ mpc' = "next"
  /\ UNCHANGED <<conf, netVars, edge, up, file, interest, fd_max, todo, cur, buf>>

(* Faulty variant of Reply: the last byte is cut whatever it is.           *)
ReplyTrimsAlways == IF buf = <<>> THEN buf ELSE SubSeq(buf, 1, Len(buf) - 1)

(* A newline that ends what one read returned becomes '\0'.  The epoll     *)
(* servers write strlen(buf) bytes, echo_selectserv all that were read.    *)
Reply ==
  LET n == Len(buf)
  IN  IF n = 0 \/ buf[n] # Newline THEN buf
      ELSE IF mode = "select" THEN [buf EXCEPT ![n] = Nul]
      ELSE SubSeq(buf, 1, n - 1)

(* Faulty variant of AfterWrite: the edge-triggered server reads once, as  *)
(* the level-triggered ones do.                                            *)
AfterWriteOnce == "next"

AfterWrite == IF mode = "et" THEN "read" ELSE "next"

Writing(c) == up /\ mpc = "write" /\ c = file[cur]

(* The write succeeds: the peer reads, or closed and answers with a reset. *)
WriteBack(c) ==
  /\ Writing(c)
  /\ \/ /\ peer[c] = "open" /\ (c \notin stalled \/ Reply = <<>>)
        /\ echoed' = [echoed EXCEPT ![c] = @ \o Reply]
        /\ peer' = peer
     \/ /\ peer[c] = "closed"
        /\ \E end \in {"closed", "reset"} :
             peer' = [peer EXCEPT ![c] = IF Reply = <<>> THEN @ ELSE end]
        /\ echoed' = echoed
     \/ /\ peer[c] = "aborted" /\ Reply = <<>>
        /\ UNCHANGED <<peer, echoed>>
  /\ mpc' = AfterWrite
  /\ UNCHANGED <<conf, backlog, arrived, taken, stalled, edge, up, file, interest,
                 fd_max, todo, cur, buf>>

(* It fails, or is cut short on a nonblocking descriptor of a peer that    *)
(* does not read: the connection is closed.                                *)
WriteFails(c) ==
  /\ Writing(c)
  /\ \/ /\ mode = "et" /\ peer[c] = "open" /\ c \in stalled /\ Reply # <<>>
        /\ \E n \in 0 .. Len(Reply) - 1 :
             echoed' = [echoed EXCEPT ![c] = @ \o SubSeq(Reply, 1, n)]
        /\ peer' = peer
     \/ /\ peer[c] = "reset"
        /\ peer' = [peer EXCEPT ![c] = "aborted"]
        /\ echoed' = echoed
  /\ mpc' = "close"
  /\ UNCHANGED <<conf, backlog, arrived, taken, stalled, edge, up, file, interest,
                 fd_max, todo, cur, buf>>

(* It raises SIGPIPE, which no server handles.                             *)
WriteKills(c) ==
  /\ Writing(c) /\ peer[c] \in {"reset", "aborted"}
  /\ up' = FALSE
  /\ UNCHANGED <<conf, netVars, edge, file, interest, fd_max, mpc, todo, cur, buf>>

(* Faulty variant of CloseConn: FD_CLR / EPOLL_CTL_DEL is forgotten.       *)
CloseConnWatched ==
  /\ up /\ mpc = "close"
  /\ edge' = edge \ {cur}
  /\ file' = [file EXCEPT ![cur] = NoClient]
  /\ mpc' = "next"
  /\ UNCHANGED <<conf, netVars, up, interest, fd_max, todo, cur, buf>>

CloseConn ==
  /\ up /\ mpc = "close"
  /\ interest' = interest \ {cur} /\ edge' = edge \ {cur}
  /\ file' = [file EXCEPT ![cur] = NoClient]
  /\ mpc' = "next"
  /\ UNCHANGED <<conf, netVars, up, fd_max, todo, cur, buf>>

-----------------------------------------------------------------------------
Run(c) ==
  \/ ReadSome(c) \/ ReadEof(c) \/ ReadError(c) \/ ReadAgain(c)
  \/ WriteBack(c) \/ WriteFails(c) \/ WriteKills(c)

Server ==
  \/ Wait \/ WaitAgain
  \/ AcceptFails \/ AcceptSelect \/ AcceptLT \/ AcceptET
  \/ StartRun \/ (\E c \in Clients : Run(c)) \/ CloseConn

Next == Server \/ WaitFails \/ \E c \in Clients : Client(c)

Spec == Init /\ [][Next]_vars

(* The server runs whenever it can, a client that stalled reads again or   *)
(* leaves, and a blocked write goes on whenever the peer reads.            *)
FairSpec == Spec /\ SF_vars(Server) /\ \A c \in Clients : WF_vars(Resume(c))

-----------------------------------------------------------------------------
(* Properties.                                                             *)

(* Every variable keeps its type, and no byte is read that has not         *)
(* arrived: a short read takes what is there, at most BUFFER_SIZE bytes.   *)
TypeOK ==
  /\ mode \in Modes /\ nofile \in Limits
  /\ peer \in [Clients -> {"idle", "open", "closed", "reset", "aborted"}]
  /\ backlog \in Seq(Clients)
  /\ arrived \in [Clients -> Nat] /\ taken \in [Clients -> Nat]
  /\ \A c \in Clients : taken[c] <= arrived[c] /\ arrived[c] <= Len(Input[c])
  /\ echoed \in [Clients -> Seq(Bytes \cup {Nul})]
  /\ stalled \subseteq Clients
  /\ edge \subseteq Fds
  /\ up \in BOOLEAN
  /\ file \in [Fds -> Clients \cup {NoClient}]
  /\ interest \subseteq Fds \cup {Listener}
  /\ fd_max \in Fds \cup {Listener}
  /\ mpc \in {"wait", "next", "read", "write", "close"}
  /\ todo \subseteq Fds \cup {Listener}
  /\ cur \in Fds \cup {0}
  /\ buf \in Seq(Bytes)

Running(f) == mpc \in {"read", "write", "close"} /\ cur = f

(* Every descriptor the loop watches or is about to handle is open: no     *)
(* event is handled for a connection that is gone, even when accept reuses *)
(* a number closed earlier in the same round (FD_CLR or EPOLL_CTL_DEL,     *)
(* then close).                                                            *)
WatchedOpen ==
  /\ \A f \in interest \ {Listener} : file[f] # NoClient
  /\ todo \subseteq interest
  /\ \A f \in Fds : Running(f) => f \in interest

(* Why WatchedOpen lasts: the listener is watched always, an event for it  *)
(* means that a connection waits, and the connection that is being handled *)
(* has no event left in this round.                                        *)
Bookkeeping ==
  /\ Listener \in interest
  /\ Listener \in todo => backlog # <<>>
  /\ mpc \in {"read", "write", "close"} => cur \in Fds \ todo

IndInv == TypeOK /\ WatchedOpen /\ Bookkeeping

(* The text of the first n bytes, and of all: what is left without         *)
(* newlines and NULs.                                                      *)
TextOfFirst(s) ==
  LET text[n \in 0 .. Len(s)] ==
        IF n = 0 THEN <<>>
        ELSE IF s[n] \in {Newline, Nul} THEN text[n - 1] ELSE Append(text[n - 1], s[n])
  IN  text

Text(s) == TextOfFirst(s)[Len(s)]

(* Whatever the segments and the short reads, the text a client gets back  *)
(* is the text the server has read from it, in order, nothing missing but  *)
(* the bytes on their way.  Only newlines depend on where a read ended.    *)
EchoesText ==
  \A c \in Clients :
    peer[c] = "open" /\ (\E f \in Fds : file[f] = c) =>
      LET busy == mpc \in {"write", "close"} /\ file[cur] = c
          got  == Text(SubSeq(Input[c], 1, taken[c]))
      IN  IF busy THEN \E n \in 0 .. Len(got) : Text(echoed[c]) = SubSeq(got, 1, n)
                  ELSE Text(echoed[c]) = got

Watched(c) == \E f \in interest \ {Listener} : file[f] = c

(* Bytes that arrive on a watched connection are read in the end, unless   *)
(* the connection or the process ends first.                               *)
BytesAreRead ==
  \A c \in Clients : \A n \in 1 .. Len(Input[c]) :
    (Watched(c) /\ arrived[c] >= n) ~> (taken[c] >= n \/ ~ Watched(c) \/ ~up)

(* A connection whose client has gone is closed in the end.                *)
GoneIsClosed ==
  \A c \in Clients :
    (Watched(c) /\ peer[c] \in {"closed", "reset"}) ~> (~ Watched(c) \/ ~up)
=============================================================================
