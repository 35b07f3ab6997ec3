----------------------------- MODULE ChatServer -----------------------------
(***************************************************************************)
(* ch18/chat_server.c: main accepts connections, appends each socket to    *)
(* the table client_socks[0 .. client_cnt - 1] under the mutex and starts  *)
(* one detached thread per connection.  A handler thread forwards every    *)
(* message it reads to every socket of the table (send_msg_to_all, the     *)
(* whole loop under the mutex) and, when its connection ends, takes its    *)
(* socket out of the table and closes it.                                  *)
(*                                                                         *)
(* main passes the ADDRESS of its local client_socket to pthread_create    *)
(* (line 84) and the thread reads it when it first runs (line 122): main   *)
(* may have accepted another connection, or failed to, in between.         *)
(*                                                                         *)
(* A handler is named by the client whose accept made main start it.  A    *)
(* message is the bytes one read returns, <<sender, serial number>>.       *)
(***************************************************************************)
EXTENDS Integers, Sequences, FiniteSets

CONSTANTS
  Clients,      (* the peers; each connects at most once                   *)
  MAX_CLIENT,   (* slots of client_socks                                   *)
  Limits,       (* the descriptor limits the process may be started with   *)
  Stallers,     (* clients that may stop reading for a while               *)
  MaxMsg,       (* messages each client sends: bounds the model            *)
  Stoppable,    (* whether the server may be stopped from outside          *)
  Main, Free,   (* main's thread; the mutex's owner when nobody holds it   *)
  NoClient      (* what a closed descriptor refers to                      *)

ASSUME ClientsAssumption == IsFiniteSet(Clients)
ASSUME BoundsAssumption  == /\ MAX_CLIENT \in Nat \ {0}
                            /\ Limits \subseteq Nat \ {0} /\ IsFiniteSet(Limits)
                            /\ Limits # {}
                            /\ MaxMsg \in [Clients -> Nat]
ASSUME NamesAssumption   == /\ Main \notin Clients
                            /\ Free \notin Clients \cup {Main}
                            /\ NoClient \notin Clients

Fds  == UNION {1 .. n : n \in Limits}
Msgs == Clients \X Nat

VARIABLES
  \* the peers and the network
  peer,           (* each client's end of its connection                   *)
  backlog,        (* connections the kernel completed, in accept order     *)
  sent, taken,    (* messages sent by a client, and read by the server     *)
  received,       (* the messages written to each client, in order         *)
  stalled,        (* clients that stopped reading: a write to them blocks  *)
  \* the server process
  nofile,         (* its descriptor limit; connections get 1 .. nofile     *)
  up,             (* FALSE once SIGPIPE or the overrun table ended it      *)
  file,           (* descriptor table: the client behind each descriptor   *)
  client_cnt, client_socks, mutex,
  \* main
  mpc, client_socket, current,
  \* the handlers
  hpc, sock, msg, i,
  accepted        (* history: the descriptor accept returned for a client  *)

netVars  == <<peer, backlog, sent, taken, received, stalled>>
tblVars  == <<client_cnt, client_socks, mutex>>
mainVars == <<mpc, client_socket, current>>
hVars    == <<hpc, sock, msg, i>>
vars     == <<netVars, nofile, up, file, tblVars, mainVars, hVars, accepted>>

Init ==
  /\ peer = [c \in Clients |-> "idle"]
  /\ backlog = <<>>
  /\ sent = [c \in Clients |-> 0]
  /\ taken = [c \in Clients |-> 0]
  /\ received = [c \in Clients |-> <<>>]
  /\ stalled = {}
  /\ nofile \in Limits
  /\ up = TRUE
  /\ file = [f \in Fds |-> NoClient]
  /\ client_cnt = 0
  /\ client_socks = [n \in 0 .. MAX_CLIENT - 1 |-> 0]
  /\ mutex = Free
  /\ mpc = "accept"
  /\ client_socket = 0
  /\ current = NoClient
  /\ hpc = [c \in Clients |-> "none"]
  /\ sock = [c \in Clients |-> 0]
  /\ msg = [c \in Clients |-> <<>>]
  /\ i = [c \in Clients |-> 0]
  /\ accepted = [c \in Clients |-> 0]

-----------------------------------------------------------------------------
(* The clients: external, as the server's calls see them.  What they send  *)
(* once the server has ended reaches nobody and is left out.               *)

Connect(c) ==
  /\ up /\ peer[c] = "idle"
  /\ peer' = [peer EXCEPT ![c] = "open"]
  /\ backlog' = Append(backlog, c)
  /\ UNCHANGED <<sent, taken, received, stalled, up, file, tblVars, mainVars,
                 hVars, accepted, nofile>>

Send(c) ==
  /\ up /\ peer[c] = "open"
  /\ sent[c] < MaxMsg[c]
  /\ sent' = [sent EXCEPT ![c] = @ + 1]
  /\ UNCHANGED <<peer, backlog, taken, received, stalled, up, file, tblVars,
                 mainVars, hVars, accepted, nofile>>

(* An orderly close; or a reset, when it leaves received bytes unread.     *)
Leave(c) ==
  /\ peer[c] = "open"
  /\ \E end \in {"closed", "reset"} : peer' = [peer EXCEPT ![c] = end]
  /\ stalled' = stalled \ {c}
  /\ UNCHANGED <<backlog, sent, taken, received, up, file, tblVars, mainVars,
                 hVars, accepted, nofile>>

Stall(c) ==
  /\ up /\ c \in Stallers /\ peer[c] = "open"
  /\ stalled' = stalled \cup {c}
  /\ UNCHANGED <<peer, backlog, sent, taken, received, up, file, tblVars,
                 mainVars, hVars, accepted, nofile>>

Resume(c) ==
  /\ c \in stalled
  /\ stalled' = stalled \ {c}
  /\ UNCHANGED <<peer, backlog, sent, taken, received, up, file, tblVars,
                 mainVars, hVars, accepted, nofile>>

Client(c) == Connect(c) \/ Send(c) \/ Leave(c) \/ Stall(c) \/ Resume(c)

-----------------------------------------------------------------------------
(* main: accept, append under the mutex, create the thread.                *)

Acquire(t) == mutex = Free /\ mutex' = t
Release(t) == mutex' = Free

FreeFds  == {f \in 1 .. nofile : file[f] = NoClient}
Lowest(S) == CHOOSE f \in S : \A g \in S : f <= g

AcceptOk ==
  /\ up /\ mpc = "accept" /\ backlog # <<>> /\ FreeFds # {}
  /\ LET c == Head(backlog)
         f == Lowest(FreeFds)
     IN  /\ file' = [file EXCEPT ![f] = c]
         /\ accepted' = [accepted EXCEPT ![c] = f]
         /\ client_socket' = f
         /\ current' = c
  /\ backlog' = Tail(backlog)
  /\ mpc' = "append"
  /\ UNCHANGED <<peer, sent, taken, received, stalled, up, tblVars, hVars, nofile>>

(* -1 overwrites client_socket: no descriptor left (the connection stays   *)
(* queued), or the connection was reset before it was accepted.            *)
AcceptFail ==
  /\ up /\ mpc = "accept" /\ backlog # <<>>
  /\ \/ FreeFds = {} /\ backlog' = backlog
     \/ peer[Head(backlog)] = "reset" /\ backlog' = Tail(backlog)
  /\ client_socket' = -1
  /\ UNCHANGED <<peer, sent, taken, received, stalled, up, file, tblVars, mpc,
                 current, hVars, accepted, nofile>>

(* client_socks[client_cnt++] = client_socket is two accesses to the       *)
(* table; nothing tests client_cnt against MAX_CLIENT.  Past the end the   *)
(* write is undefined and the model follows the process no further.        *)
AppendSock ==
  /\ up /\ mpc = "append"
  /\ Acquire(Main)
  /\ IF client_cnt < MAX_CLIENT
       THEN /\ client_socks' = [client_socks EXCEPT ![client_cnt] = client_socket]
            /\ mpc' = "count"
            /\ up' = up
       ELSE /\ mpc' = "overrun"
            /\ up' = FALSE
            /\ UNCHANGED client_socks
  /\ UNCHANGED <<netVars, file, client_cnt, client_socket, current, hVars,
                 accepted, nofile>>

CountSock ==
  /\ up /\ mpc = "count"
  /\ client_cnt' = client_cnt + 1
  /\ Release(Main)
  /\ mpc' = "create"
  /\ UNCHANGED <<netVars, up, file, client_socks, client_socket, current,
                 hVars, accepted, nofile>>

(* pthread_create fails with a positive number, so "ret < 0" never sees    *)
(* it: the socket then stays in the table with no thread to serve it, and  *)
(* pthread_detach gets the id of an earlier thread, or none, which it may  *)
(* refuse or not survive.                                                  *)
CreateThread ==
  /\ up /\ mpc = "create"
  /\ \/ hpc' = [hpc EXCEPT ![current] = "start"] /\ up' = up
     \/ hpc' = [hpc EXCEPT ![current] = "orphan"] /\ up' \in BOOLEAN
  /\ mpc' = "accept"
  /\ current' = NoClient
  /\ UNCHANGED <<netVars, file, tblVars, client_socket, sock, msg, i,
                 accepted, nofile>>

MainThread == AcceptOk \/ AcceptFail \/ AppendSock \/ CountSock \/ CreateThread

-----------------------------------------------------------------------------
(* handle_client and send_msg_to_all.                                      *)

(* client_socket = *arg: what main's variable holds when the thread runs.  *)
ReadArg(h) ==
  /\ up /\ hpc[h] = "start"
  /\ sock' = [sock EXCEPT ![h] = client_socket]
  /\ hpc' = [hpc EXCEPT ![h] = "read"]
  /\ UNCHANGED <<netVars, up, file, tblVars, mainVars, msg, i, accepted, nofile>>

PeerOf(h) == IF sock[h] \in Fds THEN file[sock[h]] ELSE NoClient

ReadMsg(h) ==
  /\ up /\ hpc[h] = "read"
  /\ LET c == PeerOf(h)
     IN  /\ c # NoClient /\ taken[c] < sent[c]
         /\ taken' = [taken EXCEPT ![c] = @ + 1]
         /\ msg' = [msg EXCEPT ![h] = <<c, taken[c] + 1>>]
  /\ hpc' = [hpc EXCEPT ![h] = "lock"]
  /\ UNCHANGED <<peer, backlog, sent, received, stalled, up, file, tblVars,
                 mainVars, sock, i, accepted, nofile>>

(* Faulty variants of ReadEnd: the loop ends on 0 only; the socket is      *)
(* closed before it is taken out of the table.                             *)
ReadEndZeroOnly(h) ==
  /\ up /\ hpc[h] = "read"
  /\ LET c == PeerOf(h)
     IN  c # NoClient /\ peer[c] = "closed" /\ taken[c] = sent[c]
  /\ hpc' = [hpc EXCEPT ![h] = "remove"]
  /\ UNCHANGED <<netVars, up, file, tblVars, mainVars, sock, msg, i, accepted, nofile>>

ReadEndCloses(h) ==
  /\ up /\ hpc[h] = "read"
  /\ LET c == PeerOf(h) IN c = NoClient \/ (peer[c] = "closed" /\ taken[c] = sent[c])
  /\ file' = [f \in Fds |-> IF f = sock[h] THEN NoClient ELSE file[f]]
  /\ hpc' = [hpc EXCEPT ![h] = "remove"]
  /\ UNCHANGED <<netVars, up, tblVars, mainVars, sock, msg, i, accepted, nofile>>

(* read returns 0, or -1: not an open descriptor, or a reset, which may or *)
(* may not cost the bytes that were still unread.                          *)
ReadEnd(h) ==
  /\ up /\ hpc[h] = "read"
  /\ LET c == PeerOf(h)
     IN  \/ c = NoClient
         \/ c # NoClient /\ peer[c] = "reset"
         \/ c # NoClient /\ peer[c] = "closed" /\ taken[c] = sent[c]
  /\ hpc' = [hpc EXCEPT ![h] = "remove"]
  /\ UNCHANGED <<netVars, up, file, tblVars, mainVars, sock, msg, i, accepted, nofile>>

(* Faulty variant of BeginCast: the loop of writes without the mutex.      *)
BeginCastUnlocked(h) ==
  /\ up /\ hpc[h] = "lock"
  /\ i' = [i EXCEPT ![h] = 0]
  /\ hpc' = [hpc EXCEPT ![h] = "cast"]
  /\ UNCHANGED <<netVars, up, file, tblVars, mainVars, sock, msg, accepted, nofile>>

BeginCast(h) ==
  /\ up /\ hpc[h] = "lock"
  /\ Acquire(h)
  /\ i' = [i EXCEPT ![h] = 0]
  /\ hpc' = [hpc EXCEPT ![h] = "cast"]
  /\ UNCHANGED <<netVars, up, file, client_cnt, client_socks, mainVars, sock,
                 msg, accepted, nofile>>

(* One write of the loop.  It blocks while the peer does not read.  The    *)
(* first writes to a closed peer succeed and bring back a reset; after it  *)
(* write fails, which is only printed, or raises SIGPIPE, which nothing in *)
(* the program catches or ignores.                                         *)
CastWrite(h) ==
  /\ up /\ hpc[h] = "cast" /\ i[h] < client_cnt
  /\ LET c == file[client_socks[i[h]]]
     IN  \/ /\ c = NoClient                                  \* EBADF
            /\ UNCHANGED <<peer, received, up>>
         \/ /\ c # NoClient /\ peer[c] = "open" /\ c \notin stalled
            /\ received' = [received EXCEPT ![c] = Append(@, msg[h])]
            /\ UNCHANGED <<peer, up>>
         \/ /\ c # NoClient /\ peer[c] = "closed"
            /\ \E end \in {"closed", "reset"} : peer' = [peer EXCEPT ![c] = end]
            /\ UNCHANGED <<received, up>>
         \/ /\ c # NoClient /\ peer[c] = "reset"
            /\ up' \in BOOLEAN
            /\ UNCHANGED <<peer, received>>
  /\ i' = [i EXCEPT ![h] = @ + 1]
  /\ UNCHANGED <<backlog, sent, taken, stalled, file, tblVars, mainVars, hpc,
                 sock, msg, accepted, nofile>>

(* Faulty variant of EndCast: the last slot is skipped.                    *)
EndCastEarly(h) ==
  /\ up /\ hpc[h] = "cast" /\ i[h] + 1 >= client_cnt
  /\ Release(h)
  /\ i' = [i EXCEPT ![h] = 0] /\ msg' = [msg EXCEPT ![h] = <<>>]
  /\ hpc' = [hpc EXCEPT ![h] = "read"]
  /\ UNCHANGED <<netVars, up, file, client_cnt, client_socks, mainVars, sock,
                 accepted, nofile>>

EndCast(h) ==
  /\ up /\ hpc[h] = "cast" /\ i[h] >= client_cnt
  /\ Release(h)
  /\ i' = [i EXCEPT ![h] = 0] /\ msg' = [msg EXCEPT ![h] = <<>>]   \* bzero
  /\ hpc' = [hpc EXCEPT ![h] = "read"]
  /\ UNCHANGED <<netVars, up, file, client_cnt, client_socks, mainVars, sock,
                 accepted, nofile>>

Positions(s) == {n \in 0 .. client_cnt - 1 : client_socks[n] = s}

(* Lines 139-147: the first slot that holds the socket is overwritten by   *)
(* shifting the later ones down; nothing happens when no slot holds it.    *)
Removed(s) ==
  IF Positions(s) = {}
    THEN client_socks
    ELSE [n \in DOMAIN client_socks |->
            IF n >= Lowest(Positions(s)) /\ n + 1 < client_cnt
              THEN client_socks[n + 1]
              ELSE client_socks[n]]

(* Faulty variant of BeginRemove: give up, count and all, when no slot     *)
(* holds the socket.                                                       *)
BeginRemoveIfFound(h) ==
  /\ up /\ hpc[h] = "remove"
  /\ IF Positions(sock[h]) = {}
       THEN UNCHANGED tblVars /\ hpc' = [hpc EXCEPT ![h] = "close"]
       ELSE /\ Acquire(h)
            /\ client_socks' = Removed(sock[h])
            /\ hpc' = [hpc EXCEPT ![h] = "count"]
            /\ UNCHANGED client_cnt
  /\ UNCHANGED <<netVars, up, file, mainVars, sock, msg, i, accepted, nofile>>

BeginRemove(h) ==
  /\ up /\ hpc[h] = "remove"
  /\ Acquire(h)
  /\ client_socks' = Removed(sock[h])
  /\ hpc' = [hpc EXCEPT ![h] = "count"]
  /\ UNCHANGED <<netVars, up, file, client_cnt, mainVars, sock, msg, i, accepted, nofile>>

(* Line 148: the count drops whether or not a slot was found.              *)
EndRemove(h) ==
  /\ up /\ hpc[h] = "count"
  /\ client_cnt' = client_cnt - 1
  /\ Release(h)
  /\ hpc' = [hpc EXCEPT ![h] = "list"]
  /\ UNCHANGED <<netVars, up, file, client_socks, mainVars, sock, msg, i, accepted, nofile>>

(* Lines 151-155, after the unlock: a loop that reads client_cnt and the   *)
(* table without the mutex, as long as the handler is at "list".  Its      *)
(* turns only print what they read, and are one step.                      *)
ListSocks(h) ==
  /\ up /\ hpc[h] = "list"
  /\ hpc' = [hpc EXCEPT ![h] = "close"]
  /\ UNCHANGED <<netVars, up, file, tblVars, mainVars, sock, msg, i, accepted, nofile>>

CloseSock(h) ==
  /\ up /\ hpc[h] = "close"
  /\ file' = [f \in Fds |-> IF f = sock[h] THEN NoClient ELSE file[f]]
  /\ hpc' = [hpc EXCEPT ![h] = "done"]
  /\ UNCHANGED <<netVars, up, tblVars, mainVars, sock, msg, i, accepted, nofile>>

Handler(h) ==
  \/ ReadArg(h) \/ ReadMsg(h) \/ ReadEnd(h)
  \/ BeginCast(h) \/ CastWrite(h) \/ EndCast(h)
  \/ BeginRemove(h) \/ EndRemove(h) \/ ListSocks(h) \/ CloseSock(h)

(* The server is stopped from outside: external.                           *)
Stop ==
  /\ Stoppable /\ up /\ up' = FALSE
  /\ UNCHANGED <<netVars, file, tblVars, mainVars, hVars, accepted, nofile>>

-----------------------------------------------------------------------------
Next == Stop \/ MainThread \/ \E c \in Clients : Client(c) \/ Handler(c)

Spec == Init /\ [][Next]_vars

(* The scheduler runs every thread that can run, and a mutex or a blocked  *)
(* write is granted to a thread that can have it again and again (strong   *)
(* fairness: a handler has one thing it can do at any time).  A client     *)
(* that stopped reading reads again or closes.                             *)
Fairness ==
  /\ SF_vars(MainThread)
  /\ \A c \in Clients : SF_vars(Handler(c))
  /\ \A c \in Stallers : WF_vars(Resume(c))

FairSpec == Spec /\ Fairness

-----------------------------------------------------------------------------
(* Properties.                                                             *)

Threads == Clients \cup {Main}
HandlerStates == {"none", "orphan", "start", "read", "lock", "cast", "remove",
                  "count", "list", "close", "done"}

(* Every variable keeps its type: the count stays a number of slots of the *)
(* table and a descriptor one the process may own (lines 21-23, 70, 122).  *)
TypeOK ==
  /\ peer \in [Clients -> {"idle", "open", "closed", "reset"}]
  /\ backlog \in Seq(Clients)
  /\ sent \in [Clients -> Nat] /\ taken \in [Clients -> Nat]
  /\ received \in [Clients -> Seq(Msgs)]
  /\ stalled \subseteq Clients
  /\ nofile \in Limits
  /\ up \in BOOLEAN
  /\ file \in [Fds -> Clients \cup {NoClient}]
  /\ client_cnt \in 0 .. MAX_CLIENT
  /\ client_socks \in [0 .. MAX_CLIENT - 1 -> {0} \cup Fds]
  /\ mutex \in Threads \cup {Free}
  /\ mpc \in {"accept", "append", "count", "create", "overrun"}
  /\ client_socket \in {-1, 0} \cup Fds
  /\ current \in Clients \cup {NoClient}
  /\ hpc \in [Clients -> HandlerStates]
  /\ sock \in [Clients -> {-1, 0} \cup Fds]
  /\ msg \in [Clients -> Msgs \cup {<<>>}]
  /\ i \in [Clients -> Nat]
  /\ accepted \in [Clients -> {0} \cup Fds]

(* The regions between a lock and its unlock: append (79-81), the whole    *)
(* broadcast (108-118), the removal (139-149).                             *)
InRegion(t) == IF t = Main THEN mpc \in {"count", "overrun"}
                           ELSE hpc[t] \in {"cast", "count"}

(* The regions never overlap.  The listing (151-155) is none of them: it   *)
(* reads the table while anyone may be in a region.                        *)
RegionsExclude == \A t \in Threads : InRegion(t) <=> mutex = t

(* While a thread is in one of the three locked regions nobody changes the *)
(* table under it: a broadcast walks one and the same table from its first *)
(* write to its last, and the slot and the count of an append or a removal *)
(* belong together.  The listing of 151-155 has no such promise.           *)
TableHeldStill ==
  [][\A t \in Threads :
       InRegion(t) /\ InRegion(t)' => UNCHANGED <<client_cnt, client_socks>>]_vars

(* Connections that were appended and whose handler has not taken its      *)
(* entry out again, those whose thread could not be created included.      *)
Appended == {c \in Clients :
               \/ hpc[c] \in {"orphan", "start", "read", "lock", "cast",
                              "remove", "count"}
               \/ mpc = "create" /\ current = c}

(* client_cnt (21) is the number of connections not yet removed, whatever  *)
(* descriptor each handler read from main's variable: the unconditional    *)
(* decrement (148) keeps the NUMBER right even when it drops a wrong entry.*)
CountIsUnremoved == client_cnt = Cardinality(Appended)

(* What the three invariants above need to be inductive: a connection in   *)
(* the backlog is there once and is new to the server; main has an entry   *)
(* of its own to fill; a handler that broadcasts has read a message.       *)
QueueFresh ==
  /\ \A n \in DOMAIN backlog :
       /\ hpc[backlog[n]] = "none" /\ current # backlog[n]
       /\ peer[backlog[n]] # "idle"
       /\ \A m \in DOMAIN backlog : backlog[m] = backlog[n] => m = n
  /\ \A c \in Clients : peer[c] = "idle" => hpc[c] = "none" /\ current # c

Progress ==
  /\ mpc \in {"append", "count", "create"} =>
       current \in Clients /\ hpc[current] = "none"
  /\ mpc = "append" => client_socket \in Fds
  /\ mpc = "count" => client_cnt < MAX_CLIENT
  /\ mpc = "overrun" => ~up
  /\ \A h \in Clients : hpc[h] \in {"lock", "cast"} => msg[h] \in Msgs

IndInv == TypeOK /\ RegionsExclude /\ CountIsUnremoved /\ QueueFresh /\ Progress

(* Some handler read another value than the descriptor it was created for. *)
Raced == \E h \in Clients :
           /\ hpc[h] \notin {"none", "orphan", "start"}
           /\ sock[h] # accepted[h]

Roster == {client_socks[n] : n \in 0 .. client_cnt - 1}

(* As long as every handler got its own descriptor, the table names, each  *)
(* once, exactly the connections not yet removed, and each through a       *)
(* descriptor that still belongs to it: the entry goes before the          *)
(* descriptor does (139-157), so a reused number is never written to for   *)
(* its former owner.                                                       *)
RosterExact ==
  ~Raced /\ mutex = Free =>
    /\ Cardinality(Roster) = client_cnt
    /\ {file[f] : f \in Roster} = Appended

(* Two clients never see two messages in opposite orders: a broadcast      *)
(* holds the mutex from its first write to its last (108-118).             *)
SameOrder ==
  \A a, b \in Clients :
    \A m, n \in DOMAIN received[a] : \A p, q \in DOMAIN received[b] :
      ~ /\ received[a][m] # received[a][n]
        /\ received[a][m] = received[b][q] /\ received[a][n] = received[b][p]
        /\ m < n /\ p < q

(* When a broadcast ends, every client of the table whose connection is    *)
(* still open has the message as the last thing it was sent (111-116).     *)
CastReachesAll ==
  [][\A h \in Clients :
       hpc[h] = "cast" /\ hpc'[h] = "read" /\ ~Raced =>
         \A c \in Clients : c \in Appended /\ peer[c] = "open" =>
           received[c] # <<>> /\ received[c][Len(received[c])] = msg[h]]_vars

Excused(c) == ~up \/ Raced \/ hpc[c] = "orphan"

(* A connection whose client has gone is closed by the server in the end:  *)
(* no descriptor leaks, unless its thread was never created, a handler got *)
(* a wrong descriptor, or the process was killed (125-157).                *)
GoneIsClosed ==
  \A c \in Clients :
    (hpc[c] # "none" /\ peer[c] \in {"closed", "reset"})
      ~> ((\A f \in Fds : file[f] # c) \/ Excused(c))

(* "Remove the closed client socket" (the comment at line 138): what is    *)
(* left of the table when a handler has taken its socket out is what was   *)
(* there, without that socket.                                             *)
RemovesOnlyClosed ==
  [][\A h \in Clients :
       hpc[h] = "remove" /\ hpc'[h] = "count" =>
         {client_socks'[n] : n \in 0 .. client_cnt - 2} = Roster \ {sock[h]}]_vars
=============================================================================
