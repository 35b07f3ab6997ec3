----------------------------- MODULE ForkServer -----------------------------
(***************************************************************************)
(* The echo servers with one process per connection; Init picks one:       *)
(* ch10/echo_mpserv.c, and ch11/echo_storeserv.c, whose handlers also send *)
(* what they read through a pipe to one more process that stores it.       *)
(*                                                                         *)
(* The parent accepts, forks and closes its copy of the connection; its    *)
(* SIGCHLD handler read_child_proc collects the processes that ended.      *)
(* SIGCHLD is not queued: two children that end before the handler runs    *)
(* raise it once.                                                          *)
(*                                                                         *)
(* A handler is named by its client.  A byte is <<client, position>>; what *)
(* run does to a newline is modelled in EventLoop and left out here.       *)
(***************************************************************************)
EXTENDS Integers, Sequences, FiniteSets

CONSTANTS
  Clients,       (* the peers; each connects at most once                  *)
  Bytes,         (* how many bytes each client sends: bounds the model     *)
  BUFFER_SIZE,   (* the most one read returns                              *)
  PipeSize,      (* how many bytes the pipe holds                          *)
  Rounds,        (* reads the storing process makes, 10 in the code        *)
  Parent, NoClient

ASSUME SizesAssumption == /\ Bytes \in [Clients -> Nat]
                          /\ BUFFER_SIZE \in Nat \ {0} /\ Rounds \in Nat \ {0}
                          /\ PipeSize \in Nat /\ PipeSize >= BUFFER_SIZE
ASSUME NamesAssumption == Parent \notin Clients /\ NoClient \notin Clients

VARIABLES
  storing, opened,       (* which server; fopen succeeded                  *)
  \* the peers and the network
  peer, backlog,
  arrived, taken,        (* bytes a connection got, and read from it       *)
  echoed,                (* bytes written back                             *)
  \* the parent
  mpc, client_fd,        (* client_fd as the client it connects            *)
  pending, inHandler,    (* SIGCHLD is pending; read_child_proc runs       *)
  \* all processes
  holds,                 (* connections each has a descriptor of           *)
  \* the handlers
  hpc, len,              (* len: the bytes in buf                          *)
  \* the storing process
  spc, rounds, pipe, file

confVars  == <<storing, opened>>
netVars   == <<peer, backlog, arrived, taken, echoed>>
mainVars  == <<mpc, client_fd, inHandler>>
hVars     == <<hpc, len>>
storeVars == <<spc, rounds, file>>
vars == <<confVars, netVars, mainVars, pending, holds, hVars, storeVars, pipe>>

Processes == Clients \cup {Parent}

Init ==
  /\ storing \in BOOLEAN
  /\ spc \in IF storing THEN {"read", "none"} ELSE {"none"}   \* fork may fail
  /\ opened \in IF spc = "read" THEN BOOLEAN ELSE {FALSE}
  /\ peer = [c \in Clients |-> "idle"]
  /\ backlog = <<>>
  /\ arrived = [c \in Clients |-> 0]
  /\ taken = [c \in Clients |-> 0]
  /\ echoed = [c \in Clients |-> 0]
  /\ mpc = "accept" /\ client_fd = NoClient
  /\ pending = FALSE /\ inHandler = FALSE
  /\ holds = [p \in Processes |-> {}]
  /\ hpc = [c \in Clients |-> "none"]
  /\ len = [c \in Clients |-> 0]
  /\ rounds = 0
  /\ pipe = <<>> /\ file = <<>>

-----------------------------------------------------------------------------
(* The clients: external, as the server's calls see them.                  *)

Connect(c) ==
  /\ peer[c] = "idle"
  /\ peer' = [peer EXCEPT ![c] = "open"]
  /\ backlog' = Append(backlog, c)
  /\ UNCHANGED <<confVars, arrived, taken, echoed, mainVars, pending, holds,
                 hVars, storeVars, pipe>>

Arrive(c) ==
  /\ peer[c] = "open" /\ arrived[c] < Bytes[c]
  /\ arrived' = [arrived EXCEPT ![c] = @ + 1]
  /\ UNCHANGED <<confVars, peer, backlog, taken, echoed, mainVars, pending,
                 holds, hVars, storeVars, pipe>>

Leave(c) ==
  /\ peer[c] = "open"
  /\ \E end \in {"closed", "reset"} : peer' = [peer EXCEPT ![c] = end]
  /\ UNCHANGED <<confVars, backlog, arrived, taken, echoed, mainVars, pending, holds,
                 hVars, storeVars, pipe>>

Client(c) == Connect(c) \/ Arrive(c) \/ Leave(c)

-----------------------------------------------------------------------------
(* The parent.  An accept that a signal interrupts (EINTR) fails and is    *)
(* called again: no step of its own.                                       *)

Accept ==
  /\ mpc = "accept" /\ ~inHandler /\ backlog # <<>>
  /\ client_fd' = Head(backlog)
  /\ backlog' = Tail(backlog)
  /\ holds' = [holds EXCEPT ![Parent] = @ \cup {Head(backlog)}]
  /\ mpc' = "fork"
  /\ UNCHANGED <<confVars, peer, arrived, taken, echoed, inHandler, pending,
                 hVars, storeVars, pipe>>

(* The connection was reset before it was accepted.                        *)
AcceptFails ==
  /\ mpc = "accept" /\ ~inHandler /\ backlog # <<>>
  /\ peer[Head(backlog)] = "reset"
  /\ backlog' = Tail(backlog)
  /\ UNCHANGED <<confVars, peer, arrived, taken, echoed, mainVars, pending, holds,
                 hVars, storeVars, pipe>>

(* The child gets a copy of every descriptor.  -1 is no child.             *)
Fork ==
  /\ mpc = "fork" /\ ~inHandler
  /\ \/ /\ hpc' = [hpc EXCEPT ![client_fd] = "read"]
        /\ holds' = [holds EXCEPT ![client_fd] = holds[Parent]]
     \/ UNCHANGED <<hpc, holds>>
  /\ mpc' = "close"
  /\ UNCHANGED <<confVars, netVars, client_fd, inHandler, pending, len, storeVars, pipe>>

(* Faulty variant of CloseInParent: only after a failed fork.              *)
CloseInParentFailed ==
  /\ mpc = "close" /\ ~inHandler
  /\ holds' = IF hpc[client_fd] = "none"
                THEN [holds EXCEPT ![Parent] = @ \ {client_fd}] ELSE holds
  /\ mpc' = "accept" /\ client_fd' = NoClient
  /\ UNCHANGED <<confVars, netVars, inHandler, pending, hVars, storeVars, pipe>>

CloseInParent ==
  /\ mpc = "close" /\ ~inHandler
  /\ holds' = [holds EXCEPT ![Parent] = @ \ {client_fd}]
  /\ mpc' = "accept" /\ client_fd' = NoClient
  /\ UNCHANGED <<confVars, netVars, inHandler, pending, hVars, storeVars, pipe>>

(* The signal is delivered, wherever the parent is; it is blocked while    *)
(* its handler runs.                                                       *)
EnterHandler ==
  /\ pending /\ ~inHandler
  /\ pending' = FALSE /\ inHandler' = TRUE
  /\ UNCHANGED <<confVars, netVars, mpc, client_fd, holds, hVars, storeVars, pipe>>

(* waitpid(-1, &state, WNOHANG) returns a process that ended.              *)
Collect ==
  /\ \/ \E c \in Clients : /\ hpc[c] = "zombie"
                           /\ hpc' = [hpc EXCEPT ![c] = "reaped"] /\ spc' = spc
     \/ spc = "zombie" /\ spc' = "reaped" /\ hpc' = hpc

Zombies == {c \in Clients : hpc[c] = "zombie"}

(* Faulty variant of Reap: one process per signal ("if" for "while").      *)
ReapOnce ==
  /\ inHandler
  /\ Collect
  /\ inHandler' = FALSE
  /\ UNCHANGED <<confVars, netVars, mpc, client_fd, pending, holds, len, rounds, file,
                 pipe>>

Reap ==
  /\ inHandler
  /\ Collect
  /\ UNCHANGED <<confVars, netVars, mainVars, pending, holds, len, rounds, file, pipe>>

(* It returns 0, or -1 when there is no child: the handler is left.        *)
LeaveHandler ==
  /\ inHandler /\ Zombies = {} /\ spc # "zombie"
  /\ inHandler' = FALSE
  /\ UNCHANGED <<confVars, netVars, mpc, client_fd, pending, holds, hVars, storeVars, pipe>>

Server ==
  \/ Accept \/ AcceptFails \/ Fork \/ CloseInParent
  \/ EnterHandler \/ Reap \/ LeaveHandler

-----------------------------------------------------------------------------
(* A handler: run, after it closed its copy of listen_fd.                  *)

Min2(a, b) == IF a < b THEN a ELSE b

Read(h) ==
  /\ hpc[h] = "read" /\ taken[h] < arrived[h]
  /\ len' = [len EXCEPT ![h] = Min2(arrived[h] - taken[h], BUFFER_SIZE)]
  /\ taken' = [taken EXCEPT ![h] = @ + len'[h]]
  /\ hpc' = [hpc EXCEPT ![h] = IF storing THEN "pipe" ELSE "write"]
  /\ UNCHANGED <<confVars, peer, backlog, arrived, echoed, mainVars, pending,
                 holds, storeVars, pipe>>

ReadEnd(h) ==
  /\ hpc[h] = "read"
  /\ \/ peer[h] = "closed" /\ taken[h] = arrived[h]
     \/ peer[h] = "reset"
  /\ hpc' = [hpc EXCEPT ![h] = "exit"]
  /\ UNCHANGED <<confVars, netVars, mainVars, pending, holds, len, storeVars, pipe>>

Buffered(h) == [n \in 1 .. len[h] |-> <<h, taken[h] - len[h] + n>>]

(* Faulty variants of PipeWrite: the loop goes on before the bytes are     *)
(* written back; their last one, the newline, is cut before they are sent  *)
(* to the pipe instead of after.                                           *)
PipeWriteContinues(h) ==
  /\ hpc[h] = "pipe" /\ Len(pipe) + len[h] <= PipeSize
  /\ pipe' = pipe \o Buffered(h)
  /\ hpc' = [hpc EXCEPT ![h] = "read"]
  /\ UNCHANGED <<confVars, netVars, mainVars, pending, holds, len, storeVars>>

PipeWriteTrimmed(h) ==
  /\ hpc[h] = "pipe" /\ Len(pipe) + len[h] <= PipeSize
  /\ pipe' = pipe \o SubSeq(Buffered(h), 1, len[h] - 1)
  /\ hpc' = [hpc EXCEPT ![h] = "write"]
  /\ UNCHANGED <<confVars, netVars, mainVars, pending, holds, len, storeVars>>

(* The write blocks until the pipe has room for all of it (BUFFER_SIZE is  *)
(* below PIPE_BUF: it is never split).  It has a reader for ever: every    *)
(* process of the program keeps fds[0] open.                               *)
PipeWrite(h) ==
  /\ hpc[h] = "pipe" /\ Len(pipe) + len[h] <= PipeSize
  /\ pipe' = pipe \o Buffered(h)
  /\ hpc' = [hpc EXCEPT ![h] = "write"]
  /\ UNCHANGED <<confVars, netVars, mainVars, pending, holds, len, storeVars>>

(* The write back.  A peer that is open keeps reading; a closed one may    *)
(* answer with a reset.                                                    *)
Echo(h) ==
  /\ hpc[h] = "write"
  /\ \/ /\ peer[h] = "open"
        /\ echoed' = [echoed EXCEPT ![h] = @ + len[h]]
        /\ peer' = peer
     \/ /\ peer[h] = "closed"
        /\ \E end \in {"closed", "reset"} : peer' = [peer EXCEPT ![h] = end]
        /\ echoed' = echoed
  /\ hpc' = [hpc EXCEPT ![h] = "read"]
  /\ len' = [len EXCEPT ![h] = 0]                          \* bzero
  /\ UNCHANGED <<confVars, backlog, arrived, taken, mainVars, pending, holds,
                 storeVars, pipe>>

EchoFails(h) ==
  /\ hpc[h] = "write" /\ peer[h] = "reset"
  /\ hpc' = [hpc EXCEPT ![h] = "exit"]
  /\ UNCHANGED <<confVars, netVars, mainVars, pending, holds, len, storeVars, pipe>>

(* The process ends, by close and exit or by the SIGPIPE of the write back;*)
(* all its descriptors are closed and the parent is sent SIGCHLD.          *)
Exit(h) ==
  /\ hpc[h] = "exit" \/ (hpc[h] = "write" /\ peer[h] = "reset")
  /\ hpc' = [hpc EXCEPT ![h] = "zombie"]
  /\ holds' = [holds EXCEPT ![h] = {}]
  /\ pending' = TRUE
  /\ UNCHANGED <<confVars, netVars, mainVars, len, storeVars, pipe>>

Handler(h) ==
  Read(h) \/ ReadEnd(h) \/ PipeWrite(h) \/ Echo(h) \/ EchoFails(h) \/ Exit(h)

-----------------------------------------------------------------------------
(* store: as many reads as it makes rounds, whatever they return.  Without *)
(* its file it crashes in the first fwrite.                                *)

Store ==
  /\ spc = "read" /\ pipe # <<>>
  /\ LET n == Min2(Len(pipe), BUFFER_SIZE)
     IN  /\ pipe' = SubSeq(pipe, n + 1, Len(pipe))
         /\ file' = IF opened THEN file \o SubSeq(pipe, 1, n) ELSE file
  /\ rounds' = rounds + 1
  /\ LET last == ~opened \/ rounds + 1 = Rounds
     IN  /\ spc' = IF last THEN "zombie" ELSE "read"
         /\ pending' = (pending \/ last)
  /\ UNCHANGED <<confVars, netVars, mainVars, holds, hVars>>

-----------------------------------------------------------------------------
Next == Server \/ Store \/ \E c \in Clients : Client(c) \/ Handler(c)

Spec == Init /\ [][Next]_vars

(* Every process that can run runs; a process that waits for room in the   *)
(* pipe gets it when it is there again and again.                          *)
FairSpec ==
  /\ Spec /\ WF_vars(Server) /\ WF_vars(Store)
  /\ \A c \in Clients : SF_vars(Handler(c))

-----------------------------------------------------------------------------
(* Properties.                                                             *)

(* The variables keep their types; the pipe never holds more than fits and *)
(* no more is taken from a connection than has arrived.                    *)
TypeOK ==
  /\ storing \in BOOLEAN /\ opened \in BOOLEAN
  /\ peer \in [Clients -> {"idle", "open", "closed", "reset"}]
  /\ backlog \in Seq(Clients)
  /\ arrived \in [Clients -> Nat] /\ taken \in [Clients -> Nat] /\ echoed \in [Clients -> Nat]
  /\ \A c \in Clients : echoed[c] <= taken[c] /\ taken[c] <= arrived[c]
  /\ mpc \in {"accept", "fork", "close"} /\ client_fd \in Clients \cup {NoClient}
  /\ pending \in BOOLEAN /\ inHandler \in BOOLEAN
  /\ holds \in [Processes -> SUBSET Clients]
  /\ hpc \in [Clients -> {"none", "read", "pipe", "write", "exit", "zombie", "reaped"}]
  /\ len \in [Clients -> 0 .. BUFFER_SIZE]
  /\ spc \in {"none", "read", "zombie", "reaped"} /\ rounds \in 0 .. Rounds
  /\ pipe \in Seq(Clients \X Nat) /\ Len(pipe) <= PipeSize
  /\ file \in Seq(Clients \X Nat)

(* A process that ended is noticed although SIGCHLD is not queued: as long *)
(* as one is left the signal is pending or the loop of read_child_proc is  *)
(* still running (echo_mpserv.c:21, echo_storeserv.c:21).                  *)
ZombiesNoticed == Zombies # {} \/ spc = "zombie" => pending \/ inHandler

(* Nobody keeps a copy of a connection that is not his: the parent waits   *)
(* for the next one with none, so no handler inherits another's client,    *)
(* whose end of stream it would hold back (close at echo_mpserv.c:128).    *)
NoStrayCopies ==
  /\ \A c \in Clients : holds[c] \subseteq {c}
  /\ mpc = "accept" => holds[Parent] = {}

(* What the three invariants above need to be inductive: the connection    *)
(* the parent is about to hand over is the only one it has; what a handler *)
(* has in its buffer it has read and not written back; store has a round   *)
(* left.                                                                   *)
Bookkeeping ==
  /\ mpc # "accept" => client_fd \in Clients /\ holds[Parent] \subseteq {client_fd}
  /\ \A c \in Clients : len[c] <= taken[c]
  /\ \A c \in Clients : hpc[c] \in {"pipe", "write"} => echoed[c] + len[c] <= taken[c]
  /\ spc = "read" => rounds < Rounds

IndInv == TypeOK /\ ZombiesNoticed /\ NoStrayCopies /\ Bookkeeping

PutInPipe(c) == taken[c] - (IF hpc[c] = "pipe" THEN len[c] ELSE 0)

(* All that was put in the pipe, and nothing else; every client's bytes in *)
(* the order in which it sent them, each once.                             *)
Complete(stored) ==
  {stored[i] : i \in DOMAIN stored} = UNION {{c} \X (1 .. PutInPipe(c)) : c \in Clients}
EachInOrder(stored) ==
  \A i, j \in DOMAIN stored :
    i < j /\ stored[i][1] = stored[j][1] => stored[i][2] < stored[j][2]

(* The bytes of every client are in the file and the pipe in the order in  *)
(* which it sent them, each once and complete, however the handlers'       *)
(* writes interleave and wherever the reads of store cut them.             *)
StoredInOrder ==
  storing /\ opened => Complete(file \o pipe) /\ EachInOrder(file \o pipe)

(* A connection waits once, and has no handler before it is forked: what   *)
(* StoredInOrder needs to be inductive.                                    *)
ForkedOnce ==
  /\ \A i, j \in DOMAIN backlog : backlog[i] = backlog[j] => i = j
  /\ \A i \in DOMAIN backlog : hpc[backlog[i]] = "none" /\ peer[backlog[i]] # "idle"
  /\ mpc = "fork" => /\ hpc[client_fd] = "none" /\ peer[client_fd] # "idle"
                     /\ \A i \in DOMAIN backlog : backlog[i] # client_fd
  /\ \A c \in Clients : peer[c] = "idle" => hpc[c] = "none"

(* The pipe is full and nobody will ever read it: store reads ten times    *)
(* and exits (echo_storeserv.c:107-113).                                   *)
Stuck(c) == hpc[c] = "pipe" /\ spc # "read" /\ Len(pipe) + len[c] > PipeSize

Held(c) == \E p \in Processes : c \in holds[p]

(* When a client has gone, no process keeps its connection open for ever,  *)
(* and its handler does not stay a zombie (close at echo_mpserv.c:72 and   *)
(* 128, waitpid at 21), unless the handler is stuck at the full pipe.      *)
GoneIsReaped ==
  \A c \in Clients :
    (Held(c) /\ peer[c] \in {"closed", "reset"})
      ~> (\/ ~ Held(c) /\ hpc[c] \in {"none", "reaped"}
          \/ Stuck(c))

(* What a handler has read its client gets back, unless the client leaves  *)
(* or the handler is stuck at the full pipe, before the write back.        *)
EchoedInTheEnd ==
  \A c \in Clients :
    echoed[c] < taken[c] ~> (echoed[c] = taken[c] \/ peer[c] # "open" \/ Stuck(c))
=============================================================================
