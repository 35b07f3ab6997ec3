----------------------------- MODULE WebServer ------------------------------
(***************************************************************************)
(* ch24/web_server.c: main accepts, a thread per connection reads one      *)
(* request line through one stream and answers through a second one, over  *)
(* a duplicate of the descriptor.  The thread closes the first stream, and *)
(* at the end the number of its descriptor once more; it never closes the  *)
(* stream of the file it sends.                                            *)
(*                                                                         *)
(* A thread is named after the connection it was created for.              *)
(***************************************************************************)
EXTENDS Integers, Sequences

CONSTANTS
  Clients,        (* the peers; each connects at most once                 *)
  Limits,         (* how many more descriptors the process may open        *)
  None            (* no client, no descriptor's contents                   *)

Requests == {"page",      \* GET of a file there is
             "missing",   \* GET of a file there is not
             "bad"}       \* another method, or no HTTP

Fds  == UNION {1 .. n : n \in Limits}
NoFd == 0                 \* the -1 of a failed accept or dup
Page == "a file"          \* what the descriptor of send_file refers to

ASSUME LimitsAssumption  == Limits \subseteq Nat \ {0}
ASSUME NamesAssumption   ==
  /\ None \notin Clients \cup {Page} \cup [of : Clients \cup {Page}, by : Clients]
  /\ Page \notin Clients

VARIABLES
  nofile,
  \* the peers
  asks,           (* what each client is going to ask for                  *)
  peer, backlog,
  pending,        (* the sockets a request line waits in                   *)
  answers,        (* what each got: the client whose request it answers,   *)
                  (* and the status                                        *)
  \* the process
  up,
  file,           (* descriptor table: what it refers to, who opened it    *)
  client_socket,  (* main's local; every thread gets its address           *)
  mpc, latest,    (* main; the connection it accepted last                 *)
  tpc, client_sock, client_write, req,       \* the threads
  \* history
  crossed,        (* a thread used or closed what another had opened       *)
  serial          (* no connection was accepted while a thread ran, and    *)
                  (* each got its thread                                   *)

conf       == <<nofile, asks>>
netVars    == <<peer, backlog, pending, answers>>
mainVars   == <<client_socket, mpc, latest, serial>>
threadVars == <<tpc, client_sock, client_write, req>>
vars == <<conf, netVars, up, file, mainVars, threadVars, crossed>>

Init ==
  /\ nofile \in Limits /\ asks \in [Clients -> Requests]
  /\ peer = [c \in Clients |-> "idle"] /\ backlog = <<>> /\ pending = {}
  /\ answers = [c \in Clients |-> <<>>]
  /\ up = TRUE
  /\ file = [f \in Fds |-> None]
  /\ client_socket = NoFd /\ mpc = "accept" /\ latest = None
  /\ tpc = [t \in Clients |-> "none"]
  /\ client_sock = [t \in Clients |-> NoFd]
  /\ client_write = [t \in Clients |-> NoFd]
  /\ req = [t \in Clients |-> None]
  /\ crossed = FALSE /\ serial = TRUE

-----------------------------------------------------------------------------
(* The peers: external.                                                    *)

Connect(c) ==
  /\ peer[c] = "idle"
  /\ peer' = [peer EXCEPT ![c] = "open"] /\ backlog' = Append(backlog, c)
  /\ UNCHANGED <<conf, pending, answers, up, file, mainVars, threadVars, crossed>>

Ask(c) ==
  /\ peer[c] = "open"
  /\ peer' = [peer EXCEPT ![c] = "asked"] /\ pending' = pending \cup {c}
  /\ UNCHANGED <<conf, backlog, answers, up, file, mainVars, threadVars, crossed>>

Leave(c) ==
  /\ peer[c] \in {"open", "asked"}
  /\ peer' = [peer EXCEPT ![c] = "gone"]
  /\ UNCHANGED <<conf, backlog, pending, answers, up, file, mainVars, threadVars, crossed>>

-----------------------------------------------------------------------------
(* Descriptors.                                                            *)

Free      == {f \in 1 .. nofile : file[f] = None}
Lowest(S) == CHOOSE f \in S : \A g \in S : f <= g

Entry(what, t) == [of |-> what, by |-> t]
Sockets        == {f \in Fds : file[f] # None /\ file[f].of # Page}
OthersFd(f, t) == f # NoFd /\ file[f] # None /\ file[f].by # t

(* close and fclose give a number back, whoever it belongs to by then.     *)
Close(f, t) ==
  /\ file' = [file EXCEPT ![f] = None]
  /\ crossed' = (crossed \/ OthersFd(f, t))

-----------------------------------------------------------------------------
(* main.                                                                   *)

Idle == \A t \in Clients : tpc[t] \in {"none", "done"}

Accept ==
  /\ up /\ mpc = "accept" /\ backlog # <<>> /\ Free # {}
  /\ LET f == Lowest(Free) IN
       /\ file' = [file EXCEPT ![f] = Entry(Head(backlog), Head(backlog))]
       /\ client_socket' = f
  /\ latest' = Head(backlog) /\ backlog' = Tail(backlog)
  /\ mpc' = "create"
  /\ serial' = (serial /\ Idle)
  /\ UNCHANGED <<conf, peer, pending, answers, up, threadVars, crossed>>

(* No descriptor left: the connection stays queued, -1 is stored.          *)
AcceptFails ==
  /\ up /\ mpc = "accept" /\ backlog # <<>> /\ Free = {}
  /\ client_socket' = NoFd
  /\ serial' = (serial /\ Idle)
  /\ UNCHANGED <<conf, netVars, up, file, mpc, latest, threadVars, crossed>>

(* pthread_create reports an error as a positive number, which ret < 0     *)
(* misses: the connection stays open without a thread.                     *)
CreateThread ==
  /\ up /\ mpc = "create"
  /\ mpc' = "accept"
  /\ \/ tpc' = [tpc EXCEPT ![latest] = "arg"] /\ serial' = serial
     \/ tpc' = tpc /\ serial' = FALSE
  /\ UNCHANGED <<conf, netVars, up, file, client_socket, latest, client_sock,
                 client_write, req, crossed>>

-----------------------------------------------------------------------------
(* request_handler.                                                        *)

At(t, pc)    == up /\ tpc[t] = pc
Goto(t, pc)  == tpc' = [tpc EXCEPT ![t] = pc]

(* The argument is read, whatever main has stored there by then.  fdopen   *)
(* of what is no descriptor gives NULL, which fgets cannot read from: the  *)
(* process ends.                                                           *)
ReadArg(t) ==
  /\ At(t, "arg")
  /\ client_sock' = [client_sock EXCEPT ![t] = client_socket]
  /\ crossed' = (crossed \/ OthersFd(client_socket, t))
  /\ up' = (client_socket # NoFd /\ file[client_socket] # None)
  /\ Goto(t, "dup")
  /\ UNCHANGED <<conf, netVars, file, mainVars, client_write, req>>

(* Faulty variant of Dup: both streams share one descriptor.               *)
DupForgotten(t) ==
  /\ At(t, "dup")
  /\ client_write' = [client_write EXCEPT ![t] = client_sock[t]]
  /\ Goto(t, "gets")
  /\ UNCHANGED <<conf, netVars, up, file, mainVars, client_sock, req, crossed>>

Dup(t) ==
  /\ At(t, "dup")
  /\ IF Free = {} \/ file[client_sock[t]] = None
       THEN UNCHANGED <<client_write, file>>
       ELSE /\ client_write' = [client_write EXCEPT ![t] = Lowest(Free)]
            /\ file' = [file EXCEPT ![Lowest(Free)] = Entry(file[client_sock[t]].of, t)]
  /\ Goto(t, "gets")
  /\ UNCHANGED <<conf, netVars, up, mainVars, client_sock, req, crossed>>

Refused(r) == r = None \/ asks[r] = "bad"

(* fgets waits for a line, or for the end of the stream; a descriptor that *)
(* is closed or a file has no request for it.                              *)
Gets(t) ==
  LET f == client_sock[t]
      c == file[f].of
  IN  /\ At(t, "gets")
      /\ IF f \in Sockets
           THEN /\ c \in pending \/ peer[c] = "gone"
                /\ req' = [req EXCEPT ![t] = IF c \in pending THEN c ELSE None]
                /\ pending' = pending \ {c}
           ELSE UNCHANGED <<req, pending>>
      /\ Goto(t, IF Refused(req'[t]) THEN "respond" ELSE "closeRead")
      /\ crossed' = (crossed \/ OthersFd(f, t))
      /\ UNCHANGED <<conf, peer, backlog, answers, up, file, mainVars, client_sock,
                     client_write>>

(* send_data opens the file.                                               *)
Open(t) ==
  /\ At(t, "open")
  /\ IF asks[req[t]] = "page" /\ Free # {}
       THEN /\ file' = [file EXCEPT ![Lowest(Free)] = Entry(Page, t)]
            /\ Goto(t, "respond200")
       ELSE file' = file /\ Goto(t, "respond")
  /\ UNCHANGED <<conf, netVars, up, mainVars, client_sock, client_write, req, crossed>>

(* send_error answers 400, send_data 200.                                  *)
Status(t) == IF tpc[t] = "respond" THEN 400 ELSE 200

(* send_error, or the rest of send_data.  To a peer that has gone the      *)
(* second write raises SIGPIPE; without a stream the process ends as well. *)
Respond(t) ==
  LET f == client_write[t]
  IN  /\ At(t, "respond") \/ At(t, "respond200")
      /\ IF f \in Sockets /\ peer[file[f].of] # "gone"
           THEN answers' = [answers EXCEPT ![file[f].of] = Append(@, <<req[t], Status(t)>>)]
           ELSE answers' = answers
      /\ \/ f # NoFd /\ up' = up
         \/ (f = NoFd \/ (f \in Sockets /\ peer[file[f].of] = "gone")) /\ up' = FALSE
      /\ Goto(t, IF Refused(req[t]) THEN "closeRead" ELSE "closeWrite")
      /\ crossed' = (crossed \/ OthersFd(f, t))
      /\ UNCHANGED <<conf, peer, backlog, pending, file, mainVars, client_sock,
                     client_write, req>>

CloseRead(t) ==
  /\ At(t, "closeRead")
  /\ Close(client_sock[t], t)
  /\ Goto(t, IF Refused(req[t]) THEN "closeWrite" ELSE "open")
  /\ UNCHANGED <<conf, netVars, up, mainVars, client_sock, client_write, req>>

CloseWrite(t) ==
  /\ At(t, "closeWrite")
  /\ Close(client_write[t], t)
  /\ Goto(t, IF Refused(req[t]) THEN "done" ELSE "closeAgain")
  /\ UNCHANGED <<conf, netVars, up, mainVars, client_sock, client_write, req>>

(* Faulty variant of CloseAgain: the second close is left out.             *)
CloseAgainForgotten(t) ==
  /\ At(t, "closeAgain")
  /\ Goto(t, "done")
  /\ UNCHANGED <<conf, netVars, up, file, mainVars, client_sock, client_write, req, crossed>>

(* close(client_sock), which CloseRead has closed.                         *)
CloseAgain(t) ==
  /\ At(t, "closeAgain")
  /\ Close(client_sock[t], t)
  /\ Goto(t, "done")
  /\ UNCHANGED <<conf, netVars, up, mainVars, client_sock, client_write, req>>

-----------------------------------------------------------------------------
request_handler(t) ==
  \/ ReadArg(t) \/ Dup(t) \/ Gets(t) \/ Open(t) \/ Respond(t)
  \/ CloseRead(t) \/ CloseWrite(t) \/ CloseAgain(t)

Main == Accept \/ AcceptFails \/ CreateThread

Next ==
  \/ Main
  \/ \E c \in Clients : Connect(c) \/ Ask(c) \/ Leave(c) \/ request_handler(c)

Spec == Init /\ [][Next]_vars

-----------------------------------------------------------------------------
(* Properties.                                                             *)

(* Every variable keeps its type: a number main or a thread has is one the *)
(* process may open, or none (web_server.c:42, 72, 88-97).                 *)
TypeOK ==
  /\ nofile \in Limits /\ asks \in [Clients -> Requests]
  /\ peer \in [Clients -> {"idle", "open", "asked", "gone"}]
  /\ backlog \in Seq(Clients) /\ pending \subseteq Clients
  /\ answers \in [Clients -> Seq((Clients \cup {None}) \X {200, 400})]
  /\ up \in BOOLEAN /\ crossed \in BOOLEAN /\ serial \in BOOLEAN
  /\ file \in [Fds -> {None} \cup [of : Clients \cup {Page}, by : Clients]]
  /\ client_socket \in Fds \cup {NoFd}
  /\ mpc \in {"accept", "create"} /\ latest \in Clients \cup {None}
  /\ tpc \in [Clients -> {"none", "arg", "dup", "gets", "respond", "closeRead", "open",
                         "respond200", "closeWrite", "closeAgain", "done"}]
  /\ client_sock \in [Clients -> Fds \cup {NoFd}]
  /\ client_write \in [Clients -> Fds \cup {NoFd}]
  /\ req \in [Clients -> Clients \cup {None}]

(* As long as no thread has touched what is another's, each client gets at *)
(* most one answer, to its own request and the right one, and a thread     *)
(* that is done has given it.  The answer survives the fclose of           *)
(* client_read because client_write has a descriptor of its own            *)
(* (web_server.c:96-97, 121-122).                                          *)
AnswersOwnRequest ==
  ~ crossed =>
    \A c \in Clients :
      /\ answers[c] \in {<<>>, <<<<c, 400>>>>, <<<<c, 200>>>>}
      /\ answers[c] = <<<<c, 200>>>> => asks[c] = "page"
      /\ tpc[c] = "done" /\ peer[c] # "gone" => answers[c] # <<>>

(* One connection at a time is safe: no thread touches another's, and      *)
(* between two of them nothing is left open.  The file that send_data does *)
(* not close takes the number client_read gave back, so that the second    *)
(* close of client_sock closes it (web_server.c:121-123, 136).             *)
SerialLeavesNothing ==
  serial /\ up =>
    /\ ~ crossed
    /\ Idle /\ mpc = "accept" => \A f \in Fds : file[f] = None
=============================================================================
