------------------------------ MODULE ChatRoom ------------------------------
(***************************************************************************)
(* chat_server with its real clients, ch18/chat_client.c: the peers of     *)
(* ChatServer are processes of two threads on one socket.  send_msg sends  *)
(* what the user enters and closes the socket at the end of the input;     *)
(* recv_msg reads and prints until a read fails; main joins both.          *)
(*                                                                         *)
(* A read in progress keeps the connection although the other thread has   *)
(* closed the descriptor: it ends when that read returns.  main's own      *)
(* close, after both threads, finds nothing left.                          *)
(***************************************************************************)
EXTENDS ChatServer

VARIABLES
  send_t,            (* none, input, done                                  *)
  recv_t,            (* none, call (about to read), read (in it), done     *)
  open,              (* the clients whose descriptor is open               *)
  shown              (* how many of the messages received were printed     *)

roomVars == <<send_t, recv_t, open, shown>>

RoomInit ==
  /\ Init
  /\ send_t = [c \in Clients |-> "none"] /\ recv_t = [c \in Clients |-> "none"]
  /\ open = {} /\ shown = [c \in Clients |-> 0]

Unread(c) == shown[c] < Len(received[c])

(* The server has closed this connection, or is gone with all of them.     *)
ServerClosed(c) == ~up \/ (accepted[c] # 0 /\ \A f \in Fds : file[f] # c)

(* The last reference to the socket goes; bytes unread make it a reset.    *)
Drop(c, unread) == Leave(c) /\ (~unread => peer'[c] = "closed")

-----------------------------------------------------------------------------
(* connect, and the threads.                                               *)
Start(c) ==
  /\ Connect(c)
  /\ send_t' = [send_t EXCEPT ![c] = "input"] /\ recv_t' = [recv_t EXCEPT ![c] = "call"]
  /\ open' = open \cup {c} /\ shown' = shown

(* A line of the user's.                                                   *)
Say(c) == send_t[c] = "input" /\ ~ServerClosed(c) /\ Send(c) /\ UNCHANGED roomVars

(* q, the end of the input, or a write that fails.                         *)
Quit(c) ==
  /\ send_t[c] = "input"
  /\ send_t' = [send_t EXCEPT ![c] = "done"] /\ open' = open \ {c}
  /\ IF recv_t[c] = "read" THEN UNCHANGED vars ELSE Drop(c, Unread(c))
  /\ UNCHANGED <<recv_t, shown>>

(* The user's interrupt, or the SIGPIPE of a second write to a server that *)
(* has closed.                                                             *)
Die(c) ==
  /\ peer[c] = "open" /\ Drop(c, Unread(c))
  /\ send_t' = [send_t EXCEPT ![c] = "done"] /\ recv_t' = [recv_t EXCEPT ![c] = "done"]
  /\ open' = open \ {c} /\ shown' = shown

(* Faulty variant of Call: recv_msg goes on when a read fails.             *)
CallAgain(c) ==
  /\ recv_t[c] = "call" /\ c \in open \ stalled
  /\ recv_t' = [recv_t EXCEPT ![c] = "read"]
  /\ UNCHANGED <<vars, send_t, open, shown>>

(* read: on a closed descriptor it fails, which ends recv_msg.  A terminal *)
(* that does not print keeps recv_msg in fputs.                            *)
Call(c) ==
  /\ recv_t[c] = "call" /\ c \notin stalled
  /\ recv_t' = [recv_t EXCEPT ![c] = IF c \in open THEN "read" ELSE "done"]
  /\ UNCHANGED <<vars, send_t, open, shown>>

Return(c) ==
  /\ recv_t[c] = "read"
  /\ \E n \in shown[c] + 1 .. Len(received[c]) :
       /\ shown' = [shown EXCEPT ![c] = n]
       /\ IF c \in open THEN UNCHANGED vars ELSE Drop(c, n < Len(received[c]))
  /\ recv_t' = [recv_t EXCEPT ![c] = "call"]
  /\ UNCHANGED <<send_t, open>>

(* 0, which recv_msg prints as an empty message and reads again; or -1, if *)
(* the server closed with messages of this client's unread.                *)
ReturnEnd(c) ==
  /\ recv_t[c] = "read" /\ ~Unread(c) /\ ServerClosed(c)
  /\ \/ recv_t' = [recv_t EXCEPT ![c] = "call"]
     \/ taken[c] < sent[c] /\ recv_t' = [recv_t EXCEPT ![c] = "done"]
  /\ IF c \in open THEN UNCHANGED vars ELSE Drop(c, FALSE)
  /\ UNCHANGED <<send_t, open, shown>>

send_msg(c) == Say(c) \/ Quit(c)
recv_msg(c) == Call(c) \/ Return(c) \/ ReturnEnd(c)

(* A terminal stops and goes on: external.                                 *)
Terminal(c) ==
  \/ recv_t[c] = "call" /\ Stall(c) /\ UNCHANGED roomVars
  \/ Resume(c) /\ UNCHANGED roomVars

ServerStep == (Stop \/ MainThread \/ \E h \in Clients : Handler(h)) /\ UNCHANGED roomVars

RoomNext ==
  \/ ServerStep
  \/ \E c \in Clients : Start(c) \/ send_msg(c) \/ recv_msg(c) \/ Die(c) \/ Terminal(c)

RoomSpec == RoomInit /\ [][RoomNext]_<<vars, roomVars>>

(* ChatServer's fairness, and a client's reading thread runs when it can,  *)
(* on a terminal that goes on again and again too.  No user has to enter   *)
(* anything.                                                               *)
RoomFairSpec ==
  /\ RoomSpec /\ Fairness
  /\ \A c \in Clients \ Stallers : WF_<<vars, roomVars>>(recv_msg(c))
  /\ \A c \in Stallers : SF_<<vars, roomVars>>(recv_msg(c))

-----------------------------------------------------------------------------
(* Properties.                                                             *)

(* Every variable of the clients keeps its type (chat_client.c:37-60).     *)
RoomTypeOK ==
  /\ peer \in [Clients -> {"idle", "open", "closed", "reset"}]
  /\ send_t \in [Clients -> {"none", "input", "done"}]
  /\ recv_t \in [Clients -> {"none", "call", "read", "done"}]
  /\ open \subseteq Clients

(* The connection is there exactly as long as the client holds it: through *)
(* its descriptor, or through the read that was under way when the sending *)
(* thread closed it (chat_client.c:109, 119).                              *)
HeldWhileRead ==
  \A c \in Clients : peer[c] = "open" <=> (c \in open \/ recv_t[c] = "read")

(* A message waiting on a served connection is printed by every client     *)
(* that is in the table by then and whose user stays (chat_server.c:107,   *)
(* 125-136, chat_client.c:118-127).                                        *)
MessageShown ==
  \A a, b \in Clients : \A n \in 1 .. MaxMsg[a] :
    (/\ hpc[a] # "none" /\ taken[a] < n /\ n <= sent[a]
     /\ b \in Appended /\ hpc[b] # "orphan")
      ~> (\/ \E k \in 1 .. shown[b] : received[b][k] = <<a, n>>
          \/ send_t[b] = "done" \/ peer[a] = "reset" \/ Excused(a))

(* A client whose user has quit ends, and leaves the room, as soon as      *)
(* anything comes to wake its read: a message, its own last one too, or    *)
(* the end of the server.  In a silent room it stays (chat_client.c:109,   *)
(* 119-123).                                                               *)
QuitEnds ==
  \A c \in Clients :
    (send_t[c] = "done" /\ (Unread(c) \/ ServerClosed(c)))
      ~> (recv_t[c] = "done" /\ peer[c] # "open")
=============================================================================
