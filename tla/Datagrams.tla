----------------------------- MODULE Datagrams ------------------------------
(***************************************************************************)
(* Programs that talk over UDP:                                            *)
(*   "uecho"  ch06/uecho_server.c with clients of both kinds,              *)
(*            uecho_client.c and uecho_con_client.c                        *)
(*   "bound"  ch06/bound_host2.c sends SEND_SIZE messages, bound_host1.c   *)
(*            receives as often                                            *)
(*   "news"   ch14: a sender multicasts or broadcasts a file line by line, *)
(*            receivers (the clients here) listen                          *)
(*                                                                         *)
(* A datagram is [to, from, text]: a text is <<client, serial number>>, a  *)
(* line of the news <<place in the sending order, line>>.  The network     *)
(* loses datagrams, delivers some more than once, and in any order.        *)
(***************************************************************************)
EXTENDS Program, Integers, Sequences, FiniteSets

CONSTANTS
  Clients, Host,     (* the clients or receivers; the server or sender     *)
  SEND_SIZE,         (* messages bound_host2 sends                         *)
  Lines,             (* lines the news file may have                       *)
  MaxAsked,          (* messages a user enters: bounds the model           *)
  MaxDoubled         (* clients a datagram of whom is doubled: a bound too *)

ASSUME DatagramsAssumption ==
  /\ Host \notin Clients /\ IsFiniteSet(Clients)
  /\ SEND_SIZE \in Nat /\ MaxAsked \in Nat /\ MaxDoubled \in Nat
  /\ Lines \subseteq Nat

DatagramPrograms == {"uecho", "bound", "news"}

VARIABLES
  net,               (* datagrams on their way, or waiting to be received  *)
  connected,         (* the uecho clients that called connect              *)
  client_addr_len,   (* the server's, which nothing sets before its use:   *)
                     (* enough for port and address, short, or negative    *)
  newline,           (* the news file ends with one                        *)
  lines,             (* ... and has so many lines                          *)
  hpc, done,         (* Host: done counts what it received, or sent        *)
  buf,               (* the line in the news sender's buffer               *)
  upc, asked,        (* the clients; messages sent, or asked for           *)
  shown,             (* what each client showed, in order                  *)
  failed, doubled    (* history: clients a datagram of whom was lost, or   *)
                     (* delivered twice                                    *)

hostVars   == <<client_addr_len, hpc, done, buf>>
userVars   == <<upc, asked, shown>>
fileVars   == <<connected, newline, lines>>
dgramVars  == <<program, net, fileVars, hostVars, userVars, failed, doubled>>

DatagramsInit ==
  /\ net = {}
  /\ connected \in IF program = "uecho" THEN SUBSET Clients ELSE {{}}
  /\ client_addr_len \in IF program \in {"uecho", "bound"}
                           THEN {"enough", "short", "negative"} ELSE {"enough"}
  /\ newline \in IF program = "news" THEN BOOLEAN ELSE {FALSE}
  /\ lines \in IF program = "news" THEN Lines ELSE {0}
  /\ lines = 0 => ~newline
  /\ hpc = "run" /\ done = 0 /\ buf = 0
  /\ upc = [c \in Clients |-> "ask"]
  /\ asked = [c \in Clients |-> 0]
  /\ shown = [c \in Clients |-> <<>>]
  /\ failed = {} /\ doubled = {}

-----------------------------------------------------------------------------
(* The network: external.                                                  *)

Datagram(to, from, text) == [to |-> to, from |-> from, text |-> text]

(* A datagram of c's is put on the network, or lost.                       *)
Send(c, d, rest) ==
  \/ net' = rest \cup {d} /\ failed' = failed
  \/ net' = rest /\ failed' = failed \cup {c}

(* Taking a datagram of c's may leave a second one.                        *)
Take(c, d, rest) ==
  \/ rest = net \ {d} /\ doubled' = doubled
  \/ Cardinality(doubled) < MaxDoubled /\ rest = net /\ doubled' = doubled \cup {c}

-----------------------------------------------------------------------------
(* The echo clients.                                                       *)

(* A line; uecho_client leaves its newline out, the other sends it as the  *)
(* end of a string: the echo shows the same.                               *)
AskEcho(c) ==
  /\ program = "uecho" /\ upc[c] = "ask" /\ asked[c] < MaxAsked
  /\ asked' = [asked EXCEPT ![c] = @ + 1]
  /\ upc' = [upc EXCEPT ![c] = "wait"]
  /\ Send(c, Datagram(Host, c, <<c, asked'[c]>>), net)
  /\ UNCHANGED <<program, fileVars, hostVars, shown, doubled>>

(* The end of the user's input leaves msg empty.  uecho_con_client sends   *)
(* that, as an empty line; in uecho_client msg_len - 1 is the largest      *)
(* size_t, sendto fails with -1, which compares equal, and the client      *)
(* waits for the answer to what it never sent.                             *)
AskNothing(c) ==
  /\ program = "uecho" /\ upc[c] = "ask" /\ asked[c] < MaxAsked /\ c \notin connected
  /\ asked' = [asked EXCEPT ![c] = @ + 1]
  /\ upc' = [upc EXCEPT ![c] = "wait"]
  /\ failed' = failed \cup {c}
  /\ UNCHANGED <<program, net, fileVars, hostVars, shown, doubled>>

GetEcho(c) ==
  /\ program = "uecho" /\ upc[c] = "wait"
  /\ \E d \in net : /\ d.to = c
                    /\ net' \in {net, net \ {d}} /\ Take(c, d, net')
                    /\ shown' = [shown EXCEPT ![c] = Append(@, d.text)]
  /\ upc' = [upc EXCEPT ![c] = "ask"]
  /\ UNCHANGED <<program, fileVars, hostVars, asked, failed>>

(* The server is gone: a connected socket may be told that nobody takes    *)
(* its datagram; the other never is.                                       *)
Refused(c) ==
  /\ program = "uecho" /\ c \in connected /\ upc[c] = "wait"
  /\ hpc = "exit" /\ Datagram(Host, c, <<c, asked[c]>>) \in net
  /\ upc' = [upc EXCEPT ![c] = "gone"]
  /\ UNCHANGED <<program, net, fileVars, hostVars, asked, shown, failed, doubled>>

QuitEcho(c) ==
  /\ program = "uecho" /\ upc[c] = "ask"
  /\ upc' = [upc EXCEPT ![c] = "gone"]
  /\ UNCHANGED <<program, net, fileVars, hostVars, asked, shown, failed, doubled>>

EchoClient(c)    == AskEcho(c) \/ AskNothing(c) \/ GetEcho(c) \/ QuitEcho(c)
EchoConClient(c) == AskEcho(c) \/ GetEcho(c) \/ Refused(c) \/ QuitEcho(c)

(* recvfrom with a negative length takes a datagram and fails, which ends  *)
(* the loop.                                                               *)
ReceiveFails ==
  /\ program \in {"uecho", "bound"} /\ hpc = "run" /\ client_addr_len = "negative"
  /\ \E d \in net : d.to = Host /\ net' = net \ {d}
  /\ hpc' = "exit"
  /\ UNCHANGED <<program, fileVars, client_addr_len, done, buf, userVars, failed, doubled>>

(* Faulty variants of EchoServer: the answer goes to an address kept from  *)
(* an earlier datagram; the loop ends at an address that does not fit.     *)
EchoServerKeeps ==
  /\ program = "uecho" /\ hpc = "run" /\ client_addr_len # "negative"
  /\ \E d \in net, c \in Clients :
       d.to = Host /\ Send(c, Datagram(c, Host, d.text), net \ {d})
  /\ UNCHANGED <<program, fileVars, client_addr_len, hpc, done, buf, userVars, doubled>>
EchoServerBreaks ==
  /\ program = "uecho" /\ hpc = "run" /\ client_addr_len # "negative"
  /\ \E d \in net :
       /\ d.to = Host
       /\ IF client_addr_len = "enough"
            THEN Send(d.from, Datagram(d.from, Host, d.text), net \ {d}) /\ hpc' = "run"
            ELSE net' = net \ {d} /\ failed' = failed \cup {d.from} /\ hpc' = "exit"
  /\ UNCHANGED <<program, fileVars, client_addr_len, done, buf, userVars, doubled>>

(* The echo goes where the datagram came from, but for a first one whose   *)
(* address did not fit; recvfrom leaves the right length behind.           *)
EchoServer ==
  /\ program = "uecho" /\ hpc = "run" /\ client_addr_len # "negative"
  /\ \E d \in net : \E rest \in {net, net \ {d}} :
       /\ d.to = Host
       /\ Take(d.from, d, rest)
       /\ IF client_addr_len = "enough"
            THEN Send(d.from, Datagram(d.from, Host, d.text), rest)
            ELSE net' = rest /\ failed' = failed \cup {d.from}
  /\ client_addr_len' = "enough"
  /\ UNCHANGED <<program, fileVars, hpc, done, buf, userVars>>

-----------------------------------------------------------------------------
(* bound_host2 and bound_host1.                                            *)

BoundSend(c) ==
  /\ program = "bound" /\ upc[c] = "ask"
  /\ asked[c] < SEND_SIZE
  /\ asked' = [asked EXCEPT ![c] = @ + 1]
  /\ upc' = [upc EXCEPT ![c] = IF asked'[c] = SEND_SIZE THEN "gone" ELSE "ask"]
  /\ Send(c, Datagram(Host, c, <<c, asked'[c]>>), net)
  /\ UNCHANGED <<program, fileVars, hostVars, shown, doubled>>

(* The sleeps change nothing: a datagram waits, whole, until it is taken.  *)
BoundReceive ==
  /\ program = "bound" /\ hpc = "run" /\ client_addr_len # "negative"
  /\ \E d \in net : d.to = Host /\ net' \in {net, net \ {d}} /\ Take(d.from, d, net')
  /\ client_addr_len' = "enough"
  /\ done' = done + 1
  /\ hpc' = IF done' = SEND_SIZE THEN "exit" ELSE "run"
  /\ UNCHANGED <<program, fileVars, buf, userVars, failed>>

-----------------------------------------------------------------------------
(* news_sender, news_sender_brd and the receivers.                         *)

(* Faulty variant of SendNews: one fgets too many however the file ends.   *)
SendNewsTwice ==
  /\ program = "news" /\ hpc = "run"
  /\ buf' = IF done < lines THEN done + 1 ELSE buf
  /\ done' = done + 1 /\ hpc' = IF done' > lines THEN "exit" ELSE "run"
  /\ net' = net \cup {Datagram(c, Host, <<done', buf'>>) : c \in {c \in Clients : upc[c] = "wait"}}
  /\ UNCHANGED <<program, fileVars, client_addr_len, userVars, failed, doubled>>

(* while (!feof(fp)): only a fgets that meets the end sets it.  After a    *)
(* last line with a newline one more fgets finds nothing, and buf is sent  *)
(* as it is.  A sendto that fails ends the loop.                           *)
SendNews ==
  /\ program = "news" /\ hpc = "run"
  /\ buf' = IF done < lines THEN done + 1 ELSE buf
  /\ done' = done + 1
  /\ \E heard \in SUBSET {c \in Clients : upc[c] = "wait"} :
       /\ net' = net \cup {Datagram(c, Host, <<done', buf'>>) : c \in heard}
       /\ failed' = failed \cup (Clients \ heard)
       /\ \/ hpc' = IF done' > lines \/ (done' = lines /\ ~newline) THEN "exit" ELSE "run"
          \/ heard = {} /\ hpc' = "exit"
  /\ UNCHANGED <<program, fileVars, client_addr_len, userVars, doubled>>

(* bind, and for multicast IP_ADD_MEMBERSHIP.                              *)
JoinNews(c) ==
  /\ program = "news" /\ upc[c] = "ask"
  /\ upc' = [upc EXCEPT ![c] = "wait"]
  /\ UNCHANGED <<program, net, fileVars, hostVars, asked, shown, failed, doubled>>

(* A receiver's queue is in order of arrival; on one network that is the   *)
(* order of sending: external, as is all that the network does.            *)
ReceiveNews(c) ==
  /\ program = "news"
  /\ \E d \in net : /\ d.to = c
                    /\ \A e \in net : e.to = c => d.text[1] <= e.text[1]
                    /\ net' = net \ {d}
                    /\ shown' = [shown EXCEPT ![c] = Append(@, d.text[2])]
  /\ UNCHANGED <<program, fileVars, hostVars, upc, asked, failed, doubled>>

-----------------------------------------------------------------------------
User(c) ==
  \/ EchoClient(c) \/ EchoConClient(c) \/ BoundSend(c)
  \/ JoinNews(c) \/ ReceiveNews(c)
HostProgram == ReceiveFails \/ EchoServer \/ BoundReceive \/ SendNews

DatagramsNext == HostProgram \/ \E c \in Clients : User(c)

(* The programs run; a client that waits is woken by its datagram.         *)
DatagramsFairness ==
  /\ WF_dgramVars(HostProgram)
  /\ \A c \in Clients : WF_dgramVars(GetEcho(c) \/ BoundSend(c) \/ ReceiveNews(c))

-----------------------------------------------------------------------------
(* Properties.                                                             *)

(* What a client shows is the echo of its own last message, however the    *)
(* network orders the datagrams and whatever other clients do: it sends    *)
(* nothing more before the answer is there.  After a datagram that came    *)
(* twice it may be an older one of its own (uecho_client.c:50-61,          *)
(* uecho_con_client.c:60-73, uecho_server.c:48-59).                        *)
EchoesOwn ==
  program = "uecho" =>
    \A c \in Clients : \A k \in DOMAIN shown[c] :
      /\ shown[c][k] \in {c} \X (1 .. k)
      /\ c \notin doubled => shown[c][k] = <<c, k>>

(* Nobody waits for a datagram for ever, unless one of its own was lost,   *)
(* or it is the one the server's first, unset length cost; bound_host1     *)
(* ends (uecho_server.c:44-63, bound_host1.c:46-61).                       *)
ReceivedUnlessLost ==
  /\ \A c \in Clients :
       (program = "uecho" /\ upc[c] = "wait")
         ~> (upc[c] # "wait" \/ c \in failed \/ client_addr_len = "negative")
  /\ \A c \in Clients :
       (program = "bound" /\ upc[c] = "gone") ~> (hpc = "exit" \/ failed # {})

(* A receiver gets each line of the news once, but the last: it comes a    *)
(* second time, right behind, when the file ends with a newline (while     *)
(* (!feof(fp)), news_sender.c:26-35, news_sender_brd.c:27-36).  That the   *)
(* lines come in their order takes a network that does not reorder.        *)
NewsInOrder ==
  program = "news" =>
    \A c \in Clients : \A i, j \in DOMAIN shown[c] :
      i < j => \/ shown[c][i] < shown[c][j]
               \/ newline /\ shown[c][i] = lines /\ shown[c][j] = lines
                  /\ j = i + 1 /\ j = Len(shown[c])
=============================================================================
