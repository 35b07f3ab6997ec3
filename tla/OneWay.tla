------------------------------- MODULE OneWay -------------------------------
(***************************************************************************)
(* A server that sends all it has and a client that reads to the end of    *)
(* the stream, each pair of programs on a single connection:               *)
(*   "hello"   ch01: one write; the client reads once                      *)
(*   "hello2"  ch02/hello_server2.c, hello_client2.c: many writes          *)
(*   "file"    ch07: the server sends a file, shuts down its half and      *)
(*             reads the client's thanks up to the end                     *)
(*   "sep"     ch16/sep_server.c, sep_client.c: two streams on ONE         *)
(*             descriptor: fclose of the writer closes the connection      *)
(*   "sep2"    ch16/sep_server2.c: the writer has a dup of the descriptor, *)
(*             and shutdown ends the sending half alone                    *)
(*                                                                         *)
(* The bytes of the text are their positions 1 .. size.  toClient is what  *)
(* was sent and not read, on its way or arrived: a read gets any part.     *)
(***************************************************************************)
EXTENDS Program, Integers, Sequences

CONSTANTS
  Sizes,             (* lengths the text may have                          *)
  BUF_SIZE,          (* bytes the file server reads, and sends, at a time; *)
                     (* the length of one message of hello_server2         *)
  CONNECTION_SIZE    (* the clients a sep server serves, then it ends      *)

ASSUME SizesAssumption ==
  Sizes \subseteq Nat /\ BUF_SIZE \in Nat \ {0} /\ CONNECTION_SIZE \in Nat \ {0}

Hellos         == {"hello", "hello2"}
Seps           == {"sep", "sep2"}
OneWayPrograms == Hellos \cup Seps \cup {"file"}

VARIABLES
  size,
  \* the connection
  toClient, sentEnd, (* sentEnd: the end of the stream follows them        *)
  thanks,            (* the client's thanks are on their way               *)
  client,            (* its end as the server sees it: open, fin, reset     *)
  \* the server
  spc, session, at,  (* at: how much of the text it has sent               *)
  message, printed,  (* whose thanks are in message, were printed last     *)
  \* the client
  cpc, taken,
  said               (* history: this client has written its thanks        *)

oneWayConf   == <<program, size>>
oneWayServer == <<spc, session, at, message, printed>>
oneWayClient == <<cpc, taken, said>>
oneWayVars == <<oneWayConf, toClient, sentEnd, thanks, client, oneWayServer, oneWayClient>>

OneWayInit ==
  /\ size \in IF program \in OneWayPrograms THEN Sizes ELSE {0}
  /\ program = "hello2" => size > 0 /\ size % BUF_SIZE = 0
  /\ toClient = <<>> /\ sentEnd = FALSE /\ thanks = FALSE /\ client = "none"
  /\ spc = "accept" /\ session = 0 /\ at = 0 /\ message = 0 /\ printed = 0
  /\ cpc = "gone" /\ taken = <<>> /\ said = FALSE

-----------------------------------------------------------------------------
(* The servers.                                                            *)

(* The next client.  One that waits in the queue is first seen here.       *)
Accept ==
  /\ program \in OneWayPrograms
  /\ spc = "accept" /\ session < (IF program \in Seps THEN CONNECTION_SIZE ELSE 1)
  /\ session' = session + 1
  /\ client' = "open" /\ toClient' = <<>> /\ sentEnd' = FALSE /\ thanks' = FALSE
  /\ spc' = "send" /\ at' = 0
  /\ cpc' = "read" /\ taken' = <<>> /\ said' = FALSE
  /\ UNCHANGED <<oneWayConf, message, printed>>

(* A write, whose result nobody looks at, and where the server goes on     *)
(* after it.  A client that has left answers with a reset.                 *)
SendOn(n, next) ==
  /\ at' = at + n /\ spc' = next
  /\ \/ client = "open" /\ client' = client
        /\ toClient' = toClient \o [b \in 1 .. n |-> at + b]
     \/ client = "fin" /\ client' \in (IF n = 0 THEN {"fin"} ELSE {"fin", "reset"})
        /\ toClient' = toClient
  /\ UNCHANGED <<oneWayConf, sentEnd, thanks, session, message, printed, oneWayClient>>

(* After a reset the write fails, or its SIGPIPE ends the server.          *)
SendAfterReset(n, next) ==
  /\ client = "reset" /\ spc' \in {next, "killed"} /\ at' = at + n
  /\ UNCHANGED <<oneWayConf, toClient, sentEnd, thanks, client, session, message, printed,
                 oneWayClient>>

SendMore(n, next) == SendOn(n, next) \/ SendAfterReset(n, next)

Min2(a, b) == IF a < b THEN a ELSE b

(* Faulty variant of SendFile: a full last chunk ends the loop unsent.     *)
SendFileShort ==
  /\ program = "file" /\ spc = "send"
  /\ LET read_cnt == Min2(BUF_SIZE, size - at)
     IN  IF at + read_cnt = size THEN SendMore(read_cnt % BUF_SIZE, "end")
                                 ELSE SendMore(read_cnt, "send")

(* fread, and the short chunk (or the empty one) is the last.              *)
SendFile ==
  /\ program = "file" /\ spc = "send"
  /\ LET read_cnt == Min2(BUF_SIZE, size - at)
     IN  SendMore(read_cnt, IF read_cnt < BUF_SIZE THEN "end" ELSE "send")

SendHello == program = "hello" /\ spc = "send" /\ SendOn(size, "end")

SendHellos ==
  /\ program = "hello2" /\ spc = "send"
  /\ at < size
  /\ SendMore(BUF_SIZE, IF at + BUF_SIZE < size THEN "send" ELSE "end")

(* The three fputs wait in the stream's buffer for the fflush.             *)
SendLines == program \in Seps /\ spc = "send" /\ SendOn(size, "end")

EndSending ==
  /\ sentEnd' = TRUE
  /\ UNCHANGED <<oneWayConf, toClient, thanks, client, session, at, message, printed,
                 oneWayClient>>

(* Faulty variant of ShutdownSep2: SHUT_RDWR, after which fgets finds no  *)
(* thanks.                                                                 *)
ShutdownSep2Both ==
  /\ program = "sep2" /\ spc = "end" /\ sentEnd' = TRUE /\ spc' = "close" /\ printed' = message
  /\ UNCHANGED <<oneWayConf, toClient, thanks, client, session, at, message, oneWayClient>>

(* shutdown(SHUT_WR): on a connection that was reset it fails, and         *)
(* error_handling ends the file server.                                    *)
ShutdownFile ==
  /\ program = "file" /\ spc = "end"
  /\ EndSending
  /\ spc' = IF client = "reset" THEN "exit" ELSE "listen"

(* sep_server2 ignores that, and fclose of the dup leaves the other.       *)
ShutdownSep2 == program = "sep2" /\ spc = "end" /\ EndSending /\ spc' = "listen"

(* The end of the process, or fclose(writefp), closes the only descriptor. *)
CloseHello == program \in Hellos /\ spc = "end" /\ EndSending /\ spc' = "exit"
FcloseSep  == program = "sep" /\ spc = "end" /\ EndSending /\ spc' = "noread"

Heard ==
  /\ UNCHANGED <<oneWayConf, toClient, sentEnd, client, session, at, oneWayClient>>

(* read until it returns 0 or -1.                                          *)
ListenFile ==
  /\ program = "file" /\ spc = "listen"
  /\ IF thanks /\ client # "reset"
       THEN spc' = "listen" /\ printed' = session
       ELSE spc' = "exit" /\ client # "open" /\ printed' = printed
  /\ thanks' = FALSE /\ message' = message
  /\ Heard

(* One fgets.  At the end of the stream it returns NULL without an error,  *)
(* and what message held is printed.                                       *)
ListenSep2 ==
  /\ program = "sep2" /\ spc = "listen"
  /\ \/ /\ thanks /\ client # "reset"
        /\ message' = session /\ printed' = session
     \/ ~thanks /\ client = "fin" /\ message' = message /\ printed' = message
     \/ client = "reset" /\ UNCHANGED <<message, printed>>          \* ferror
  /\ thanks' = FALSE
  /\ spc' = "close"
  /\ Heard

(* fgets on a closed descriptor, which ferror reports.                     *)
ListenSep ==
  /\ program = "sep" /\ spc = "noread"
  /\ spc' = "close"
  /\ UNCHANGED <<thanks, message, printed>> /\ Heard

CloseSep ==
  /\ program \in Seps /\ spc = "close"
  /\ spc' = IF session = CONNECTION_SIZE THEN "exit" ELSE "accept"
  /\ UNCHANGED <<thanks, message, printed>> /\ Heard

HelloServer  == SendHello \/ CloseHello
HelloServer2 == SendHellos \/ CloseHello
FileServer   == SendFile \/ ShutdownFile \/ ListenFile
SepServer    == SendLines \/ FcloseSep \/ ListenSep \/ CloseSep
SepServer2   == SendLines \/ ShutdownSep2 \/ ListenSep2 \/ CloseSep

(* Somebody stops the server, which ends the stream where it is: external. *)
StopServer ==
  /\ spc \in {"send", "end", "listen"}
  /\ spc' = "killed" /\ sentEnd' = TRUE
  /\ UNCHANGED <<oneWayConf, toClient, thanks, client, session, at, message, printed,
                 oneWayClient>>

-----------------------------------------------------------------------------
(* The clients.                                                            *)

Reads(next) ==
  /\ cpc = "read" /\ toClient # <<>>
  /\ \E n \in 1 .. Len(toClient) :
       /\ taken' = taken \o SubSeq(toClient, 1, n)
       /\ toClient' = SubSeq(toClient, n + 1, Len(toClient))
  /\ cpc' = next
  /\ UNCHANGED <<oneWayConf, sentEnd, thanks, client, oneWayServer, said>>

(* 0, the end of the stream.  No read fails: a client writes after it.     *)
ReadsEnd(next) ==
  /\ cpc = "read" /\ toClient = <<>> /\ sentEnd
  /\ cpc' = next
  /\ UNCHANGED <<oneWayConf, toClient, sentEnd, thanks, client, oneWayServer, taken, said>>

(* The thanks come too late for a server that has closed the connection.   *)
Thank ==
  /\ cpc = "thank"
  /\ thanks' = (spc \in {"send", "end", "listen"}) /\ said' = TRUE
  /\ cpc' = "close"
  /\ UNCHANGED <<oneWayConf, toClient, sentEnd, client, oneWayServer, taken>>

(* Closing with bytes unread resets the connection.                        *)
Gone ==
  /\ cpc' = "gone"
  /\ client' = IF toClient # <<>> THEN "reset" ELSE "fin"
  /\ UNCHANGED <<oneWayConf, toClient, sentEnd, thanks, oneWayServer, taken, said>>

Close == cpc = "close" /\ Gone

(* The user stops the client: external.                                    *)
StopClient == cpc \in {"read", "thank"} /\ Gone

HelloClient  == program = "hello"  /\ (Reads("close") \/ ReadsEnd("close") \/ Close)
HelloClient2 == program = "hello2" /\ (Reads("read") \/ ReadsEnd("close") \/ Close)
FileClient   == program = "file"   /\ (Reads("read") \/ ReadsEnd("thank") \/ Thank \/ Close)
SepClient    == program \in Seps /\ (Reads("read") \/ ReadsEnd("thank") \/ Thank \/ Close)

-----------------------------------------------------------------------------
Server == HelloServer \/ HelloServer2 \/ FileServer \/ SepServer \/ SepServer2
Client == HelloClient \/ HelloClient2 \/ FileClient \/ SepClient

OneWayNext == Accept \/ Server \/ Client \/ StopServer \/ StopClient

(* Both processes run; nobody has to start a client, or to stop anything.  *)
OneWayFairness == WF_oneWayVars(Server) /\ WF_oneWayVars(Client)

-----------------------------------------------------------------------------
(* Properties.                                                             *)

(* A client that has read to the end has the whole text, every byte once   *)
(* and in order, whether its length is a multiple of the chunk or not and  *)
(* however the server ends the stream: a close or shutdown right after the *)
(* last write loses nothing (file_server.c:60-71, sep_server.c:63-69).     *)
(* It cannot tell a server that was stopped on the way from a whole text.  *)
ArrivesWhole ==
  cpc \in {"thank", "close"} /\ program # "hello" /\ spc # "killed" =>
    taken = [b \in 1 .. size |-> b]

(* A server goes on from a client that did thank only when it has printed  *)
(* that client's thanks, and not what message holds of an earlier one: the *)
(* client has read to the end before it thanks, so that closing does not   *)
(* reset the connection under its thanks (file_server.c:76-87,             *)
(* sep_server2.c:76-81).  After a client that left without thanks          *)
(* sep_server2 does print those of an earlier one again, or what the array *)
(* held at first.                                                          *)
OwnThanks ==
  [][spc = "listen" /\ spc' \notin {"listen", "killed"} /\ said => printed' = session]_oneWayVars

(* The thanks of a client are heard although the server has ended its own  *)
(* sending, and although the client is gone by then: the half close leaves *)
(* the other half open (file_server.c:71-87, sep_server2.c:72-80).  And    *)
(* they are heard before the server goes on.                               *)
ThanksHeard ==
  /\ OwnThanks
  /\ \A k \in 1 .. CONNECTION_SIZE :
       (program \in {"file", "sep2"} /\ session = k /\ said)
         ~> (printed = k \/ spc = "killed")

(* Neither waits for the other for ever: the client's loop ends with the   *)
(* server's end of stream and the server's wait for thanks with the        *)
(* client's (file_client.c:47-58, file_server.c:76-87, sep_client.c:40-46).*)
SidesEnd ==
  /\ cpc = "read" ~> cpc = "gone"
  /\ spc = "send" ~> spc \in {"accept", "exit", "killed"}
=============================================================================
