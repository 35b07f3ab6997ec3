---------------------------- MODULE RequestReply ----------------------------
(***************************************************************************)
(* ch04, ch05 and ch15: a client that asks and a server that answers, over a     *)
(* stream that may hand over any part of what was sent.  Init picks one:   *)
(*   "echo"   ch04/echo_client.c and echo_server.c: the line comes back,   *)
(*            the client reads once                                        *)
(*   "echo2"  ch05/echo_client2.c and echo_server2.c: the client drops the *)
(*            newline and reads until as much came back as it sent         *)
(*   "int"    ch05/op_client.c and op_server.c: a count, that many numbers *)
(*            and an operator, all of them ints; the result comes back as  *)
(*            text, and the client reads once                              *)
(*   "char"   op_client2.c and op_server2.c: the same, the count and the   *)
(*            operator being one byte each                                 *)
(*   "std"    ch15/echo_stdclient.c and echo_stdserver.c: the line comes   *)
(*            back, both sides read whole lines with fgets                 *)
(*                                                                         *)
(* A server serves one client after the other; the model follows the one   *)
(* it serves.  A byte sent is <<serial number of its request, its place in *)
(* that request>>, a byte of an answer is the serial number.               *)
(***************************************************************************)
EXTENDS Integers, Sequences, FiniteSets, SequencesExt

CONSTANTS
  Requests,          (* what users may enter, records [params, op]: the    *)
                     (* numbers and the operator; or                       *)
  Lines,             (* the characters of a line and its newline           *)
  MaxRequests,       (* requests made in all: bounds the model             *)
  CONNECTION_SIZE,   (* the clients the server serves, then it ends        *)
  OP_PARAM_SIZE,     (* bytes of an int                                    *)
  Width,             (* ... which holds integers modulo this               *)
  BUF_SIZE,          (* the most an echo server or client reads            *)
  READ_SIZE,         (* the most an op_client reads, 10 in the code        *)
  OP_RESULT_SIZE,    (* the most it shows of them                          *)
  Err,               (* the result "err"                                   *)
  Garbled            (* results a request that got mixed up may have       *)

ASSUME SizesAssumption ==
  /\ MaxRequests \in Nat /\ CONNECTION_SIZE \in Nat
  /\ OP_PARAM_SIZE \in Nat \ {0} /\ READ_SIZE \in Nat \ {0}
  /\ BUF_SIZE \in Nat \ {0}
  /\ OP_RESULT_SIZE \in Nat
  /\ Width \in Nat \ {0, 1} /\ Width % 2 = 0

ASSUME EntriesAssumption ==
  /\ \A r \in Requests : r.params \in Seq(-(Width \div 2) .. Width \div 2 - 1)
  /\ \A r \in Lines : Len(r.params) \in Nat
  /\ Garbled \subseteq Int \cup {Err}

-----------------------------------------------------------------------------
(* calculate.                                                              *)

Half == Width \div 2

(* An int that overflows wraps around.                                     *)
Wrap(n) == ((n + Half) % Width) - Half

Apply(op, a, b) == CASE op = "+" -> a + b [] op = "-" -> a - b [] op = "*" -> a * b

(* ret after each pass of the loop.                                        *)
Ret(r) ==
  LET ret[i \in 1 .. Len(r.params)] ==
        IF i = 1 THEN r.params[1] ELSE Wrap(Apply(r.op, ret[i - 1], r.params[i]))
  IN  ret

calculate(r) ==
  IF r.params = <<>> \/ r.op \notin {"+", "-", "*"} THEN Err ELSE Ret(r)[Len(r.params)]

(* strlen of the result's text, of ten digits at most.                     *)
Digits(n) == 1 + Cardinality({d \in 1 .. 9 : n >= 10 ^ d})
Length(v) == IF v = Err THEN 3 ELSE IF v < 0 THEN 1 + Digits(-v) ELSE Digits(v)

-----------------------------------------------------------------------------
EchoModes == {"echo", "echo2", "std"}
Modes     == EchoModes \cup {"int", "char"}

VARIABLES
  mode,
  \* the connection: what was sent and not read, how much of it has arrived
  conn, inq, inArrived, out, outArrived,
  \* the server
  spc, session,
  op_num, op_recv_len, cal_result,
  message,       (* the places in it that hold the byte that belongs there *)
  serving,       (* which request the count was read of                    *)
  echo,          (* what an echo server has to write back                  *)
  \* the client
  cpc,
  requests,      (* those made so far                                      *)
  shown,         (* the characters it last showed                          *)
  \* history
  torn           (* what came in pieces on this connection: "int", "result", *)
                 (* "unanswered"                                         *)

inVars     == <<inq, inArrived>>
outVars    == <<out, outArrived>>
calcVars   == <<op_num, op_recv_len, message, cal_result, serving, echo>>
clientVars == <<cpc, requests, shown>>
vars == <<mode, conn, inVars, outVars, spc, session, calcVars, clientVars, torn>>

Init ==
  /\ mode \in Modes
  /\ conn = "none" /\ inq = <<>> /\ inArrived = 0 /\ out = <<>> /\ outArrived = 0
  /\ spc = "accept" /\ session = 0
  /\ op_num = 0 /\ op_recv_len = 0 /\ message = {} /\ cal_result = Err
  /\ serving = 0 /\ echo = <<>>
  /\ cpc = "gone" /\ requests = <<>> /\ shown = <<>>
  /\ torn = {}

-----------------------------------------------------------------------------
(* The layout of a request.                                                *)

CountBytes == IF mode = "int" THEN OP_PARAM_SIZE ELSE 1

(* Faulty variant of op_total_len: the count is counted again.             *)
op_total_len_and_count(n) ==
  IF mode = "int" THEN OP_PARAM_SIZE * (n + 2) ELSE OP_PARAM_SIZE * n + 2

op_total_len(n) ==
  IF mode = "int" THEN OP_PARAM_SIZE * (n + 1) ELSE OP_PARAM_SIZE * n + 1

Size(r) ==
  LET n == Len(r.params)
  IN  CASE mode = "int"   -> OP_PARAM_SIZE * (n + 2)
        [] mode = "char"  -> OP_PARAM_SIZE * n + 2
        [] mode \in {"echo", "std"} -> n + 1
        [] mode = "echo2" -> n

Bytes(k, r) == [b \in 1 .. Size(r) |-> <<k, b - 1>>]

Min2(a, b) == IF a < b THEN a ELSE b

-----------------------------------------------------------------------------
(* The network hands over what was sent in pieces of any size: external.   *)

DeliverIn ==
  /\ conn \in {"open", "fin"}
  /\ \E n \in inArrived + 1 .. Len(inq) : inArrived' = n
  /\ UNCHANGED <<mode, conn, inq, outVars, spc, session, calcVars, clientVars, torn>>

DeliverOut ==
  /\ conn # "none"
  /\ \E n \in outArrived + 1 .. Len(out) : outArrived' = n
  /\ UNCHANGED <<mode, conn, inVars, out, spc, session, calcVars, clientVars, torn>>

-----------------------------------------------------------------------------
(* The client.                                                             *)

(* The user enters a request, which one write sends.  An empty line that   *)
(* lost its newline has its answer already.  The first write after the     *)
(* server is gone succeeds; echo_stdclient's fgets looks no further.       *)
Ask ==
  /\ cpc = "ask" /\ Len(requests) < MaxRequests
  /\ conn = "open" \/ (mode = "std" /\ conn = "closed")
  /\ \E r \in IF mode \in EchoModes THEN Lines ELSE Requests :
       /\ requests' = Append(requests, r)
       /\ inq' = IF conn = "open" THEN inq \o Bytes(Len(requests) + 1, r) ELSE inq
       /\ cpc' = IF Size(r) = 0 THEN "ask" ELSE "wait"
  /\ shown' = IF mode = "echo2" THEN <<>> ELSE shown
  /\ UNCHANGED <<mode, conn, inArrived, outVars, spc, session, calcVars, torn>>

(* The server closed: the write fails, now or the next time.               *)
AskFails ==
  /\ cpc = "ask" /\ conn = "closed"
  /\ cpc' = "gone"
  /\ UNCHANGED <<mode, conn, inVars, outVars, spc, session, calcVars, requests, shown, torn>>

ReadMost == IF mode \in EchoModes THEN BUF_SIZE ELSE READ_SIZE

Got == Min2(outArrived, ReadMost)

TakeAnswer == /\ out' = SubSeq(out, Got + 1, Len(out))
              /\ outArrived' = outArrived - Got

(* One read; what it leaves is read as the next answer.                    *)
ReadResult ==
  /\ mode \notin {"echo2", "std"} /\ cpc = "wait" /\ outArrived > 0
  /\ TakeAnswer
  /\ shown' = SubSeq(out, 1, IF mode = "echo" THEN Got ELSE Min2(Got, OP_RESULT_SIZE))
  /\ torn' = IF Got < Len(out) \/ (mode = "echo" /\ Got < Size(Last(requests)))
               THEN torn \cup {"result"} ELSE torn
  /\ cpc' = "ask"
  /\ UNCHANGED <<mode, conn, inVars, spc, session, calcVars, requests>>

(* Faulty variant of Enough: echo_client2 reads once, as echo_client does. *)
EnoughAnyway(received) == Len(received) > 0

Enough(received) == Len(received) >= Size(Last(requests))

(* echo_client2 reads on while recv_len < message_len.                     *)
ReadMore ==
  /\ mode = "echo2" /\ cpc = "wait" /\ outArrived > 0
  /\ TakeAnswer
  /\ shown' = shown \o SubSeq(out, 1, Got)
  /\ cpc' = IF Enough(shown') THEN "ask" ELSE "wait"
  /\ UNCHANGED <<mode, conn, inVars, spc, session, calcVars, requests, torn>>

(* The bytes up to the newline, if it has arrived: what fgets waits for.   *)
LineOf(bytes, arrived, first) ==
  LET n == Size(requests[first]) IN IF arrived >= n THEN {SubSeq(bytes, 1, n)} ELSE {}

(* echo_stdclient's fgets.                                                 *)
ReadLine ==
  /\ mode = "std" /\ cpc = "wait" /\ outArrived > 0
  /\ \E line \in LineOf(out, outArrived, out[1]) :
       /\ shown' = line
       /\ out' = SubSeq(out, Len(line) + 1, Len(out))
       /\ outArrived' = outArrived - Len(line)
  /\ cpc' = "ask"
  /\ UNCHANGED <<mode, conn, inVars, spc, session, calcVars, requests, torn>>

(* 0 or -1: the client ends, by break or by error_handling.  The fgets of  *)
(* echo_stdclient leaves the user's line where it is, which is shown as if *)
(* it had come from the server, and goes on.                               *)
ReadNoResult ==
  /\ cpc = "wait" /\ conn = "closed"
  /\ IF mode = "std"
       THEN /\ cpc' = "ask" /\ torn' = torn \cup {"unanswered"}
            /\ shown' = [b \in 1 .. Size(Last(requests)) |-> Len(requests)]
       ELSE cpc' = "gone" /\ UNCHANGED <<shown, torn>>
  /\ UNCHANGED <<mode, conn, inVars, outVars, spc, session, calcVars, requests>>

(* The user enters q, or stops the program, whatever it does.              *)
Quit ==
  /\ cpc \in {"ask", "wait"}
  /\ cpc' = "gone"
  /\ IF conn = "open" THEN conn' \in {"fin", "reset"} ELSE conn' = conn
  /\ UNCHANGED <<mode, inVars, outVars, spc, session, calcVars, requests, shown, torn>>

-----------------------------------------------------------------------------
(* The server.                                                             *)

(* The next client.  The one before has at most to see that it is over.    *)
Accept ==
  /\ spc = "accept" /\ session < CONNECTION_SIZE
  /\ session' = session + 1
  /\ conn' = "open" /\ cpc' = "ask" /\ shown' = <<>>
  /\ inq' = <<>> /\ inArrived' = 0 /\ out' = <<>> /\ outArrived' = 0
  /\ spc' = "read" /\ torn' = {}
  /\ UNCHANGED <<mode, calcVars, requests>>

(* accept fails and error_handling exits; or the loop is over.             *)
End ==
  /\ spc = "accept"
  /\ spc' = "exit"
  /\ UNCHANGED <<mode, conn, inVars, outVars, session, calcVars, clientVars, torn>>

Take(n) == /\ inq' = SubSeq(inq, n + 1, Len(inq))
           /\ inArrived' = inArrived - n

(* A read of the count that gets less than a count, or what is no count,   *)
(* leaves an int that is part new, part old: the state is lost.            *)
ReadCount ==
  /\ mode \notin EchoModes /\ spc = "read" /\ conn \in {"open", "fin"} /\ inArrived > 0
  /\ LET n     == Min2(inArrived, CountBytes)
         k     == inq[1][1]
         count == Len(requests[k].params)
     IN  /\ Take(n)
         /\ IF n < CountBytes \/ inq[1][2] # 0
              THEN spc' = "lost" /\ UNCHANGED <<conn, op_num, serving>>
              ELSE /\ op_num' = count /\ serving' = k
                   /\ IF count <= 0 THEN conn' = "closed" /\ spc' = "accept"
                                    ELSE conn' = conn /\ spc' = "params"
  /\ op_recv_len' = 0
  /\ message' = {}          \* no byte of another request belongs in it
  /\ UNCHANGED <<mode, outVars, session, cal_result, echo, clientVars, torn>>

(* read returns 0, or -1 after a reset.                                    *)
ReadEnd ==
  /\ mode # "std"
  /\ spc = "read" /\ (conn = "reset" \/ (conn = "fin" /\ inq = <<>>))
  /\ conn' = "closed" /\ spc' = "accept"
  /\ UNCHANGED <<mode, inVars, outVars, session, calcVars, clientVars, torn>>

(* Faulty variant of Place: each read starts where the first one did.      *)
PlaceAtStart(received) == IF mode = "int" THEN 0 ELSE 1

(* &message[op_recv_len / OP_PARAM_SIZE], an array of ints; or             *)
(* &message[op_recv_len + 1], an array of bytes.                           *)
Place(received) ==
  IF mode = "int" THEN OP_PARAM_SIZE * (received \div OP_PARAM_SIZE) ELSE received + 1

(* The bytes a read puts at place "at", and on.                            *)
Fill(at, n) ==
  LET new   == at .. at + n - 1
      Right(b) == inq[b - at + 1] = <<serving, CountBytes + b - Place(0)>>
  IN  message' = (message \ new) \cup {b \in new : Right(b)}

Whole(m) == \A b \in 0 .. op_total_len(op_num) - 1 : Place(0) + b \in m

(* One read of the inner loop, which asks for op_total_len bytes every     *)
(* time, and calculate after the last.  Once the client is gone read       *)
(* returns 0 for ever (after a reset -1 first) and the loop goes round and *)
(* round: no step of the model.                                            *)
ReadParams ==
  /\ spc = "params" /\ conn \in {"open", "fin"} /\ inArrived > 0
  /\ LET total == op_total_len(op_num)
         n     == Min2(inArrived, total)
         at    == Place(op_recv_len)
     IN  /\ Take(n)
         /\ op_recv_len' = op_recv_len + n
         /\ Fill(at, n)
         /\ IF op_recv_len + n < total
              THEN /\ spc' = "params" /\ cal_result' = cal_result
                   /\ torn' = IF mode = "int" /\ (op_recv_len + n) % OP_PARAM_SIZE # 0
                                THEN torn \cup {"int"} ELSE torn
              ELSE /\ spc' = "reply" /\ torn' = torn
                   /\ cal_result' \in IF Whole(message') THEN {calculate(requests[serving])}
                                                        ELSE Garbled
  /\ UNCHANGED <<mode, conn, outVars, session, op_num, serving, echo, clientVars>>

(* An echo server reads whatever has arrived.                              *)
ReadEcho ==
  /\ mode \in EchoModes \ {"std"}
  /\ spc = "read" /\ conn \in {"open", "fin"} /\ inArrived > 0
  /\ LET n == Min2(inArrived, BUF_SIZE)
     IN  Take(n) /\ echo' = [b \in 1 .. n |-> inq[b][1]]
  /\ spc' = "reply"
  /\ UNCHANGED <<mode, conn, outVars, session, op_num, op_recv_len, cal_result, message,
                 serving, clientVars, torn>>

(* The fgets of echo_stdserver.                                            *)
ReadEchoLine ==
  /\ mode = "std" /\ spc = "read" /\ conn \in {"open", "fin"} /\ inArrived > 0
  /\ \E line \in LineOf(inq, inArrived, inq[1][1]) :
       Take(Len(line)) /\ echo' = [b \in DOMAIN line |-> line[b][1]]
  /\ spc' = "reply"
  /\ UNCHANGED <<mode, conn, outVars, session, op_num, op_recv_len, cal_result, message,
                 serving, clientVars, torn>>

(* It meets the end: the loop sends the line before once more, and only    *)
(* then asks feof.  After an error it does not end.                        *)
ReadEndLine ==
  /\ mode = "std" /\ spc = "read"
  /\ \/ conn = "fin" /\ inq = <<>> /\ spc' = "last"
     \/ conn = "reset" /\ spc' \in {"reply", "last"}
  /\ UNCHANGED <<mode, conn, inVars, outVars, session, calcVars, clientVars, torn>>

Answer == IF mode \in EchoModes THEN echo
          ELSE [c \in 1 .. Length(cal_result) |-> serving]

(* The write: to a client that left it brings back a reset.                *)
Reply ==
  /\ spc = "reply" /\ conn \in {"open", "fin"}
  /\ IF conn = "open" THEN out' = out \o Answer /\ conn' = conn
                      ELSE out' = out /\ conn' \in {"fin", "reset"}
  /\ spc' = "read"
  /\ UNCHANGED <<mode, inVars, outArrived, session, calcVars, clientVars, torn>>

(* The write after the end, to a client that has left; feof, and both      *)
(* streams are closed.                                                     *)
ReplyLast ==
  /\ spc = "last"
  /\ conn' = "closed" /\ spc' = "accept"
  /\ UNCHANGED <<mode, inVars, outVars, session, calcVars, clientVars, torn>>

(* It fails (an echo server then reads again), or raises SIGPIPE, which no *)
(* server handles.                                                         *)
ReplyFails ==
  /\ spc \in {"reply", "last"} /\ conn = "reset"
  /\ \/ spc' = "killed" /\ conn' = "closed"
     \/ mode \in EchoModes /\ spc = "reply" /\ spc' = "read" /\ conn' = conn
     \/ mode \notin EchoModes /\ spc' = "accept" /\ conn' = "closed"
  /\ UNCHANGED <<mode, inVars, outVars, session, calcVars, clientVars, torn>>

-----------------------------------------------------------------------------
(* The server is stopped, by its user: external.                           *)
Stop ==
  /\ mode = "std" /\ spc \in {"read", "reply"} /\ conn = "open"
  /\ spc' = "killed" /\ conn' = "closed"
  /\ UNCHANGED <<mode, inVars, outVars, session, calcVars, clientVars, torn>>

Client == Ask \/ AskFails \/ ReadResult \/ ReadMore \/ ReadLine \/ ReadNoResult \/ Quit
Server ==
  \/ Accept \/ End \/ ReadEnd
  \/ ReadCount \/ ReadParams \/ ReadEcho \/ ReadEchoLine \/ ReadEndLine
  \/ Reply \/ ReplyLast \/ ReplyFails

(* From a lost state the model goes no further.                            *)
Next == /\ spc # "lost"
        /\ DeliverIn \/ DeliverOut \/ Client \/ Server \/ Stop

Spec == Init /\ [][Next]_vars

(* What was sent arrives, the server runs, and a client that waits reads.  *)
FairSpec ==
  /\ Spec /\ WF_vars(DeliverIn) /\ WF_vars(DeliverOut) /\ WF_vars(Server)
  /\ WF_vars(ReadResult \/ ReadMore \/ ReadLine \/ ReadNoResult)

-----------------------------------------------------------------------------
(* Properties.                                                             *)

(* What a result should be: the exact one, brought into range once.        *)
Exact(r) ==
  LET exact[i \in 1 .. Len(r.params)] ==
        IF i = 1 THEN r.params[1] ELSE Apply(r.op, exact[i - 1], r.params[i])
  IN  exact

Expected(r) ==
  IF r.params # <<>> /\ r.op \in {"+", "-", "*"} THEN Wrap(Exact(r)[Len(r.params)]) ELSE Err

(* However the stream is cut, the result is that of the request, as long   *)
(* as the client has read every result before in one piece and, in         *)
(* op_server, no read ends inside an int                                   *)
(* (op_server.c:143-152, op_server2.c:145-153).                            *)
ResultsCorrect ==
  mode \notin EchoModes /\ spc = "reply" /\ torn = {} =>
    cal_result = Expected(requests[serving])

(* What a client shows is the answer to its last request (or how that      *)
(* begins): echo_client2 always, since it counts what comes back           *)
(* (echo_client2.c:60-67); echo_stdclient as long as the server is there;  *)
(* the others as long as every answer has come in one piece and is no      *)
(* longer than one read takes (op_client.c:80-88, echo_client.c:54-63).    *)
ClientInStep ==
  /\ cpc = "ask" /\ shown # <<>>
  /\ mode = "echo2" \/ torn \cap {"result", "unanswered"} = {}
  =>
    /\ \A c \in DOMAIN shown : shown[c] = Len(requests)
    /\ mode \in EchoModes => Len(shown) = Size(Last(requests))
    /\ out = <<>> /\ inq = <<>>

(* A request is answered, or refused by closing, in the end: the server    *)
(* does not wait for bytes that nobody is going to send, however many      *)
(* reads the request takes (op_server.c:145-148), nor an echo client for   *)
(* more than comes back.  A client that left part of a result unread is    *)
(* out of step; a count cut in two leads nowhere.                          *)
Answered ==
  \A k \in 1 .. MaxRequests :
    (cpc = "wait" /\ Len(requests) = k) ~>
      (cpc # "wait" \/ Len(requests) > k \/ "result" \in torn \/ spc \in {"lost", "killed"})
=============================================================================
