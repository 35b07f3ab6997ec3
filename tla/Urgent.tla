------------------------------- MODULE Urgent -------------------------------
(***************************************************************************)
(* ch13: receiving a stream with an eye on what comes.                     *)
(*   "oob"   oob_send.c and oob_recv.c: some bytes are sent with MSG_OOB;  *)
(*           a handler of SIGURG reads them, recv_data the others          *)
(*   "peek"  peek_send.c and peek_recv.c: the receiver looks at what has   *)
(*           arrived before it takes it                                    *)
(*                                                                         *)
(* A byte is its position in the stream.  Of a piece sent with MSG_OOB the *)
(* last byte is urgent.  The kernel remembers ONE urgent byte, the mark:   *)
(* a recv stops in front of it, the next one steps over it, and when       *)
(* another one arrives it becomes an ordinary byte of the stream.          *)
(***************************************************************************)
EXTENDS Program, Integers, Sequences

CONSTANTS
  Script,            (* oob_send's pieces, records [bytes, oob]            *)
  MaxLine, MaxPieces, (* peek_send's lines: bounds the model                *)
  RecvSize           (* the most one recv returns                          *)

ASSUME UrgentAssumption ==
  /\ Script \in Seq([bytes : Nat \ {0}, oob : BOOLEAN])
  /\ MaxLine \in Nat /\ MaxPieces \in Nat /\ RecvSize \in Nat \ {0}

UrgentPrograms == {"oob", "peek"}

VARIABLES
  pieces, sentTo,    (* pieces sent; the position they end at              *)
  ended,             (* the sender has closed                              *)
  inq,               (* bytes that arrived and were not read               *)
  mark, markRead,    (* the urgent byte, 0 for none; MSG_OOB has read it   *)
  owner, handler,    (* F_SETOWN and sigaction were called                 *)
  sigurg,            (* SIGURG is pending                                  *)
  recvpc,
  inband, urgent,    (* the bytes recv_data and urg_handler showed         *)
  urgents,           (* history: urgent bytes the handler was set up for,  *)
  overtaken          (* ... and those another one came in front of         *)

recvVars   == <<owner, handler, recvpc, inband, urgent>>
markVars   == <<mark, markRead, sigurg, urgents, overtaken>>
urgentVars == <<program, pieces, sentTo, ended, inq, markVars, recvVars>>

UrgentInit ==
  /\ pieces = 0 /\ sentTo = 0 /\ ended = FALSE
  /\ inq = <<>> /\ mark = 0 /\ markRead = FALSE
  /\ owner = FALSE /\ handler = FALSE /\ sigurg = FALSE
  /\ recvpc = IF program = "oob" THEN "setup" ELSE "peek"
  /\ inband = <<>> /\ urgent = <<>> /\ urgents = {} /\ overtaken = {}

-----------------------------------------------------------------------------
(* The senders: what they send has arrived.                                *)

Arrive(n) ==
  /\ pieces' = pieces + 1 /\ sentTo' = sentTo + n
  /\ inq' = inq \o [b \in 1 .. n |-> sentTo + b]
  /\ UNCHANGED <<program, ended, recvVars>>

SendOrdinary ==
  /\ program = "oob" /\ pieces < Len(Script) /\ ~Script[pieces + 1].oob
  /\ Arrive(Script[pieces + 1].bytes)
  /\ UNCHANGED markVars

(* The signal goes to the owner; without a handler it is ignored.  An old  *)
(* mark that is next to be read is skipped for good.                       *)
SendUrgent ==
  /\ program = "oob" /\ pieces < Len(Script) /\ Script[pieces + 1].oob
  /\ LET n    == Script[pieces + 1].bytes
         next == inq # <<>> /\ Head(inq) = mark
     IN  /\ pieces' = pieces + 1 /\ sentTo' = sentTo + n
         /\ inq' = (IF next THEN Tail(inq) ELSE inq) \o [b \in 1 .. n |-> sentTo + b]
         /\ mark' = sentTo + n /\ markRead' = FALSE
         /\ urgents' = IF handler THEN urgents \cup {mark'} ELSE urgents
  /\ sigurg' = (sigurg \/ (owner /\ handler))
  /\ overtaken' = IF mark # 0 THEN overtaken \cup {mark} ELSE overtaken
  /\ UNCHANGED <<program, ended, recvVars>>

(* An empty line is a write of nothing.                                    *)
SendLine ==
  /\ program = "peek" /\ pieces < MaxPieces
  /\ ~ended /\ \E n \in 0 .. MaxLine : Arrive(n)
  /\ UNCHANGED markVars

(* oob_send closes after its last piece; the user of peek_send enters q.   *)
CloseSender ==
  /\ ~ended /\ (program = "oob" => pieces = Len(Script))
  /\ ended' = TRUE
  /\ UNCHANGED <<program, pieces, sentTo, inq, markVars, recvVars>>

OobSender  == SendOrdinary \/ SendUrgent \/ (program = "oob" /\ CloseSender)
PeekSender == SendLine \/ (program = "peek" /\ CloseSender)

-----------------------------------------------------------------------------
(* oob_recv.                                                               *)

(* After accept: what has arrived by then raised no signal.                *)
SetOwner ==
  /\ program = "oob" /\ recvpc = "setup" /\ ~owner
  /\ owner' = TRUE
  /\ UNCHANGED <<program, pieces, sentTo, ended, inq, markVars, handler, recvpc, inband, urgent>>

(* Faulty variant: without F_SETOWN.                                       *)
SetHandlerAlone ==
  /\ program = "oob" /\ recvpc = "setup"
  /\ handler' = TRUE /\ recvpc' = "recv"
  /\ UNCHANGED <<program, pieces, sentTo, ended, inq, markVars, owner, inband, urgent>>

SetHandler ==
  /\ program = "oob" /\ recvpc = "setup" /\ owner
  /\ handler' = TRUE /\ recvpc' = "recv"
  /\ UNCHANGED <<program, pieces, sentTo, ended, inq, markVars, owner, inband, urgent>>

(* urg_handler, between two steps of recv_data, which do not pass a mark   *)
(* whose signal is pending: its recv finds the byte.                       *)
urg_handler ==
  /\ sigurg
  /\ sigurg' = FALSE
  /\ urgent' = Append(urgent, mark) /\ markRead' = TRUE
  /\ UNCHANGED <<program, pieces, sentTo, ended, inq, mark, urgents, overtaken,
                 owner, handler, recvpc, inband>>

(* How far the mark is from the front, of the bytes a recv may take.       *)
ToMark(q) == LET at == {k \in DOMAIN q : q[k] = mark}
             IN  IF at = {} THEN Len(q) ELSE (CHOOSE k \in at : TRUE) - 1

(* A recv: it steps over a mark in front, and gets what is before the next *)
(* one.                                                                    *)
Receive(next) ==
  LET front == inq # <<>> /\ Head(inq) = mark
      rest  == IF front THEN Tail(inq) ELSE inq
      n     == IF ToMark(rest) < RecvSize THEN ToMark(rest) ELSE RecvSize
  IN  /\ rest # <<>>
      /\ inband' = inband \o SubSeq(rest, 1, n)
      /\ inq' = SubSeq(rest, n + 1, Len(rest))
      /\ mark' = IF front THEN 0 ELSE mark
      /\ recvpc' = next
      /\ UNCHANGED <<program, pieces, sentTo, ended, markRead, sigurg, urgents, overtaken,
                     owner, handler, urgent>>

(* In front of a mark with the signal pending it fails with EINTR, which   *)
(* the loop ignores: the handler is next.                                  *)
RecvData ==
  /\ program = "oob" /\ recvpc = "recv"
  /\ ~ (sigurg /\ inq # <<>> /\ Head(inq) = mark)
  /\ Receive("recv")

(* 0 ends the loop.                                                        *)
RecvEnd ==
  /\ program = "oob" /\ recvpc = "recv" /\ ended /\ ~sigurg
  /\ inq = <<>> \/ inq = <<mark>>
  /\ recvpc' = "done"
  /\ UNCHANGED <<program, pieces, sentTo, ended, inq, markVars, owner, handler, inband, urgent>>

OobReceiver == SetOwner \/ SetHandler \/ urg_handler \/ RecvData \/ RecvEnd

-----------------------------------------------------------------------------
(* peek_recv.                                                              *)

(* MSG_PEEK takes nothing; 0 is the end; -1, nothing there yet, tries      *)
(* again a second later: no step.                                          *)
Peek ==
  /\ program = "peek" /\ recvpc = "peek"
  /\ \/ inq # <<>> /\ recvpc' = "take"
     \/ inq = <<>> /\ ended /\ recvpc' = "done"
  /\ UNCHANGED <<program, pieces, sentTo, ended, inq, markVars, owner, handler, inband, urgent>>

TakePeeked == program = "peek" /\ recvpc = "take" /\ Receive("peek")

PeekReceiver == Peek \/ TakePeeked

-----------------------------------------------------------------------------
UrgentNext == OobSender \/ PeekSender \/ OobReceiver \/ PeekReceiver

(* The receivers run and the signal is delivered; oob_send asks nobody.    *)
UrgentFairness ==
  /\ WF_urgentVars(OobSender) /\ WF_urgentVars(OobReceiver) /\ WF_urgentVars(PeekReceiver)

-----------------------------------------------------------------------------
(* Properties.                                                             *)

EndOf[k \in 0 .. Len(Script)] == IF k = 0 THEN 0 ELSE EndOf[k - 1] + Script[k].bytes

IsUrgent(b) == program = "oob" /\ \E k \in DOMAIN Script : Script[k].oob /\ EndOf[k] = b

(* What the receiving loop shows are the ordinary bytes in their order,    *)
(* each once, and in the end all of them, whenever the signal comes in     *)
(* between and whether they were looked at before.  An urgent byte that    *)
(* finds the handler installed is shown as urgent, once: it is not lost to *)
(* the recv that its signal interrupts.  Only one that another overtakes   *)
(* may be missing, or among the ordinary (oob_recv.c:20-43,                *)
(* peek_recv.c:21-41).                                                     *)
BytesShown ==
  /\ \A list \in {inband, urgent} :
       \A i, j \in DOMAIN list : i < j => list[i] < list[j]
  /\ \A i \in DOMAIN inband : IsUrgent(inband[i]) => inband[i] \in overtaken
  /\ recvpc = "done" =>
       \A b \in 1 .. sentTo :
         \/ \E i \in DOMAIN inband : inband[i] = b
         \/ \E i \in DOMAIN urgent : urgent[i] = b
         \/ b \in overtaken \/ (IsUrgent(b) /\ b \notin urgents)

(* Both receiving loops see the end of the stream, though the last thing   *)
(* in it be an urgent byte that no recv returns (oob_recv.c:34,            *)
(* peek_recv.c:22-25).                                                     *)
ReceiverEnds == ended ~> recvpc = "done"
=============================================================================
