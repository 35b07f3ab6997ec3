------------------------ MODULE SmallProgramsProofs ------------------------
(***************************************************************************)
(* The small programs, for texts of any length and chunks of any size, any *)
(* number of datagrams and clients, any script of urgent pieces.           *)
(***************************************************************************)
EXTENDS SmallPrograms, SequenceTheorems, WellFoundedInduction, TLAPS

(* A nonempty set of numbers has a least element: with it, a proof by       *)
(* induction is one from the least counterexample.                         *)
LEMMA LeastOf ==
  ASSUME NEW S, S \subseteq Nat, S # {}
  PROVE  \E x \in S : \A y \in S : x <= y
  <1> DEFINE R == {p \in Nat \X Nat : p[1] < p[2]}
  <1>1. IsWellFoundedOn(R, Nat)
    BY NatLessThanWellFounded DEF OpToRel
  <1> HIDE DEF R
  <1>2. PICK x \in S : \A y \in S : ~ (<<y, x>> \in R)
    BY <1>1, WFMin
  <1>3. ASSUME NEW y \in S PROVE x <= y
    <2>1. ~ (y < x)
      BY <1>2 DEF R
    <2>2. QED
      BY <2>1
  <1>4. QED
    BY <1>3

-----------------------------------------------------------------------------
(* Transfers.                                                              *)

OneWayTypes ==
  /\ size \in Nat /\ at \in Nat
  /\ toClient \in Seq(Nat) /\ taken \in Seq(Nat)
  /\ program = "hello2" => size % BUF_SIZE = 0

(* What the client has read and what is on its way are the bytes sent.     *)
Stream ==
  cpc # "gone" => client = "open" /\ taken \o toClient = [b \in 1 .. at |-> b]

(* How much of the text has been sent; hello_server2 has a whole number of *)
(* messages left.                                                          *)
SoFar ==
  /\ spc \in {"send", "end"} => ~sentEnd
  /\ spc = "send" => /\ program \in OneWayPrograms /\ at <= size
                     /\ program \in Seps \cup {"hello"} => at = 0
                     /\ program = "hello2" => \E k \in Nat : size - at = k * BUF_SIZE
  /\ spc = "end" => at = size
  /\ sentEnd => at = size \/ spc = "killed"

ReadToEnd ==
  cpc \in {"thank", "close"} /\ program # "hello" => sentEnd /\ toClient = <<>>

OneWayInv == OneWayTypes /\ Stream /\ SoFar /\ ReadToEnd

LEMMA MultipleLess ==
  ASSUME NEW k \in Nat, NEW B \in Nat \ {0}, k * B > 0
  PROVE  k * B >= B /\ k * B - B = (k - 1) * B /\ k - 1 \in Nat
  <1>1. k # 0
    OBVIOUS
  <1>2. k - 1 \in Nat /\ k * B - B = (k - 1) * B
    BY <1>1
  <1>3. (k - 1) * B >= 0
    BY <1>2
  <1>4. QED
    BY <1>1, <1>2, <1>3

LEMMA Divided ==
  ASSUME NEW n \in Nat, NEW B \in Nat \ {0}, n % B = 0
  PROVE  \E k \in Nat : n = k * B
  <1>1. n = B * (n \div B) + (n % B) /\ n \div B \in Nat
    OBVIOUS
  <1>2. n = (n \div B) * B
    BY <1>1
  <1>3. QED
    BY <1>1, <1>2

(* Where a sequence is cut does not matter.                                *)
LEMMA Associative ==
  \A r, s, t \in Seq(Nat) : (r \o s) \o t = r \o (s \o t) /\ r \o s \in Seq(Nat)
  OBVIOUS

LEMMA OneWayStarts == AllInit => OneWayInv
  <1> SUFFICES ASSUME AllInit PROVE OneWayInv
    OBVIOUS
  <1>1. OneWayTypes
    BY SizesAssumption DEF AllInit, OneWayInit, OneWayTypes
  <1>2. Stream /\ SoFar /\ ReadToEnd
    BY DEF AllInit, OneWayInit, Stream, SoFar, ReadToEnd
  <1>3. QED
    BY <1>1, <1>2 DEF OneWayInv

LEMMA AcceptKeeps ==
  ASSUME OneWayInv, Accept
  PROVE  OneWayInv'
  <1> USE DEF OneWayInv
  <1>1. /\ size' = size /\ at' = 0 /\ toClient' = <<>> /\ taken' = <<>>
        /\ client' = "open" /\ sentEnd' = FALSE /\ spc' = "send" /\ cpc' = "read"
        /\ program' = program /\ program \in OneWayPrograms
    BY DEF Accept, oneWayConf
  <1>2. OneWayTypes'
    BY <1>1 DEF OneWayTypes
  <1>3. Stream'
    BY <1>1 DEF Stream
  <1>4. program = "hello2" => \E k \in Nat : size = k * BUF_SIZE
    BY Divided, SizesAssumption DEF OneWayTypes
  <1>5. SoFar'
    BY <1>1, <1>4 DEF SoFar, OneWayTypes
  <1>6. QED
    BY <1>1, <1>2, <1>3, <1>5 DEF ReadToEnd

(* A write adds the next bytes of the text.                                *)
LEMMA SendKeeps ==
  ASSUME OneWayInv, spc = "send", NEW n \in Nat, NEW next \in {"send", "end"},
         SendMore(n, next), at + n <= size,
         next = "end" => at + n = size,
         next = "send" => /\ program \notin Seps \cup {"hello"}
                          /\ program = "hello2" =>
                               \E k \in Nat : size - (at + n) = k * BUF_SIZE
  PROVE  OneWayInv'
  <1> USE DEF OneWayInv
  <1> DEFINE chunk == [b \in 1 .. n |-> at + b]
  <1>1. /\ UNCHANGED <<program, size, sentEnd, cpc, taken>> /\ at' = at + n
        /\ spc' \in {next, "killed"}
        /\ \/ client = "open" /\ client' = client /\ toClient' = toClient \o chunk
           \/ client # "open" /\ toClient' = toClient
    BY DEF SendMore, SendOn, SendAfterReset, oneWayConf, oneWayClient
  <1>2. chunk \in Seq(Nat) /\ Len(chunk) = n
    <2>1. chunk \in [1 .. n -> Nat]
      BY DEF OneWayTypes
    <2>2. QED
      BY <2>1
  <1>3. OneWayTypes'
    <2> HIDE DEF chunk
    <2>1. toClient \in Seq(Nat) /\ toClient' \in {toClient, toClient \o chunk}
      BY <1>1 DEF OneWayTypes
    <2>2. \A c \in Seq(Nat) : toClient \o c \in Seq(Nat)
      BY <2>1, Associative
    <2>3. toClient' \in Seq(Nat)
      BY <1>2, <2>1, <2>2, Zenon
    <2>4. QED
      BY <1>1, <2>3 DEF OneWayTypes
  <1>4. Stream'
    <2> SUFFICES ASSUME cpc # "gone"
                 PROVE  client' = "open" /\ taken \o toClient' = [b \in 1 .. at + n |-> b]
      BY <1>1 DEF Stream
    <2>1. client = "open" /\ client' = "open" /\ toClient' = toClient \o chunk
      BY <1>1 DEF Stream
    <2>2. taken \o toClient' = (taken \o toClient) \o chunk
      <3>1. taken \in Seq(Nat) /\ toClient \in Seq(Nat)
        BY DEF OneWayTypes
      <3> HIDE DEF chunk
      <3>2. QED
        BY <1>2, <2>1, <3>1, Associative, ZenonT(30)
    <2>3. taken \o toClient = [b \in 1 .. at |-> b]
      BY DEF Stream
    <2>4. [b \in 1 .. at |-> b] \o chunk = [b \in 1 .. at + n |-> b]
      BY <1>2 DEF OneWayTypes
    <2>5. QED
      BY <2>1, <2>2, <2>3, <2>4
  <1>5. SoFar'
    BY <1>1 DEF SoFar
  <1>6. ReadToEnd'
    BY <1>1 DEF ReadToEnd, SoFar
  <1>7. QED
    BY <1>3, <1>4, <1>5, <1>6

LEMMA ServerSends ==
  ASSUME OneWayInv, SendFile \/ SendHello \/ SendHellos \/ SendLines
  PROVE  OneWayInv'
  <1> USE DEF OneWayInv
  <1>0. size \in Nat /\ at \in Nat /\ BUF_SIZE \in Nat \ {0}
    BY SizesAssumption DEF OneWayTypes
  <1>1. CASE SendFile
    <2> DEFINE n == Min2(BUF_SIZE, size - at)
               next == IF n < BUF_SIZE THEN "end" ELSE "send"
    <2>1. program = "file" /\ spc = "send" /\ SendMore(n, next)
      BY <1>1 DEF SendFile
    <2>2. at <= size
      BY <2>1 DEF SoFar
    <2>3. n \in Nat /\ at + n <= size /\ (n < BUF_SIZE => at + n = size)
      BY <1>0, <2>2 DEF Min2
    <2>4. QED
      BY <2>1, <2>3, SendKeeps DEF Seps
  <1>2. CASE SendHello \/ SendLines
    <2>1. spc = "send" /\ program \in Seps \cup {"hello"} /\ SendMore(size, "end")
      BY <1>2 DEF SendHello, SendLines, SendMore
    <2>2. at = 0
      BY <2>1 DEF SoFar
    <2>3. QED
      BY <1>0, <2>1, <2>2, SendKeeps
  <1>3. CASE SendHellos
    <2> DEFINE next == IF at + BUF_SIZE < size THEN "send" ELSE "end"
    <2>1. /\ program = "hello2" /\ spc = "send" /\ at < size
          /\ SendMore(BUF_SIZE, next)
      BY <1>3 DEF SendHellos
    <2>2. PICK k \in Nat : size - at = k * BUF_SIZE
      BY <2>1 DEF SoFar
    <2>3. k * BUF_SIZE > 0
      BY <1>0, <2>1, <2>2
    <2>4. /\ k * BUF_SIZE >= BUF_SIZE /\ k - 1 \in Nat
          /\ k * BUF_SIZE - BUF_SIZE = (k - 1) * BUF_SIZE
      BY <1>0, <2>3, MultipleLess
    <2>5. at + BUF_SIZE <= size /\ size - (at + BUF_SIZE) = (k - 1) * BUF_SIZE
      BY <1>0, <2>2, <2>4
    <2>6. next = "end" => at + BUF_SIZE = size
      BY <1>0, <2>5
    <2>7. QED
      BY <1>0, <2>1, <2>4, <2>5, <2>6, SendKeeps DEF Seps
  <1>4. QED
    BY <1>1, <1>2, <1>3

(* The servers' other steps neither send nor read: the end of the stream   *)
(* comes after the whole text, unless the server was stopped.              *)
LEMMA ServerEnds ==
  ASSUME OneWayInv,
         UNCHANGED <<program, size, at, toClient, cpc, taken, client>>,
         spc \in {"end", "listen", "noread", "close"} \/ spc' = "killed",
         spc' \notin {"send", "end"}, sentEnd => sentEnd',
         sentEnd' => sentEnd \/ spc = "end" \/ spc' = "killed"
  PROVE  OneWayInv'
  BY DEF OneWayInv, OneWayTypes, Stream, SoFar, ReadToEnd

LEMMA ServerKeeps ==
  ASSUME OneWayInv, Server \/ StopServer
  PROVE  OneWayInv'
  <1>1. CASE ShutdownFile \/ ShutdownSep2 \/ CloseHello \/ FcloseSep
    BY <1>1, ServerEnds DEF ShutdownFile, ShutdownSep2, CloseHello, FcloseSep, EndSending,
       oneWayConf, oneWayClient
  <1>2. CASE ListenFile \/ ListenSep2 \/ ListenSep \/ CloseSep
    BY <1>2, ServerEnds DEF ListenFile, ListenSep2, ListenSep, CloseSep, Heard,
       oneWayConf, oneWayClient
  <1>3. CASE StopServer
    BY <1>3, ServerEnds DEF StopServer, oneWayConf, oneWayClient
  <1>4. QED
    BY <1>1, <1>2, <1>3, ServerSends DEF Server, HelloServer, HelloServer2, FileServer,
       SepServer, SepServer2

LEMMA ClientKeeps ==
  ASSUME OneWayInv, Client \/ StopClient
  PROVE  OneWayInv'
  <1> USE DEF OneWayInv
  <1>1. ASSUME NEW next \in {"read", "close"}, Reads(next), next = "close" => program = "hello"
        PROVE  OneWayInv'
    <2>1. PICK n \in 1 .. Len(toClient) :
            /\ taken' = taken \o SubSeq(toClient, 1, n)
            /\ toClient' = SubSeq(toClient, n + 1, Len(toClient))
      BY <1>1 DEF Reads
    <2>2. /\ UNCHANGED <<program, size, sentEnd, client, spc, at>>
          /\ cpc = "read" /\ cpc' = next
      BY <1>1 DEF Reads, oneWayConf, oneWayServer
    <2>3. taken \in Seq(Nat) /\ toClient \in Seq(Nat)
      BY DEF OneWayTypes
    <2> DEFINE s == SubSeq(toClient, 1, n)
               t == SubSeq(toClient, n + 1, Len(toClient))
    <2>4. s \in Seq(Nat) /\ t \in Seq(Nat) /\ s \o t = toClient
      BY <2>3
    <2>5. taken' \o toClient' = taken \o toClient /\ taken' \in Seq(Nat) /\ toClient' \in Seq(Nat)
      <3> HIDE DEF s, t
      <3>1. taken' = taken \o s /\ toClient' = t
        BY <2>1 DEF s, t
      <3>2. \A a, b \in Seq(Nat) : (taken \o a) \o b = taken \o (a \o b) /\ taken \o a \in Seq(Nat)
        BY <2>3, Associative
      <3>3. QED
        BY <2>4, <3>1, <3>2, Zenon
    <2>6. OneWayTypes' /\ SoFar'
      BY <2>2, <2>5 DEF OneWayTypes, SoFar
    <2>7. Stream'
      BY <2>2, <2>5 DEF Stream
    <2>8. ReadToEnd'
      BY <1>1, <2>2 DEF ReadToEnd
    <2>9. QED
      BY <2>6, <2>7, <2>8
  <1>2. ASSUME NEW next, ReadsEnd(next) PROVE OneWayInv'
    BY <1>2 DEF ReadsEnd, OneWayTypes, Stream, SoFar, ReadToEnd, oneWayConf, oneWayServer
  <1>3. CASE Thank
    BY <1>3 DEF Thank, OneWayTypes, Stream, SoFar, ReadToEnd, oneWayConf, oneWayServer
  <1>4. CASE Gone
    BY <1>4 DEF Gone, OneWayTypes, Stream, SoFar, ReadToEnd, oneWayConf, oneWayServer
  <1>5. QED
    BY <1>1, <1>2, <1>3, <1>4 DEF Client, HelloClient, HelloClient2, FileClient, SepClient,
       Close, StopClient

LEMMA OneWayStays ==
  ASSUME OneWayInv, UNCHANGED oneWayVars
  PROVE  OneWayInv'
  BY DEF OneWayInv, OneWayTypes, Stream, SoFar, ReadToEnd, oneWayVars, oneWayConf,
         oneWayServer, oneWayClient

LEMMA OneWayWhole == OneWayInv => ArrivesWhole
  <1> SUFFICES ASSUME OneWayInv, cpc \in {"thank", "close"}, program # "hello", spc # "killed"
               PROVE  taken = [b \in 1 .. size |-> b]
    BY DEF ArrivesWhole
  <1>1. toClient = <<>> /\ at = size
    BY DEF OneWayInv, ReadToEnd, SoFar
  <1>2. taken \o toClient = [b \in 1 .. at |-> b] /\ taken \in Seq(Nat)
    BY DEF OneWayInv, Stream, OneWayTypes
  <1>3. QED
    BY <1>1, <1>2

(* The thanks of a client that has written them: still on their way to a    *)
(* server that listens, or printed.  It has read to the end, so that it can *)
(* close without a reset.                                                  *)
ThanksOnTheWay ==
  said => /\ sentEnd /\ toClient = <<>> /\ client # "reset" /\ cpc \in {"close", "gone"}
          /\ spc = "listen" => thanks \/ (program = "file" /\ printed = session)

LEMMA ThanksOnTheWayStarts == AllInit => ThanksOnTheWay
  BY DEF AllInit, OneWayInit, ThanksOnTheWay

LEMMA ThanksOnTheWayKept ==
  ASSUME OneWayInv, ThanksOnTheWay, OneWayNext
  PROVE  ThanksOnTheWay'
  <1>1. CASE Accept
    BY <1>1 DEF Accept, ThanksOnTheWay
  <1>2. CASE Server \/ StopServer
    <2>1. ASSUME SendFile \/ SendHello \/ SendHellos \/ SendLines PROVE ~said /\ ~said'
      <3>1. spc = "send" /\ said' = said
        BY <2>1 DEF SendFile, SendHello, SendHellos, SendLines, SendMore, SendOn,
           SendAfterReset, oneWayClient
      <3>2. QED
        BY <3>1 DEF OneWayInv, SoFar, ThanksOnTheWay
    <2>2. ASSUME ShutdownFile \/ ShutdownSep2 \/ CloseHello \/ FcloseSep
          PROVE  ~said /\ ~said'
      <3>1. spc = "end" /\ said' = said
        BY <2>2 DEF ShutdownFile, ShutdownSep2, CloseHello, FcloseSep, EndSending, oneWayClient
      <3>2. QED
        BY <3>1 DEF OneWayInv, SoFar, ThanksOnTheWay
    <2>3. CASE ListenFile
      BY <2>3 DEF ListenFile, Heard, ThanksOnTheWay, oneWayConf, oneWayClient
    <2>4. CASE ListenSep2 \/ ListenSep \/ CloseSep \/ StopServer
      <3>1. spc' # "listen" /\ UNCHANGED <<toClient, client, said, cpc>> /\ (sentEnd => sentEnd')
        BY <2>4 DEF ListenSep2, ListenSep, CloseSep, StopServer, Heard, oneWayClient
      <3>2. QED
        BY <3>1 DEF ThanksOnTheWay
    <2>5. QED
      BY <1>2, <2>1, <2>2, <2>3, <2>4 DEF Server, HelloServer, HelloServer2, FileServer,
         SepServer, SepServer2, ThanksOnTheWay
  <1>3. CASE Client \/ StopClient
    <2>1. ASSUME NEW next, Reads(next) \/ ReadsEnd(next) PROVE ThanksOnTheWay'
      BY <2>1 DEF Reads, ReadsEnd, ThanksOnTheWay
    <2>2. ASSUME program # "hello", Thank PROVE ThanksOnTheWay'
      BY <2>2 DEF Thank, ThanksOnTheWay, OneWayInv, ReadToEnd, Stream, oneWayConf, oneWayServer
    <2>3. CASE Gone
      BY <2>3 DEF Gone, ThanksOnTheWay, oneWayConf, oneWayServer
    <2>4. QED
      BY <1>3, <2>1, <2>2, <2>3 DEF Client, HelloClient, HelloClient2, FileClient, SepClient,
         Close, StopClient, Seps
  <1>4. QED
    BY <1>1, <1>2, <1>3 DEF OneWayNext

LEMMA PrintsOwn ==
  ASSUME ThanksOnTheWay, OneWayNext,
         spc = "listen", spc' \notin {"listen", "killed"}, said
  PROVE  printed' = session
  <1>1. CASE Client \/ StopClient
    <2>1. spc' = spc
      BY <1>1 DEF Client, StopClient, HelloClient, HelloClient2, FileClient, SepClient, Reads,
         ReadsEnd, Thank, Close, Gone, oneWayServer
    <2>2. QED
      BY <2>1
  <1>2. CASE ListenFile \/ ListenSep2
    BY <1>2 DEF ListenFile, ListenSep2, ThanksOnTheWay
  <1>3. CASE Accept \/ StopServer \/ (Server /\ ~ListenFile /\ ~ListenSep2)
    BY <1>3 DEF Accept, StopServer, Server, HelloServer, HelloServer2, FileServer, SepServer,
       SepServer2, SendFile, SendHello, SendHellos, SendLines, ShutdownFile, ShutdownSep2,
       CloseHello, FcloseSep, ListenSep, CloseSep
  <1>4. QED
    BY <1>1, <1>2, <1>3 DEF OneWayNext

-----------------------------------------------------------------------------
(* The datagram echo.                                                      *)

(* The two ways the k-th message of a client is on: its own and the echo.  *)
Letter(d, c, k) == d \in {Datagram(Host, c, <<c, k>>), Datagram(c, Host, <<c, k>>)}

EchoTypes ==
  /\ asked \in [Clients -> Nat] /\ upc \in [Clients -> {"ask", "wait", "gone"}]
  /\ shown \in [Clients -> Seq(Clients \X Nat)]

(* A client that waits has one message without an answer.                  *)
Counts(c) ==
  /\ upc[c] = "ask" => asked[c] = Len(shown[c])
  /\ upc[c] = "wait" => asked[c] = Len(shown[c]) + 1

OnTheWay == \A d \in net : \E c \in Clients : \E k \in 1 .. asked[c] : Letter(d, c, k)

(* Until the network doubles one, the last message asked is on its way at  *)
(* most once, there or back, and no other is.                              *)
OnlyTheLast(c) ==
  c \notin doubled =>
    \A d \in net, k \in Nat :
      Letter(d, c, k) => /\ k = asked[c] /\ upc[c] # "ask"
                         /\ \A e \in net, j \in Nat : Letter(e, c, j) => e = d

OwnShown(c) ==
  \A k \in DOMAIN shown[c] : /\ shown[c][k] \in {c} \X (1 .. k)
                             /\ c \notin doubled => shown[c][k] = <<c, k>>

EchoInv ==
  program = "uecho" =>
    EchoTypes /\ OnTheWay /\ \A c \in Clients : Counts(c) /\ OnlyTheLast(c) /\ OwnShown(c)

(* A letter tells whose it is, and which.                                  *)
LEMMA OneSender ==
  ASSUME NEW b \in Clients, NEW c \in Clients, NEW j, NEW k, NEW d,
         Letter(d, b, j), Letter(d, c, k)
  PROVE  b = c /\ j = k
  <1>1. d.text = <<b, j>> /\ d.text = <<c, k>>
    BY DEF Letter, Datagram
  <1>2. QED
    BY <1>1

LEMMA EchoStarts == AllInit => EchoInv
  BY DEF AllInit, DatagramsInit, EchoInv, EchoTypes, OnTheWay, Counts, OnlyTheLast, OwnShown

(* A client asks; what it sends may be lost.                               *)
LEMMA AskKeeps ==
  ASSUME EchoInv, NEW c \in Clients, AskEcho(c) \/ AskNothing(c)
  PROVE  EchoInv'
  <1> DEFINE d == Datagram(Host, c, <<c, asked[c] + 1>>)
  <1>1. /\ program = "uecho" /\ upc[c] = "ask"
        /\ asked' = [asked EXCEPT ![c] = asked[c] + 1]
        /\ upc' = [upc EXCEPT ![c] = "wait"]
        /\ UNCHANGED <<program, shown, doubled>>
    BY DEF AskEcho, AskNothing
  <1>2. EchoTypes /\ OnTheWay /\ \A b \in Clients : Counts(b) /\ OnlyTheLast(b) /\ OwnShown(b)
    BY <1>1 DEF EchoInv
  <1>3. asked'[c] = asked[c] + 1
    BY <1>1, <1>2 DEF EchoTypes
  <1>4. net' \in {net, net \cup {d}}
    BY <1>3 DEF AskEcho, AskNothing, Send
  <1>5. EchoTypes'
    BY <1>1, <1>2 DEF EchoTypes
  <1>6. Letter(d, c, asked'[c])
    BY <1>3 DEF Letter
  <1> HIDE DEF d
  <1>7. OnTheWay'
    <2> SUFFICES ASSUME NEW e \in net'
                 PROVE  \E b \in Clients : \E k \in 1 .. asked'[b] : Letter(e, b, k)
      BY DEF OnTheWay, Letter
    <2>1. CASE e = d
      <3>1. asked'[c] \in 1 .. asked'[c]
        BY <1>2, <1>3 DEF EchoTypes
      <3>2. QED
        BY <2>1, <3>1, <1>6
    <2>2. CASE e \in net
      <3>1. PICK b \in Clients : \E k \in 1 .. asked[b] : Letter(e, b, k)
        BY <2>2, <1>2 DEF OnTheWay
      <3>2. 1 .. asked[b] \subseteq 1 .. asked'[b]
        BY <1>1, <1>2 DEF EchoTypes
      <3>3. QED
        BY <3>1, <3>2
    <2>3. QED
      BY <1>4, <2>1, <2>2
  <1>8. ASSUME NEW b \in Clients PROVE Counts(b)'
    BY <1>1, <1>2 DEF Counts, EchoTypes
  <1>9. ASSUME NEW b \in Clients PROVE OnlyTheLast(b)'
    <2> SUFFICES ASSUME b \notin doubled, NEW f \in net', NEW k \in Nat, Letter(f, b, k)
                 PROVE  /\ k = asked'[b] /\ upc'[b] # "ask"
                        /\ \A e \in net', j \in Nat : Letter(e, b, j) => e = f
      BY <1>1 DEF OnlyTheLast, Letter
    <2>1. CASE b = c
      <3>1. \A e \in net, j \in Nat : ~Letter(e, c, j)
        BY <2>1, <1>1, <1>2 DEF OnlyTheLast
      <3>2. f = d /\ \A e \in net', j \in Nat : Letter(e, b, j) => e = d
        BY <3>1, <2>1, <1>4
      <3>3. k = asked'[b]
        BY <3>2, <2>1, <1>6, OneSender
      <3>4. QED
        BY <3>2, <3>3, <2>1, <1>1, <1>2 DEF EchoTypes
    <2>2. CASE b # c
      <3>1. \A j : ~Letter(d, b, j)
        BY <2>2, <1>6, OneSender
      <3>2. asked'[b] = asked[b] /\ upc'[b] = upc[b]
        BY <2>2, <1>1, <1>2 DEF EchoTypes
      <3>3. f \in net /\ \A e \in net', j \in Nat : Letter(e, b, j) => e \in net
        BY <3>1, <1>4
      <3>4. QED
        BY <3>2, <3>3, <1>2 DEF OnlyTheLast
    <2>3. QED
      BY <2>1, <2>2
  <1>10. ASSUME NEW b \in Clients PROVE OwnShown(b)'
    BY <1>1, <1>2 DEF OwnShown
  <1>11. QED
    BY <1>5, <1>7, <1>8, <1>9, <1>10 DEF EchoInv

(* It takes an answer, which is its own.                                   *)
LEMMA GetKeeps ==
  ASSUME EchoInv, NEW c \in Clients, GetEcho(c)
  PROVE  EchoInv'
  <1>1. /\ program = "uecho" /\ upc[c] = "wait"
        /\ upc' = [upc EXCEPT ![c] = "ask"] /\ UNCHANGED <<program, asked>>
    BY DEF GetEcho
  <1>2. PICK d \in net : /\ d.to = c
                         /\ net' \in {net, net \ {d}} /\ Take(c, d, net')
                         /\ shown' = [shown EXCEPT ![c] = Append(@, d.text)]
    BY DEF GetEcho
  <1>3. EchoTypes /\ OnTheWay /\ \A b \in Clients : Counts(b) /\ OnlyTheLast(b) /\ OwnShown(b)
    BY <1>1 DEF EchoInv
  <1>4. PICK k \in 1 .. asked[c] : Letter(d, c, k)
    <2>1. PICK b \in Clients : \E k \in 1 .. asked[b] : Letter(d, b, k)
      BY <1>3 DEF OnTheWay
    <2>2. d.to \in {Host, b}
      BY <2>1 DEF Letter, Datagram
    <2>3. QED
      BY <2>1, <2>2, <1>2, DatagramsAssumption
  <1>5. d.text = <<c, k>> /\ asked[c] = Len(shown[c]) + 1 /\ k \in Nat /\ asked[c] \in Nat
    BY <1>1, <1>3, <1>4 DEF Letter, Datagram, Counts, EchoTypes
  <1>6. shown[c] \in Seq(Clients \X Nat) /\ shown'[c] = Append(shown[c], <<c, k>>)
    BY <1>2, <1>3, <1>5 DEF EchoTypes
  <1>7. Append(shown[c], <<c, k>>) \in Seq(Clients \X Nat)
    BY <1>5, <1>6
  <1>8. EchoTypes'
    BY <1>1, <1>2, <1>3, <1>5, <1>7 DEF EchoTypes
  <1>9. OnTheWay'
    BY <1>1, <1>2, <1>3 DEF OnTheWay, Letter
  <1>10. doubled \subseteq doubled' /\ (c \notin doubled' => net' = net \ {d})
    BY <1>2 DEF Take
  <1>11. ASSUME NEW b \in Clients PROVE Counts(b)'
    <2>1. CASE b = c
      <3>1. upc'[c] = "ask" /\ Len(shown'[c]) = asked[c]
        BY <1>1, <1>3, <1>5, <1>6 DEF EchoTypes
      <3>2. QED
        BY <2>1, <3>1, <1>1 DEF Counts
    <2>2. CASE b # c
      BY <2>2, <1>1, <1>2, <1>3 DEF Counts, EchoTypes
    <2>3. QED
      BY <2>1, <2>2
  <1>12. ASSUME NEW b \in Clients PROVE OnlyTheLast(b)'
    <2>1. CASE b = c
      <3>1. c \notin doubled' => \A e \in net', j \in Nat : ~Letter(e, c, j)
        BY <1>3, <1>4, <1>5, <1>10 DEF OnlyTheLast
      <3>2. QED
        BY <2>1, <3>1 DEF OnlyTheLast, Letter
    <2>2. CASE b # c
      <3>1. upc'[b] = upc[b] /\ net' \subseteq net
        BY <2>2, <1>1, <1>2, <1>3 DEF EchoTypes
      <3>2. QED
        BY <3>1, <1>1, <1>3, <1>10 DEF OnlyTheLast, Letter
    <2>3. QED
      BY <2>1, <2>2
  <1>13. ASSUME NEW b \in Clients PROVE OwnShown(b)'
    <2>1. CASE b = c
      <3> SUFFICES ASSUME NEW i \in DOMAIN shown'[c]
                   PROVE  /\ shown'[c][i] \in {c} \X (1 .. i)
                          /\ c \notin doubled' => shown'[c][i] = <<c, i>>
        BY <2>1 DEF OwnShown
      <3>1. CASE i \in DOMAIN shown[c]
        <4>1. shown'[c][i] = shown[c][i]
          BY <3>1, <1>6
        <4>2. QED
          BY <3>1, <4>1, <1>3, <1>10 DEF OwnShown
      <3>2. CASE i \notin DOMAIN shown[c]
        <4>1. i = asked[c] /\ shown'[c][i] = <<c, k>>
          BY <3>2, <1>5, <1>6
        <4>2. c \notin doubled' => k = asked[c]
          BY <1>3, <1>4, <1>5, <1>10 DEF OnlyTheLast
        <4>3. QED
          BY <4>1, <4>2
      <3>3. QED
        BY <3>1, <3>2
    <2>2. CASE b # c
      BY <2>2, <1>2, <1>3, <1>10 DEF OwnShown, EchoTypes
    <2>3. QED
      BY <2>1, <2>2
  <1>14. QED
    BY <1>8, <1>9, <1>11, <1>12, <1>13 DEF EchoInv

(* The server turns a message round, or its answer is lost.                *)
LEMMA TurnKeeps ==
  ASSUME EchoInv, EchoServer
  PROVE  EchoInv'
  <1>1. program = "uecho" /\ UNCHANGED <<program, upc, asked, shown>>
    BY DEF EchoServer, userVars
  <1>2. EchoTypes /\ OnTheWay /\ \A b \in Clients : Counts(b) /\ OnlyTheLast(b) /\ OwnShown(b)
    BY <1>1 DEF EchoInv
  <1>3. PICK d \in net : \E rest \in {net, net \ {d}} :
          /\ d.to = Host /\ Take(d.from, d, rest)
          /\ net' \in {rest, rest \cup {Datagram(d.from, Host, d.text)}}
    BY DEF EchoServer, Send
  <1>4. PICK c \in Clients : \E k \in 1 .. asked[c] : Letter(d, c, k)
    BY <1>2 DEF OnTheWay
  <1>5. PICK k \in 1 .. asked[c] : Letter(d, c, k)
    BY <1>4
  <1>6. d.from = c /\ d.text = <<c, k>> /\ k \in Nat
    BY <1>2, <1>3, <1>5, DatagramsAssumption DEF Letter, Datagram, EchoTypes
  <1> DEFINE echo == Datagram(c, Host, <<c, k>>)
  <1>7. Letter(echo, c, k) /\ net' \subseteq net \cup {echo}
    BY <1>3, <1>6 DEF Letter
  <1>8. doubled \subseteq doubled' /\ (c \notin doubled' => net' \subseteq (net \ {d}) \cup {echo})
    BY <1>3, <1>6 DEF Take
  <1> HIDE DEF echo
  <1>9. OnTheWay'
    <2>1. ASSUME NEW e \in net' PROVE \E b \in Clients : \E j \in 1 .. asked[b] : Letter(e, b, j)
      BY <1>2, <1>5, <1>7 DEF OnTheWay
    <2>2. QED
      BY <1>1, <2>1 DEF OnTheWay, Letter
  <1>10. ASSUME NEW b \in Clients PROVE OnlyTheLast(b)'
    <2> SUFFICES ASSUME b \notin doubled', NEW f \in net', NEW j \in Nat, Letter(f, b, j)
                 PROVE  /\ j = asked[b] /\ upc[b] # "ask"
                        /\ \A e \in net', i \in Nat : Letter(e, b, i) => e = f
      BY <1>1 DEF OnlyTheLast, Letter
    <2>1. CASE b = c
      <3>1. k = asked[c] /\ upc[c] # "ask" /\ \A e \in net, i \in Nat : Letter(e, c, i) => e = d
        BY <2>1, <1>2, <1>5, <1>6, <1>8 DEF OnlyTheLast
      <3>2. \A e \in net', i \in Nat : Letter(e, c, i) => e = echo
        BY <2>1, <3>1, <1>8
      <3>3. f = echo /\ j = k
        BY <2>1, <3>2, <1>7, OneSender
      <3>4. QED
        BY <2>1, <3>1, <3>2, <3>3
    <2>2. CASE b # c
      <3>1. \A i : ~Letter(echo, b, i)
        BY <2>2, <1>7, OneSender
      <3>2. QED
        BY <3>1, <1>2, <1>7, <1>8 DEF OnlyTheLast
    <2>3. QED
      BY <2>1, <2>2
  <1>11. \A b \in Clients : Counts(b)' /\ OwnShown(b)'
    BY <1>1, <1>2, <1>8 DEF Counts, OwnShown
  <1>12. QED
    BY <1>1, <1>2, <1>9, <1>10, <1>11 DEF EchoInv, EchoTypes

(* What remains takes a datagram off the network, or is a client's end.    *)
LEMMA EchoKeeps ==
  ASSUME EchoInv, DatagramsNext
  PROVE  EchoInv'
  <1>1. CASE ReceiveFails
    <2>1. UNCHANGED <<program, upc, asked, shown, doubled>> /\ net' \subseteq net
      BY <1>1 DEF ReceiveFails, userVars
    <2>2. QED
      BY <2>1 DEF EchoInv, EchoTypes, OnTheWay, Counts, OnlyTheLast, OwnShown, Letter
  <1>2. ASSUME NEW c \in Clients, Refused(c) \/ QuitEcho(c) PROVE EchoInv'
    <2>1. /\ upc' = [upc EXCEPT ![c] = "gone"]
          /\ UNCHANGED <<program, net, asked, shown, doubled>>
      BY <1>2 DEF Refused, QuitEcho, hostVars
    <2> SUFFICES ASSUME program = "uecho" PROVE EchoInv'
      BY <2>1 DEF EchoInv
    <2>2. EchoTypes /\ OnTheWay /\ \A b \in Clients : Counts(b) /\ OnlyTheLast(b) /\ OwnShown(b)
      BY DEF EchoInv
    <2>3. \A b \in Clients : upc'[b] \in {upc[b], "gone"}
      BY <2>1, <2>2 DEF EchoTypes
    <2>4. EchoTypes' /\ OnTheWay'
      BY <2>1, <2>2 DEF EchoTypes, OnTheWay, Letter
    <2>5. ASSUME NEW b \in Clients PROVE (Counts(b) /\ OnlyTheLast(b) /\ OwnShown(b))'
      <3>1. (Counts(b) /\ OwnShown(b))'
        BY <2>1, <2>2, <2>3 DEF Counts, OwnShown
      <3>2. OnlyTheLast(b)'
        BY <2>1, <2>2, <2>3 DEF OnlyTheLast, Letter
      <3>3. QED
        BY <3>1, <3>2
    <2>6. QED
      BY <2>4, <2>5 DEF EchoInv
  <1>3. ASSUME program # "uecho", program' = program PROVE EchoInv'
    BY <1>3 DEF EchoInv
  <1>4. ASSUME NEW c \in Clients, User(c) PROVE EchoInv'
    <2>1. CASE BoundSend(c) \/ JoinNews(c) \/ ReceiveNews(c)
      BY <2>1, <1>3 DEF BoundSend, JoinNews, ReceiveNews
    <2>2. QED
      BY <2>1, <1>2, <1>4, AskKeeps, GetKeeps DEF User, EchoClient, EchoConClient
  <1>5. CASE BoundReceive \/ SendNews
    BY <1>3, <1>5 DEF BoundReceive, SendNews
  <1>6. QED
    BY <1>1, <1>4, <1>5, TurnKeeps DEF DatagramsNext, HostProgram

LEMMA EchoStays ==
  ASSUME EchoInv, UNCHANGED dgramVars
  PROVE  EchoInv'
  <1>1. UNCHANGED <<program, net, upc, asked, shown, doubled>>
    BY DEF dgramVars, userVars
  <1>2. (EchoTypes => EchoTypes') /\ (OnTheWay => OnTheWay')
    BY <1>1 DEF EchoTypes, OnTheWay, Letter
  <1>3. \A b \in Clients : /\ Counts(b) => Counts(b)'
                           /\ OnlyTheLast(b) => OnlyTheLast(b)'
                           /\ OwnShown(b) => OwnShown(b)'
    BY <1>1 DEF Counts, OnlyTheLast, OwnShown, Letter
  <1>4. QED
    BY <1>1, <1>2, <1>3 DEF EchoInv

LEMMA EchoOwn == EchoInv => EchoesOwn
  BY DEF EchoInv, OwnShown, EchoesOwn

-----------------------------------------------------------------------------
(* The news.                                                               *)

(* The line the p-th datagram carries: one past the last repeats it.       *)
LineAt(p) == IF p <= lines THEN p ELSE lines
NewsItem(c, p) == Datagram(c, Host, <<p, LineAt(p)>>)

SentSoFar ==
  /\ lines \in Nat /\ newline \in BOOLEAN
  /\ done \in 0 .. lines + 1 /\ buf = LineAt(done)
  /\ done > lines => newline \/ lines = 0
  /\ hpc = "run" => done <= lines /\ (done = lines => newline \/ lines = 0)

ItemsOnTheWay ==
  /\ shown \in [Clients -> Seq(Nat)]
  /\ \A d \in net : \E c \in Clients : \E p \in 1 .. done : d = NewsItem(c, p)

(* What a receiver showed came before all that waits for it; a line comes  *)
(* twice only at the very end.                                             *)
BeforeTheRest(c) ==
  /\ Len(shown[c]) <= done
  /\ \A i \in DOMAIN shown[c] : shown[c][i] <= done /\ shown[c][i] <= lines
  /\ \A d \in net : d.to = c => /\ Len(shown[c]) < d.text[1]
                                /\ \A i \in DOMAIN shown[c] : shown[c][i] < d.text[1]
Repeats(c) == \E i, j \in DOMAIN shown[c] : i < j /\ shown[c][i] = shown[c][j]
RepeatLast(c) == Repeats(c) => done > lines /\ \A d \in net : d.to # c
InOrderShown(c) ==
  \A i, j \in DOMAIN shown[c] :
    i < j => \/ shown[c][i] < shown[c][j]
             \/ newline /\ shown[c][i] = lines /\ shown[c][j] = lines
                /\ j = i + 1 /\ j = Len(shown[c])

NewsInv ==
  program = "news" =>
    SentSoFar /\ ItemsOnTheWay /\
    \A c \in Clients : BeforeTheRest(c) /\ RepeatLast(c) /\ InOrderShown(c)

LEMMA NewsStarts == AllInit => NewsInv
  <1> SUFFICES ASSUME AllInit, program = "news" PROVE NewsInv
    BY DEF NewsInv
  <1>1. /\ net = {} /\ newline \in BOOLEAN /\ lines \in Lines /\ (lines = 0 => ~newline)
        /\ hpc = "run" /\ done = 0 /\ buf = 0 /\ shown = [c \in Clients |-> <<>>]
    BY DEF AllInit, DatagramsInit
  <1>2. lines \in Nat
    BY <1>1, DatagramsAssumption
  <1>3. SentSoFar
    BY <1>1, <1>2 DEF SentSoFar, LineAt
  <1>4. ItemsOnTheWay
    BY <1>1 DEF ItemsOnTheWay
  <1>5. \A c \in Clients : BeforeTheRest(c) /\ RepeatLast(c) /\ InOrderShown(c)
    BY <1>1 DEF BeforeTheRest, RepeatLast, Repeats, InOrderShown
  <1>6. QED
    BY <1>3, <1>4, <1>5 DEF NewsInv

(* The next item goes to some of the receivers.                            *)
LEMMA SendNewsKeeps ==
  ASSUME NewsInv, SendNews
  PROVE  NewsInv'
  <1>1. /\ program = "news" /\ hpc = "run" /\ done' = done + 1
        /\ buf' = IF done < lines THEN done + 1 ELSE buf
        /\ \/ hpc' = IF done' > lines \/ (done' = lines /\ ~newline) THEN "exit" ELSE "run"
           \/ hpc' = "exit"
        /\ UNCHANGED <<program, newline, lines, shown>>
    BY DEF SendNews, fileVars, userVars
  <1>2. /\ SentSoFar /\ ItemsOnTheWay
        /\ \A c \in Clients : BeforeTheRest(c) /\ RepeatLast(c) /\ InOrderShown(c)
    BY <1>1 DEF NewsInv
  <1>3. done \in Nat /\ lines \in Nat /\ done <= lines
    BY <1>1, <1>2 DEF SentSoFar
  <1>4. SentSoFar'
    <2>1. buf' = LineAt(done + 1)
      BY <1>1, <1>2, <1>3 DEF SentSoFar, LineAt
    <2>2. QED
      BY <2>1, <1>1, <1>2, <1>3 DEF SentSoFar, LineAt
  <1>5. ASSUME NEW d \in net' PROVE d \in net \/ \E c \in Clients : d = NewsItem(c, done + 1)
    <2>1. PICK heard \in SUBSET Clients :
            net' = net \cup {Datagram(c, Host, <<done', buf'>>) : c \in heard}
      BY DEF SendNews
    <2>2. buf' = LineAt(done + 1)
      BY <1>1, <1>4 DEF SentSoFar, LineAt
    <2>3. QED
      BY <1>1, <2>1, <2>2 DEF NewsItem
  <1>6. ItemsOnTheWay'
    <2>1. ASSUME NEW d \in net'
          PROVE  \E c \in Clients : \E p \in 1 .. done + 1 : d = NewsItem(c, p)
      <3>1. 1 .. done \subseteq 1 .. done + 1 /\ done + 1 \in 1 .. done + 1
        BY <1>3
      <3>2. QED
        BY <1>2, <1>5, <3>1 DEF ItemsOnTheWay
    <2>2. QED
      BY <1>1, <1>2, <2>1 DEF ItemsOnTheWay, NewsItem, LineAt
  <1>7. ASSUME NEW c \in Clients PROVE BeforeTheRest(c)' /\ RepeatLast(c)' /\ InOrderShown(c)'
    <2>1. /\ shown[c] \in Seq(Nat) /\ Len(shown[c]) <= done
          /\ \A i \in DOMAIN shown[c] : shown[c][i] <= done /\ shown[c][i] <= lines
      BY <1>2 DEF BeforeTheRest, ItemsOnTheWay
    <2>2. ASSUME NEW d \in net', d.to = c
          PROVE  Len(shown[c]) < d.text[1] /\ \A i \in DOMAIN shown[c] : shown[c][i] < d.text[1]
      <3>1. CASE d \in net
        BY <1>2, <2>2, <3>1 DEF BeforeTheRest
      <3>2. CASE \E b \in Clients : d = NewsItem(b, done + 1)
        <4>1. d.text[1] = done + 1
          BY <3>2 DEF NewsItem, Datagram
        <4>2. QED
          BY <4>1, <2>1, <1>3
      <3>3. QED
        BY <1>5, <2>2, <3>1, <3>2
    <2>3. BeforeTheRest(c)'
      BY <1>1, <1>3, <2>1, <2>2 DEF BeforeTheRest
    <2>4. ~Repeats(c)
      BY <1>2, <1>3 DEF RepeatLast
    <2>5. RepeatLast(c)' /\ InOrderShown(c)'
      BY <1>1, <1>2, <2>4 DEF RepeatLast, Repeats, InOrderShown
    <2>6. QED
      BY <2>3, <2>5
  <1>8. QED
    BY <1>4, <1>6, <1>7 DEF NewsInv

(* A receiver takes the first item that waits for it.                      *)
LEMMA ReceiveKeeps ==
  ASSUME NewsInv, NEW c \in Clients, ReceiveNews(c)
  PROVE  NewsInv'
  <1>1. /\ program = "news"
        /\ UNCHANGED <<program, newline, lines, done, buf, hpc>>
    BY DEF ReceiveNews, fileVars, hostVars
  <1>2. /\ SentSoFar /\ ItemsOnTheWay
        /\ \A b \in Clients : BeforeTheRest(b) /\ RepeatLast(b) /\ InOrderShown(b)
    BY <1>1 DEF NewsInv
  <1>3. PICK d \in net : /\ d.to = c
                         /\ \A e \in net : e.to = c => d.text[1] <= e.text[1]
                         /\ net' = net \ {d}
                         /\ shown' = [shown EXCEPT ![c] = Append(@, d.text[2])]
    BY DEF ReceiveNews
  <1>4. PICK p \in 1 .. done : d = NewsItem(c, p)
    <2>1. PICK b \in Clients : \E p \in 1 .. done : d = NewsItem(b, p)
      BY <1>2 DEF ItemsOnTheWay
    <2>2. d.to = b
      BY <2>1 DEF NewsItem, Datagram
    <2>3. QED
      BY <2>1, <2>2, <1>3
  <1> DEFINE s == shown[c]
             line == LineAt(p)
  <1>5. d.text[1] = p /\ d.text[2] = line
    BY <1>4 DEF NewsItem, Datagram
  <1>6. /\ done \in Nat /\ lines \in Nat /\ p \in Nat /\ p >= 1 /\ p <= done
        /\ done <= lines + 1 /\ line \in Nat /\ line <= p /\ line <= lines
        /\ (p <= lines => line = p) /\ (p > lines => line = lines)
        /\ (done > lines => newline \/ lines = 0)
    BY <1>2 DEF SentSoFar, LineAt
  <1>7. /\ s \in Seq(Nat) /\ shown'[c] = Append(s, line)
        /\ \A b \in Clients : b # c => shown'[b] = shown[b]
        /\ shown' \in [Clients -> Seq(Nat)]
    BY <1>2, <1>3, <1>5, <1>6 DEF ItemsOnTheWay
  <1>8. ~Repeats(c) /\ Len(s) < p /\ \A i \in DOMAIN s : s[i] < p /\ s[i] <= lines
    BY <1>2, <1>3, <1>5 DEF RepeatLast, BeforeTheRest
  <1>9. ASSUME NEW e \in net', e.to = c PROVE \E q \in 1 .. done : e.text[1] = q /\ q > p
    <2>1. PICK b \in Clients : \E q \in 1 .. done : e = NewsItem(b, q)
      BY <1>2, <1>3, <1>9 DEF ItemsOnTheWay
    <2>2. PICK q \in 1 .. done : e = NewsItem(b, q)
      BY <2>1
    <2>3. e.to = b /\ e.text[1] = q
      BY <2>2 DEF NewsItem, Datagram
    <2>4. q # p
      BY <2>2, <2>3, <1>3, <1>4, <1>9
    <2>5. p <= q
      BY <2>3, <1>3, <1>5, <1>9
    <2>6. QED
      BY <2>3, <2>4, <2>5, <1>6
  <1>10. SentSoFar' /\ ItemsOnTheWay'
    <2>1. SentSoFar'
      BY <1>1, <1>2 DEF SentSoFar, LineAt
    <2>2. \A e \in net' : \E b \in Clients : \E q \in 1 .. done : e = NewsItem(b, q)
      BY <1>2, <1>3 DEF ItemsOnTheWay
    <2>3. QED
      BY <2>1, <2>2, <1>1, <1>7 DEF ItemsOnTheWay, NewsItem, LineAt
  <1>11. ASSUME NEW b \in Clients, b # c
         PROVE  BeforeTheRest(b)' /\ RepeatLast(b)' /\ InOrderShown(b)'
    <2>1. shown'[b] = shown[b] /\ net' \subseteq net /\ UNCHANGED <<done, lines, newline>>
      BY <1>1, <1>3, <1>7, <1>11
    <2>2. QED
      BY <2>1, <1>2 DEF BeforeTheRest, RepeatLast, Repeats, InOrderShown
  <1> HIDE DEF s, line
  <1> DEFINE t == Append(s, line)
  <1>12. /\ Len(t) = Len(s) + 1 /\ t[Len(s) + 1] = line /\ DOMAIN t = 1 .. Len(s) + 1
         /\ \A i \in DOMAIN s : t[i] = s[i] /\ s[i] \in Nat
         /\ DOMAIN s = 1 .. Len(s) /\ Len(s) \in Nat
    BY <1>6, <1>7
  <1> HIDE DEF t
  <1>13. BeforeTheRest(c)'
    <2>1. \A i \in DOMAIN t : t[i] <= p /\ t[i] <= lines
      BY <1>6, <1>8, <1>12
    <2>2. Len(t) <= p
      BY <1>6, <1>8, <1>12
    <2>3. \A i \in DOMAIN t : t[i] \in Nat
      BY <1>6, <1>12
    <2>4. shown'[c] = t
      BY <1>7 DEF t
    <2>5. QED
      BY <2>1, <2>2, <2>3, <2>4, <1>1, <1>6, <1>9, <1>12 DEF BeforeTheRest
  (* A line that was shown and comes again is the last, sent twice.        *)
  <1>14. ASSUME NEW i \in DOMAIN s, s[i] >= line
         PROVE  p = lines + 1 /\ line = lines /\ s[i] = lines /\ newline /\ i = Len(s)
    <2>1. p = lines + 1 /\ line = lines /\ s[i] = lines
      BY <1>6, <1>8, <1>12, <1>14
    <2>2. lines # 0
      BY <2>1, <1>6, <1>8, <1>12
    <2>3. newline
      BY <2>1, <2>2, <1>6
    <2>4. ASSUME i # Len(s) PROVE FALSE
      <3>1. Len(s) \in DOMAIN s /\ i < Len(s)
        BY <2>4, <1>12
      <3>2. s[i] # s[Len(s)]
        BY <1>8, <3>1 DEF Repeats, s
      <3>3. s[i] < s[Len(s)]
        BY <1>2, <3>1, <3>2 DEF InOrderShown, s
      <3>4. QED
        BY <2>1, <3>1, <3>3, <1>6, <1>8, <1>12
    <2>5. QED
      BY <2>1, <2>3, <2>4
  <1>15. ASSUME NEW i \in DOMAIN s, NEW j \in DOMAIN s, i < j PROVE s[i] < s[j]
    <2>1. s[i] # s[j]
      BY <1>8, <1>15 DEF Repeats, s
    <2>2. QED
      BY <1>2, <1>15, <2>1 DEF InOrderShown, s
  <1>16. ASSUME NEW i \in DOMAIN t, NEW j \in DOMAIN t, i < j
         PROVE  \/ t[i] < t[j]
                \/ /\ newline /\ t[i] = lines /\ t[j] = lines /\ j = i + 1 /\ j = Len(t)
                   /\ p = lines + 1
    <2>1. i \in DOMAIN s
      BY <1>12, <1>16
    <2>2. CASE j \in DOMAIN s
      BY <2>1, <2>2, <1>12, <1>15, <1>16
    <2>3. CASE j = Len(s) + 1
      BY <2>1, <2>3, <1>6, <1>12, <1>14
    <2>4. QED
      BY <2>2, <2>3, <1>12
  <1>17. shown'[c] = t
    BY <1>7 DEF t
  <1>18. InOrderShown(c)'
    BY <1>1, <1>16, <1>17 DEF InOrderShown
  <1>19. RepeatLast(c)'
    <2>1. ASSUME Repeats(c)' PROVE p = lines + 1
      <3>1. PICK i \in DOMAIN t, j \in DOMAIN t : i < j /\ t[i] = t[j]
        BY <2>1, <1>17 DEF Repeats
      <3>2. t[i] \in Nat /\ t[j] \in Nat
        BY <1>6, <1>12
      <3>3. QED
        BY <1>16, <3>1, <3>2
    <2>2. QED
      BY <2>1, <1>1, <1>6, <1>9 DEF RepeatLast
  <1>20. QED
    BY <1>10, <1>11, <1>13, <1>18, <1>19 DEF NewsInv

LEMMA NewsKeeps ==
  ASSUME NewsInv, DatagramsNext
  PROVE  NewsInv'
  <1>1. ASSUME program # "news", program' = program PROVE NewsInv'
    BY <1>1 DEF NewsInv
  <1>2. ASSUME NEW c \in Clients, User(c) PROVE NewsInv'
    <2>1. CASE EchoClient(c) \/ EchoConClient(c) \/ BoundSend(c)
      BY <2>1, <1>1 DEF EchoClient, EchoConClient, AskEcho, AskNothing, GetEcho, Refused,
         QuitEcho, BoundSend
    <2>2. CASE JoinNews(c)
      <3>1. UNCHANGED <<program, net, newline, lines, hpc, done, buf, shown>>
        BY <2>2 DEF JoinNews, fileVars, hostVars
      <3>2. QED
        BY <3>1 DEF NewsInv, SentSoFar, ItemsOnTheWay, NewsItem, LineAt, BeforeTheRest,
           RepeatLast, Repeats, InOrderShown
    <2>3. QED
      BY <1>2, <2>1, <2>2, ReceiveKeeps DEF User
  <1>3. CASE ReceiveFails \/ EchoServer \/ BoundReceive
    BY <1>1, <1>3 DEF ReceiveFails, EchoServer, BoundReceive
  <1>4. QED
    BY <1>2, <1>3, SendNewsKeeps DEF DatagramsNext, HostProgram

LEMMA NewsStays ==
  ASSUME NewsInv, UNCHANGED dgramVars
  PROVE  NewsInv'
  <1>1. UNCHANGED <<program, net, newline, lines, hpc, done, buf, shown>>
    BY DEF dgramVars, fileVars, hostVars, userVars
  <1>2. QED
    BY <1>1 DEF NewsInv, SentSoFar, ItemsOnTheWay, NewsItem, LineAt, BeforeTheRest,
       RepeatLast, Repeats, InOrderShown

LEMMA NewsOrdered == NewsInv => NewsInOrder
  BY DEF NewsInv, InOrderShown, NewsInOrder

-----------------------------------------------------------------------------
(* The script's positions.                                                 *)

(* f gives the position each of the first n pieces ends at.                *)
Ends(f, n) == f = [k \in 0 .. n |-> IF k = 0 THEN 0 ELSE f[k - 1] + Script[k].bytes]

LEMMA EndsExist == \E f : Ends(f, Len(Script))
  <1> DEFINE Missing == {n \in Nat : n <= Len(Script) /\ ~ \E f : Ends(f, n)}
  <1>1. Len(Script) \in Nat
    BY UrgentAssumption
  <1>2. SUFFICES ASSUME Missing # {} PROVE FALSE
    BY <1>1
  <1>3. PICK n \in Missing : \A m \in Missing : n <= m
    BY <1>2, LeastOf
  <1>4. n # 0
    <2>1. Ends([k \in 0 .. 0 |-> 0], 0)
      BY DEF Ends
    <2>2. QED
      BY <2>1
  <1>5. PICK g : Ends(g, n - 1)
    <2>1. n - 1 \in Nat /\ n - 1 <= Len(Script) /\ ~ (n <= n - 1)
      BY <1>1, <1>4
    <2>2. n - 1 \notin Missing
      BY <2>1, <1>3
    <2>3. QED
      BY <2>1, <2>2
  <1> DEFINE f == [k \in 0 .. n |-> IF k = n THEN g[n - 1] + Script[n].bytes ELSE g[k]]
  <1>6. ASSUME NEW k \in 0 .. n
        PROVE  f[k] = IF k = 0 THEN 0 ELSE f[k - 1] + Script[k].bytes
    <2>1. \A i \in 0 .. n - 1 : g[i] = IF i = 0 THEN 0 ELSE g[i - 1] + Script[i].bytes
      BY <1>5 DEF Ends
    <2>2. QED
      BY <2>1, <1>4
  <1>7. Ends(f, n)
    BY <1>6, Zenon DEF Ends
  <1>8. QED
    BY <1>7

LEMMA EndOfIs == Ends(EndOf, Len(Script))
  BY EndsExist, Zenon DEF EndOf, Ends

LEMMA EndOfStep ==
  /\ EndOf[0] = 0
  /\ \A k \in 1 .. Len(Script) : EndOf[k] = EndOf[k - 1] + Script[k].bytes
  <1>1. Len(Script) \in Nat
    BY UrgentAssumption
  <1>2. \A k \in 0 .. Len(Script) : EndOf[k] = IF k = 0 THEN 0 ELSE EndOf[k - 1] + Script[k].bytes
    BY EndOfIs, Zenon DEF Ends
  <1>3. QED
    BY <1>1, <1>2

LEMMA PieceTypes ==
  /\ Len(Script) \in Nat /\ DOMAIN Script = 1 .. Len(Script)
  /\ \A k \in 1 .. Len(Script) : Script[k].bytes \in Nat \ {0}
  <1> DEFINE Pieces == [bytes : Nat \ {0}, oob : BOOLEAN]
  <1>1. \A p \in Pieces : p.bytes \in Nat \ {0}
    OBVIOUS
  <1>2. Script \in Seq(Pieces)
    BY UrgentAssumption
  <1> HIDE DEF Pieces
  <1>3. QED
    BY <1>1, <1>2

(* Later pieces end later.                                                 *)
LEMMA EndOfRises ==
  /\ \A k \in 0 .. Len(Script) : EndOf[k] \in Nat
  /\ \A j, k \in 0 .. Len(Script) : j < k => EndOf[j] < EndOf[k]
  <1> DEFINE Good(k) == EndOf[k] \in Nat /\ \A j \in 0 .. k : j < k => EndOf[j] < EndOf[k]
             Bad == {k \in 0 .. Len(Script) : ~Good(k)}
  <1>1. Len(Script) \in Nat /\ \A k \in 1 .. Len(Script) : Script[k].bytes \in Nat \ {0}
    BY PieceTypes
  <1>2. ASSUME Bad # {} PROVE FALSE
    <2>1. PICK k \in Bad : \A i \in Bad : k <= i
      <3>1. Bad \subseteq Nat
        OBVIOUS
      <3> HIDE DEF Bad
      <3>2. QED
        BY <3>1, <1>2, LeastOf
    <2>0. k \in 0 .. Len(Script) /\ ~Good(k)
      BY <2>1
    <2>2. k # 0
      <3> SUFFICES ASSUME k = 0 PROVE Good(k)
        BY <2>0
      <3>1. QED
        BY EndOfStep
    <2>3. Good(k - 1) /\ k \in 1 .. Len(Script)
      <3>1. k - 1 \in 0 .. Len(Script) /\ ~ (k <= k - 1)
        BY <1>1, <2>0, <2>2
      <3>2. k - 1 \notin Bad
        BY <3>1, <2>1
      <3>3. QED
        BY <3>1, <3>2, <1>1
    <2>4. EndOf[k] = EndOf[k - 1] + Script[k].bytes /\ Script[k].bytes \in Nat \ {0}
      BY <2>3, <1>1, EndOfStep
    <2>5. EndOf[k] \in Nat /\ EndOf[k - 1] < EndOf[k]
      BY <2>3, <2>4
    <2>6. ASSUME NEW j \in 0 .. k, j < k PROVE EndOf[j] < EndOf[k]
      <3>1. CASE j = k - 1
        BY <3>1, <2>5
      <3>2. CASE j < k - 1
        <4>1. j \in 0 .. k - 1 /\ EndOf[j] < EndOf[k - 1]
          BY <3>2, <2>3
        <4>2. EndOf[j] \in Nat
          <5>1. j \notin Bad /\ j \in 0 .. Len(Script)
            BY <2>1, <2>6, <1>1
          <5>2. QED
            BY <5>1
        <4>3. QED
          BY <4>1, <4>2, <2>3, <2>5
      <3>3. QED
        BY <2>6, <3>1, <3>2
    <2>7. QED
      BY <2>1, <2>5, <2>6
  <1>3. \A k \in 0 .. Len(Script) : Good(k)
    BY <1>2
  <1> HIDE DEF Bad
  <1>4. QED
    BY <1>1, <1>3

(* A new piece's bytes are ordinary, but for the last of an urgent one.    *)
UrgentBytes == {b \in Nat : IsUrgent(b)}

LEMMA UrgentOnes ==
  ASSUME NEW p \in Nat, p < Len(Script), NEW b \in Nat, EndOf[p] < b, b <= EndOf[p + 1],
         program = "oob"
  PROVE  b \in UrgentBytes <=> Script[p + 1].oob /\ b = EndOf[p + 1]
  <1>1. Len(Script) \in Nat /\ DOMAIN Script = 1 .. Len(Script) /\ p + 1 \in 1 .. Len(Script)
    BY UrgentAssumption
  <1>2. ASSUME NEW k \in DOMAIN Script, EndOf[k] = b PROVE k = p + 1
    <2>1. k \in 0 .. Len(Script) /\ p \in 0 .. Len(Script) /\ p + 1 \in 0 .. Len(Script)
      BY <1>1
    <2>2. EndOf[k] \in Nat /\ EndOf[p] \in Nat /\ EndOf[p + 1] \in Nat
      BY <2>1, EndOfRises
    <2>3. ~ (k < p) /\ k # p
      BY <2>1, <2>2, <1>2, EndOfRises
    <2>4. ~ (p + 1 < k)
      BY <2>1, <2>2, <1>2, EndOfRises
    <2>5. QED
      BY <2>1, <2>3, <2>4
  <1>3. QED
    BY <1>1, <1>2 DEF UrgentBytes, IsUrgent

-----------------------------------------------------------------------------
(* Bytes in a queue.                                                       *)

Bytes(s) == {s[i] : i \in DOMAIN s}
Rising(s) == \A i, j \in DOMAIN s : i < j => s[i] < s[j]
Before(S, T) == \A a \in S, b \in T : a < b

LEMMA Joined ==
  ASSUME NEW s \in Seq(Nat), NEW t \in Seq(Nat)
  PROVE  /\ s \o t \in Seq(Nat)
         /\ Bytes(s \o t) = Bytes(s) \cup Bytes(t)
         /\ Rising(s \o t) <=> Rising(s) /\ Rising(t) /\ Before(Bytes(s), Bytes(t))
  <1> DEFINE q == s \o t
  <1>1. /\ q \in Seq(Nat) /\ Len(q) = Len(s) + Len(t) /\ Len(s) \in Nat /\ Len(t) \in Nat
        /\ DOMAIN q = 1 .. Len(q) /\ DOMAIN s = 1 .. Len(s) /\ DOMAIN t = 1 .. Len(t)
        /\ \A i \in 1 .. Len(s) : q[i] = s[i]
        /\ \A i \in 1 .. Len(t) : q[Len(s) + i] = t[i] /\ Len(s) + i \in 1 .. Len(q)
    OBVIOUS
  <1>0. /\ \A i, j \in 1 .. Len(t) : i < j => Len(s) + i < Len(s) + j
        /\ \A i \in 1 .. Len(s), j \in 1 .. Len(t) : i < Len(s) + j
        /\ 1 .. Len(s) \subseteq 1 .. Len(q)
    BY <1>1
  <1> HIDE DEF q
  <1>2. \A i \in DOMAIN q : i \in DOMAIN s \/ \E j \in DOMAIN t : i = Len(s) + j
    <2> SUFFICES ASSUME NEW i \in DOMAIN q, i \notin DOMAIN s PROVE i - Len(s) \in DOMAIN t
      BY <1>1
    <2>1. QED
      BY <1>1
  <1>3. Bytes(q) = Bytes(s) \cup Bytes(t)
    <2>1. Bytes(q) \subseteq Bytes(s) \cup Bytes(t)
      <3> SUFFICES ASSUME NEW i \in DOMAIN q PROVE q[i] \in Bytes(s) \cup Bytes(t)
        BY DEF Bytes
      <3>1. CASE i \in DOMAIN s
        BY <3>1, <1>1 DEF Bytes
      <3>2. ASSUME NEW j \in DOMAIN t, i = Len(s) + j PROVE q[i] \in Bytes(t)
        BY <3>2, <1>1 DEF Bytes
      <3>3. QED
        BY <3>1, <3>2, <1>2
    <2>2. Bytes(s) \subseteq Bytes(q)
      BY <1>1 DEF Bytes
    <2>3. ASSUME NEW j \in DOMAIN t PROVE t[j] \in Bytes(q)
      <3>1. Len(s) + j \in DOMAIN q /\ q[Len(s) + j] = t[j]
        BY <1>1
      <3>2. QED
        BY <3>1 DEF Bytes
    <2>4. QED
      BY <2>1, <2>2, <2>3 DEF Bytes
  <1>4. ASSUME Rising(q) PROVE Rising(s) /\ Rising(t) /\ Before(Bytes(s), Bytes(t))
    <2>1. Rising(s)
      BY <1>1, <1>4 DEF Rising
    <2>2. ASSUME NEW i \in DOMAIN t, NEW j \in DOMAIN t, i < j PROVE t[i] < t[j]
      <3>1. Len(s) + i \in DOMAIN q /\ Len(s) + j \in DOMAIN q /\ Len(s) + i < Len(s) + j
        BY <1>0, <1>1, <2>2
      <3>2. q[Len(s) + i] < q[Len(s) + j]
        BY <3>1, <1>4 DEF Rising
      <3>3. QED
        BY <3>2, <1>1
    <2>3. ASSUME NEW i \in DOMAIN s, NEW j \in DOMAIN t PROVE s[i] < t[j]
      <3>1. i \in DOMAIN q /\ Len(s) + j \in DOMAIN q /\ i < Len(s) + j
        BY <1>0, <1>1
      <3>2. QED
        BY <3>1, <1>1, <1>4 DEF Rising
    <2>4. QED
      BY <2>1, <2>2, <2>3 DEF Rising, Before, Bytes
  <1>5. ASSUME Rising(s), Rising(t), Before(Bytes(s), Bytes(t)) PROVE Rising(q)
    <2> SUFFICES ASSUME NEW i \in DOMAIN q, NEW j \in DOMAIN q, i < j PROVE q[i] < q[j]
      BY DEF Rising
    <2>1. CASE j \in DOMAIN s
      <3>1. i \in DOMAIN s
        BY <1>1, <2>1
      <3>2. QED
        BY <3>1, <1>1, <1>5, <2>1 DEF Rising
    <2>2. ASSUME NEW l \in DOMAIN t, j = Len(s) + l PROVE q[i] < q[j]
      <3>1. CASE i \in DOMAIN s
        BY <1>1, <1>5, <2>2, <3>1 DEF Before, Bytes
      <3>2. ASSUME NEW k \in DOMAIN t, i = Len(s) + k PROVE q[i] < q[j]
        <4>1. k < l
          BY <1>1, <2>2, <3>2
        <4>2. QED
          BY <4>1, <1>1, <1>5, <2>2, <3>2 DEF Rising
      <3>3. QED
        BY <1>2, <3>1, <3>2
    <2>3. QED
      BY <1>2, <2>1, <2>2
  <1>6. QED
    BY <1>1, <1>3, <1>4, <1>5 DEF q

LEMMA CutInTwo ==
  ASSUME NEW q \in Seq(Nat), NEW n \in 0 .. Len(q)
  PROVE  /\ SubSeq(q, 1, n) \in Seq(Nat) /\ SubSeq(q, n + 1, Len(q)) \in Seq(Nat)
         /\ SubSeq(q, 1, n) \o SubSeq(q, n + 1, Len(q)) = q
  <1>1. CASE n = 0
    <2>1. SubSeq(q, 1, 0) = <<>> /\ SubSeq(q, 1, Len(q)) = q
      OBVIOUS
    <2>2. QED
      BY <1>1, <2>1
  <1>2. CASE n # 0
    <2>1. n \in 1 .. Len(q)
      BY <1>2
    <2>2. QED
      BY <2>1
  <1>3. QED
    BY <1>1, <1>2

LEMMA HeadFirst ==
  ASSUME NEW q \in Seq(Nat), q # <<>>, Rising(q)
  PROVE  /\ Tail(q) \in Seq(Nat) /\ Rising(Tail(q))
         /\ Head(q) \in Bytes(q) /\ Head(q) \in Nat /\ Bytes(Tail(q)) = Bytes(q) \ {Head(q)}
  <1>1. /\ Tail(q) \in Seq(Nat) /\ Len(q) \in Nat \ {0} /\ DOMAIN q = 1 .. Len(q)
        /\ DOMAIN Tail(q) = 1 .. Len(q) - 1 /\ Head(q) = q[1]
        /\ \A i \in 1 .. Len(q) - 1 : Tail(q)[i] = q[i + 1]
        /\ \A i \in DOMAIN q : q[i] \in Nat
    OBVIOUS
  <1> DEFINE t == Tail(q)
             h == Head(q)
  <1>2. \A i \in DOMAIN t : i + 1 \in DOMAIN q /\ t[i] = q[i + 1] /\ q[1] < q[i + 1]
    BY <1>1 DEF Rising
  <1>3. \A i \in DOMAIN q : i # 1 => i - 1 \in DOMAIN t /\ t[i - 1] = q[i]
    BY <1>1
  <1>4. 1 \in DOMAIN q /\ h = q[1] /\ h \in Nat
    BY <1>1
  <1>5. Rising(t)
    BY <1>1, SMTT(30) DEF Rising
  <1> HIDE DEF t, h
  <1>6. Bytes(t) = Bytes(q) \ {h}
    <2>1. ASSUME NEW b \in Bytes(t) PROVE b \in Bytes(q) \ {h}
      BY <1>1, <1>2, <1>4 DEF Bytes
    <2>2. ASSUME NEW b \in Bytes(q) \ {h} PROVE b \in Bytes(t)
      BY <1>3, <1>4 DEF Bytes
    <2>3. QED
      BY <2>1, <2>2
  <1>7. h \in Bytes(q)
    BY <1>4 DEF Bytes
  <1>8. QED
    BY <1>1, <1>4, <1>5, <1>6, <1>7 DEF t, h

(* A recv takes nothing from the mark on.                                  *)
LEMMA StopsAtMark ==
  ASSUME NEW q \in Seq(Nat), Rising(q), NEW n \in Nat, n <= ToMark(q)
  PROVE  n \in 0 .. Len(q) /\ mark \notin Bytes(SubSeq(q, 1, n))
  <1> DEFINE places == {k \in DOMAIN q : q[k] = mark}
  <1>1. ToMark(q) = IF places = {} THEN Len(q) ELSE (CHOOSE k \in places : TRUE) - 1
    BY DEF ToMark
  <1>2. DOMAIN q = 1 .. Len(q) /\ Len(q) \in Nat /\ \A k \in DOMAIN q : q[k] \in Nat
    OBVIOUS
  <1>3. CASE places = {}
    <2>1. n \in 0 .. Len(q)
      BY <1>1, <1>2, <1>3
    <2>2. \A i \in DOMAIN SubSeq(q, 1, n) : i \in DOMAIN q /\ SubSeq(q, 1, n)[i] = q[i]
      BY <2>1
    <2>3. QED
      BY <2>1, <2>2, <1>3 DEF Bytes
  <1>4. CASE places # {}
    <2>1. PICK k \in places : ToMark(q) = k - 1
      BY <1>1, <1>4
    <2>2. n \in 0 .. Len(q) /\ n < k
      BY <2>1, <1>2
    <2>3. \A i \in DOMAIN SubSeq(q, 1, n) :
            i \in DOMAIN q /\ i < k /\ SubSeq(q, 1, n)[i] = q[i]
      BY <2>2
    <2>4. \A i \in DOMAIN q : i < k => q[i] < mark
      BY <2>1 DEF Rising
    <2>5. \A i \in DOMAIN q : i < k => q[i] # mark
      BY <2>1, <2>4, <1>2
    <2>6. QED
      BY <2>2, <2>3, <2>5 DEF Bytes
  <1>5. QED
    BY <1>3, <1>4

-----------------------------------------------------------------------------
(* Urgent bytes.                                                           *)

UrgentTypes ==
  /\ sentTo \in Nat /\ mark \in 0 .. sentTo
  /\ owner \in BOOLEAN /\ handler \in BOOLEAN /\ sigurg \in BOOLEAN
  /\ inq \in Seq(Nat) /\ inband \in Seq(Nat) /\ urgent \in Seq(Nat)
  /\ Bytes(inq) \cup Bytes(inband) \cup Bytes(urgent) \cup urgents \subseteq 1 .. sentTo

InOrder ==
  /\ Rising(inq) /\ Rising(inband) /\ Rising(urgent)
  /\ Before(Bytes(inband), Bytes(inq))

(* The one urgent byte that counts is in the queue; the others were        *)
(* overtaken or shown apart.                                               *)
Marks ==
  /\ mark # 0 => mark \in Bytes(inq) \cap UrgentBytes
  /\ Bytes(inq) \cap UrgentBytes \subseteq overtaken \cup {mark}
  /\ Bytes(inband) \cap UrgentBytes \subseteq overtaken

(* A pending signal is the mark's, and no handler has missed one.          *)
Signals ==
  /\ handler => owner
  /\ sigurg => mark # 0 /\ Before(Bytes(urgent), {mark})
  /\ mark \in urgents => sigurg \/ mark \in Bytes(urgent)

(* Nothing is lost but urgent bytes that no handler was there for.         *)
Accounted ==
  1 .. sentTo \subseteq Bytes(inband) \cup Bytes(inq) \cup Bytes(urgent) \cup overtaken
                          \cup (UrgentBytes \ urgents)

Ending ==
  /\ program = "oob" => pieces \in 0 .. Len(Script) /\ sentTo = EndOf[pieces]
  /\ ended /\ program = "oob" => pieces = Len(Script)
  /\ recvpc = "done" => ended /\ ~sigurg /\ inq \in {<<>>, <<mark>>}

UrgentInv == UrgentTypes /\ InOrder /\ Marks /\ Signals /\ Accounted /\ Ending

LEMMA UrgentSame == program' = program => UrgentBytes' = UrgentBytes
  BY DEF UrgentBytes, IsUrgent

LEMMA NoneInPeek == program # "oob" => UrgentBytes = {}
  BY DEF UrgentBytes, IsUrgent

LEMMA UrgentStarts == AllInit => UrgentInv
  <1> SUFFICES ASSUME AllInit PROVE UrgentInv
    OBVIOUS
  <1>1. /\ pieces = 0 /\ sentTo = 0 /\ inq = <<>> /\ mark = 0 /\ ~ended
        /\ owner = FALSE /\ handler = FALSE /\ sigurg = FALSE /\ recvpc # "done"
        /\ inband = <<>> /\ urgent = <<>> /\ urgents = {} /\ overtaken = {}
    BY DEF AllInit, UrgentInit
  <1>2. Bytes(<<>>) = {} /\ Rising(<<>>)
    BY DEF Bytes, Rising
  <1>3. UrgentTypes
    <2>1. Bytes(inq) = {} /\ Bytes(inband) = {} /\ Bytes(urgent) = {} /\ urgents = {}
      BY <1>1, <1>2, Zenon
    <2>2. inq \in Seq(Nat) /\ inband \in Seq(Nat) /\ urgent \in Seq(Nat)
      BY <1>1
    <2>3. sentTo \in Nat /\ mark \in 0 .. sentTo
      BY <1>1
    <2>4. owner \in BOOLEAN /\ handler \in BOOLEAN /\ sigurg \in BOOLEAN
      BY <1>1
    <2>5. QED
      BY <2>1, <2>2, <2>3, <2>4 DEF UrgentTypes
  <1>4. InOrder /\ Marks /\ Signals
    BY <1>1, <1>2 DEF InOrder, Marks, Signals, Before
  <1>5. Accounted
    BY <1>1 DEF Accounted
  <1>6. Len(Script) \in Nat /\ (ended => FALSE)
    BY <1>1, PieceTypes
  <1>7. Ending
    BY <1>1, <1>6, EndOfStep DEF Ending
  <1>8. QED
    BY <1>3, <1>4, <1>5, <1>7 DEF UrgentInv

(* The bytes of a piece follow those sent before.                          *)
LEMMA Chunk ==
  ASSUME NEW m \in Nat, NEW n \in Nat
  PROVE  LET chunk == [b \in 1 .. n |-> m + b]
         IN  chunk \in Seq(Nat) /\ Rising(chunk) /\ Bytes(chunk) = m + 1 .. m + n
  <1> DEFINE chunk == [b \in 1 .. n |-> m + b]
  <1>1. chunk \in Seq(Nat) /\ DOMAIN chunk = 1 .. n
    <2>1. chunk \in [1 .. n -> Nat]
      OBVIOUS
    <2>2. QED
      BY <2>1
  <1>2. Rising(chunk)
    BY DEF Rising
  <1>3. Bytes(chunk) = m + 1 .. m + n
    <2>1. \A b \in m + 1 .. m + n : b - m \in 1 .. n /\ chunk[b - m] = b
      OBVIOUS
    <2>2. \A i \in 1 .. n : chunk[i] \in m + 1 .. m + n
      OBVIOUS
    <2>3. QED
      BY <1>1, <2>1, <2>2 DEF Bytes
  <1>4. QED
    BY <1>1, <1>2, <1>3

(* What a piece adds to the queue, or to what is left of it.               *)
LEMMA Queued ==
  ASSUME UrgentTypes, InOrder, NEW n \in Nat, NEW q \in Seq(Nat), Rising(q),
         Bytes(q) \subseteq Bytes(inq),
         inq' = q \o [b \in 1 .. n |-> sentTo + b]
  PROVE  /\ inq' \in Seq(Nat) /\ Rising(inq')
         /\ Bytes(inq') = Bytes(q) \cup (sentTo + 1 .. sentTo + n)
         /\ Before(Bytes(inband), Bytes(inq'))
  <1> DEFINE chunk == [b \in 1 .. n |-> sentTo + b]
  <1>1. chunk \in Seq(Nat) /\ Rising(chunk) /\ Bytes(chunk) = sentTo + 1 .. sentTo + n
    BY Chunk DEF UrgentTypes
  <1>2. inq' = q \o chunk
    OBVIOUS
  <1> HIDE DEF chunk
  <1>3. /\ inq' \in Seq(Nat) /\ Bytes(inq') = Bytes(q) \cup Bytes(chunk)
        /\ Rising(inq') <=> Rising(q) /\ Rising(chunk) /\ Before(Bytes(q), Bytes(chunk))
    <2>1. \A t \in Seq(Nat) :
            /\ q \o t \in Seq(Nat) /\ Bytes(q \o t) = Bytes(q) \cup Bytes(t)
            /\ Rising(q \o t) <=> Rising(q) /\ Rising(t) /\ Before(Bytes(q), Bytes(t))
      BY Joined
    <2>2. QED
      BY <1>1, <1>2, <2>1, ZenonT(30)
  <1>4. /\ Bytes(q) \subseteq 1 .. sentTo /\ Bytes(inband) \subseteq 1 .. sentTo /\ sentTo \in Nat
    BY DEF UrgentTypes
  <1>5. Before(Bytes(q), Bytes(chunk)) /\ Before(Bytes(inband), Bytes(chunk))
    BY <1>1, <1>4 DEF Before
  <1>6. Before(Bytes(inband), Bytes(inq'))
    BY <1>3, <1>5 DEF InOrder, Before
  <1>7. QED
    BY <1>1, <1>3, <1>5, <1>6

(* Ordinary pieces, and lines, which have no urgent byte.                  *)
LEMMA OrdinaryKeeps ==
  ASSUME UrgentInv, SendOrdinary \/ SendLine
  PROVE  UrgentInv'
  <1>1. PICK n \in Nat :
          /\ Arrive(n) /\ UNCHANGED markVars
          /\ program = "oob" => /\ pieces < Len(Script) /\ n = Script[pieces + 1].bytes
                                /\ ~Script[pieces + 1].oob
          /\ program # "oob" => ~ended
    <2>1. CASE SendOrdinary
      <3>1. pieces + 1 \in 1 .. Len(Script)
        BY <2>1, PieceTypes DEF SendOrdinary, UrgentInv, Ending
      <3>2. Script[pieces + 1].bytes \in Nat
        BY <3>1, PieceTypes
      <3>3. QED
        BY <2>1, <3>2 DEF SendOrdinary
    <2>2. CASE SendLine
      BY <2>2, UrgentAssumption DEF SendLine
    <2>3. QED
      BY <2>1, <2>2
  <1>2. /\ UNCHANGED <<program, ended, owner, handler, recvpc, inband, urgent,
                       mark, sigurg, urgents, overtaken>>
        /\ pieces' = pieces + 1 /\ sentTo' = sentTo + n
        /\ inq' = inq \o [b \in 1 .. n |-> sentTo + b]
    BY <1>1 DEF Arrive, markVars, recvVars
  <1>3. UrgentTypes /\ InOrder /\ Marks /\ Signals /\ Accounted /\ Ending
    BY DEF UrgentInv
  <1>4. /\ inq' \in Seq(Nat) /\ Rising(inq')
        /\ Bytes(inq') = Bytes(inq) \cup (sentTo + 1 .. sentTo + n)
        /\ Before(Bytes(inband), Bytes(inq'))
    BY <1>2, <1>3, Queued DEF UrgentTypes, InOrder
  <1>5. sentTo \in Nat /\ 1 .. sentTo + n = 1 .. sentTo \cup (sentTo + 1 .. sentTo + n)
    BY <1>3 DEF UrgentTypes
  <1>6. program = "oob" => /\ pieces \in Nat /\ pieces < Len(Script) /\ pieces + 1 \in 0 .. Len(Script)
                           /\ EndOf[pieces] = sentTo /\ EndOf[pieces + 1] = sentTo + n
    BY <1>1, <1>3, EndOfStep, PieceTypes DEF Ending
  <1>7. UrgentBytes' = UrgentBytes
    BY <1>2, UrgentSame
  <1>8. (sentTo + 1 .. sentTo + n) \cap UrgentBytes = {}
    <2>1. ASSUME NEW b \in sentTo + 1 .. sentTo + n, program = "oob" PROVE b \notin UrgentBytes
      <3>1. b \in Nat /\ EndOf[pieces] < b /\ b <= EndOf[pieces + 1]
        BY <1>5, <1>6, <2>1
      <3>2. QED
        BY <3>1, <1>1, <1>6, <2>1, UrgentOnes
    <2>2. QED
      BY <2>1, NoneInPeek
  <1>9. UrgentTypes'
    <2>1. 1 .. sentTo \subseteq 1 .. sentTo + n /\ sentTo + n \in Nat /\ mark \in 0 .. sentTo + n
      BY <1>3, <1>5 DEF UrgentTypes
    <2>2. QED
      BY <2>1, <1>2, <1>3, <1>4, <1>5 DEF UrgentTypes
  <1>10. InOrder'
    BY <1>2, <1>3, <1>4 DEF InOrder
  <1>11. Marks'
    BY <1>2, <1>3, <1>4, <1>7, <1>8 DEF Marks
  <1>12. Signals'
    BY <1>2, <1>3 DEF Signals
  <1>13. Accounted'
    BY <1>2, <1>3, <1>4, <1>5, <1>7 DEF Accounted
  <1>14. Ending'
    <2>1. recvpc # "done" /\ ~ (ended /\ program = "oob")
      BY <1>1, <1>3, <1>6, PieceTypes DEF Ending
    <2>2. QED
      BY <2>1, <1>2, <1>6 DEF Ending
  <1>15. QED
    BY <1>9, <1>10, <1>11, <1>12, <1>13, <1>14 DEF UrgentInv

(* An urgent piece: its last byte is the mark from now on.                 *)
LEMMA SendUrgentKeeps ==
  ASSUME UrgentInv, SendUrgent
  PROVE  UrgentInv'
  <1> DEFINE n == Script[pieces + 1].bytes
             front == inq # <<>> /\ Head(inq) = mark
             q == IF front THEN Tail(inq) ELSE inq
  <1>1. /\ program = "oob" /\ pieces < Len(Script) /\ Script[pieces + 1].oob
        /\ UNCHANGED <<program, ended, owner, handler, recvpc, inband, urgent>>
        /\ pieces' = pieces + 1 /\ sentTo' = sentTo + n
        /\ inq' = q \o [b \in 1 .. n |-> sentTo + b]
        /\ mark' = sentTo + n
        /\ urgents' = IF handler THEN urgents \cup {mark'} ELSE urgents
        /\ sigurg' = (sigurg \/ (owner /\ handler))
        /\ overtaken' = IF mark # 0 THEN overtaken \cup {mark} ELSE overtaken
    BY DEF SendUrgent, recvVars
  <1>2. UrgentTypes /\ InOrder /\ Marks /\ Signals /\ Accounted /\ Ending
    BY DEF UrgentInv
  <1>3. /\ pieces \in Nat /\ pieces + 1 \in 1 .. Len(Script) /\ Len(Script) \in Nat
        /\ n \in Nat \ {0}
    <2>1. pieces \in Nat /\ pieces + 1 \in 1 .. Len(Script) /\ Len(Script) \in Nat
      BY <1>1, <1>2, PieceTypes DEF Ending
    <2>2. QED
      BY <2>1, PieceTypes
  <1>4. EndOf[pieces] = sentTo /\ EndOf[pieces + 1] = sentTo + n
    BY <1>1, <1>2, <1>3, EndOfStep DEF Ending
  <1>5. /\ q \in Seq(Nat) /\ Rising(q) /\ Bytes(inq) \subseteq Bytes(q) \cup {mark}
        /\ Bytes(q) \subseteq Bytes(inq)
    <2>1. CASE front
      BY <2>1, <1>2, HeadFirst DEF UrgentTypes, InOrder
    <2>2. CASE ~front
      BY <2>2, <1>2 DEF UrgentTypes, InOrder
    <2>3. QED
      BY <2>1, <2>2
  <1> HIDE DEF n, front, q
  <1>6. /\ inq' \in Seq(Nat) /\ Rising(inq')
        /\ Bytes(inq') = Bytes(q) \cup (sentTo + 1 .. sentTo + n)
        /\ Before(Bytes(inband), Bytes(inq'))
    BY <1>1, <1>2, <1>3, <1>5, Queued
  <1>7. /\ sentTo \in Nat /\ 1 .. sentTo + n = 1 .. sentTo \cup (sentTo + 1 .. sentTo + n)
        /\ sentTo + n \in sentTo + 1 .. sentTo + n /\ 1 .. sentTo \subseteq 1 .. sentTo + n
        /\ sentTo + n \notin 1 .. sentTo /\ sentTo + n # 0 /\ sentTo + n \in Nat
    BY <1>2, <1>3 DEF UrgentTypes
  <1>8. UrgentBytes' = UrgentBytes
    BY <1>1, UrgentSame
  <1>9. (sentTo + 1 .. sentTo + n) \cap UrgentBytes = {mark'}
    <2>1. ASSUME NEW b \in sentTo + 1 .. sentTo + n PROVE b \in UrgentBytes <=> b = sentTo + n
      <3>1. b \in Nat /\ EndOf[pieces] < b /\ b <= EndOf[pieces + 1]
        BY <1>3, <1>4, <1>7
      <3>2. pieces \in Nat /\ pieces < Len(Script)
        BY <1>1, <1>3
      <3>3. QED
        BY <3>1, <3>2, <1>1, <1>4, UrgentOnes
    <2>2. QED
      BY <2>1, <1>1, <1>7
  <1>10. mark \in 0 .. sentTo
    BY <1>2 DEF UrgentTypes
  <1>11. UrgentTypes'
    <2>1. /\ sentTo' \in Nat /\ mark' \in 0 .. sentTo'
          /\ owner' \in BOOLEAN /\ handler' \in BOOLEAN /\ sigurg' \in BOOLEAN
      BY <1>1, <1>2, <1>7 DEF UrgentTypes
    <2>2. Bytes(inq) \cup Bytes(inband) \cup Bytes(urgent) \cup urgents \subseteq 1 .. sentTo
      BY <1>2 DEF UrgentTypes
    <2>3. urgents' \subseteq urgents \cup {mark'} /\ mark' \in 1 .. sentTo'
      BY <1>1, <1>7
    <2>4. Bytes(inq') \cup Bytes(inband) \cup Bytes(urgent) \cup urgents' \subseteq 1 .. sentTo'
      BY <2>2, <2>3, <1>1, <1>5, <1>6, <1>7
    <2>5. QED
      BY <2>1, <2>4, <1>1, <1>2, <1>6 DEF UrgentTypes
  <1>12. InOrder'
    BY <1>1, <1>2, <1>6 DEF InOrder
  <1>13. Marks'
    <2>1. mark' \in Bytes(inq') \cap UrgentBytes
      BY <1>6, <1>9
    <2>2. Bytes(inq) \cap UrgentBytes \subseteq overtaken'
      BY <1>1, <1>2 DEF Marks, UrgentTypes
    <2>3. Bytes(inq') \cap UrgentBytes \subseteq overtaken' \cup {mark'}
      BY <2>2, <1>5, <1>6, <1>9
    <2>4. Bytes(inband) \cap UrgentBytes \subseteq overtaken'
      BY <1>1, <1>2 DEF Marks
    <2>5. QED
      BY <2>1, <2>3, <2>4, <1>1, <1>8 DEF Marks
  <1>14. Signals'
    <2>1. Before(Bytes(urgent), {mark'})
      BY <1>1, <1>2, <1>3 DEF Before, UrgentTypes
    <2>2. mark' \in urgents' => handler
      BY <1>1, <1>2, <1>7 DEF UrgentTypes
    <2>3. handler => owner
      BY <1>2 DEF Signals
    <2>4. QED
      BY <2>1, <2>2, <2>3, <1>1, <1>7 DEF Signals
  <1>15. Accounted'
    <2>1. ASSUME NEW b \in 1 .. sentTo
          PROVE  b \in Bytes(inband) \cup Bytes(inq') \cup Bytes(urgent) \cup overtaken'
                         \cup (UrgentBytes \ urgents')
      <3>1. b \in urgents' => b \in urgents
        BY <1>1, <1>7
      <3>2. b # 0 /\ (b = mark => b \in overtaken') /\ overtaken \subseteq overtaken'
        BY <1>1
      <3>3. QED
        BY <3>1, <3>2, <1>2, <1>5, <1>6 DEF Accounted
    <2>2. QED
      BY <2>1, <1>1, <1>6, <1>7, <1>8 DEF Accounted
  <1>16. Ending'
    <2>1. recvpc # "done" /\ ~ended
      BY <1>1, <1>2, <1>3 DEF Ending
    <2>2. QED
      BY <2>1, <1>1, <1>3, <1>4 DEF Ending
  <1>17. QED
    BY <1>11, <1>12, <1>13, <1>14, <1>15, <1>16 DEF UrgentInv

(* The handler shows the mark.                                             *)
LEMMA HandlerKeeps ==
  ASSUME UrgentInv, urg_handler
  PROVE  UrgentInv'
  <1>1. /\ sigurg /\ sigurg' = FALSE /\ urgent' = Append(urgent, mark)
        /\ UNCHANGED <<program, pieces, sentTo, ended, inq, mark, urgents, overtaken,
                       owner, handler, recvpc, inband>>
    BY DEF urg_handler
  <1>2. UrgentTypes /\ InOrder /\ Marks /\ Signals /\ Accounted /\ Ending
    BY DEF UrgentInv
  <1>3. mark \in 1 .. sentTo /\ mark \in Nat /\ sentTo \in Nat /\ urgent \in Seq(Nat)
    BY <1>1, <1>2 DEF UrgentTypes, Signals
  <1> DEFINE one == <<mark>>
  <1>4. one \in Seq(Nat) /\ Bytes(one) = {mark} /\ Rising(one)
    BY <1>3 DEF Bytes, Rising
  <1>5. urgent' = urgent \o one
    BY <1>1, <1>3
  <1> HIDE DEF one
  <1>6. \A t \in Seq(Nat) :
          /\ urgent \o t \in Seq(Nat) /\ Bytes(urgent \o t) = Bytes(urgent) \cup Bytes(t)
          /\ Rising(urgent \o t) <=> Rising(urgent) /\ Rising(t) /\ Before(Bytes(urgent), Bytes(t))
    BY <1>3, Joined
  <1>7. urgent' \in Seq(Nat) /\ Bytes(urgent') = Bytes(urgent) \cup {mark} /\ Rising(urgent')
    <2>1. Rising(urgent) /\ Before(Bytes(urgent), {mark})
      BY <1>1, <1>2 DEF InOrder, Signals
    <2>2. QED
      BY <2>1, <1>4, <1>5, <1>6, ZenonT(30)
  <1>8. UrgentBytes' = UrgentBytes
    BY <1>1, UrgentSame
  <1>9. UrgentTypes'
    BY <1>1, <1>2, <1>3, <1>7 DEF UrgentTypes
  <1>10. InOrder' /\ Marks' /\ Accounted'
    BY <1>1, <1>2, <1>7, <1>8 DEF InOrder, Marks, Accounted
  <1>11. Signals' /\ Ending'
    BY <1>1, <1>2, <1>7 DEF Signals, Ending
  <1>12. QED
    BY <1>9, <1>10, <1>11 DEF UrgentInv

(* A recv moves bytes from the queue to what is shown, steps over a mark   *)
(* in front, and takes no other.                                           *)
LEMMA ReceiveDataKeeps ==
  ASSUME UrgentInv, NEW next, next # "done", Receive(next), recvpc # "done",
         ~ (sigurg /\ inq # <<>> /\ Head(inq) = mark)
  PROVE  UrgentInv'
  <1> DEFINE front == inq # <<>> /\ Head(inq) = mark
             rest == IF front THEN Tail(inq) ELSE inq
             n == IF ToMark(rest) < RecvSize THEN ToMark(rest) ELSE RecvSize
             s == SubSeq(rest, 1, n)
             t == SubSeq(rest, n + 1, Len(rest))
  <1>1. /\ inband' = inband \o s /\ inq' = t /\ mark' = IF front THEN 0 ELSE mark
        /\ recvpc' = next
        /\ UNCHANGED <<program, pieces, sentTo, ended, markRead, sigurg, urgents, overtaken,
                       owner, handler, urgent>>
    BY DEF Receive
  <1>2. UrgentTypes /\ InOrder /\ Marks /\ Signals /\ Accounted /\ Ending
    BY DEF UrgentInv
  <1>3. /\ rest \in Seq(Nat) /\ Rising(rest) /\ Bytes(rest) \subseteq Bytes(inq)
        /\ Bytes(inq) \subseteq Bytes(rest) \cup {mark}
        /\ front => mark \notin Bytes(rest) /\ mark \in Bytes(inq)
        /\ ~front => Bytes(rest) = Bytes(inq)
    <2>1. CASE front
      BY <2>1, <1>2, HeadFirst DEF UrgentTypes, InOrder
    <2>2. CASE ~front
      BY <2>2, <1>2 DEF UrgentTypes, InOrder
    <2>3. QED
      BY <2>1, <2>2
  <1>4. n \in Nat /\ n <= ToMark(rest)
    <2> HIDE DEF rest
    <2>1. ToMark(rest) \in Nat
      <3> DEFINE places == {k \in DOMAIN rest : rest[k] = mark}
      <3>1. ToMark(rest) = IF places = {} THEN Len(rest) ELSE (CHOOSE k \in places : TRUE) - 1
        BY DEF ToMark
      <3>2. places # {} => (CHOOSE k \in places : TRUE) \in places
        OBVIOUS
      <3>3. DOMAIN rest = 1 .. Len(rest) /\ Len(rest) \in Nat
        BY <1>3
      <3>4. QED
        BY <3>1, <3>2, <3>3
    <2>2. QED
      BY <2>1, UrgentAssumption
  <1> HIDE DEF front, rest, n
  <1>5. /\ n \in 0 .. Len(rest) /\ mark \notin Bytes(s)
    BY <1>3, <1>4, StopsAtMark
  <1>6. s \in Seq(Nat) /\ t \in Seq(Nat) /\ s \o t = rest
    BY <1>3, <1>5, CutInTwo
  <1> HIDE DEF s, t
  <1>7. /\ Bytes(rest) = Bytes(s) \cup Bytes(t) /\ Rising(s) /\ Rising(t)
        /\ Before(Bytes(s), Bytes(t))
    BY <1>3, <1>6, Joined
  <1>8. inband \in Seq(Nat) /\ Rising(inband) /\ Before(Bytes(inband), Bytes(s))
    BY <1>2, <1>3, <1>7 DEF UrgentTypes, InOrder, Before
  <1>9. \A r \in Seq(Nat) :
          /\ inband \o r \in Seq(Nat) /\ Bytes(inband \o r) = Bytes(inband) \cup Bytes(r)
          /\ Rising(inband \o r) <=> Rising(inband) /\ Rising(r) /\ Before(Bytes(inband), Bytes(r))
    BY <1>8, Joined
  <1>10. inband' \in Seq(Nat) /\ Bytes(inband') = Bytes(inband) \cup Bytes(s) /\ Rising(inband')
    BY <1>1, <1>6, <1>7, <1>8, <1>9, Zenon
  <1>11. inq' \in Seq(Nat) /\ Bytes(inq') = Bytes(t) /\ Rising(inq')
    BY <1>1, <1>6, <1>7, Zenon
  <1>12. UrgentBytes' = UrgentBytes
    BY <1>1, UrgentSame
  <1>13. mark = 0 \/ mark \in Bytes(inq) \cap UrgentBytes
    BY <1>2 DEF Marks
  <1>14. front => mark # 0 /\ ~sigurg
    <2>1. front => ~sigurg
      BY DEF front
    <2>2. QED
      BY <2>1, <1>2, <1>3 DEF UrgentTypes
  <1>15. UrgentTypes'
    <2>1. mark' \in 0 .. sentTo /\ sentTo \in Nat
      BY <1>1, <1>2 DEF UrgentTypes
    <2>2. Bytes(inq') \cup Bytes(inband') \subseteq 1 .. sentTo
      BY <1>2, <1>3, <1>7, <1>10, <1>11 DEF UrgentTypes
    <2>3. QED
      BY <2>1, <2>2, <1>1, <1>2, <1>10, <1>11 DEF UrgentTypes
  <1>16. InOrder'
    <2>1. Before(Bytes(inband'), Bytes(inq'))
      BY <1>2, <1>3, <1>7, <1>10, <1>11 DEF InOrder, Before
    <2>2. QED
      BY <2>1, <1>1, <1>2, <1>10, <1>11 DEF InOrder
  <1>17. Marks'
    <2>1. Bytes(s) \cap UrgentBytes \subseteq overtaken
      BY <1>2, <1>3, <1>5, <1>7 DEF Marks
    <2>2. Bytes(t) \cap UrgentBytes \subseteq overtaken \cup {mark'}
      BY <1>1, <1>2, <1>3, <1>7 DEF Marks
    <2>3. mark' # 0 => mark' \in Bytes(t) \cap UrgentBytes
      BY <1>1, <1>3, <1>5, <1>7, <1>13
    <2>4. QED
      BY <2>1, <2>2, <2>3, <1>1, <1>2, <1>10, <1>11, <1>12 DEF Marks
  <1>18. Signals'
    <2>1. front => mark' = 0 /\ 0 \notin urgents
      BY <1>1, <1>2 DEF UrgentTypes
    <2>2. ~front => mark' = mark
      BY <1>1
    <2>3. QED
      BY <2>1, <2>2, <1>1, <1>2, <1>14 DEF Signals
  <1>19. Accounted'
    <2>1. front => mark \in Bytes(urgent) \cup (UrgentBytes \ urgents)
      BY <1>2, <1>13, <1>14 DEF Signals
    <2>2. Bytes(inq) \subseteq Bytes(s) \cup Bytes(t) \cup Bytes(urgent) \cup (UrgentBytes \ urgents)
      BY <2>1, <1>3, <1>7
    <2>3. QED
      BY <2>2, <1>1, <1>2, <1>10, <1>11, <1>12 DEF Accounted
  <1>20. Ending'
    BY <1>1, <1>2 DEF Ending
  <1>21. QED
    BY <1>15, <1>16, <1>17, <1>18, <1>19, <1>20 DEF UrgentInv

LEMMA UrgentKeeps ==
  ASSUME UrgentInv, UrgentNext
  PROVE  UrgentInv'
  <1>1. UrgentTypes /\ InOrder /\ Marks /\ Signals /\ Accounted /\ Ending
    BY DEF UrgentInv
  <1>2. program # "oob" => mark = 0 /\ ~sigurg
    BY <1>1, NoneInPeek DEF Marks, Signals
  (* Steps that move no byte.                                              *)
  <1>3. ASSUME UNCHANGED <<program, pieces, sentTo, inq, mark, sigurg, urgents, overtaken,
                           inband, urgent>>,
               owner' \in BOOLEAN, handler' \in BOOLEAN, handler' => owner',
               Ending'
        PROVE  UrgentInv'
    <2>1. UrgentBytes' = UrgentBytes
      BY <1>3, UrgentSame
    <2>2. UrgentTypes'
      BY <1>1, <1>3 DEF UrgentTypes
    <2>3. InOrder' /\ Marks' /\ Signals' /\ Accounted'
      BY <2>1, <1>1, <1>3 DEF InOrder, Marks, Signals, Accounted
    <2>4. QED
      BY <2>2, <2>3, <1>3 DEF UrgentInv
  <1>4. CASE CloseSender
    <2>1. Ending'
      BY <1>1, <1>4 DEF CloseSender, markVars, recvVars, Ending
    <2>2. QED
      BY <2>1, <1>1, <1>3, <1>4 DEF CloseSender, markVars, recvVars, UrgentTypes, Signals
  <1>5. CASE SetOwner \/ SetHandler
    <2>1. Ending'
      BY <1>1, <1>5 DEF SetOwner, SetHandler, markVars, Ending
    <2>2. QED
      BY <2>1, <1>1, <1>3, <1>5 DEF SetOwner, SetHandler, markVars, UrgentTypes, Signals
  <1>6. CASE RecvEnd \/ Peek
    <2>1. Ending'
      BY <1>1, <1>2, <1>6 DEF RecvEnd, Peek, markVars, Ending
    <2>2. QED
      BY <2>1, <1>1, <1>3, <1>6 DEF RecvEnd, Peek, markVars, UrgentTypes, Signals
  <1>7. CASE RecvData
    BY <1>7, ReceiveDataKeeps DEF RecvData
  <1>8. CASE TakePeeked
    BY <1>2, <1>8, ReceiveDataKeeps DEF TakePeeked
  <1>9. QED
    BY <1>4, <1>5, <1>6, <1>7, <1>8, OrdinaryKeeps, SendUrgentKeeps, HandlerKeeps
       DEF UrgentNext, OobSender, PeekSender, OobReceiver, PeekReceiver

LEMMA UrgentStays ==
  ASSUME UrgentInv, UNCHANGED urgentVars
  PROVE  UrgentInv'
  <1>1. UNCHANGED <<program, pieces, sentTo, ended, inq, mark, sigurg, urgents, overtaken,
                    owner, handler, recvpc, inband, urgent>>
    BY DEF urgentVars, markVars, recvVars
  <1>2. UrgentBytes' = UrgentBytes
    BY <1>1, UrgentSame
  <1>3. QED
    BY <1>1, <1>2 DEF UrgentInv, UrgentTypes, InOrder, Marks, Signals, Accounted, Ending

LEMMA UrgentShown == UrgentInv => BytesShown
  <1> SUFFICES ASSUME UrgentInv PROVE BytesShown
    OBVIOUS
  <1>1. UrgentTypes /\ InOrder /\ Marks /\ Signals /\ Accounted /\ Ending
    BY DEF UrgentInv
  <1>2. ASSUME NEW i \in DOMAIN inband, IsUrgent(inband[i]) PROVE inband[i] \in overtaken
    <2>1. inband[i] \in Bytes(inband) /\ inband[i] \in Nat
      BY <1>1 DEF Bytes, UrgentTypes
    <2>2. QED
      BY <2>1, <1>1, <1>2 DEF Marks, UrgentBytes
  <1>3. ASSUME recvpc = "done", NEW b \in 1 .. sentTo
        PROVE  b \in Bytes(inband) \cup Bytes(urgent) \cup overtaken \cup (UrgentBytes \ urgents)
    <2>1. Bytes(inq) \subseteq {mark} /\ ~sigurg
      BY <1>1, <1>3 DEF Ending, Bytes
    <2>2. b \in Bytes(inq) => b = mark /\ mark \in UrgentBytes
      BY <2>1, <1>1, <1>3 DEF Marks
    <2>3. QED
      BY <2>1, <2>2, <1>1, <1>3 DEF Accounted, Signals
  <1>4. QED
    BY <1>1, <1>2, <1>3 DEF BytesShown, InOrder, Rising, Bytes, UrgentBytes

-----------------------------------------------------------------------------
(* The split client.                                                       *)

(* A line that is on its way stays within the counts; the parent prints no *)
(* line before it is echoed.                                               *)
LEMMA LineKeeps ==
  ASSUME IndInv, ServerEcho \/ ReadLine \/ Write \/ WriteFails \/ Input
  PROVE  IndInv'
  <1> USE MaxLinesAssumption DEF IndInv, TypeOK, ReadsAllEchoes, Bookkeeping, srvVars
  <1>1. CASE ServerEcho
    BY <1>1 DEF ServerEcho
  <1>2. CASE ReadLine
    BY <1>2 DEF ReadLine
  <1>3. CASE Write
    BY <1>3 DEF Write
  <1>4. CASE WriteFails
    BY <1>4 DEF WriteFails
  <1>5. CASE Input
    BY <1>5 DEF Input
  <1>6. QED
    BY <1>1, <1>2, <1>3, <1>4, <1>5

(* What ends does so in order: the child sends its end of stream, the      *)
(* server closes, the parent has read everything.                          *)
LEMMA EndKeeps ==
  ASSUME IndInv,
         ServerClose \/ Fork \/ ReadEnd \/ Kill \/ ReadChildProc \/ Shutdown \/ WriterEnds
  PROVE  IndInv'
  <1> USE DEF IndInv, TypeOK, ReadsAllEchoes, Bookkeeping, srvVars
  <1>1. CASE ServerClose
    BY <1>1 DEF ServerClose
  <1>2. CASE Fork
    BY <1>2 DEF Fork
  <1>3. CASE ReadEnd
    BY <1>3 DEF ReadEnd, AtEnd
  <1>4. CASE Kill
    BY <1>4 DEF Kill, Alive
  <1>5. CASE ReadChildProc
    BY <1>5 DEF ReadChildProc
  <1>6. CASE Shutdown
    BY <1>6 DEF Shutdown
  <1>7. CASE WriterEnds
    BY <1>7 DEF WriterEnds, Alive
  <1>8. QED
    BY <1>1, <1>2, <1>3, <1>4, <1>5, <1>6, <1>7

(* IndInv is inductive, hence an invariant of the split client, which may  *)
(* be one of the programs here or run alone.                               *)
THEOREM Invariance == Spec => []IndInv
  <1>1. Init => IndInv
    <2>1. ASSUME Init PROVE TypeOK
      <3>1. sent \in 0 .. MaxLines /\ echoed \in 0 .. sent /\ got \in 0 .. echoed
        BY <2>1, MaxLinesAssumption DEF Init
      <3>2. QED
        BY <2>1, <3>1, Zenon DEF Init, TypeOK
    <2>2. ASSUME Init PROVE ReadsAllEchoes /\ Bookkeeping
      BY <2>2 DEF Init, ReadsAllEchoes, Bookkeeping
    <2>3. QED
      BY <2>1, <2>2 DEF IndInv
  <1>2. IndInv /\ [Next]_vars => IndInv'
    <2>1. ASSUME IndInv, Next PROVE IndInv'
      BY <2>1, LineKeeps, EndKeeps DEF Next, Reader, Writer
    <2>2. ASSUME IndInv, UNCHANGED vars PROVE IndInv'
      BY <2>2 DEF vars, srvVars, IndInv, TypeOK, ReadsAllEchoes, Bookkeeping
    <2>3. QED
      BY <2>1, <2>2
  <1>3. QED
    BY <1>1, <1>2, PTL DEF Spec

(* The types: what is printed was echoed, what is echoed was sent.         *)
THEOREM TypeCorrect == Spec => []TypeOK
  BY Invariance, PTL DEF IndInv

-----------------------------------------------------------------------------
(* All of them.                                                            *)

(* Among the small programs the split client takes only its own steps,     *)
(* whichever program runs: what holds of it alone holds of it here.        *)
THEOREM SplitImplemented == AllSpec => Spec
  <1>1. AllInit => Init
    BY DEF AllInit
  <1>2. [AllNext]_allVars => [Next]_vars
    BY DEF AllNext, OneWayStep, DatagramStep, UrgentStep, LocalStep, SplitStep, allVars
  <1>3. QED
    BY <1>1, <1>2, PTL DEF AllSpec, Spec

(* The comment at echo_mpclient.c:85: the half-close keeps the reading     *)
(* direction usable until everything has come back.                        *)
THEOREM HalfCloseDrains == Spec => []ReadsAllEchoes
  BY Invariance, PTL DEF IndInv

(* ... and the same when it is one of the small programs.                  *)
THEOREM HalfCloseDrainsHere == AllSpec => []ReadsAllEchoes
  BY SplitImplemented, HalfCloseDrains, PTL

LEMMA OneWaySteps == [AllNext]_allVars => OneWayNext \/ UNCHANGED oneWayVars
  BY DEF AllNext, OneWayStep, DatagramStep, UrgentStep, LocalStep, SplitStep, allVars

LEMMA OneWayInvariance == AllSpec => []OneWayInv
  <1>1. OneWayInv /\ [AllNext]_allVars => OneWayInv'
    BY OneWaySteps, OneWayStays, AcceptKeeps, ServerKeeps, ClientKeeps DEF OneWayNext
  <1>2. QED
    BY <1>1, OneWayStarts, PTL DEF AllSpec

(* A client that reads to the end of the stream has all of the text, once  *)
(* and in order, of any length and chunk size (file_server.c:60-71,        *)
(* hello_server2.c, sep_server2.c:63-69).                                  *)
THEOREM WholeText == AllSpec => []ArrivesWhole
  BY OneWayInvariance, OneWayWhole, PTL

(* The safety half of ThanksHeard: a server goes on from a client that did *)
(* thank only when it has printed that client's thanks; of one that did    *)
(* not it says nothing                                                     *)
(* (file_server.c:76-87, sep_server2.c:76-81).                             *)
THEOREM PrintsOwnThanks == AllSpec => OwnThanks
  <1>1. OneWayInv /\ ThanksOnTheWay /\ [AllNext]_allVars => ThanksOnTheWay'
    BY ThanksOnTheWayKept, OneWaySteps DEF ThanksOnTheWay, oneWayVars, oneWayConf,
       oneWayServer, oneWayClient
  <1>2. ThanksOnTheWay /\ [AllNext]_allVars =>
          [spc = "listen" /\ spc' \notin {"listen", "killed"} /\ said
             => printed' = session]_oneWayVars
    BY PrintsOwn, OneWaySteps
  <1>3. QED
    BY <1>1, <1>2, OneWayInvariance, ThanksOnTheWayStarts, PTL DEF AllSpec, OwnThanks

(* Every UDP client shows the echo of its own last message, whatever is    *)
(* lost and however the network orders the rest (uecho_client.c:50-61,     *)
(* uecho_server.c:48-59).                                                  *)
THEOREM OwnEcho == AllSpec => []EchoesOwn
  <1>1. EchoInv /\ [AllNext]_allVars => EchoInv'
    <2>1. [AllNext]_allVars => DatagramsNext \/ UNCHANGED dgramVars
      BY DEF AllNext, OneWayStep, DatagramStep, UrgentStep, LocalStep, SplitStep, allVars
    <2>2. QED
      BY <2>1, EchoKeeps, EchoStays
  <1>2. QED
    BY <1>1, EchoStarts, EchoOwn, PTL DEF AllSpec

(* Every receiver gets the lines of the news in order, each at most once   *)
(* but the last (news_sender.c:26-35).                                     *)
THEOREM OrderedNews == AllSpec => []NewsInOrder
  <1>1. NewsInv /\ [AllNext]_allVars => NewsInv'
    <2>1. [AllNext]_allVars => DatagramsNext \/ UNCHANGED dgramVars
      BY DEF AllNext, OneWayStep, DatagramStep, UrgentStep, LocalStep, SplitStep, allVars
    <2>2. QED
      BY <2>1, NewsKeeps, NewsStays
  <1>2. QED
    BY <1>1, NewsStarts, NewsOrdered, PTL DEF AllSpec

(* Whatever the sender's script and whenever SIGURG comes, the receiver    *)
(* shows the ordinary bytes in order, each once, and the urgent ones the   *)
(* handler was there for (oob_recv.c:20-43, peek_recv.c:21-41).            *)
THEOREM AllBytesShown == AllSpec => []BytesShown
  <1>1. UrgentInv /\ [AllNext]_allVars => UrgentInv'
    <2>1. [AllNext]_allVars => UrgentNext \/ UNCHANGED urgentVars
      BY DEF AllNext, OneWayStep, DatagramStep, UrgentStep, LocalStep, SplitStep, allVars
    <2>2. QED
      BY <2>1, UrgentKeeps, UrgentStays
  <1>2. QED
    BY <1>1, UrgentStarts, UrgentShown, PTL DEF AllSpec

=============================================================================
