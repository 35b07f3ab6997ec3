------------------------- MODULE RequestReplyProofs -------------------------
(***************************************************************************)
(* For every layout, buffer size, width of an int and set of requests: as  *)
(* long as no answer came in pieces to a client that reads once, client    *)
(* and server are in step.  Picture says where the bytes of the client's   *)
(* last request are; ClientInStep follows.  It also says which bytes of    *)
(* op_server's array are the right ones, so what the server calculates is  *)
(* calculate of the request; and calculate, which wraps around after every *)
(* operation, is the exact result wrapped around once.                     *)
(***************************************************************************)
EXTENDS RequestReply, SequenceTheorems, FiniteSetTheorems, WellFoundedInduction, TLAPS

(* A nonempty set of numbers has a least element: with it, a proof by      *)
(* induction is one from the least counterexample.                         *)
LEMMA LeastOf ==
  ASSUME NEW S, S \subseteq Nat, S # {}
  PROVE  \E x \in S : \A y \in S : x <= y
  <1> DEFINE R == {p \in Nat \X Nat : p[1] < p[2]}
  <1>1. IsWellFoundedOn(R, Nat)
    BY NatLessThanWellFounded DEF OpToRel
  <1> HIDE DEF R
  <1>2. PICK x \in S : \A y \in S : ~ (<<y, x>> \in R)
    BY <1>1, WFMin
  <1>3. ASSUME NEW y \in S PROVE x <= y
    <2>1. ~ (y < x)
      BY <1>2 DEF R
    <2>2. QED
      BY <2>1
  <1>4. QED
    BY <1>3

-----------------------------------------------------------------------------
(* Integers that wrap around.                                              *)

LEMMA Halves == Half \in Nat \ {0} /\ Width = 2 * Half
  BY SizesAssumption DEF Half

(* What is left after a division is left only one way.                     *)
LEMMA OneRemainder ==
  ASSUME NEW W \in Nat \ {0}, NEW a \in Int, NEW b \in Int,
         NEW r \in 0 .. W - 1, NEW s \in 0 .. W - 1, W * a + r = W * b + s
  PROVE  r = s
  <1>1. ASSUME NEW d \in Int, d >= 1 PROVE W * d >= W
    <2>1. W * (d - 1) >= 0 /\ W * d = W * (d - 1) + W
      BY <1>1
    <2>2. QED
      BY <2>1
  <1>2. W * (a - b) = s - r /\ W * (b - a) = r - s
    OBVIOUS
  <1>3. ~ (a - b >= 1)
    <2> SUFFICES ASSUME a - b >= 1 PROVE FALSE
      OBVIOUS
    <2>1. W * (a - b) >= W
      BY <1>1
    <2>2. QED
      BY <1>2, <2>1
  <1>4. ~ (b - a >= 1)
    <2> SUFFICES ASSUME b - a >= 1 PROVE FALSE
      OBVIOUS
    <2>1. W * (b - a) >= W
      BY <1>1
    <2>2. QED
      BY <1>2, <2>1
  <1>5. a = b
    BY <1>3, <1>4
  <1>6. QED
    BY <1>2, <1>5

LEMMA Quotient ==
  ASSUME NEW W \in Nat \ {0}, NEW n \in Int
  PROVE  /\ n % W \in 0 .. W - 1 /\ n \div W \in Int
         /\ n = W * (n \div W) + (n % W)
  OBVIOUS

(* A number is brought into range by adding a multiple of Width.           *)
LEMMA WrapIs ==
  ASSUME NEW n \in Int
  PROVE  Wrap(n) \in -Half .. Half - 1 /\ \E k \in Int : Wrap(n) = n + k * Width
  <1>1. Half \in Nat \ {0} /\ Width = 2 * Half /\ Width \in Nat \ {0} /\ n + Half \in Int
    BY Halves
  <1>2. PICK q \in Int, m \in 0 .. Width - 1 : n + Half = Width * q + m /\ (n + Half) % Width = m
    BY <1>1, Quotient
  <1>3. Wrap(n) = m - Half
    BY <1>2 DEF Wrap
  <1>4. m - Half = n + (-q) * Width /\ -q \in Int
    BY <1>1, <1>2
  <1>5. m - Half \in -Half .. Half - 1
    BY <1>1, <1>2
  <1>6. QED
    BY <1>3, <1>4, <1>5

LEMMA WrapSame ==
  ASSUME NEW n \in Int, NEW k \in Int
  PROVE  Wrap(n + k * Width) = Wrap(n)
  <1>1. Half \in Nat \ {0} /\ Width \in Nat \ {0} /\ n + Half \in Int
    BY Halves
  <1>2. PICK q \in Int, m \in 0 .. Width - 1 : n + Half = Width * q + m /\ (n + Half) % Width = m
    BY <1>1, Quotient
  <1>3. PICK x \in Int : x = (n + k * Width) + Half
    BY <1>1
  <1>4. PICK p \in Int, l \in 0 .. Width - 1 : x = Width * p + l /\ x % Width = l
    BY <1>1, Quotient
  <1>5. Width * p + l = Width * (q + k) + m /\ q + k \in Int
    BY <1>1, <1>2, <1>3, <1>4
  <1>6. l = m
    BY <1>1, <1>5, OneRemainder
  <1>7. QED
    BY <1>2, <1>3, <1>4, <1>6 DEF Wrap

LEMMA InRange ==
  ASSUME NEW n \in -Half .. Half - 1
  PROVE  Wrap(n) = n
  <1>1. Half \in Nat \ {0} /\ Width = 2 * Half /\ Width \in Nat \ {0}
    BY Halves
  <1>2. PICK x \in Int : x = n + Half /\ x \in 0 .. Width - 1
    BY <1>1
  <1>3. PICK p \in Int, l \in 0 .. Width - 1 : x = Width * p + l /\ x % Width = l
    BY <1>1, Quotient
  <1>4. Width * 0 + x = Width * p + l
    BY <1>1, <1>3
  <1>5. x = l
    BY <1>1, <1>2, <1>4, OneRemainder
  <1>6. QED
    BY <1>1, <1>2, <1>3, <1>5 DEF Wrap

(* Bringing the operand into range first changes nothing.                  *)
LEMMA WrapThenApply ==
  ASSUME NEW op \in {"+", "-", "*"}, NEW a \in Int, NEW b \in Int
  PROVE  /\ Apply(op, a, b) \in Int /\ Wrap(a) \in Int
         /\ Wrap(Apply(op, Wrap(a), b)) = Wrap(Apply(op, a, b))
  <1>1. PICK k \in Int : Wrap(a) = a + k * Width
    BY WrapIs
  <1>2. Width \in Int /\ Half \in Int
    BY Halves
  <1>3. CASE op = "+"
    <2>1. PICK e \in Int : e = a + b
      OBVIOUS
    <2>2. Apply(op, a, b) = e /\ Apply(op, Wrap(a), b) = e + k * Width
      BY <1>1, <1>2, <1>3, <2>1 DEF Apply
    <2>3. Wrap(e + k * Width) = Wrap(e)
      BY WrapSame
    <2>4. QED
      BY <1>1, <1>2, <2>2, <2>3
  <1>4. CASE op = "-"
    <2>1. PICK e \in Int : e = a - b
      OBVIOUS
    <2>2. Apply(op, a, b) = e /\ Apply(op, Wrap(a), b) = e + k * Width
      BY <1>1, <1>2, <1>4, <2>1 DEF Apply
    <2>3. Wrap(e + k * Width) = Wrap(e)
      BY WrapSame
    <2>4. QED
      BY <1>1, <1>2, <2>2, <2>3
  <1>5. CASE op = "*"
    <2>1. PICK e \in Int, m \in Int : e = a * b /\ m = k * b
      OBVIOUS
    <2>2. (a + k * Width) * b = e + m * Width
      BY <1>2, <2>1
    <2>3. Apply(op, a, b) = e /\ Apply(op, Wrap(a), b) = e + m * Width
      BY <1>1, <1>5, <2>1, <2>2 DEF Apply
    <2>4. Wrap(e + m * Width) = Wrap(e)
      BY WrapSame
    <2>5. QED
      BY <1>1, <1>2, <2>3, <2>4
  <1>6. QED
    BY <1>3, <1>4, <1>5

-----------------------------------------------------------------------------
(* The loop of calculate.                                                  *)

(* f gives ret after each of the first n passes.                           *)
Rets(f, r, n) ==
  f = [i \in 1 .. n |-> IF i = 1 THEN r.params[1] ELSE Wrap(Apply(r.op, f[i - 1], r.params[i]))]

LEMMA RetsExist ==
  ASSUME NEW r, Len(r.params) \in Nat
  PROVE  \E f : Rets(f, r, Len(r.params))
  <1> DEFINE Missing == {n \in Nat : n <= Len(r.params) /\ ~ \E f : Rets(f, r, n)}
  <1>1. SUFFICES ASSUME Missing # {} PROVE FALSE
    OBVIOUS
  <1>2. PICK n \in Missing : \A m \in Missing : n <= m
    BY <1>1, LeastOf
  <1>3. n # 0
    <2>1. Rets([i \in 1 .. 0 |-> 0], r, 0)
      BY DEF Rets
    <2>2. QED
      BY <2>1
  <1>4. PICK g : Rets(g, r, n - 1)
    <2>1. n - 1 \in Nat /\ n - 1 <= Len(r.params) /\ ~ (n <= n - 1)
      BY <1>3
    <2>2. n - 1 \notin Missing
      BY <2>1, <1>2
    <2>3. QED
      BY <2>1, <2>2
  <1> DEFINE Pass(h, i) == IF i = 1 THEN r.params[1] ELSE Wrap(Apply(r.op, h[i - 1], r.params[i]))
             f == [i \in 1 .. n |-> IF i = n THEN Pass(g, n) ELSE g[i]]
  <1>5. ASSUME NEW i \in 1 .. n PROVE f[i] = Pass(f, i)
    <2>1. \A j \in 1 .. n - 1 : g[j] = Pass(g, j)
      BY <1>4, Zenon DEF Rets
    <2>2. CASE i = n
      <3>1. f[i] = Pass(g, i)
        BY <2>2
      <3>2. i # 1 => f[i - 1] = g[i - 1]
        BY <2>2
      <3>3. QED
        BY <3>1, <3>2
    <2>3. CASE i \in 1 .. n - 1
      <3>1. f[i] = g[i] /\ (i # 1 => f[i - 1] = g[i - 1])
        BY <2>3
      <3>2. QED
        BY <2>1, <2>3, <3>1
    <2>4. QED
      BY <2>2, <2>3
  <1>6. Rets(f, r, n)
    BY <1>5, Zenon DEF Rets
  <1>7. QED
    BY <1>6

LEMMA RetStep ==
  ASSUME NEW r, Len(r.params) \in Nat
  PROVE  \A i \in 1 .. Len(r.params) :
           Ret(r)[i] = IF i = 1 THEN r.params[1]
                    ELSE Wrap(Apply(r.op, Ret(r)[i - 1], r.params[i]))
  <1>1. Rets(Ret(r), r, Len(r.params))
    BY RetsExist, Zenon DEF Ret, Rets
  <1>2. QED
    BY <1>1, Zenon DEF Rets

(* f gives the exact result after each of the first n passes.              *)
Exacts(f, r, n) ==
  f = [i \in 1 .. n |-> IF i = 1 THEN r.params[1] ELSE Apply(r.op, f[i - 1], r.params[i])]

LEMMA ExactsExist ==
  ASSUME NEW r, Len(r.params) \in Nat
  PROVE  \E f : Exacts(f, r, Len(r.params))
  <1> DEFINE Missing == {n \in Nat : n <= Len(r.params) /\ ~ \E f : Exacts(f, r, n)}
  <1>1. SUFFICES ASSUME Missing # {} PROVE FALSE
    OBVIOUS
  <1>2. PICK n \in Missing : \A m \in Missing : n <= m
    BY <1>1, LeastOf
  <1>3. n # 0
    <2>1. Exacts([i \in 1 .. 0 |-> 0], r, 0)
      BY DEF Exacts
    <2>2. QED
      BY <2>1
  <1>4. PICK g : Exacts(g, r, n - 1)
    <2>1. n - 1 \in Nat /\ n - 1 <= Len(r.params) /\ ~ (n <= n - 1)
      BY <1>3
    <2>2. n - 1 \notin Missing
      BY <2>1, <1>2
    <2>3. QED
      BY <2>1, <2>2
  <1> DEFINE Pass(h, i) == IF i = 1 THEN r.params[1] ELSE Apply(r.op, h[i - 1], r.params[i])
             f == [i \in 1 .. n |-> IF i = n THEN Pass(g, n) ELSE g[i]]
  <1>5. ASSUME NEW i \in 1 .. n PROVE f[i] = Pass(f, i)
    <2>1. \A j \in 1 .. n - 1 : g[j] = Pass(g, j)
      BY <1>4, Zenon DEF Exacts
    <2>2. CASE i = n
      <3>1. f[i] = Pass(g, i)
        BY <2>2
      <3>2. i # 1 => f[i - 1] = g[i - 1]
        BY <2>2
      <3>3. QED
        BY <3>1, <3>2
    <2>3. CASE i \in 1 .. n - 1
      <3>1. f[i] = g[i] /\ (i # 1 => f[i - 1] = g[i - 1])
        BY <2>3
      <3>2. QED
        BY <2>1, <2>3, <3>1
    <2>4. QED
      BY <2>2, <2>3
  <1>6. Exacts(f, r, n)
    BY <1>5, Zenon DEF Exacts
  <1>7. QED
    BY <1>6

LEMMA ExactStep ==
  ASSUME NEW r, Len(r.params) \in Nat
  PROVE  \A i \in 1 .. Len(r.params) :
           Exact(r)[i] = IF i = 1 THEN r.params[1]
                    ELSE Apply(r.op, Exact(r)[i - 1], r.params[i])
  <1>1. Exacts(Exact(r), r, Len(r.params))
    BY ExactsExist, Zenon DEF Exact, Exacts
  <1>2. QED
    BY <1>1, Zenon DEF Exacts

(* Wrapping around at every pass gives what wrapping the exact result      *)
(* around once gives (op_server.c:37-62).                                  *)
LEMMA WrapsOnce ==
  ASSUME NEW r, r.params \in Seq(-Half .. Half - 1), r.op \in {"+", "-", "*"}
  PROVE  \A i \in 1 .. Len(r.params) :
           Exact(r)[i] \in Int /\ Ret(r)[i] = Wrap(Exact(r)[i])
  <1> DEFINE Good(i) == Exact(r)[i] \in Int /\ Ret(r)[i] = Wrap(Exact(r)[i])
             Bad == {i \in Nat : i \in 1 .. Len(r.params) /\ ~Good(i)}
  <1>1. Len(r.params) \in Nat /\ \A i \in 1 .. Len(r.params) : r.params[i] \in -Half .. Half - 1
    <2> DEFINE Ints == -Half .. Half - 1
    <2>1. r.params \in Seq(Ints)
      OBVIOUS
    <2> HIDE DEF Ints
    <2>2. Len(r.params) \in Nat /\ \A i \in 1 .. Len(r.params) : r.params[i] \in Ints
      BY <2>1
    <2>3. QED
      BY <2>2 DEF Ints
  <1>2. ASSUME Bad # {} PROVE FALSE
    <2>1. PICK i \in Bad : \A j \in Bad : i <= j
      BY <1>2, LeastOf
    <2>2. i \in 1 .. Len(r.params) /\ r.params[i] \in -Half .. Half - 1 /\ Half \in Nat
      BY <1>1, <2>1, Halves
    <2>3. CASE i = 1
      <3>1. Exact(r)[i] = r.params[i] /\ Ret(r)[i] = r.params[i]
        BY <1>1, <2>2, <2>3, RetStep, ExactStep
      <3>2. Wrap(r.params[i]) = r.params[i] /\ r.params[i] \in Int
        BY <2>2, InRange
      <3>3. QED
        BY <2>1, <3>1, <3>2
    <2>4. CASE i # 1
      <3>1. i - 1 \in 1 .. Len(r.params) /\ i - 1 \in Nat /\ ~ (i <= i - 1)
        BY <1>1, <2>2, <2>4
      <3>2. Good(i - 1)
        BY <2>1, <3>1
      <3>3. PICK a \in Int, b \in Int, op \in {"+", "-", "*"} :
              a = Exact(r)[i - 1] /\ b = r.params[i] /\ op = r.op
        BY <2>2, <3>2
      <3>4. Ret(r)[i - 1] = Wrap(a)
        BY <3>2, <3>3
      <3>5. Exact(r)[i] = Apply(op, a, b) /\ Ret(r)[i] = Wrap(Apply(op, Wrap(a), b))
        BY <1>1, <2>2, <2>4, <3>3, <3>4, RetStep, ExactStep
      <3>6. Apply(op, a, b) \in Int /\ Wrap(Apply(op, Wrap(a), b)) = Wrap(Apply(op, a, b))
        BY WrapThenApply
      <3>7. QED
        BY <2>1, <3>5, <3>6
    <2>5. QED
      BY <2>3, <2>4
  <1>3. QED
    BY <1>1, <1>2

LEMMA CalculateExpected ==
  ASSUME NEW r \in Requests
  PROVE  calculate(r) = Expected(r) /\ calculate(r) \in Int \cup {Err}
  <1>1. r.params \in Seq(-Half .. Half - 1)
    BY EntriesAssumption DEF Half
  <1>2. CASE r.params = <<>> \/ r.op \notin {"+", "-", "*"}
    BY <1>2 DEF calculate, Expected
  <1>3. CASE ~ (r.params = <<>> \/ r.op \notin {"+", "-", "*"})
    <2>1. PICK n \in 1 .. Len(r.params) : n = Len(r.params)
      BY <1>1, <1>3
    <2>2. Exact(r)[n] \in Int /\ Ret(r)[n] = Wrap(Exact(r)[n])
      BY <1>1, <1>3, WrapsOnce
    <2>3. Wrap(Exact(r)[n]) \in Int
      <3>1. PICK e \in Int : e = Exact(r)[n]
        BY <2>2
      <3>2. Wrap(e) \in -Half .. Half - 1 /\ Half \in Nat
        BY WrapIs, Halves
      <3>3. QED
        BY <3>1, <3>2
    <2>4. QED
      BY <1>3, <2>1, <2>2, <2>3 DEF calculate, Expected
  <1>4. QED
    BY <1>2, <1>3

-----------------------------------------------------------------------------
(* The client and the server in step: which request the client is at, and  *)
(* where its bytes are.                                                    *)

K   == Len(requests)
Now == Last(requests)

(* Nothing has gone wrong that a client is not told of.                    *)
InScope == torn \cap {"result", "unanswered"} = {}

Flow ==
  /\ inq \in Seq(Nat \X Nat) /\ out \in Seq(Nat) /\ shown \in Seq(Nat)
  /\ inArrived \in 0 .. Len(inq) /\ outArrived \in 0 .. Len(out)

AllOf(s) == \A j \in DOMAIN s : s[j] = K

(* What an echo server has read and not written, and what echo_client2 has *)
(* read so far.                                                            *)
Held == IF spc = "reply" THEN Len(echo) ELSE 0
Had  == IF mode = "echo2" THEN Len(shown) ELSE 0

(* While a client of an echo server waits, its line is on its way to the   *)
(* server, in the server, or on its way back; no byte is of another line.  *)
Asking ==
  /\ inq = <<>> /\ out = <<>> /\ spc # "reply"
  /\ shown # <<>> => AllOf(shown) /\ Len(shown) = Size(Now) /\ K # 0

Waiting ==
  /\ K # 0 /\ AllOf(out) /\ \A j \in DOMAIN inq : inq[j][1] = K
  /\ mode = "echo2" => AllOf(shown)
  /\ conn = "open" => Had + Len(out) + Held + Len(inq) = Size(Now)
  /\ mode = "std" => /\ out = <<>> \/ (Len(out) = Size(Now) /\ inq = <<>>)
                     /\ spc = "reply" => Len(echo) = Size(Now)

EchoPicture ==
  cpc # "gone" =>
    /\ Flow
    /\ \/ conn = "open" /\ spc \in {"read", "reply"}
       \/ mode = "std" /\ conn = "closed" /\ spc = "killed"
    /\ spc = "reply" => echo \in Seq(Nat) /\ AllOf(echo) /\ echo # <<>>
    /\ cpc = "ask" => Asking
    /\ cpc = "wait" => Waiting

(* What is left of the stream are the bytes of the request from one on.    *)
Remains(from) ==
  /\ K # 0 /\ Len(inq) = Size(Now) - from
  /\ \A j \in DOMAIN inq : inq[j] = <<K, from + j - 1>>

(* op_server has the count of the client's request and some of the rest,   *)
(* every byte in its place unless a read ended inside an int.              *)
InPlace ==
  /\ mode = "int" => op_recv_len % OP_PARAM_SIZE = 0
  /\ \A b \in 0 .. op_recv_len - 1 : Place(0) + b \in message

Reading ==
  /\ serving = K /\ op_num = Len(Now.params) /\ op_num > 0
  /\ op_recv_len \in 0 .. op_total_len(op_num) - 1 /\ Remains(CountBytes + op_recv_len)
  /\ "int" \notin torn => InPlace

Replying ==
  /\ K # 0 /\ inq = <<>> /\ serving = K /\ cal_result \in Int \cup {Err}
  /\ "int" \notin torn => cal_result = calculate(Now)

CalcPicture ==
  /\ Flow
  /\ spc = "read" => inq = <<>> \/ Remains(0)
  /\ spc = "params" => Reading
  /\ spc = "reply" => Replying
  /\ cpc = "ask" => conn = "open" /\ spc = "read" /\ inq = <<>> /\ out = <<>> /\ AllOf(shown)
  /\ cpc = "wait" =>
       /\ K # 0
       /\ conn = "closed" \/ (conn = "open" /\ spc \in {"read", "params", "reply", "lost"})
       /\ out = <<>> \/ (conn = "open" /\ spc = "read" /\ inq = <<>> /\ AllOf(out))

Entries == IF mode \in EchoModes THEN Lines ELSE Requests

Picture ==
  /\ mode \in Modes /\ cpc \in {"ask", "wait", "gone"}
  /\ requests \in Seq(Entries)
  /\ mode = "echo2" => InScope
  /\ InScope => IF mode \in EchoModes THEN EchoPicture ELSE CalcPicture

-----------------------------------------------------------------------------
(* What reads and writes do to a queue of bytes.                           *)

LEMMA Rest ==
  ASSUME NEW S, NEW s \in Seq(S), NEW n \in Nat, n <= Len(s)
  PROVE  /\ SubSeq(s, n + 1, Len(s)) \in Seq(S)
         /\ Len(SubSeq(s, n + 1, Len(s))) = Len(s) - n
         /\ \A j \in 1 .. Len(s) - n : SubSeq(s, n + 1, Len(s))[j] = s[n + j] /\ n + j \in DOMAIN s
  OBVIOUS

LEMMA Both ==
  ASSUME NEW S, NEW s \in Seq(S), NEW t \in Seq(S)
  PROVE  /\ s \o t \in Seq(S) /\ Len(s \o t) = Len(s) + Len(t)
         /\ \A j \in DOMAIN (s \o t) : \/ j \in DOMAIN s /\ (s \o t)[j] = s[j]
                                       \/ \E i \in DOMAIN t : (s \o t)[j] = t[i]
         /\ s = <<>> => s \o t = t
  <1>1. /\ s \o t \in Seq(S) /\ Len(s) \in Nat /\ Len(t) \in Nat /\ Len(s \o t) = Len(s) + Len(t)
        /\ DOMAIN (s \o t) = 1 .. Len(s) + Len(t)
        /\ \A j \in 1 .. Len(s) : (s \o t)[j] = s[j]
        /\ \A j \in Len(s) + 1 .. Len(s) + Len(t) : (s \o t)[j] = t[j - Len(s)]
    OBVIOUS
  <1>2. \A j \in Len(s) + 1 .. Len(s) + Len(t) : j - Len(s) \in DOMAIN t
    BY <1>1
  <1>3. s = <<>> => s \o t = t
    OBVIOUS
  <1>4. QED
    BY <1>1, <1>2, <1>3

LEMMA BytesAre ==
  ASSUME NEW k \in Nat, NEW r, Size(r) \in Nat
  PROVE  /\ Bytes(k, r) \in Seq(Nat \X Nat) /\ Len(Bytes(k, r)) = Size(r)
         /\ \A j \in 1 .. Size(r) : Bytes(k, r)[j] = <<k, j - 1>>
  BY DEF Bytes

(* Every request has a size; a line that ends in a newline is not empty.   *)
LEMMA SizeType ==
  ASSUME mode \in Modes, NEW r \in Entries
  PROVE  /\ Size(r) \in Nat
         /\ mode \in {"echo", "std"} => Size(r) > 0
         /\ mode \notin EchoModes =>
              /\ r.params \in Seq(-Half .. Half - 1) /\ Len(r.params) \in Nat
              /\ Size(r) = CountBytes + op_total_len(Len(r.params))
  <1>1. Len(r.params) \in Nat
    BY EntriesAssumption DEF Entries
  <1>2. CASE mode \in EchoModes
    BY <1>1, <1>2 DEF Size, EchoModes
  <1>3. CASE mode \notin EchoModes
    <2>1. r.params \in Seq(-Half .. Half - 1)
      BY <1>3, EntriesAssumption DEF Entries, Half
    <2>2. OP_PARAM_SIZE \in Nat /\ mode \in {"int", "char"}
      BY <1>3, SizesAssumption DEF Modes
    <2>3. PICK n \in Nat : n = Len(r.params)
      BY <1>1
    <2>4. CASE mode = "int"
      <3>1. Size(r) = OP_PARAM_SIZE * (n + 2) /\ CountBytes = OP_PARAM_SIZE
            /\ op_total_len(n) = OP_PARAM_SIZE * (n + 1)
        BY <2>3, <2>4 DEF Size, CountBytes, op_total_len
      <3>2. OP_PARAM_SIZE * (n + 2) = OP_PARAM_SIZE + OP_PARAM_SIZE * (n + 1)
            /\ OP_PARAM_SIZE * (n + 2) \in Nat
        BY <2>2
      <3>3. QED
        BY <1>1, <1>3, <2>1, <2>3, <2>4, <3>1, <3>2
    <2>5. CASE mode = "char"
      <3>1. Size(r) = OP_PARAM_SIZE * n + 2 /\ CountBytes = 1
            /\ op_total_len(n) = OP_PARAM_SIZE * n + 1
        BY <2>3, <2>5 DEF Size, CountBytes, op_total_len
      <3>2. OP_PARAM_SIZE * n \in Nat
        BY <2>2
      <3>3. QED
        BY <1>1, <1>3, <2>1, <2>3, <2>5, <3>1, <3>2
    <2>6. QED
      BY <2>2, <2>4, <2>5
  <1>4. QED
    BY <1>2, <1>3

LEMMA NowType ==
  ASSUME Picture, K # 0
  PROVE  Now \in Entries /\ K \in Nat \ {0} /\ Now = requests[K]
  <1>1. requests \in Seq(Entries)
    BY DEF Picture
  <1>2. QED
    BY <1>1 DEF K, Now, Last

LEMMA CountType ==
  ASSUME Picture
  PROVE  K \in Nat /\ (K # 0 => Size(Now) \in Nat)
  <1>1. K \in Nat
    BY DEF Picture, K
  <1>2. QED
    BY <1>1, NowType, SizeType DEF Picture

LEMMA PictureStarts == Init => Picture
  <1> SUFFICES ASSUME Init PROVE Picture
    OBVIOUS
  <1>1. requests = <<>> /\ requests \in Seq(Entries)
    BY DEF Init
  <1>2. Flow
    BY DEF Init, Flow
  <1>3. EchoPicture /\ CalcPicture
    BY <1>2 DEF Init, EchoPicture, CalcPicture
  <1>4. QED
    BY <1>1, <1>3 DEF Init, Picture, InScope

(* The next client starts afresh.                                          *)
LEMMA AcceptKeeps ==
  ASSUME Picture, Accept
  PROVE  Picture'
  <1>1. requests' \in Seq(Entries)' /\ mode' = mode /\ Entries' = Entries
    BY DEF Accept, Picture, Entries, EchoModes
  <1>2. Flow'
    BY DEF Accept, Flow
  <1>3. EchoPicture' /\ CalcPicture'
    BY <1>2 DEF Accept, EchoPicture, CalcPicture, Asking, AllOf
  <1>4. QED
    BY <1>1, <1>3 DEF Accept, Picture, InScope

(* As long as nothing went wrong now, nothing had before.                  *)
LEMMA ScopeShrinks ==
  ASSUME Next, ~ Accept
  PROVE  InScope' => InScope
  <1>1. torn \subseteq torn'
    BY DEF Next, Client, Server, DeliverIn, DeliverOut, Ask, AskFails, ReadResult, ReadMore,
       ReadLine, ReadNoResult, Quit, End, ReadEnd, ReadCount, ReadParams, ReadEcho,
       ReadEchoLine, ReadEndLine, Reply, ReplyLast, ReplyFails, Stop, inVars, outVars,
       calcVars, clientVars
  <1>2. QED
    BY <1>1 DEF InScope

(* What does not depend on the scope.                                      *)
LEMMA RequestsGrow ==
  ASSUME Picture, Next
  PROVE  /\ mode' = mode /\ Entries' = Entries /\ cpc' \in {"ask", "wait", "gone"}
         /\ requests' \in Seq(Entries)
         /\ ~ Ask => requests' = requests /\ K' = K /\ Now' = Now /\ Size(Now)' = Size(Now)
         /\ mode = "echo2" => InScope'
  <1>1. mode' = mode /\ Entries' = Entries
    BY DEF Next, Client, Server, DeliverIn, DeliverOut, Ask, AskFails, ReadResult, ReadMore,
       ReadLine, ReadNoResult, Quit, Accept, End, ReadEnd, ReadCount, ReadParams, ReadEcho,
       ReadEchoLine, ReadEndLine, Reply, ReplyLast, ReplyFails, Stop, Entries
  <1>2. cpc' \in {"ask", "wait", "gone"}
    BY DEF Picture, Next, Client, Server, DeliverIn, DeliverOut, Ask, AskFails, ReadResult,
       ReadMore, ReadLine, ReadNoResult, Quit, Accept, End, ReadEnd, ReadCount, ReadParams,
       ReadEcho, ReadEchoLine, ReadEndLine, Reply, ReplyLast, ReplyFails, Stop, clientVars
  <1>3. ~ Ask => requests' = requests
    BY DEF Next, Client, Server, DeliverIn, DeliverOut, AskFails, ReadResult, ReadMore,
       ReadLine, ReadNoResult, Quit, Accept, End, ReadEnd, ReadCount, ReadParams, ReadEcho,
       ReadEchoLine, ReadEndLine, Reply, ReplyLast, ReplyFails, Stop, clientVars
  <1>4. Ask => requests' \in Seq(Entries)
    <2> SUFFICES ASSUME Ask PROVE requests' \in Seq(Entries)
      OBVIOUS
    <2>1. PICK r \in Entries : requests' = Append(requests, r)
      BY DEF Ask, Entries
    <2>2. requests \in Seq(Entries)
      BY DEF Picture
    <2>3. QED
      BY <2>1, <2>2
  <1>5. mode = "echo2" => torn' = torn \/ torn' = {}
    BY DEF Next, Client, Server, DeliverIn, DeliverOut, Ask, AskFails, ReadResult, ReadMore,
       ReadLine, ReadNoResult, Quit, Accept, End, ReadEnd, ReadCount, ReadParams, ReadEcho,
       ReadEchoLine, ReadEndLine, Reply, ReplyLast, ReplyFails, Stop, EchoModes
  <1>6. ~ Ask => K' = K /\ Now' = Now /\ Size(Now)' = Size(Now)
    BY <1>1, <1>3 DEF K, Now, Size
  <1>7. QED
    BY <1>1, <1>2, <1>3, <1>4, <1>5, <1>6 DEF Picture, InScope

-----------------------------------------------------------------------------
(* The echo servers and their clients.                                     *)

LEMMA EchoNet ==
  ASSUME Picture, EchoPicture, mode \in EchoModes, DeliverIn \/ DeliverOut
  PROVE  EchoPicture'
  <1>1. /\ UNCHANGED <<mode, conn, inq, out, spc, echo, cpc, requests, shown>>
        /\ inArrived' = inArrived \/ (inArrived' \in inArrived + 1 .. Len(inq))
        /\ outArrived' = outArrived \/ (outArrived' \in outArrived + 1 .. Len(out))
    BY DEF DeliverIn, DeliverOut, inVars, outVars, calcVars, clientVars
  <1>2. cpc # "gone" => Flow'
    <2> SUFFICES ASSUME Flow PROVE Flow'
      BY DEF EchoPicture
    <2>1. Len(inq) \in Nat /\ Len(out) \in Nat /\ inArrived \in 0 .. Len(inq)
          /\ outArrived \in 0 .. Len(out)
      BY DEF Flow
    <2>2. inArrived' \in 0 .. Len(inq) /\ outArrived' \in 0 .. Len(out)
      BY <1>1, <2>1
    <2>3. QED
      BY <1>1, <2>2 DEF Flow
  <1>3. Asking' = Asking /\ Waiting' = Waiting /\ AllOf(echo)' = AllOf(echo)
    BY <1>1 DEF Asking, Waiting, AllOf, K, Now, Size, Had, Held
  <1>4. QED
    BY <1>1, <1>2, <1>3 DEF EchoPicture

LEMMA EchoAsk ==
  ASSUME Picture, EchoPicture, mode \in EchoModes, Ask
  PROVE  EchoPicture'
  <1>1. /\ cpc = "ask" /\ UNCHANGED <<mode, conn, spc, echo, out, inArrived, outArrived>>
        /\ conn = "open" \/ (mode = "std" /\ conn = "closed")
    BY DEF Ask, outVars, calcVars
  <1>2. Flow /\ Asking /\ ((conn = "open" /\ spc \in {"read", "reply"})
                           \/ (mode = "std" /\ conn = "closed" /\ spc = "killed"))
    BY <1>1 DEF EchoPicture
  <1>3. PICK r \in Entries :
          /\ requests' = Append(requests, r)
          /\ inq' = IF conn = "open" THEN inq \o Bytes(Len(requests) + 1, r) ELSE inq
          /\ cpc' = IF Size(r) = 0 THEN "ask" ELSE "wait"
          /\ shown' = IF mode = "echo2" THEN <<>> ELSE shown
    BY DEF Ask, Entries
  <1>4. /\ Size(r) \in Nat /\ (mode \in {"echo", "std"} => Size(r) > 0)
        /\ K \in Nat /\ requests \in Seq(Entries)
    BY SizeType, CountType DEF Picture
  <1>5. K' = K + 1 /\ Now' = r /\ Size(Now)' = Size(r)
    <2>1. Len(requests') = Len(requests) + 1 /\ requests'[Len(requests) + 1] = r
      BY <1>3, <1>4
    <2>2. K' = K + 1 /\ Now' = r
      BY <2>1 DEF K, Now, Last
    <2>3. QED
      BY <1>1, <2>2 DEF Size
  <1>6. PICK b \in Seq(Nat \X Nat) :
          /\ b = Bytes(K + 1, r) /\ Len(b) = Size(r)
          /\ \A j \in 1 .. Size(r) : b[j] = <<K + 1, j - 1>>
    <2>1. PICK k \in Nat : k = K + 1
      BY <1>4
    <2>2. /\ Bytes(k, r) \in Seq(Nat \X Nat) /\ Len(Bytes(k, r)) = Size(r)
          /\ \A j \in 1 .. Size(r) : Bytes(k, r)[j] = <<k, j - 1>>
      BY <1>4, BytesAre
    <2>3. QED
      BY <2>1, <2>2
  <1>7. inq = <<>> /\ out = <<>> /\ inArrived = 0 /\ outArrived = 0 /\ spc # "reply"
    BY <1>2 DEF Asking, Flow
  <1>8. inq' = IF conn = "open" THEN b ELSE <<>>
    BY <1>3, <1>6, <1>7 DEF K
  <1>9. Flow'
    BY <1>1, <1>2, <1>3, <1>4, <1>6, <1>7, <1>8 DEF Flow
  <1>10. CASE Size(r) = 0
    <2>1. mode = "echo2" /\ mode \in Modes /\ mode # "std"
      BY <1>4, <1>10 DEF EchoModes, Picture
    <2>2. conn = "open" /\ inq' = <<>> /\ shown' = <<>>
      BY <1>1, <1>3, <1>6, <1>8, <1>10, <2>1
    <2>3. Asking'
      BY <1>1, <1>7, <2>2 DEF Asking
    <2>4. QED
      BY <1>1, <1>2, <1>3, <1>7, <1>9, <1>10, <2>2, <2>3 DEF EchoPicture
  <1>11. CASE Size(r) # 0
    <2>1. Waiting'
      <3>1. Held' = 0 /\ Had' = 0
        BY <1>1, <1>3, <1>7 DEF Held, Had
      <3>2. \A j \in DOMAIN inq' : inq'[j][1] = K'
        <4>1. inq' = b \/ inq' = <<>>
          BY <1>8
        <4>2. \A j \in DOMAIN b : b[j][1] = K'
          <5>1. \A j \in DOMAIN b : j \in 1 .. Size(r)
            BY <1>6
          <5>2. QED
            BY <5>1, <1>5, <1>6
        <4>3. QED
          BY <4>1, <4>2
      <3>3. mode = "echo2" => AllOf(shown)'
        BY <1>3 DEF AllOf
      <3>4. conn = "open" => 0 + Len(out') + 0 + Len(inq') = Size(r)
        BY <1>1, <1>4, <1>6, <1>7, <1>8
      <3>5. AllOf(out)' /\ out' = <<>> /\ K' # 0
        BY <1>1, <1>4, <1>5, <1>7 DEF AllOf
      <3>6. QED
        BY <1>1, <1>5, <1>7, <3>1, <3>2, <3>3, <3>4, <3>5 DEF Waiting
    <2>2. QED
      BY <1>1, <1>2, <1>3, <1>7, <1>9, <1>11, <2>1 DEF EchoPicture
  <1>12. QED
    BY <1>10, <1>11

(* A read of "most" bytes at most: what it shows and what it leaves.       *)
LEMMA Taken ==
  ASSUME Flow, TakeAnswer, outArrived > 0, NEW m \in Nat \ {0}, ReadMost = m
  PROVE  /\ Got \in 1 .. outArrived /\ Len(out') = Len(out) - Got /\ out' \in Seq(Nat)
         /\ outArrived' \in 0 .. Len(out')
         /\ \A j \in 1 .. Len(out) - Got : out'[j] = out[Got + j] /\ Got + j \in DOMAIN out
         /\ \A n \in 0 .. Got : /\ SubSeq(out, 1, n) \in Seq(Nat) /\ Len(SubSeq(out, 1, n)) = n
                                /\ \A j \in 1 .. n : SubSeq(out, 1, n)[j] = out[j] /\ j \in DOMAIN out
  <1>1. out \in Seq(Nat) /\ Len(out) \in Nat /\ outArrived \in Nat /\ outArrived <= Len(out)
    BY DEF Flow
  <1>2. Got \in 1 .. outArrived
    BY <1>1 DEF Got, Min2
  <1>3. PICK g \in Nat : g = Got /\ g <= Len(out)
    BY <1>1, <1>2
  <1>4. out' = SubSeq(out, g + 1, Len(out)) /\ outArrived' = outArrived - g
    BY <1>3 DEF TakeAnswer
  <1>5. /\ out' \in Seq(Nat) /\ Len(out') = Len(out) - g
        /\ \A j \in 1 .. Len(out) - g : out'[j] = out[g + j] /\ g + j \in DOMAIN out
    <2>1. g <= Len(out)
      BY <1>3
    <2>2. /\ SubSeq(out, g + 1, Len(out)) \in Seq(Nat)
          /\ Len(SubSeq(out, g + 1, Len(out))) = Len(out) - g
          /\ \A j \in 1 .. Len(out) - g : /\ SubSeq(out, g + 1, Len(out))[j] = out[g + j]
                                         /\ g + j \in DOMAIN out
      BY <1>1, <2>1, Rest
    <2>3. QED
      BY <1>4, <2>2
  <1>6. ASSUME NEW n \in 0 .. Got
        PROVE  /\ SubSeq(out, 1, n) \in Seq(Nat) /\ Len(SubSeq(out, 1, n)) = n
               /\ \A j \in 1 .. n : SubSeq(out, 1, n)[j] = out[j] /\ j \in DOMAIN out
    <2>1. PICK k \in Nat : k = n /\ k <= Len(out)
      BY <1>1, <1>2
    <2>2. /\ SubSeq(out, 1, k) \in Seq(Nat) /\ Len(SubSeq(out, 1, k)) = k
          /\ \A j \in 1 .. k : SubSeq(out, 1, k)[j] = out[j] /\ j \in DOMAIN out
      BY <1>1, <2>1
    <2>3. QED
      BY <2>1, <2>2
  <1>7. outArrived' \in 0 .. Len(out')
    BY <1>1, <1>2, <1>3, <1>4, <1>5
  <1>8. QED
    BY <1>2, <1>3, <1>5, <1>6, <1>7

LEMMA ReadMostType == mode \in Modes => ReadMost \in Nat \ {0}
  BY SizesAssumption DEF ReadMost

(* Once all of the line came back, nothing of it is left elsewhere.        *)
LEMMA AllCameBack ==
  ASSUME Picture, EchoPicture, cpc = "wait", conn = "open", Had + Len(out) = Size(Now)
  PROVE  inq = <<>> /\ spc # "reply"
  <1>1. Waiting /\ Flow /\ (spc = "reply" => echo \in Seq(Nat) /\ echo # <<>>)
    BY DEF EchoPicture
  <1>2. Len(inq) \in Nat /\ Len(out) \in Nat /\ (inq # <<>> => Len(inq) > 0) /\ Had \in Nat
    BY <1>1 DEF Flow, Had
  <1>3. Held \in Nat /\ (spc = "reply" => Held > 0)
    BY <1>1 DEF Held
  <1>4. Size(Now) = Had + Len(out) + Held + Len(inq)
    BY <1>1 DEF Waiting
  <1>5. QED
    BY <1>2, <1>3, <1>4

LEMMA EchoReadResult ==
  ASSUME Picture, EchoPicture, mode \in EchoModes, ReadResult, InScope'
  PROVE  EchoPicture'
  <1>1. /\ mode = "echo" /\ cpc = "wait" /\ outArrived > 0 /\ cpc' = "ask" /\ TakeAnswer
        /\ UNCHANGED <<mode, conn, inq, inArrived, spc, echo, requests>>
        /\ shown' = SubSeq(out, 1, Got)
    BY DEF ReadResult, EchoModes, inVars, calcVars
  <1>2. Flow /\ Waiting /\ conn = "open" /\ spc \in {"read", "reply"}
    BY <1>1 DEF EchoPicture
  <1>3. K # 0 /\ Now \in Entries /\ Size(Now) \in Nat /\ AllOf(out)
    BY <1>2, NowType, CountType DEF Waiting
  <1>4. PICK m \in Nat \ {0} : ReadMost = m
    BY ReadMostType DEF Picture
  <1>5. /\ Got \in 1 .. outArrived /\ Len(out') = Len(out) - Got /\ out' \in Seq(Nat)
        /\ outArrived' \in 0 .. Len(out')
        /\ shown' \in Seq(Nat) /\ Len(shown') = Got
        /\ \A j \in 1 .. Got : shown'[j] = out[j] /\ j \in DOMAIN out
    BY <1>1, <1>2, <1>4, Taken
  <1>6. Len(out) \in Nat /\ outArrived <= Len(out) /\ outArrived \in Nat
    BY <1>2 DEF Flow
  <1>7. Got >= Len(out) /\ Got >= Size(Now)
    <2>1. ~ (Got < Len(out) \/ Got < Size(Now))
      BY <1>1 DEF ReadResult, InScope, Now
    <2>2. QED
      BY <2>1, <1>3, <1>5, <1>6
  <1>8. Got = Len(out)
    BY <1>5, <1>6, <1>7
  <1>9. Len(out) = Size(Now) /\ Had = 0
    <2>1. Had + Len(out) + Held + Len(inq) = Size(Now) /\ Had = 0
      BY <1>1, <1>2 DEF Waiting, Had
    <2>2. Held \in Nat /\ Len(inq) \in Nat
      BY <1>1, <1>2 DEF Held, EchoPicture, Flow
    <2>3. QED
      BY <2>1, <2>2, <1>3, <1>6, <1>7, <1>8
  <1>10. inq = <<>> /\ spc # "reply"
    BY <1>1, <1>2, <1>3, <1>9, AllCameBack
  <1>11. out' = <<>>
    BY <1>5, <1>6, <1>8
  <1>12. K' = K /\ Now' = Now /\ Size(Now)' = Size(Now)
    BY <1>1 DEF K, Now, Size
  <1>13. AllOf(shown)'
    BY <1>3, <1>5, <1>12 DEF AllOf
  <1>14. Asking'
    BY <1>1, <1>3, <1>5, <1>8, <1>9, <1>10, <1>11, <1>12, <1>13 DEF Asking
  <1>15. Flow'
    BY <1>1, <1>2, <1>5 DEF Flow
  <1>16. QED
    BY <1>1, <1>2, <1>10, <1>14, <1>15 DEF EchoPicture

LEMMA EchoReadMore ==
  ASSUME Picture, EchoPicture, mode \in EchoModes, ReadMore
  PROVE  EchoPicture'
  <1>1. /\ mode = "echo2" /\ cpc = "wait" /\ outArrived > 0 /\ TakeAnswer
        /\ UNCHANGED <<mode, conn, inq, inArrived, spc, echo, requests>>
        /\ shown' = shown \o SubSeq(out, 1, Got)
        /\ cpc' = IF Len(shown') >= Size(Now) THEN "ask" ELSE "wait"
    BY DEF ReadMore, Enough, Now, inVars, calcVars
  <1>2. Flow /\ Waiting /\ conn = "open" /\ spc \in {"read", "reply"}
        /\ (spc = "reply" => echo \in Seq(Nat) /\ AllOf(echo) /\ echo # <<>>)
    BY <1>1 DEF EchoPicture
  <1>3. K # 0 /\ Now \in Entries /\ Size(Now) \in Nat /\ AllOf(out) /\ AllOf(shown)
    BY <1>1, <1>2, NowType, CountType DEF Waiting
  <1>4. PICK m \in Nat \ {0} : ReadMost = m
    BY ReadMostType DEF Picture
  <1>5. PICK g \in Nat, s \in Seq(Nat) :
          /\ g = Got /\ s = SubSeq(out, 1, Got) /\ Len(s) = g
          /\ g \in 1 .. outArrived /\ Len(out') = Len(out) - g /\ out' \in Seq(Nat)
          /\ outArrived' \in 0 .. Len(out')
          /\ \A j \in 1 .. Len(out) - g : out'[j] = out[g + j] /\ g + j \in DOMAIN out
          /\ \A j \in 1 .. g : s[j] = out[j] /\ j \in DOMAIN out
    <2>1. /\ Got \in 1 .. outArrived /\ Len(out') = Len(out) - Got /\ out' \in Seq(Nat)
          /\ outArrived' \in 0 .. Len(out')
          /\ \A j \in 1 .. Len(out) - Got : out'[j] = out[Got + j] /\ Got + j \in DOMAIN out
          /\ SubSeq(out, 1, Got) \in Seq(Nat) /\ Len(SubSeq(out, 1, Got)) = Got
          /\ \A j \in 1 .. Got : SubSeq(out, 1, Got)[j] = out[j] /\ j \in DOMAIN out
      <3>1. /\ Got \in 1 .. outArrived /\ Len(out') = Len(out) - Got /\ out' \in Seq(Nat)
            /\ outArrived' \in 0 .. Len(out')
            /\ \A j \in 1 .. Len(out) - Got : out'[j] = out[Got + j] /\ Got + j \in DOMAIN out
        BY <1>1, <1>2, <1>4, Taken
      <3>2. Got \in 0 .. Got
        BY <3>1, <1>2 DEF Flow
      <3>3. /\ SubSeq(out, 1, Got) \in Seq(Nat) /\ Len(SubSeq(out, 1, Got)) = Got
            /\ \A j \in 1 .. Got : SubSeq(out, 1, Got)[j] = out[j] /\ j \in DOMAIN out
        BY <3>2, <1>1, <1>2, <1>4, Taken
      <3>4. QED
        BY <3>1, <3>3
    <2>2. Got \in Nat
      BY <2>1, <1>2 DEF Flow
    <2>3. QED
      BY <2>1, <2>2
  <1>6. shown \in Seq(Nat) /\ Len(shown) \in Nat /\ Len(out) \in Nat /\ Len(inq) \in Nat
        /\ (inq # <<>> => Len(inq) > 0)
    BY <1>2 DEF Flow
  <1>7. /\ shown' \in Seq(Nat) /\ Len(shown') = Len(shown) + g
        /\ \A j \in DOMAIN shown' : \/ j \in DOMAIN shown /\ shown'[j] = shown[j]
                                    \/ \E i \in DOMAIN s : shown'[j] = s[i]
    <2>1. shown' = shown \o s
      BY <1>1, <1>5
    <2>2. /\ shown \o s \in Seq(Nat) /\ Len(shown \o s) = Len(shown) + Len(s)
          /\ \A j \in DOMAIN (shown \o s) : \/ j \in DOMAIN shown /\ (shown \o s)[j] = shown[j]
                                            \/ \E i \in DOMAIN s : (shown \o s)[j] = s[i]
      BY <1>6, Both
    <2>3. QED
      BY <2>1, <2>2, <1>5
  <1>8. K' = K /\ Now' = Now /\ Size(Now)' = Size(Now)
    BY <1>1 DEF K, Now, Size
  <1>9. AllOf(shown)' /\ AllOf(out)'
    <2>1. \A j \in DOMAIN s : s[j] = K
      BY <1>3, <1>5 DEF AllOf
    <2>2. AllOf(shown)'
      BY <2>1, <1>3, <1>7, <1>8 DEF AllOf
    <2>3. \A j \in DOMAIN out' : j \in 1 .. Len(out) - g
      BY <1>5
    <2>4. AllOf(out)'
      BY <2>3, <1>3, <1>5, <1>8 DEF AllOf
    <2>5. QED
      BY <2>2, <2>4
  <1>10. Flow'
    BY <1>1, <1>2, <1>5, <1>7 DEF Flow
  <1>11. /\ Len(shown) + Len(out) + Held + Len(inq) = Size(Now) /\ Held \in Nat
         /\ (spc = "reply" => Held > 0) /\ Held' = Held /\ Had' = Len(shown')
    <2>1. Had = Len(shown) /\ Had' = Len(shown') /\ Held' = Held
      BY <1>1 DEF Had, Held
    <2>2. Held \in Nat /\ (spc = "reply" => Held > 0)
      BY <1>2 DEF Held
    <2>3. Had + Len(out) + Held + Len(inq) = Size(Now)
      BY <1>2 DEF Waiting
    <2>4. QED
      BY <2>1, <2>2, <2>3
  <1>12. Len(shown') + Len(out') + Held + Len(inq) = Size(Now) /\ Len(out') \in Nat
    BY <1>5, <1>6, <1>7, <1>11
  <1>13. CASE Len(shown') >= Size(Now)
    <2>1. Len(shown') = Size(Now) /\ Held = 0 /\ Len(inq) = 0 /\ Len(out') = 0
      <3>1. PICK x \in Nat, y \in Nat, h \in Nat, i \in Nat :
              x = Len(shown') /\ y = Len(out') /\ h = Held /\ i = Len(inq)
        <4>1. Len(shown') \in Nat
          BY <1>7
        <4>2. QED
          BY <4>1, <1>6, <1>11, <1>12
      <3>2. x + y + h + i = Size(Now) /\ x >= Size(Now)
        BY <3>1, <1>12, <1>13
      <3>3. QED
        BY <3>1, <3>2, <1>3
    <2>2. inq = <<>> /\ out' = <<>> /\ spc # "reply"
      BY <2>1, <1>5, <1>6, <1>11
    <2>3. Asking'
      BY <2>1, <2>2, <1>1, <1>3, <1>8, <1>9 DEF Asking
    <2>4. QED
      BY <1>1, <1>2, <1>10, <1>13, <2>2, <2>3 DEF EchoPicture
  <1>14. CASE ~ (Len(shown') >= Size(Now))
    <2>1. \A j \in DOMAIN inq : inq[j][1] = K
      BY <1>2 DEF Waiting
    <2>2. Waiting'
      BY <2>1, <1>1, <1>3, <1>8, <1>9, <1>11, <1>12 DEF Waiting
    <2>3. AllOf(echo)' = AllOf(echo)
      BY <1>1, <1>8 DEF AllOf
    <2>4. QED
      BY <1>1, <1>2, <1>10, <1>14, <2>2, <2>3 DEF EchoPicture
  <1>15. QED
    BY <1>13, <1>14

LEMMA EchoReadLine ==
  ASSUME Picture, EchoPicture, mode \in EchoModes, ReadLine
  PROVE  EchoPicture'
  <1>1. /\ mode = "std" /\ cpc = "wait" /\ outArrived > 0 /\ cpc' = "ask"
        /\ UNCHANGED <<mode, conn, inq, inArrived, spc, echo, requests>>
    BY DEF ReadLine, inVars, calcVars
  <1>2. Flow /\ Waiting /\ Len(out) \in Nat /\ outArrived \in 0 .. Len(out) /\ out \in Seq(Nat)
    BY <1>1 DEF EchoPicture, Flow
  <1>3. out # <<>> /\ 1 \in DOMAIN out
    BY <1>1, <1>2
  <1>4. Len(out) = Size(Now) /\ inq = <<>> /\ K # 0 /\ AllOf(out) /\ out[1] = K
    BY <1>1, <1>2, <1>3 DEF Waiting, AllOf
  <1>5. Now = requests[K] /\ K \in Nat /\ Size(requests[K]) = Len(out)
    BY <1>4, NowType
  <1>6. PICK line : /\ line \in LineOf(out, outArrived, out[1]) /\ shown' = line
                    /\ out' = SubSeq(out, Len(line) + 1, Len(out))
                    /\ outArrived' = outArrived - Len(line)
    BY DEF ReadLine
  <1>7. line = SubSeq(out, 1, Len(out)) /\ outArrived >= Len(out)
    BY <1>4, <1>5, <1>6 DEF LineOf
  <1>8. line = out
    BY <1>2, <1>7
  <1>9. out' = <<>> /\ outArrived' = 0 /\ shown' = out
    <2>1. PICK n \in Nat : n = Len(out)
      BY <1>2
    <2>2. Len(SubSeq(out, n + 1, Len(out))) = 0 /\ SubSeq(out, n + 1, Len(out)) \in Seq(Nat)
      BY <2>1, <1>2, Rest
    <2>3. out' = SubSeq(out, n + 1, Len(out)) /\ outArrived' = outArrived - n /\ shown' = out
      BY <2>1, <1>6, <1>8
    <2>4. QED
      BY <2>1, <2>2, <2>3, <1>2, <1>7
  <1>10. spc # "reply"
    <2>1. CASE conn = "open"
      BY <2>1, <1>1, <1>4, <1>2, AllCameBack DEF Had
    <2>2. QED
      BY <2>1, <1>1 DEF EchoPicture
  <1>11. K' = K /\ Now' = Now /\ Size(Now)' = Size(Now)
    BY <1>1 DEF K, Now, Size
  <1>12. Asking'
    BY <1>1, <1>4, <1>9, <1>10, <1>11 DEF Asking, AllOf
  <1>13. Flow'
    BY <1>1, <1>2, <1>9 DEF Flow
  <1>14. QED
    BY <1>1, <1>10, <1>12, <1>13 DEF EchoPicture

(* The same for a read of the server.                                      *)
LEMMA TakenIn ==
  ASSUME Flow, NEW n \in Nat, n <= inArrived, Take(n)
  PROVE  /\ inq' \in Seq(Nat \X Nat) /\ Len(inq') = Len(inq) - n /\ inArrived' \in 0 .. Len(inq')
         /\ Len(inq) \in Nat /\ n <= Len(inq)
         /\ \A j \in 1 .. Len(inq) - n : inq'[j] = inq[n + j] /\ n + j \in DOMAIN inq
         /\ \A j \in 1 .. n : j \in DOMAIN inq /\ inq[j] \in Nat \X Nat
  <1>1. inq \in Seq(Nat \X Nat) /\ Len(inq) \in Nat /\ inArrived \in Nat /\ inArrived <= Len(inq)
    BY DEF Flow
  <1>2. inq' = SubSeq(inq, n + 1, Len(inq)) /\ inArrived' = inArrived - n
    BY DEF Take
  <1>3. /\ inq' \in Seq(Nat \X Nat) /\ Len(inq') = Len(inq) - n
        /\ \A j \in 1 .. Len(inq) - n : inq'[j] = inq[n + j] /\ n + j \in DOMAIN inq
    <2>1. n <= Len(inq)
      BY <1>1
    <2>2. /\ SubSeq(inq, n + 1, Len(inq)) \in Seq(Nat \X Nat)
          /\ Len(SubSeq(inq, n + 1, Len(inq))) = Len(inq) - n
          /\ \A j \in 1 .. Len(inq) - n : /\ SubSeq(inq, n + 1, Len(inq))[j] = inq[n + j]
                                         /\ n + j \in DOMAIN inq
      BY <1>1, <2>1, Rest
    <2>3. QED
      BY <1>2, <2>2
  <1>4. \A j \in 1 .. n : j \in DOMAIN inq /\ inq[j] \in Nat \X Nat
    <2>1. DOMAIN inq = 1 .. Len(inq) /\ \A j \in DOMAIN inq : inq[j] \in Nat \X Nat
      BY <1>1
    <2>2. \A j \in 1 .. n : j \in 1 .. Len(inq)
      BY <1>1
    <2>3. QED
      BY <2>1, <2>2
  <1>5. inArrived' \in 0 .. Len(inq')
    BY <1>1, <1>2, <1>3
  <1>6. QED
    BY <1>1, <1>3, <1>4, <1>5

(* A server that reads a line reads it from a client that waits.           *)
LEMMA ReadsOfWaiting ==
  ASSUME EchoPicture, mode \in EchoModes, cpc # "gone", spc = "read", inArrived > 0
  PROVE  /\ cpc # "ask" /\ conn = "open" /\ Flow /\ inq # <<>>
         /\ cpc = "wait" => Waiting
  <1>1. Flow /\ conn = "open" /\ (cpc = "ask" => Asking) /\ (cpc = "wait" => Waiting)
    BY DEF EchoPicture
  <1>2. inq # <<>>
    BY <1>1 DEF Flow
  <1>3. QED
    BY <1>1, <1>2 DEF Asking

LEMMA EchoReadEcho ==
  ASSUME Picture, EchoPicture, mode \in EchoModes, ReadEcho
  PROVE  EchoPicture'
  <1> SUFFICES ASSUME cpc # "gone" PROVE EchoPicture'
    BY DEF ReadEcho, clientVars, EchoPicture
  <1>1. PICK n \in Nat :
          /\ n > 0 /\ n <= inArrived /\ Take(n) /\ echo' = [b \in 1 .. n |-> inq[b][1]]
    <2>1. inArrived \in Nat /\ inArrived > 0
      BY ReadsOfWaiting DEF ReadEcho, Flow
    <2>2. Min2(inArrived, BUF_SIZE) \in Nat \ {0} /\ Min2(inArrived, BUF_SIZE) <= inArrived
      BY <2>1, SizesAssumption DEF Min2
    <2>3. QED
      BY <2>2 DEF ReadEcho
  <1>2. /\ mode # "std" /\ spc = "read" /\ spc' = "reply"
        /\ UNCHANGED <<mode, conn, out, outArrived, cpc, requests, shown>>
    BY DEF ReadEcho, outVars, clientVars
  <1>3. cpc = "wait" /\ conn = "open" /\ Flow /\ Waiting
    BY <1>1, <1>2, ReadsOfWaiting DEF Picture, Flow, ReadEcho
  <1>4. /\ inq' \in Seq(Nat \X Nat) /\ Len(inq') = Len(inq) - n /\ inArrived' \in 0 .. Len(inq')
        /\ Len(inq) \in Nat /\ n <= Len(inq)
        /\ \A j \in 1 .. Len(inq) - n : inq'[j] = inq[n + j] /\ n + j \in DOMAIN inq
        /\ \A j \in 1 .. n : j \in DOMAIN inq /\ inq[j] \in Nat \X Nat
    BY <1>1, <1>3, TakenIn
  <1>5. \A j \in DOMAIN inq : inq[j][1] = K
    BY <1>3 DEF Waiting
  <1>6. K' = K /\ Now' = Now /\ Size(Now)' = Size(Now) /\ AllOf(out)' = AllOf(out)
        /\ AllOf(shown)' = AllOf(shown) /\ Had' = Had
    BY <1>2 DEF K, Now, Size, AllOf, Had
  <1>7. echo' \in Seq(Nat) /\ Len(echo') = n /\ \A b \in 1 .. n : echo'[b] = K
    <2>1. \A b \in 1 .. n : inq[b][1] = K /\ inq[b][1] \in Nat
      BY <1>4, <1>5
    <2>2. QED
      BY <2>1, <1>1
  <1>8. AllOf(echo)' /\ echo' # <<>>
    BY <1>1, <1>6, <1>7 DEF AllOf
  <1>9. Flow'
    BY <1>2, <1>3, <1>4 DEF Flow
  <1>10. \A j \in DOMAIN inq' : inq'[j][1] = K
    <2>1. \A j \in DOMAIN inq' : j \in 1 .. Len(inq) - n
      <3>1. DOMAIN inq' = 1 .. Len(inq') /\ Len(inq') = Len(inq) - n
        BY <1>4
      <3>2. QED
        BY <3>1
    <2>2. QED
      BY <2>1, <1>4, <1>5
  <1>11. Had' + Len(out') + Held' + Len(inq') = Size(Now)
    <2>1. Had + Len(out) + Held + Len(inq) = Size(Now)
      BY <1>3 DEF Waiting
    <2>2. Held = 0 /\ Held' = n
      BY <1>2, <1>7 DEF Held
    <2>3. Had \in Nat /\ Len(out) \in Nat
      BY <1>3 DEF Had, Flow
    <2>4. QED
      BY <2>1, <2>2, <2>3, <1>2, <1>4, <1>6
  <1>12. Waiting'
    BY <1>2, <1>3, <1>6, <1>10, <1>11 DEF Waiting
  <1>13. QED
    BY <1>2, <1>3, <1>7, <1>8, <1>9, <1>12 DEF EchoPicture

LEMMA EchoReadEchoLine ==
  ASSUME Picture, EchoPicture, mode \in EchoModes, ReadEchoLine
  PROVE  EchoPicture'
  <1> SUFFICES ASSUME cpc # "gone" PROVE EchoPicture'
    BY DEF ReadEchoLine, clientVars, EchoPicture
  <1>1. /\ mode = "std" /\ spc = "read" /\ spc' = "reply" /\ inArrived > 0
        /\ UNCHANGED <<mode, conn, out, outArrived, cpc, requests, shown>>
    BY DEF ReadEchoLine, outVars, clientVars
  <1>2. cpc = "wait" /\ conn = "open" /\ Flow /\ Waiting
    BY <1>1, ReadsOfWaiting DEF Picture
  <1>3. Len(inq) \in Nat /\ inArrived \in Nat /\ inq # <<>> /\ 1 \in DOMAIN inq /\ Len(out) \in Nat
    BY <1>1, <1>2 DEF Flow
  <1>4. /\ \A j \in DOMAIN inq : inq[j][1] = K
        /\ Len(inq) = Size(Now) /\ out = <<>> /\ K # 0
    <2>1. out = <<>>
      BY <1>1, <1>2, <1>3 DEF Waiting
    <2>2. Had + Len(out) + Held + Len(inq) = Size(Now) /\ Had = 0 /\ Held = 0
      BY <1>1, <1>2 DEF Waiting, Had, Held
    <2>3. QED
      BY <2>1, <2>2, <1>2, <1>3 DEF Waiting
  <1>5. Now = requests[K] /\ K \in Nat /\ Size(requests[K]) = Len(inq)
    BY <1>4, NowType
  <1>6. PICK line : /\ line \in LineOf(inq, inArrived, inq[1][1]) /\ Take(Len(line))
                    /\ echo' = [b \in DOMAIN line |-> line[b][1]]
    BY DEF ReadEchoLine
  <1>7. line = SubSeq(inq, 1, Len(inq)) /\ inArrived >= Len(inq)
    BY <1>3, <1>4, <1>5, <1>6 DEF LineOf
  <1>8. line = inq
    BY <1>2, <1>3, <1>7 DEF Flow
  <1>9. PICK n \in Nat : n = Len(inq) /\ n <= inArrived /\ Take(n)
    BY <1>3, <1>6, <1>7, <1>8
  <1>10. inq' \in Seq(Nat \X Nat) /\ Len(inq') = 0 /\ inArrived' \in 0 .. 0
    <2>1. inArrived = n
      BY <1>2, <1>3, <1>9 DEF Flow
    <2>2. inq' \in Seq(Nat \X Nat) /\ Len(inq') = Len(inq) - n /\ inArrived' \in 0 .. Len(inq')
      BY <1>2, <1>9, TakenIn
    <2>3. QED
      BY <2>2, <1>3, <1>9
  <1>11. K' = K /\ Now' = Now /\ Size(Now)' = Size(Now)
    BY <1>1 DEF K, Now, Size
  <1>12. echo' \in Seq(Nat) /\ Len(echo') = Size(Now) /\ \A b \in DOMAIN echo' : echo'[b] = K
    <2>1. DOMAIN inq = 1 .. n
      BY <1>2, <1>9 DEF Flow
    <2>2. \A b \in 1 .. n : inq[b][1] = K
      BY <2>1, <1>4
    <2>3. echo' = [b \in 1 .. n |-> inq[b][1]]
      BY <2>1, <1>6, <1>8
    <2>4. K \in Nat
      BY <1>5
    <2>5. QED
      BY <2>2, <2>3, <2>4, <1>4, <1>9
  <1>13. inq' = <<>> /\ echo' # <<>>
    BY <1>3, <1>4, <1>10, <1>12
  <1>14. Flow'
    BY <1>1, <1>2, <1>10, <1>13 DEF Flow
  <1>15. Held' = Size(Now) /\ Had' = 0 /\ Len(out') = 0 /\ Size(Now) \in Nat
    BY <1>1, <1>3, <1>4, <1>12 DEF Held, Had
  <1>16. Waiting'
    BY <1>1, <1>4, <1>10, <1>11, <1>12, <1>13, <1>15 DEF Waiting, AllOf
  <1>17. QED
    BY <1>1, <1>2, <1>11, <1>12, <1>13, <1>14, <1>16 DEF EchoPicture, AllOf

LEMMA EchoReply ==
  ASSUME Picture, EchoPicture, mode \in EchoModes, Reply
  PROVE  EchoPicture'
  <1> SUFFICES ASSUME cpc # "gone" PROVE EchoPicture'
    BY DEF Reply, clientVars, EchoPicture
  <1>1. /\ spc = "reply" /\ spc' = "read"
        /\ UNCHANGED <<mode, inq, inArrived, outArrived, echo, cpc, requests, shown>>
    BY DEF Reply, inVars, calcVars, clientVars
  <1>2. /\ conn = "open" /\ Flow /\ echo \in Seq(Nat) /\ AllOf(echo) /\ echo # <<>>
        /\ (cpc = "ask" => Asking) /\ (cpc = "wait" => Waiting)
    BY <1>1 DEF EchoPicture
  <1>3. cpc = "wait" /\ Waiting
    BY <1>1, <1>2 DEF Asking, Picture
  <1>4. conn' = "open" /\ out' = out \o echo
    BY <1>2 DEF Reply, Answer
  <1>5. out \in Seq(Nat) /\ Len(out) \in Nat /\ Len(echo) \in Nat /\ Len(inq) \in Nat
        /\ outArrived \in Nat /\ outArrived <= Len(out) /\ Had \in Nat
        /\ (inq # <<>> => Len(inq) > 0) /\ (out # <<>> => Len(out) > 0) /\ Len(echo) > 0
    BY <1>2 DEF Flow, Had
  <1>6. /\ out' \in Seq(Nat) /\ Len(out') = Len(out) + Len(echo)
        /\ \A j \in DOMAIN out' : \/ j \in DOMAIN out /\ out'[j] = out[j]
                                  \/ \E i \in DOMAIN echo : out'[j] = echo[i]
        /\ out = <<>> => out' = echo
    BY <1>2, <1>4, <1>5, Both
  <1>7. K' = K /\ Now' = Now /\ Size(Now)' = Size(Now) /\ Had' = Had /\ Held' = 0
        /\ AllOf(shown)' = AllOf(shown)
    BY <1>1 DEF K, Now, Size, Had, Held, AllOf
  <1>8. Flow'
    BY <1>1, <1>2, <1>5, <1>6 DEF Flow
  <1>9. AllOf(out)'
    <2>1. \A j \in DOMAIN out : out[j] = K
      BY <1>3 DEF AllOf, Waiting
    <2>2. \A i \in DOMAIN echo : echo[i] = K
      BY <1>2 DEF AllOf
    <2>3. \A j \in DOMAIN out' : out'[j] = K
      BY <2>1, <2>2, <1>6
    <2>4. QED
      BY <2>3, <1>7 DEF AllOf
  <1>10. Had + Len(out) + Len(echo) + Len(inq) = Size(Now)
    BY <1>1, <1>2, <1>3 DEF Waiting, Held
  <1>11. Had' + Len(out') + Held' + Len(inq') = Size(Now)
    BY <1>1, <1>5, <1>6, <1>7, <1>10
  <1>12. mode = "std" => Len(out') = Size(Now) /\ inq' = <<>>
    <2> SUFFICES ASSUME mode = "std" PROVE Len(out') = Size(Now) /\ inq' = <<>>
      OBVIOUS
    <2>1. Len(echo) = Size(Now)
      BY <1>1, <1>3 DEF Waiting
    <2>2. Len(out) = 0 /\ Len(inq) = 0
      BY <2>1, <1>5, <1>10
    <2>3. QED
      BY <2>1, <2>2, <1>1, <1>5, <1>6
  <1>13. Waiting'
    BY <1>1, <1>3, <1>7, <1>9, <1>11, <1>12 DEF Waiting
  <1>14. QED
    BY <1>1, <1>3, <1>4, <1>8, <1>13 DEF EchoPicture

LEMMA EchoStop ==
  ASSUME Picture, EchoPicture, mode \in EchoModes, Stop
  PROVE  EchoPicture'
  <1> SUFFICES ASSUME cpc # "gone" PROVE EchoPicture'
    BY DEF Stop, clientVars, EchoPicture
  <1>1. /\ mode = "std" /\ spc' = "killed" /\ conn' = "closed"
        /\ UNCHANGED <<mode, inq, inArrived, out, outArrived, cpc, requests, shown>>
    BY DEF Stop, inVars, outVars, clientVars
  <1>2. Flow' /\ K' = K /\ Now' = Now /\ Size(Now)' = Size(Now) /\ AllOf(out)' = AllOf(out)
        /\ AllOf(shown)' = AllOf(shown)
    BY <1>1 DEF EchoPicture, Flow, K, Now, Size, AllOf
  <1>3. QED
    BY <1>1, <1>2 DEF EchoPicture, Asking, Waiting

LEMMA EchoKeeps ==
  ASSUME Picture, EchoPicture, mode \in EchoModes, Next, ~ Accept, InScope'
  PROVE  EchoPicture'
  <1>1. CASE cpc' = "gone"
    BY <1>1 DEF EchoPicture
  <1>2. CASE cpc # "gone" /\ (ReadEnd \/ ReadEndLine \/ ReplyLast \/ ReplyFails \/ End)
    BY <1>2 DEF EchoPicture, ReadEnd, ReadEndLine, ReplyLast, ReplyFails, End
  <1>3. ReadNoResult => cpc' = "gone"
    BY DEF ReadNoResult, InScope
  <1>4. AskFails \/ Quit => cpc' = "gone"
    BY DEF AskFails, Quit
  <1>5. ReadEnd \/ ReadEndLine \/ ReplyLast \/ ReplyFails \/ End => cpc' = cpc
    BY DEF ReadEnd, ReadEndLine, ReplyLast, ReplyFails, End, clientVars
  <1>6. ~ ReadCount
    BY DEF ReadCount
  <1>7. ReadParams => cpc' = "gone"
    BY DEF ReadParams, EchoPicture, clientVars
  <1>8. QED
    BY <1>1, <1>2, <1>3, <1>4, <1>5, <1>6, <1>7, EchoNet, EchoAsk, EchoReadResult,
       EchoReadMore, EchoReadLine, EchoReadEcho, EchoReadEchoLine, EchoReply, EchoStop
       DEF Next, Client, Server

-----------------------------------------------------------------------------
(* The operation servers and their clients.                                *)

CalcModes == {"int", "char"}

LEMMA Lengths ==
  ASSUME NEW n \in Nat
  PROVE  CountBytes \in Nat \ {0} /\ op_total_len(n) \in Nat \ {0}
  <1>1. OP_PARAM_SIZE \in Nat \ {0}
    BY SizesAssumption
  <1>2. OP_PARAM_SIZE * (n + 1) \in Nat \ {0} /\ OP_PARAM_SIZE * n \in Nat
    <2>1. OP_PARAM_SIZE * n \in Nat
      BY <1>1
    <2>2. OP_PARAM_SIZE * (n + 1) = OP_PARAM_SIZE * n + OP_PARAM_SIZE
      BY <1>1
    <2>3. QED
      BY <1>1, <2>1, <2>2
  <1>3. QED
    BY <1>1, <1>2 DEF CountBytes, op_total_len

(* Where the bytes of a read belong: after those read before, unless a     *)
(* read ended inside an int.                                               *)
LEMMA Places ==
  ASSUME mode \in CalcModes, NEW n \in Nat, mode = "int" => n % OP_PARAM_SIZE = 0
  PROVE  Place(0) \in Nat /\ Place(n) = Place(0) + n
  <1>1. OP_PARAM_SIZE \in Nat \ {0}
    BY SizesAssumption
  <1>2. CASE mode = "int"
    <2>1. 0 \div OP_PARAM_SIZE = 0
      BY <1>1
    <2>2. n = OP_PARAM_SIZE * (n \div OP_PARAM_SIZE) + (n % OP_PARAM_SIZE)
          /\ n \div OP_PARAM_SIZE \in Int
      BY <1>1, Quotient
    <2>3. Place(0) = OP_PARAM_SIZE * 0
      BY <1>2, <2>1 DEF Place
    <2>4. Place(0) = 0
      BY <2>3, <1>1
    <2>5. Place(n) = OP_PARAM_SIZE * (n \div OP_PARAM_SIZE)
      BY <1>2 DEF Place
    <2>6. PICK y \in Int : y = OP_PARAM_SIZE * (n \div OP_PARAM_SIZE)
      BY <1>1, <2>2
    <2>7. n = y + 0
      BY <1>2, <2>2, <2>6
    <2>8. QED
      BY <2>4, <2>5, <2>6, <2>7
  <1>3. CASE mode = "char"
    BY <1>3 DEF Place
  <1>4. QED
    BY <1>2, <1>3 DEF CalcModes

(* The result's text has a length.                                         *)
LEMMA LengthType ==
  ASSUME NEW v \in Int \cup {Err}
  PROVE  Length(v) \in Nat
  <1>1. \A n : Digits(n) \in Nat
    <2>1. TAKE n
    <2>2. IsFiniteSet(1 .. 9)
      <3>1. 1 \in Int /\ 9 \in Int
        OBVIOUS
      <3>2. QED
        BY <3>1, FS_Interval, Zenon
    <2>3. {d \in 1 .. 9 : n >= 10 ^ d} \subseteq 1 .. 9
      OBVIOUS
    <2>4. IsFiniteSet({d \in 1 .. 9 : n >= 10 ^ d})
      BY <2>2, <2>3, FS_Subset
    <2>5. Cardinality({d \in 1 .. 9 : n >= 10 ^ d}) \in Nat
      BY <2>4, FS_CardinalityType
    <2>6. QED
      BY <2>5 DEF Digits
  <1>2. Digits(v) \in Nat /\ Digits(-v) \in Nat
    BY <1>1
  <1>3. QED
    BY <1>2 DEF Length

(* A step that leaves the request and the server's part alone.             *)
LEMMA Same ==
  ASSUME UNCHANGED <<mode, inq, requests, op_num, op_recv_len, message, cal_result, serving>>,
         "int" \in torn => "int" \in torn'
  PROVE  /\ K' = K /\ Now' = Now
         /\ Remains(0) => Remains(0)'
         /\ Reading => Reading'
         /\ Replying => Replying'
  <1>1. K' = K /\ Now' = Now /\ Size(Now)' = Size(Now)
    BY DEF K, Now, Size
  <1>2. Remains(0)' = Remains(0)
    BY <1>1 DEF Remains
  <1>3. CountBytes' = CountBytes /\ op_total_len(op_num)' = op_total_len(op_num)
        /\ InPlace' = InPlace /\ calculate(Now)' = calculate(Now)
    BY <1>1 DEF CountBytes, op_total_len, InPlace, Place
  <1>4. Remains(CountBytes + op_recv_len)' = Remains(CountBytes + op_recv_len)
    BY <1>1, <1>3 DEF Remains
  <1>5. QED
    BY <1>1, <1>2, <1>3, <1>4 DEF Reading, Replying

LEMMA CalcNet ==
  ASSUME Picture, CalcPicture, mode \in CalcModes, DeliverIn \/ DeliverOut
  PROVE  CalcPicture'
  <1>1. /\ UNCHANGED <<mode, conn, inq, out, spc, op_num, op_recv_len, message, cal_result,
                       serving, cpc, requests, shown, torn>>
        /\ inArrived' = inArrived \/ (inArrived' \in inArrived + 1 .. Len(inq))
        /\ outArrived' = outArrived \/ (outArrived' \in outArrived + 1 .. Len(out))
    BY DEF DeliverIn, DeliverOut, inVars, outVars, calcVars, clientVars
  <1>2. Flow'
    <2>1. Flow /\ Len(inq) \in Nat /\ Len(out) \in Nat /\ inArrived \in 0 .. Len(inq)
          /\ outArrived \in 0 .. Len(out)
      BY DEF CalcPicture, Flow
    <2>2. inArrived' \in 0 .. Len(inq) /\ outArrived' \in 0 .. Len(out)
      BY <1>1, <2>1
    <2>3. QED
      BY <1>1, <2>1, <2>2 DEF Flow
  <1>3. AllOf(out)' = AllOf(out) /\ AllOf(shown)' = AllOf(shown)
    BY <1>1 DEF AllOf, K
  <1>4. QED
    BY <1>1, <1>2, <1>3, Same DEF CalcPicture

(* The client leaves, and nothing else happens.                            *)
LEMMA CalcLeave ==
  ASSUME Picture, CalcPicture, mode \in CalcModes, AskFails \/ ReadNoResult \/ Quit
  PROVE  CalcPicture'
  <1>1. /\ cpc' = "gone"
        /\ UNCHANGED <<mode, inq, inArrived, out, outArrived, spc, op_num, op_recv_len,
                       message, cal_result, serving, requests, shown, torn>>
    BY DEF AskFails, ReadNoResult, Quit, inVars, outVars, calcVars, CalcModes
  <1>2. Flow'
    BY <1>1 DEF CalcPicture, Flow
  <1>3. QED
    BY <1>1, <1>2, Same DEF CalcPicture

LEMMA CalcAsk ==
  ASSUME Picture, CalcPicture, mode \in CalcModes, Ask
  PROVE  CalcPicture'
  <1>1. /\ cpc = "ask" /\ conn = "open"
        /\ UNCHANGED <<mode, conn, spc, out, inArrived, outArrived, shown>>
    BY DEF Ask, outVars, CalcModes
  <1>2. Flow /\ spc = "read" /\ inq = <<>> /\ out = <<>> /\ inArrived = 0
    BY <1>1 DEF CalcPicture, Flow
  <1>3. PICK r \in Entries :
          /\ requests' = Append(requests, r)
          /\ inq' = inq \o Bytes(Len(requests) + 1, r)
          /\ cpc' = IF Size(r) = 0 THEN "ask" ELSE "wait"
    BY <1>1 DEF Ask, Entries
  <1>4. /\ K \in Nat /\ requests \in Seq(Entries) /\ Size(r) \in Nat
        /\ Len(r.params) \in Nat /\ Size(r) = CountBytes + op_total_len(Len(r.params))
    BY SizeType, CountType DEF Picture, CalcModes, EchoModes
  <1>5. Size(r) # 0
    <2>1. CountBytes \in Nat \ {0} /\ op_total_len(Len(r.params)) \in Nat \ {0}
      BY <1>4, Lengths
    <2>2. QED
      BY <1>4, <2>1
  <1>6. K' = K + 1 /\ Now' = r /\ Size(Now)' = Size(r)
    <2>1. Len(requests') = Len(requests) + 1 /\ requests'[Len(requests) + 1] = r
      BY <1>3, <1>4
    <2>2. K' = K + 1 /\ Now' = r
      BY <2>1 DEF K, Now, Last
    <2>3. QED
      BY <1>1, <2>2 DEF Size
  <1>7. PICK b \in Seq(Nat \X Nat) :
          /\ b = Bytes(K + 1, r) /\ Len(b) = Size(r)
          /\ \A j \in 1 .. Size(r) : b[j] = <<K + 1, j - 1>>
    <2>1. PICK k \in Nat : k = K + 1
      BY <1>4
    <2>2. /\ Bytes(k, r) \in Seq(Nat \X Nat) /\ Len(Bytes(k, r)) = Size(r)
          /\ \A j \in 1 .. Size(r) : Bytes(k, r)[j] = <<k, j - 1>>
      BY <1>4, BytesAre
    <2>3. QED
      BY <2>1, <2>2
  <1>8. inq' = b
    BY <1>2, <1>3, <1>7 DEF K
  <1>9. Flow'
    BY <1>1, <1>2, <1>4, <1>7, <1>8 DEF Flow
  <1>10. Remains(0)'
    <2>1. Len(inq') = Size(Now)' - 0 /\ K' # 0
      BY <1>4, <1>6, <1>7, <1>8
    <2>2. \A j \in DOMAIN inq' : j \in 1 .. Size(r) /\ 0 + j - 1 = j - 1
      BY <1>4, <1>7, <1>8
    <2>3. \A j \in DOMAIN inq' : inq'[j] = <<K', 0 + j - 1>>
      BY <2>2, <1>6, <1>7, <1>8
    <2>4. QED
      BY <2>1, <2>3 DEF Remains
  <1>11. QED
    BY <1>1, <1>2, <1>3, <1>4, <1>5, <1>6, <1>9, <1>10 DEF CalcPicture

LEMMA CalcReadResult ==
  ASSUME Picture, CalcPicture, mode \in CalcModes, ReadResult, InScope'
  PROVE  CalcPicture'
  <1>1. /\ cpc = "wait" /\ outArrived > 0 /\ cpc' = "ask" /\ TakeAnswer
        /\ UNCHANGED <<mode, conn, inq, inArrived, spc, requests>>
        /\ shown' = SubSeq(out, 1, Min2(Got, OP_RESULT_SIZE))
    BY DEF ReadResult, CalcModes, inVars, calcVars
  <1>2. Flow /\ outArrived \in Nat /\ Len(out) \in Nat /\ outArrived <= Len(out) /\ out # <<>>
    BY <1>1 DEF CalcPicture, Flow
  <1>3. K # 0 /\ conn = "open" /\ spc = "read" /\ inq = <<>> /\ AllOf(out)
    BY <1>1, <1>2 DEF CalcPicture
  <1>4. PICK m \in Nat \ {0} : ReadMost = m
    BY ReadMostType DEF Picture
  <1>5. /\ Got \in 1 .. outArrived /\ Len(out') = Len(out) - Got /\ out' \in Seq(Nat)
        /\ outArrived' \in 0 .. Len(out')
    BY <1>1, <1>2, <1>4, Taken
  <1>6. ~ (Got < Len(out))
    BY DEF ReadResult, InScope
  <1>7. out' = <<>>
    BY <1>2, <1>5, <1>6
  <1>8. PICK n \in Nat : n = Min2(Got, OP_RESULT_SIZE) /\ n <= Got
    BY <1>2, <1>5, SizesAssumption DEF Min2
  <1>9. n \in 0 .. Got
    BY <1>2, <1>5, <1>8
  <1>10. /\ SubSeq(out, 1, n) \in Seq(Nat) /\ Len(SubSeq(out, 1, n)) = n
         /\ \A j \in 1 .. n : SubSeq(out, 1, n)[j] = out[j] /\ j \in DOMAIN out
    BY <1>9, <1>1, <1>2, <1>4, Taken
  <1>11. shown' = SubSeq(out, 1, n) /\ K' = K
    BY <1>1, <1>8 DEF K
  <1>12. shown' \in Seq(Nat) /\ AllOf(shown)'
    BY <1>3, <1>10, <1>11 DEF AllOf
  <1>13. Flow'
    BY <1>1, <1>2, <1>5, <1>12 DEF Flow
  <1>14. QED
    BY <1>1, <1>3, <1>7, <1>12, <1>13 DEF CalcPicture

(* Where the server only changes where it is and what the connection is.   *)
LEMMA CalcMoves ==
  ASSUME Picture, CalcPicture, mode \in CalcModes, End \/ ReadEnd \/ ReplyLast \/ ReplyFails
  PROVE  CalcPicture'
  <1>1. /\ UNCHANGED <<mode, inq, inArrived, out, outArrived, cpc, requests, shown>>
        /\ spc' \in {"exit", "accept", "killed"}
        /\ End => spc = "accept" /\ conn' = conn
        /\ ReadEnd => conn # "open" /\ conn # "closed"
        /\ ReplyLast => spc = "last" /\ conn' = "closed"
        /\ ReplyFails => conn = "reset"
    BY DEF End, ReadEnd, ReplyLast, ReplyFails, inVars, outVars, calcVars, clientVars,
       CalcModes, EchoModes
  <1>2. Flow' /\ K' = K
    BY <1>1 DEF CalcPicture, Flow, K
  <1>3. cpc # "ask"
    BY <1>1 DEF CalcPicture
  <1>4. cpc = "wait" => K # 0 /\ conn' = "closed" /\ out = <<>>
    BY <1>1 DEF CalcPicture
  <1>5. QED
    BY <1>1, <1>2, <1>3, <1>4 DEF CalcPicture

LEMMA CalcReadCount ==
  ASSUME Picture, CalcPicture, mode \in CalcModes, ReadCount
  PROVE  CalcPicture'
  <1>1. /\ spc = "read" /\ inArrived > 0 /\ conn \in {"open", "fin"}
        /\ UNCHANGED <<mode, out, outArrived, cpc, requests, shown, torn>>
        /\ op_recv_len' = 0
    BY DEF ReadCount, outVars, clientVars
  <1>2. Flow /\ inArrived \in Nat /\ Len(inq) \in Nat /\ inArrived <= Len(inq)
        /\ 1 \in DOMAIN inq /\ inq # <<>>
    BY <1>1 DEF CalcPicture, Flow
  <1>3. K # 0 /\ Len(inq) = Size(Now) - 0 /\ \A j \in DOMAIN inq : inq[j] = <<K, 0 + j - 1>>
    BY <1>1, <1>2 DEF CalcPicture, Remains
  <1>4. Now \in Entries /\ K \in Nat \ {0} /\ Now = requests[K]
    BY <1>3, NowType
  <1>5. inq[1] = <<K, 0>>
    BY <1>2, <1>3, <1>4
  <1>6. PICK count \in Nat : count = Len(Now.params) /\ Size(Now) = CountBytes + op_total_len(count)
    BY <1>4, SizeType DEF Picture, CalcModes, EchoModes
  <1>7. CountBytes \in Nat \ {0} /\ op_total_len(count) \in Nat \ {0}
    BY Lengths
  <1>8. PICK n \in Nat : n = Min2(inArrived, CountBytes) /\ n <= inArrived /\ n <= CountBytes
    BY <1>2, <1>7 DEF Min2
  <1>9. /\ Take(n)
        /\ IF n < CountBytes
             THEN spc' = "lost" /\ conn' = conn
             ELSE /\ op_num' = count /\ serving' = K
                  /\ IF count <= 0 THEN conn' = "closed" /\ spc' = "accept"
                                   ELSE conn' = conn /\ spc' = "params"
    BY <1>4, <1>5, <1>6, <1>8 DEF ReadCount
  <1>10. /\ inq' \in Seq(Nat \X Nat) /\ Len(inq') = Len(inq) - n /\ inArrived' \in 0 .. Len(inq')
         /\ \A j \in 1 .. Len(inq) - n : inq'[j] = inq[n + j] /\ n + j \in DOMAIN inq
    BY <1>2, <1>8, <1>9, TakenIn
  <1>11. Flow'
    BY <1>1, <1>2, <1>10 DEF Flow
  <1>12. K' = K /\ Now' = Now /\ Size(Now)' = Size(Now) /\ CountBytes' = CountBytes
    BY <1>1 DEF K, Now, Size, CountBytes
  <1>13. spc' = "params" => Reading'
    <2> SUFFICES ASSUME spc' = "params" PROVE Reading'
      OBVIOUS
    <2>1. n = CountBytes /\ op_num' = count /\ serving' = K /\ count > 0
      BY <1>6, <1>7, <1>8, <1>9
    <2>2. op_total_len(op_num)' = op_total_len(count)
      BY <1>1, <2>1 DEF op_total_len
    <2>3. PICK c \in Nat : c = CountBytes + 0 /\ c = n
      BY <1>7, <2>1
    <2>4. Remains(c)'
      <3>1. Len(inq') = Size(Now)' - c
        BY <1>3, <1>10, <1>12, <2>3, <1>6, <1>7
      <3>2. \A j \in DOMAIN inq' : j \in 1 .. Len(inq) - n /\ j \in Nat
        BY <1>2, <1>8, <1>10
      <3>3. \A j \in DOMAIN inq' : inq'[j] = <<K, 0 + (n + j) - 1>>
        BY <3>2, <1>3, <1>10
      <3>4. \A j \in DOMAIN inq' : inq'[j] = <<K', c + j - 1>>
        BY <3>2, <3>3, <1>12, <2>3
      <3>5. QED
        BY <3>1, <3>4, <1>3, <1>12 DEF Remains
    <2>5. c = (CountBytes + op_recv_len)'
      BY <1>1, <1>12, <2>3
    <2>6. InPlace'
      <3>1. 0 % OP_PARAM_SIZE = 0
        BY SizesAssumption
      <3>2. QED
        BY <3>1, <1>1 DEF InPlace
    <2>7. op_recv_len' \in 0 .. op_total_len(op_num)' - 1
      BY <1>1, <1>7, <2>2
    <2>8. Remains(CountBytes + op_recv_len)'
      BY <2>4, <2>5 DEF Remains
    <2>9. QED
      BY <1>6, <1>12, <2>1, <2>6, <2>7, <2>8 DEF Reading
  <1>14. spc' \in {"lost", "accept", "params"} /\ (spc' # "accept" => conn' = conn)
         /\ (spc' = "accept" => conn' = "closed")
    BY <1>9
  <1>15. cpc # "ask" /\ (cpc = "wait" => K # 0 /\ conn = "open" /\ out = <<>>)
    BY <1>1, <1>2 DEF CalcPicture
  <1>16. QED
    BY <1>1, <1>11, <1>12, <1>13, <1>14, <1>15 DEF CalcPicture

LEMMA CalcReadParams ==
  ASSUME Picture, CalcPicture, mode \in CalcModes, ReadParams
  PROVE  CalcPicture'
  <1>1. /\ spc = "params" /\ inArrived > 0
        /\ UNCHANGED <<mode, conn, out, outArrived, op_num, serving, cpc, requests, shown>>
    BY DEF ReadParams, outVars, clientVars
  <1>2. Flow /\ inArrived \in Nat /\ Len(inq) \in Nat /\ inArrived <= Len(inq) /\ Reading
    BY <1>1 DEF CalcPicture, Flow
  <1>3. PICK total \in Nat \ {0}, c \in Nat \ {0}, recv \in Nat :
          /\ total = op_total_len(op_num) /\ c = CountBytes /\ recv = op_recv_len /\ recv < total
          /\ op_num \in Nat /\ op_num = Len(Now.params)
    <2>1. K # 0
      BY <1>2 DEF Reading, Remains
    <2>2. Len(Now.params) \in Nat
      BY <2>1, NowType, SizeType DEF Picture, CalcModes, EchoModes
    <2>3. op_num \in Nat /\ op_recv_len \in 0 .. op_total_len(op_num) - 1
      BY <1>2, <2>2 DEF Reading
    <2>4. CountBytes \in Nat \ {0} /\ op_total_len(op_num) \in Nat \ {0}
      BY <2>3, Lengths
    <2>5. op_recv_len \in Nat /\ op_recv_len < op_total_len(op_num)
      BY <2>3, <2>4
    <2>6. QED
      BY <2>3, <2>4, <2>5, <1>2 DEF Reading
  <1>4. /\ K \in Nat \ {0} /\ Now \in Entries /\ Now = requests[K] /\ serving = K
        /\ \A j \in DOMAIN inq : inq[j] = <<K, (c + recv) + j - 1>>
        /\ Len(inq) = Size(Now) - (c + recv)
    BY <1>2, <1>3, NowType DEF Reading, Remains
  <1>5. Size(Now) = c + total
    BY <1>3, <1>4, SizeType DEF Picture, CalcModes, EchoModes
  <1>6. Len(inq) = total - recv
    BY <1>4, <1>5
  <1>7. PICK n \in Nat : n = Min2(inArrived, total) /\ n <= inArrived /\ n > 0
    BY <1>1, <1>2 DEF Min2
  <1>8. n <= total - recv
    BY <1>2, <1>6, <1>7
  <1>9. /\ Take(n) /\ op_recv_len' = recv + n /\ Fill(Place(recv), n)
        /\ IF recv + n < total
             THEN /\ spc' = "params"
                  /\ torn' = IF mode = "int" /\ (recv + n) % OP_PARAM_SIZE # 0
                               THEN torn \cup {"int"} ELSE torn
             ELSE /\ spc' = "reply" /\ torn' = torn
                  /\ cal_result' \in IF Whole(message') THEN {calculate(Now)} ELSE Garbled
    BY <1>3, <1>4, <1>7 DEF ReadParams
  <1>10. /\ inq' \in Seq(Nat \X Nat) /\ Len(inq') = Len(inq) - n /\ inArrived' \in 0 .. Len(inq')
         /\ \A j \in 1 .. Len(inq) - n : inq'[j] = inq[n + j] /\ n + j \in DOMAIN inq
         /\ \A j \in 1 .. n : j \in DOMAIN inq
    BY <1>2, <1>7, <1>9, TakenIn
  <1>11. Flow'
    BY <1>1, <1>2, <1>10 DEF Flow
  <1>12. /\ K' = K /\ Now' = Now /\ Size(Now)' = Size(Now) /\ CountBytes' = CountBytes
         /\ op_total_len(op_num)' = op_total_len(op_num) /\ Place(0)' = Place(0)
    BY <1>1 DEF K, Now, Size, CountBytes, op_total_len, Place
  (* Every byte read so far is in its place.                               *)
  <1>13. "int" \notin torn => \A b \in 0 .. recv + n - 1 : Place(0) + b \in message'
    <2> SUFFICES ASSUME "int" \notin torn, NEW b \in 0 .. recv + n - 1
                 PROVE  Place(0) + b \in message'
      OBVIOUS
    <2>1. InPlace /\ (mode = "int" => recv % OP_PARAM_SIZE = 0)
      BY <1>2, <1>3 DEF Reading, InPlace
    <2>2. PICK p \in Nat : p = Place(0) /\ Place(recv) = p + recv
      BY <1>3, <2>1, Places
    <2>3. message' = (message \ (p + recv .. p + recv + n - 1))
                       \cup {d \in p + recv .. p + recv + n - 1 :
                               inq[d - (p + recv) + 1] = <<K, c + d - p>>}
      BY <1>3, <1>4, <1>9, <2>2 DEF Fill
    <2>4. CASE b < recv
      <3>1. p + b \in message
        BY <1>3, <2>1, <2>2, <2>4 DEF InPlace
      <3>2. p + b \notin p + recv .. p + recv + n - 1
        BY <2>4, <1>3
      <3>3. QED
        BY <3>1, <3>2, <2>2, <2>3
    <2>5. CASE b >= recv
      <3>1. p + b \in p + recv .. p + recv + n - 1 /\ b - recv + 1 \in 1 .. n
        BY <2>5, <1>3
      <3>2. (p + b) - (p + recv) + 1 = b - recv + 1 /\ c + (p + b) - p = c + b
            /\ (c + recv) + (b - recv + 1) - 1 = c + b
        BY <1>3
      <3>3. b - recv + 1 \in DOMAIN inq
        BY <3>1, <1>10
      <3>4. inq[b - recv + 1] = <<K, c + b>>
        BY <3>2, <3>3, <1>4
      <3>5. PICK d \in p + recv .. p + recv + n - 1 : d = p + b
        BY <3>1
      <3>6. inq[d - (p + recv) + 1] = <<K, c + d - p>>
        BY <3>2, <3>4, <3>5
      <3>7. QED
        BY <3>5, <3>6, <2>2, <2>3
    <2>6. QED
      BY <2>4, <2>5, <1>3
  <1>14. CASE recv + n < total
    <2>1. spc' = "params" /\ ("int" \notin torn' => "int" \notin torn)
          /\ ("int" \notin torn' => (mode = "int" => (recv + n) % OP_PARAM_SIZE = 0))
      BY <1>9, <1>14
    <2>2. "int" \notin torn' => InPlace'
      BY <2>1, <1>1, <1>9, <1>12, <1>13 DEF InPlace
    <2>3. PICK from \in Nat : from = c + (recv + n)
      BY <1>3
    <2>4. Remains(from)'
      <3>1. Len(inq') = Size(Now)' - from
        <4>1. Size(Now)' = c + total /\ Len(inq') = (total - recv) - n
          BY <1>5, <1>6, <1>10, <1>12
        <4>2. QED
          BY <4>1, <1>3, <2>3
      <3>2. \A j \in DOMAIN inq' : j \in 1 .. Len(inq) - n /\ j \in Nat
        BY <1>2, <1>10
      <3>3. \A j \in DOMAIN inq' : inq'[j] = <<K, (c + recv) + (n + j) - 1>>
        BY <3>2, <1>4, <1>10
      <3>4. \A j \in DOMAIN inq' : inq'[j] = <<K', from + j - 1>>
        BY <3>2, <3>3, <1>3, <1>12, <2>3
      <3>5. QED
        BY <3>1, <3>4, <1>4, <1>12 DEF Remains
    <2>5. (CountBytes + op_recv_len)' = from
      BY <1>3, <1>9, <1>12, <2>3
    <2>6. Remains(CountBytes + op_recv_len)'
      BY <2>4, <2>5 DEF Remains
    <2>7. op_recv_len' \in 0 .. op_total_len(op_num)' - 1
      BY <1>3, <1>9, <1>12, <1>14
    <2>8. serving' = K' /\ op_num' = Len(Now'.params) /\ op_num' > 0
      BY <1>1, <1>2, <1>12 DEF Reading
    <2>9. Reading'
      BY <2>2, <2>6, <2>7, <2>8 DEF Reading
    <2>10. QED
      BY <2>1, <2>9, <1>1, <1>11, <1>12 DEF CalcPicture
  <1>15. CASE ~ (recv + n < total)
    <2>1. /\ spc' = "reply" /\ torn' = torn /\ recv + n = total
          /\ cal_result' \in IF Whole(message') THEN {calculate(Now)} ELSE Garbled
      BY <1>3, <1>8, <1>9, <1>15
    <2>2. inq' = <<>>
      <3>1. Len(inq') = 0
        BY <1>3, <1>6, <1>10, <2>1
      <3>2. QED
        BY <3>1, <1>10
    <2>3. calculate(Now) \in Int \cup {Err}
      BY <1>4, CalculateExpected DEF Entries, CalcModes, EchoModes
    <2>4. cal_result' \in Int \cup {Err}
      BY <2>1, <2>3, EntriesAssumption
    <2>5. "int" \notin torn => cal_result' = calculate(Now)
      <3> SUFFICES ASSUME "int" \notin torn PROVE cal_result' = calculate(Now)
        OBVIOUS
      <3>1. \A b \in 0 .. total - 1 : Place(0) + b \in message'
        BY <1>13, <2>1
      <3>2. Whole(message')
        BY <3>1, <1>3 DEF Whole
      <3>3. QED
        BY <3>2, <2>1
    <2>6. Replying'
      BY <2>1, <2>2, <2>4, <2>5, <1>1, <1>4, <1>12 DEF Replying, calculate
    <2>7. QED
      BY <2>1, <2>6, <1>1, <1>11, <1>12 DEF CalcPicture
  <1>16. QED
    BY <1>14, <1>15

LEMMA CalcReply ==
  ASSUME Picture, CalcPicture, mode \in CalcModes, Reply
  PROVE  CalcPicture'
  <1>1. /\ spc = "reply" /\ spc' = "read"
        /\ UNCHANGED <<mode, inq, inArrived, outArrived, cpc, requests, shown>>
        /\ IF conn = "open" THEN out' = out \o Answer /\ conn' = conn ELSE out' = out
    BY DEF Reply, inVars, calcVars, clientVars
  <1>2. Flow /\ Replying /\ out \in Seq(Nat) /\ Len(out) \in Nat /\ outArrived \in 0 .. Len(out)
    BY <1>1 DEF CalcPicture, Flow
  <1>3. K \in Nat /\ K # 0 /\ serving = K /\ inq = <<>> /\ Length(cal_result) \in Nat
    BY <1>2, LengthType, CountType DEF Replying
  <1>4. PICK a \in Seq(Nat) : a = Answer /\ \A j \in DOMAIN a : a[j] = K
    <2>1. Answer = [c \in 1 .. Length(cal_result) |-> K]
      BY <1>3 DEF Answer, CalcModes, EchoModes
    <2>2. [c \in 1 .. Length(cal_result) |-> K] \in Seq(Nat)
      BY <1>3
    <2>3. QED
      BY <2>1, <2>2
  <1>5. /\ out \o a \in Seq(Nat) /\ Len(out \o a) = Len(out) + Len(a) /\ Len(a) \in Nat
        /\ out = <<>> => out \o a = a
    BY <1>2, <1>4, Both
  <1>6. out' \in Seq(Nat) /\ outArrived \in 0 .. Len(out')
    <2>1. out' = out \/ out' = out \o a
      BY <1>1, <1>4
    <2>2. outArrived \in 0 .. Len(out) + Len(a)
      BY <1>2, <1>5
    <2>3. CASE out' = out
      BY <2>3, <1>2
    <2>4. CASE out' = out \o a
      BY <2>2, <2>4, <1>5
    <2>5. QED
      BY <2>1, <2>3, <2>4
  <1>7. Flow' /\ K' = K
    BY <1>1, <1>2, <1>6 DEF Flow, K
  <1>8. cpc # "ask" /\ (cpc = "wait" => conn \in {"open", "closed"} /\ out = <<>>)
    BY <1>1 DEF CalcPicture
  <1>9. conn # "closed"
    BY DEF Reply
  <1>10. cpc = "wait" => conn' = "open" /\ AllOf(out)'
    BY <1>1, <1>4, <1>5, <1>7, <1>8, <1>9 DEF AllOf
  <1>11. QED
    BY <1>1, <1>3, <1>7, <1>8, <1>10 DEF CalcPicture

LEMMA CalcKeeps ==
  ASSUME Picture, CalcPicture, mode \in CalcModes, Next, ~ Accept, InScope'
  PROVE  CalcPicture'
  <1>1. ~ (ReadMore \/ ReadLine \/ ReadEcho \/ ReadEchoLine \/ ReadEndLine \/ Stop)
    BY DEF ReadMore, ReadLine, ReadEcho, ReadEchoLine, ReadEndLine, Stop, CalcModes, EchoModes
  <1>2. QED
    BY <1>1, CalcNet, CalcLeave, CalcAsk, CalcReadResult, CalcMoves, CalcReadCount,
       CalcReadParams, CalcReply DEF Next, Client, Server

-----------------------------------------------------------------------------
LEMMA StepKeeps == Picture /\ [Next]_vars => Picture'
  <1> SUFFICES ASSUME Picture, [Next]_vars PROVE Picture'
    OBVIOUS
  <1>1. CASE UNCHANGED vars
    <2>1. UNCHANGED <<mode, conn, inq, inArrived, out, outArrived, spc, session, op_num,
                      op_recv_len, message, cal_result, serving, echo, cpc, requests, shown, torn>>
      BY <1>1 DEF vars, inVars, outVars, calcVars, clientVars
    <2>2. K' = K /\ Now' = Now /\ Size(Now)' = Size(Now) /\ Entries' = Entries /\ Flow' = Flow
      BY <2>1 DEF K, Now, Size, Entries, Flow
    <2>3. EchoPicture' = EchoPicture
      BY <2>1, <2>2 DEF EchoPicture, Asking, Waiting, AllOf, Had, Held
    <2>4. CalcPicture => CalcPicture'
      BY <2>1, <2>2, Same DEF CalcPicture, AllOf
    <2>5. QED
      BY <2>1, <2>2, <2>3, <2>4 DEF Picture, InScope
  <1>2. CASE Accept
    BY <1>2, AcceptKeeps
  <1>3. CASE Next /\ ~ Accept
    <2>1. /\ mode' = mode /\ Entries' = Entries /\ cpc' \in {"ask", "wait", "gone"}
          /\ requests' \in Seq(Entries) /\ (mode = "echo2" => InScope')
      BY <1>3, RequestsGrow
    <2>2. InScope' => InScope
      BY <1>3, ScopeShrinks
    <2>3. CASE mode \in EchoModes
      BY <1>3, <2>1, <2>2, <2>3, EchoKeeps DEF Picture
    <2>4. CASE mode \notin EchoModes
      <3>1. mode \in CalcModes
        BY <2>4 DEF Picture, Modes, CalcModes
      <3>2. QED
        BY <3>1, <1>3, <2>1, <2>2, <2>4, CalcKeeps DEF Picture
    <2>5. QED
      BY <2>3, <2>4
  <1>4. QED
    BY <1>1, <1>2, <1>3

(* As long as nothing went wrong that a client is not told of, every byte  *)
(* on its way is of the client's last request, and the server has every    *)
(* byte it read in its place.                                              *)
THEOREM Pictured == Spec => []Picture
  <1>1. Init => Picture
    BY PictureStarts
  <1>2. Picture /\ [Next]_vars => Picture'
    BY StepKeeps
  <1>3. QED
    BY <1>1, <1>2, PTL DEF Spec

(* However the stream is cut, op_server and op_server2 calculate what the  *)
(* request says, wrapped around as an int is, for any numbers and operator *)
(* (op_server.c:143-152, op_server2.c:145-153).                            *)
THEOREM RightResult == Spec => []ResultsCorrect
  <1>1. Picture => ResultsCorrect
    <2> SUFFICES ASSUME Picture, mode \notin EchoModes, spc = "reply", torn = {}
                 PROVE  cal_result = Expected(requests[serving])
      BY DEF ResultsCorrect
    <2>1. Replying
      BY DEF Picture, InScope, CalcPicture
    <2>2. K # 0 /\ serving = K /\ cal_result = calculate(Now)
      BY <2>1 DEF Replying
    <2>3. Now = requests[serving] /\ Now \in Requests
      BY <2>2, NowType DEF Entries
    <2>4. QED
      BY <2>2, <2>3, CalculateExpected
  <1>2. QED
    BY <1>1, Pictured, PTL

(* What a client shows is of its last request, and nothing is left over    *)
(* for the next one (echo_client2.c:60-67, echo_client.c:54-63,            *)
(* op_client.c:80-88).                                                     *)
THEOREM InStepAlways == Spec => []ClientInStep
  <1>1. Picture => ClientInStep
    <2> SUFFICES ASSUME Picture, cpc = "ask", shown # <<>>,
                        mode = "echo2" \/ torn \cap {"result", "unanswered"} = {}
                 PROVE  /\ \A c \in DOMAIN shown : shown[c] = Len(requests)
                        /\ mode \in EchoModes => Len(shown) = Size(Last(requests))
                        /\ out = <<>> /\ inq = <<>>
      BY DEF ClientInStep
    <2>1. InScope
      BY DEF Picture, InScope
    <2>2. CASE mode \in EchoModes
      <3>1. Asking
        BY <2>1, <2>2 DEF Picture, EchoPicture
      <3>2. QED
        BY <3>1, <2>2 DEF Asking, AllOf, K, Now
    <2>3. CASE mode \notin EchoModes
      BY <2>1, <2>3 DEF Picture, CalcPicture, AllOf, K
    <2>4. QED
      BY <2>2, <2>3
  <1>2. QED
    BY <1>1, Pictured, PTL
=============================================================================
