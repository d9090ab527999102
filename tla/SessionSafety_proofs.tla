------------------------ MODULE SessionSafety_proofs ------------------------
(***************************************************************************)
(* What a session tells its caller is true, for every choice of addresses, *)
(* contents, noise, events and bounds, on a line without latency and for   *)
(* callers that wait for their calls, and so Session implements            *)
(* RemoteRegister.                                                         *)
(*                                                                         *)
(* connect drops an error of DEVICE_ID_F0.get and keeps `connected`, and   *)
(* what such a read leaves on the line may look like any answer.  The      *)
(* theorems are therefore about the sessions whose connect could read it.  *)
(*                                                                         *)
(* On any line, and with callers that drop their calls, an answer is still *)
(* never one of another address (AnswersAreOwn).                           *)
(***************************************************************************)
EXTENDS Session_proofs, SessionRefinement

\* No byte is on its way when the line is purged, and no future is dropped.
Orderly == ~Latency /\ "cancel" \notin EnvKinds

\* DEVICE_ID_F0.get did not fail.
F0Answered == stage = "device_id_f0" /\ pc = "done" => result = "ok"

-----------------------------------------------------------------------------
(* The invariant *)

Syncs(s) == \A i \in 1..Len(s) : s[i] = SYNC

\* The bytes of data in the answer to operation o.
Payload(o) == IF o.kind = "get" THEN BlockLen ELSE 0

\* Telegram t, from its length byte on, carries what operation o may return.
Truthful(o, t, contents, written) ==
  IF o.kind = "get" THEN SubSeq(t, 7, 6 + BlockLen) \in contents ELSE written

\* The line u begins at the length byte of an answer.  If it is the length of
\* an answer to o, the answer is there as a whole and only SYNC follows, and
\* if it would be accepted as well it is truthful.
Answers(o, u, contents, written) ==
  LET n == 6 + Payload(o)
      t == SubSeq(u, 1, n)
  IN  /\ Len(u) > 0
      /\ u[1] = 5 + Payload(o) =>
           /\ Len(u) > n
           /\ \A i \in (n + 2)..Len(u) : u[i] = SYNC
           /\ wrapping_sum(t) = u[n + 1] /\ Accepted(o, t) => Truthful(o, t, contents, written)

\* The messages s are all m but for the last, which may be l.
Sent(s, m, l) == \A i \in 1..Len(s) : s[i] = m \/ (i = Len(s) /\ s[i] = l)

\* The client is about to write or is through: nothing but SYNC comes, and
\* the controller may yet have to see the ACK for the last response.
LineQuiet == Syncs(rx) /\ Sent(tx, Control("ACK"), Control("ACK"))

\* The request is on its way to the controller.
Requested == Syncs(rx) /\ Sent(tx, Control("ACK"), Request(op))

\* The controller has answered the request.
Answered ==
  /\ tx = << >> /\ rx # << >>
  /\ rx[1] = ACK => Len(rx) > 2 /\ Answers(op, SubSeq(rx, 3, Len(rx)), seen, applied)

\* START is on its way to the controller.
Starting == Syncs(rx) /\ Sent(tx, Control("RESET"), Control("START"))

\* The controller has answered START.
Started ==
  /\ tx = << >> /\ rx # << >>
  /\ rx[1] \in {ACK, NACK} => Syncs(Tail(rx))

AtSync ==
  pc \in {"sync", "start"} => Syncs(rx) /\ Sent(tx, Control("RESET"), Control("RESET"))
AtStarted == pc = "started" => Starting \/ Started
AtWrite == pc = "write" => LineQuiet
AtStatus == pc = "status" => Requested \/ Answered
AtLeadin ==
  pc = "leadin" =>
    tx = << >> /\ Len(rx) > 1 /\ Answers(op, SubSeq(rx, 2, Len(rx)), seen, applied)
AtLength == pc = "length" => tx = << >> /\ Answers(op, rx, seen, applied)
AtBody == pc = "body" => tx = << >> /\ Answers(op, << msgLen >> \o rx, seen, applied)

\* After a success the line is quiet and the outcome is true.
AtEnd ==
  pc = "done" /\ result = "ok" =>
    /\ LineQuiet
    /\ op.kind = "get" => buf \in seen
    /\ op.kind = "set" => applied

AtReady == pc = "idle" /\ stage = "ready" /\ connected => LineQuiet

LineInv ==
  AtSync /\ AtStarted /\ AtWrite /\ AtStatus /\ AtLeadin /\ AtLength /\ AtBody /\ AtEnd /\ AtReady

\* The content that the address of a get has now has been seen.
SeenInv == op.kind = "get" => mem[op.addr] \in seen

\* Which operation a method of VControl runs, and what it knows of the connection.
MethodInv ==
  /\ stage \in {"detect", "negotiate", "reinitialize"} => op.kind = "negotiate" /\ ~connected
  /\ stage \in {"device_id", "device_id_f0"} => op.kind = "get" /\ connected
  /\ stage = "command" => op = Operation(task.kind, task.addr, task.data, calls) /\ connected
  /\ stage \in {"ready", "failed", "vs1", "reinitialize"} => pc \in {"idle", "done"}
  /\ stage = "ready" => pc = "idle"
  /\ pc = "idle" => stage \in {"ready", "failed"}
  /\ pc \in {"leadin", "length", "body"} => op.kind # "negotiate"

SafeInv == TypeOK /\ MethodInv /\ SeenInv /\ LineInv

-----------------------------------------------------------------------------
(* Sequences *)

\* Messages of a kind and a last one: one less at the front, and one more.
LEMMA SentTail ==
  ASSUME NEW s \in Seq(Messages), s # << >>, NEW m, NEW l, Sent(s, m, l)
  PROVE  /\ Sent(Tail(s), m, l)
         /\ Head(s) = m \/ (Head(s) = l /\ Tail(s) = << >>)
  BY DEF Sent

\* A message written behind others that are well placed is well placed.
LEMMA SentAppend ==
  ASSUME NEW s \in Seq(Messages), NEW m, NEW l \in Messages, Sent(s, m, m)
  PROVE  Sent(Append(s, l), m, l)
  BY DEF Sent

\* An empty line holds no message out of place.
LEMMA NothingSent == \A m, l : Sent(<< >>, m, l)
  BY DEF Sent

\* SYNC stays SYNC when bytes are taken from the front, and when one more comes.
LEMMA SyncsStay ==
  ASSUME NEW s \in Seq(Byte), Syncs(s)
  PROVE  /\ Syncs(Append(s, SYNC))
         /\ s # << >> => Syncs(Tail(s)) /\ Head(s) = SYNC
  BY DEF Syncs

\* Nothing is SYNC.
LEMMA NothingSyncs == Syncs(<< >>)
  BY DEF Syncs

\* The rest of a line that gets a byte more.
LEMMA AppendRest ==
  ASSUME NEW s \in Seq(Byte), NEW b \in Byte, NEW k \in 1..(Len(s) + 1)
  PROVE  SubSeq(Append(s, b), k, Len(Append(s, b))) = Append(SubSeq(s, k, Len(s)), b)
<1> DEFINE l == SubSeq(Append(s, b), k, Len(s) + 1)
           r == Append(SubSeq(s, k, Len(s)), b)
<1>1. Len(Append(s, b)) = Len(s) + 1
  OBVIOUS
<1>2. Len(l) = Len(r) /\ \A i \in 1..Len(l) : l[i] = r[i]
  OBVIOUS
<1>3. l \in Seq(Byte) /\ r \in Seq(Byte)
  OBVIOUS
<1> QED BY <1>1, <1>2, <1>3, SeqEqual

-----------------------------------------------------------------------------
(* The checksum *)

\* Remainders of numbers that differ by less than the modulus differ.
LEMMA Remainders ==
  \A k \in Nat : \A b, c \in Byte : (k + b) % 256 = (k + c) % 256 => b = c
<1>1. \A n \in Nat : n \div 256 \in Int /\ n = 256 * (n \div 256) + (n % 256)
  OBVIOUS
<1>2. \A p, q \in Int : 256 * p - 256 * q < 256 /\ 256 * q - 256 * p < 256 => p = q
  OBVIOUS
<1> SUFFICES ASSUME NEW k \in Nat, NEW b \in Byte, NEW c \in Byte,
                    (k + b) % 256 = (k + c) % 256
             PROVE  b = c
  OBVIOUS
<1>3. b \in Int /\ 0 <= b /\ b <= 255 /\ c \in Int /\ 0 <= c /\ c <= 255
  BY InByte
<1>4. PICK p \in Int, q \in Int :
        k + b = 256 * p + ((k + b) % 256) /\ k + c = 256 * q + ((k + c) % 256)
  BY <1>1, <1>3
<1>5. (k + b) % 256 \in Int
  BY <1>3
<1>6. b - c = 256 * p - 256 * q
  BY <1>3, <1>4, <1>5
<1>7. p = q
  BY <1>2, <1>3, <1>6
<1> QED BY <1>3, <1>6, <1>7

\* The checksum depends on each byte as on a summand.
LEMMA SumSplit ==
  ASSUME NEW s \in Seq(Byte), NEW i \in 1..Len(s)
  PROVE  \E k \in Nat : \A b \in Byte : wrapping_sum([s EXCEPT ![i] = b]) = (k + b) % 256
<1> DEFINE V == UNION {{j} \X (1..s[j]) : j \in (1..Len(s)) \ {i}}
           W(b) == {i} \X (1..b)
           U(b) == UNION {{j} \X (1..[s EXCEPT ![i] = b][j]) : j \in 1..Len(s)}
<1>1. IsFiniteSet(V)
  <2>1. ASSUME NEW x \in V PROVE x \in (1..Len(s)) \X (1..255)
    <3>1. PICK j \in (1..Len(s)) \ {i} : x \in {j} \X (1..s[j])
      BY Zenon
    <3>2. s[j] \in Byte
      BY ElementOfSeq
    <3>3. 1..s[j] \subseteq 1..255
      BY <3>2, Interval
    <3>4. PICK l \in 1..s[j] : x = << j, l >>
      BY <3>1
    <3>5. l \in 1..255
      BY <3>3, Zenon
    <3> QED BY <3>4, <3>5
  <2>2. IsFiniteSet((1..Len(s)) \X (1..255))
    <3>1. Len(s) \in Int /\ 1 \in Int /\ 255 \in Int
      OBVIOUS
    <3>2. IsFiniteSet(1..Len(s)) /\ IsFiniteSet(1..255)
      BY <3>1, FS_Interval
    <3> QED BY <3>2, FS_Product
  <2>3. V \in SUBSET ((1..Len(s)) \X (1..255))
    BY <2>1
  <2> HIDE DEF V
  <2> QED BY <2>2, <2>3, FS_Subset
<1>2. Cardinality(V) \in Nat
  <2> HIDE DEF V
  <2> QED BY <1>1, FS_CardinalityType
<1>3. ASSUME NEW b \in Byte
      PROVE  wrapping_sum([s EXCEPT ![i] = b]) = (Cardinality(V) + b) % 256
  <2>1. IsFiniteSet(W(b)) /\ Cardinality(W(b)) = b
    <3>1. b \in Int /\ 1 \in Int /\ 0 <= b
      BY InByte
    <3>2. IsFiniteSet(1..b) /\ Cardinality(1..b) = b
      BY <3>1, FS_Interval
    <3>3. IsFiniteSet({i}) /\ Cardinality({i}) = 1
      BY FS_Singleton
    <3>4. IsFiniteSet(W(b)) /\ Cardinality(W(b)) = Cardinality({i}) * Cardinality(1..b)
      BY <3>2, <3>3, FS_Product
    <3> HIDE DEF W
    <3> QED BY <3>1, <3>2, <3>3, <3>4
  <2>2. U(b) = V \cup W(b)
    <3>1. \A j \in (1..Len(s)) \ {i} : [s EXCEPT ![i] = b][j] = s[j]
      BY ExceptSeq
    <3>2. [s EXCEPT ![i] = b][i] = b
      BY ExceptSeq
    <3>3. \A j \in 1..Len(s) :
            {j} \X (1..[s EXCEPT ![i] = b][j]) = IF j = i THEN W(b) ELSE {j} \X (1..s[j])
      BY <3>1, <3>2
    <3>4. ASSUME NEW x \in U(b) PROVE x \in V \cup W(b)
      <4>1. PICK j \in 1..Len(s) : x \in {j} \X (1..[s EXCEPT ![i] = b][j])
        BY Zenon
      <4>2. x \in (IF j = i THEN W(b) ELSE {j} \X (1..s[j]))
        BY <3>3, <4>1
      <4> QED BY <4>2
    <3>5. ASSUME NEW x \in V PROVE x \in U(b)
      <4>1. PICK j \in (1..Len(s)) \ {i} : x \in {j} \X (1..s[j])
        BY Zenon
      <4>2. x \in {j} \X (1..[s EXCEPT ![i] = b][j])
        BY <3>1, <4>1
      <4> QED BY <4>2, Zenon
    <3>6. ASSUME NEW x \in W(b) PROVE x \in U(b)
      <4>1. x \in {i} \X (1..[s EXCEPT ![i] = b][i])
        BY <3>2
      <4> QED BY <4>1, Zenon
    <3> HIDE DEF U, V, W
    <3> QED BY <3>4, <3>5, <3>6
  <2>3. V \cap W(b) = {}
    <3> SUFFICES ASSUME NEW x \in V, x \in W(b) PROVE FALSE
      OBVIOUS
    <3>1. PICK j \in (1..Len(s)) \ {i} : x \in {j} \X (1..s[j])
      BY Zenon
    <3> QED BY <3>1
  <2>4. Cardinality(V \cup W(b)) = Cardinality(V) + b
    <3> HIDE DEF V, W
    <3>1. Cardinality(V \cup W(b))
            = Cardinality(V) + Cardinality(W(b)) - Cardinality(V \cap W(b))
      BY <1>1, <2>1, FS_Union
    <3>2. Cardinality(V \cap W(b)) = 0
      BY <2>3, FS_EmptySet
    <3> QED BY <1>2, <2>1, <3>1, <3>2, InByte
  <2>5. Len([s EXCEPT ![i] = b]) = Len(s)
    BY ExceptSeq
  <2>6. wrapping_sum([s EXCEPT ![i] = b]) = Cardinality(U(b)) % 256
    BY <2>5 DEF wrapping_sum
  <2> HIDE DEF U, V, W
  <2> QED BY <2>2, <2>4, <2>6
<1> HIDE DEF V
<1> QED BY <1>2, <1>3

\* A disturbed byte changes the checksum.
LEMMA SumChanges ==
  ASSUME NEW s \in Seq(Byte), NEW i \in 1..Len(s), NEW b \in Byte, b # s[i]
  PROVE  wrapping_sum([s EXCEPT ![i] = b]) # wrapping_sum(s)
<1>1. PICK k \in Nat : \A c \in Byte : wrapping_sum([s EXCEPT ![i] = c]) = (k + c) % 256
  BY SumSplit
<1>2. [s EXCEPT ![i] = s[i]] = s /\ s[i] \in Byte
  BY ElementOfSeq
<1> QED BY <1>1, <1>2, Remainders

-----------------------------------------------------------------------------
(* Answers *)

\* The payload of an answer is short.
LEMMA PayloadType == \A o : Payload(o) \in 0..250
  BY BlockLenAssumption DEF Payload

\* Where the parts of a telegram begin and end.
LEMMA Sizes == \A k \in 0..250 : k \in Nat /\ 6 + k \in Nat /\ 6 + k >= 6 /\ 5 + k \in Byte
  BY DEF Byte

\* SYNC after an answer changes nothing.
LEMMA AnswersThenSync ==
  ASSUME NEW o, NEW u \in Seq(Byte), NEW c, NEW w, Answers(o, u, c, w)
  PROVE  Answers(o, Append(u, SYNC), c, w)
<1> DEFINE v == Append(u, SYNC)
<1>1. PICK n \in Nat : n = 6 + Payload(o)
  BY PayloadType, Sizes, Zenon
<1>2. SYNC \in Byte
  BY DEF SYNC, Byte
<1>3. v \in Seq(Byte) /\ Len(v) = Len(u) + 1 /\ v[Len(u) + 1] = SYNC
      /\ \A i \in 1..Len(u) : v[i] = u[i]
  BY <1>2, AppendProperties
<1>4. /\ Len(u) > 0
      /\ u[1] = 5 + Payload(o) =>
           /\ Len(u) > n
           /\ \A i \in (n + 2)..Len(u) : u[i] = SYNC
           /\ wrapping_sum(SubSeq(u, 1, n)) = u[n + 1] /\ Accepted(o, SubSeq(u, 1, n))
                => Truthful(o, SubSeq(u, 1, n), c, w)
  BY <1>1 DEF Answers
<1>5. Len(v) > 0 /\ v[1] = u[1]
  BY <1>3, <1>4
<1>6. ASSUME Len(u) > n PROVE SubSeq(v, 1, n) = SubSeq(u, 1, n) /\ v[n + 1] = u[n + 1]
  <2> DEFINE p == SubSeq(u, 1, n)
             q == SubSeq(v, 1, n)
  <2> HIDE DEF v
  <2>1. p \in Seq(Byte) /\ Len(p) = n /\ \A i \in 1..n : p[i] = u[i]
    BY <1>6
  <2>2. q \in Seq(Byte) /\ Len(q) = n /\ \A i \in 1..n : q[i] = v[i]
    BY <1>3, <1>6
  <2>3. \A i \in 1..(n + 1) : v[i] = u[i]
    BY <1>3, <1>6
  <2> HIDE DEF p, q
  <2>4. q = p
    BY <2>1, <2>2, <2>3, SeqEqual
  <2>5. n + 1 \in 1..(n + 1)
    OBVIOUS
  <2>6. v[n + 1] = u[n + 1]
    BY <2>3, <2>5
  <2> QED BY <2>4, <2>6 DEF p, q
<1> HIDE DEF v
<1>7. ASSUME Len(u) > n, \A i \in (n + 2)..Len(u) : u[i] = SYNC
      PROVE  Len(v) > n /\ \A i \in (n + 2)..Len(v) : v[i] = SYNC
  <2>1. ASSUME NEW i \in (n + 2)..Len(v) PROVE v[i] = SYNC
    <3>1. i = Len(u) + 1 \/ (i \in (n + 2)..Len(u) /\ i \in 1..Len(u))
      BY <1>3
    <3> QED BY <1>3, <1>7, <3>1
  <2>2. Len(v) > n
    BY <1>3, <1>7
  <2> QED BY <2>1, <2>2
<1>8. v[1] = 5 + Payload(o) =>
        /\ Len(v) > n
        /\ \A i \in (n + 2)..Len(v) : v[i] = SYNC
        /\ wrapping_sum(SubSeq(v, 1, n)) = v[n + 1] /\ Accepted(o, SubSeq(v, 1, n))
             => Truthful(o, SubSeq(v, 1, n), c, w)
  BY <1>4, <1>5, <1>6, <1>7
<1>9. Answers(o, v, c, w)
  BY <1>1, <1>5, <1>8 DEF Answers
<1> QED BY <1>9 DEF v

\* An answer that is truthful stays so.
LEMMA AnswersGrow ==
  ASSUME NEW o, NEW u, NEW c, NEW d, NEW w, NEW x,
         Answers(o, u, c, w), c \subseteq d, w => x
  PROVE  Answers(o, u, d, x)
  BY DEF Answers, Truthful

\* The last index of a sequence and the others.
LEMMA LastIndex == \A m \in Nat : \A i \in 1..(m + 1) : i = m + 1 \/ i \in 1..m
  OBVIOUS

\* A sequence of bytes and one more byte.
LEMMA FrontLast ==
  ASSUME NEW s \in Seq(Byte), NEW b \in Byte, NEW n \in Nat, Len(s) = n
  PROVE  /\ s \o << b >> \in Seq(Byte) /\ Len(s \o << b >>) = n + 1
         /\ (s \o << b >>)[n + 1] = b
         /\ \A i \in 1..n : (s \o << b >>)[i] = s[i]
         /\ SubSeq(s \o << b >>, 1, n) = s
<1> DEFINE r == s \o << b >>
           p == SubSeq(r, 1, n)
<1>1. r \in Seq(Byte) /\ Len(r) = n + 1 /\ r[n + 1] = b /\ \A i \in 1..n : r[i] = s[i]
  OBVIOUS
<1>2. p \in Seq(Byte) /\ Len(p) = n /\ \A i \in 1..n : p[i] = r[i]
  <2> HIDE DEF r
  <2> QED BY <1>1
<1> HIDE DEF r, p
<1>3. p = s
  BY <1>1, <1>2, SeqEqual
<1> QED BY <1>1, <1>3 DEF r, p

\* A byte in front of a sequence of bytes.
LEMMA ByteFirst ==
  ASSUME NEW b \in Byte, NEW s \in Seq(Byte)
  PROVE  /\ << b >> \o s \in Seq(Byte) /\ Len(<< b >> \o s) = 1 + Len(s)
         /\ (<< b >> \o s)[1] = b
         /\ \A i \in 1..Len(s) : (<< b >> \o s)[1 + i] = s[i]
<1> DEFINE h == << b >>
           t == h \o s
<1>1. h \in Seq(Byte) /\ Len(h) = 1 /\ h[1] = b
  OBVIOUS
<1> HIDE DEF h
<1>2. t \in Seq(Byte) /\ Len(t) = Len(h) + Len(s)
  BY <1>1, ConcatProperties
<1>3. \A i \in 1..(Len(h) + Len(s)) : t[i] = IF i <= Len(h) THEN h[i] ELSE s[i - Len(h)]
  BY <1>1, ConcatProperties
<1> HIDE DEF t
<1>4. t \in Seq(Byte) /\ Len(t) = 1 + Len(s) /\ t[1] = b /\ \A i \in 1..Len(s) : t[1 + i] = s[i]
  BY <1>1, <1>2, <1>3
<1> QED BY <1>4 DEF t, h

\* A byte in front and one more byte at the end.
LEMMA AppendBehind ==
  ASSUME NEW b \in Byte, NEW s \in Seq(Byte), NEW c \in Byte
  PROVE  << b >> \o Append(s, c) = Append(<< b >> \o s, c)
<1> DEFINE u == Append(s, c)
           g == << b >> \o s
           l == << b >> \o u
           r == Append(g, c)
           n == Len(s)
<1>1. n \in Nat /\ u \in Seq(Byte) /\ Len(u) = n + 1 /\ u[n + 1] = c /\ \A i \in 1..n : u[i] = s[i]
  OBVIOUS
<1> HIDE DEF u
<1>2. l \in Seq(Byte) /\ Len(l) = 1 + Len(u) /\ l[1] = b /\ \A i \in 1..Len(u) : l[1 + i] = u[i]
  BY <1>1, ByteFirst
<1>3. g \in Seq(Byte) /\ Len(g) = 1 + n /\ g[1] = b /\ \A i \in 1..n : g[1 + i] = s[i]
  BY ByteFirst
<1> HIDE DEF g, l, n
<1>4. r \in Seq(Byte) /\ Len(r) = n + 2 /\ r[n + 2] = c /\ \A i \in 1..(n + 1) : r[i] = g[i]
  BY <1>1, <1>3
<1> HIDE DEF r
<1>5. ASSUME NEW j \in 1..(n + 1) PROVE l[1 + j] = r[1 + j]
  <2>1. l[1 + j] = u[j]
    BY <1>1, <1>2
  <2>2. CASE j \in 1..n
    <3>1. g[1 + j] = s[j] /\ u[j] = s[j]
      BY <1>1, <1>3, <2>2
    <3>2. r[1 + j] = g[1 + j]
      BY <1>1, <1>4, <2>2
    <3> QED BY <2>1, <3>1, <3>2
  <2>3. CASE j = n + 1
    BY <1>1, <1>4, <2>1, <2>3
  <2> QED BY <1>1, <2>2, <2>3, LastIndex, Zenon
<1>6. ASSUME NEW i \in 1..(n + 2) PROVE l[i] = r[i]
  <2>1. CASE i = 1
    BY <1>1, <1>2, <1>3, <1>4, <2>1
  <2>2. CASE i # 1
    <3>1. PICK j \in 1..(n + 1) : i = 1 + j
      <4>1. i - 1 \in 1..(n + 1) /\ i = 1 + (i - 1)
        BY <1>1, <2>2
      <4> QED BY <4>1
    <3> QED BY <1>5, <3>1
  <2> QED BY <2>1, <2>2
<1>7. Len(l) = n + 2
  BY <1>1, <1>2
<1>8. l = r
  BY <1>2, <1>4, <1>6, <1>7, SeqEqual
<1> QED BY <1>8 DEF l, r, g, u

\* What follows the first byte.
LEMMA BehindFirst ==
  ASSUME NEW s \in Seq(Byte), NEW b \in Byte, NEW c \in Byte
  PROVE  Tail(<< b >> \o s \o << c >>) = s \o << c >>
<1> DEFINE t == << b >> \o s \o << c >>
           r == s \o << c >>
<1>1. r \in Seq(Byte) /\ Len(r) = Len(s) + 1 /\ r[Len(s) + 1] = c
      /\ \A i \in 1..Len(s) : r[i] = s[i]
  OBVIOUS
<1>2. t \in Seq(Byte) /\ Len(t) = Len(s) + 2 /\ t[Len(s) + 2] = c
      /\ \A i \in 1..Len(s) : t[i + 1] = s[i]
  OBVIOUS
<1> HIDE DEF r, t
<1>3. Tail(t) \in Seq(Byte) /\ Len(Tail(t)) = Len(s) + 1
      /\ \A i \in 1..(Len(s) + 1) : Tail(t)[i] = t[i + 1]
  BY <1>2
<1>4. Len(s) \in Nat
  OBVIOUS
<1>5. ASSUME NEW i \in 1..(Len(s) + 1) PROVE Tail(t)[i] = r[i]
  <2>1. CASE i = Len(s) + 1
    BY <1>1, <1>2, <1>3, <1>4, <2>1
  <2>2. CASE i \in 1..Len(s)
    BY <1>1, <1>2, <1>3, <1>4, <2>2
  <2> QED BY <1>4, <2>1, <2>2, LastIndex, Zenon
<1>6. Tail(t) = r
  BY <1>1, <1>3, <1>5, SeqEqual
<1> QED BY <1>6 DEF r, t

\* The head of a telegram and its data.
LEMMA BehindHead ==
  ASSUME NEW h \in Seq(Byte), NEW s \in Seq(Byte), NEW d \in Nat, Len(h) = 6, Len(s) = d
  PROVE  /\ h \o s \in Seq(Byte) /\ Len(h \o s) = 6 + d
         /\ (h \o s)[1] = h[1] /\ (h \o s)[2] = h[2]
         /\ \A i \in 1..d : (h \o s)[6 + i] = s[i]
<1> DEFINE r == h \o s
<1>1. r \in Seq(Byte) /\ Len(r) = Len(h) + Len(s)
  BY ConcatProperties
<1>2. \A i \in 1..(Len(h) + Len(s)) : r[i] = IF i <= Len(h) THEN h[i] ELSE s[i - Len(h)]
  BY ConcatProperties
<1> HIDE DEF r
<1>3. Len(r) = 6 + d
  BY <1>1
<1>4. r[1] = h[1] /\ r[2] = h[2]
  BY <1>2
<1>5. ASSUME NEW i \in 1..d PROVE r[6 + i] = s[i]
  BY <1>2
<1> QED BY <1>1, <1>3, <1>4, <1>5 DEF r

\* A telegram from its length byte on, with d bytes of data.
Shape(u, d, type, data) ==
  /\ u \in Seq(Byte) /\ Len(u) = (6 + d) + 1
  /\ u[1] = 5 + d /\ u[2] = type
  /\ wrapping_sum(SubSeq(u, 1, 6 + d)) = u[(6 + d) + 1]
  /\ SubSeq(SubSeq(u, 1, 6 + d), 7, 6 + d) = data

\* The telegrams of the controller have this shape.
LEMMA TelegramShape ==
  ASSUME NEW type \in Byte, NEW fn \in Byte, NEW a \in Addr, NEW len \in Byte,
         NEW data \in Seq(Byte), NEW d \in Nat, Len(data) = d, 5 + d \in Byte
  PROVE  Shape(Tail(Telegram(type, fn, a, len, data)), d, type, data)
<1> DEFINE u == Tail(Telegram(type, fn, a, len, data))
           n == 6 + d
<1> DEFINE head == << 5 + d, type, fn, High(a), Low(a), len >>
           body == head \o data
           p == SubSeq(body, 7, n)
<1>1. High(a) \in Byte /\ Low(a) \in Byte
  BY AddrBytes
<1>3. head \in Seq(Byte) /\ Len(head) = 6 /\ head[1] = 5 + d /\ head[2] = type
  BY <1>1
<1> HIDE DEF head
<1>4. /\ body \in Seq(Byte) /\ Len(body) = n /\ body[1] = 5 + d /\ body[2] = type
      /\ \A i \in 1..d : body[6 + i] = data[i]
  BY <1>3, BehindHead
<1> HIDE DEF body
<1>5. wrapping_sum(body) \in Byte
  BY <1>4, SumIsByte
<1>6. u = Tail(<< LEADIN >> \o body \o << wrapping_sum(body) >>)
  BY DEF Telegram, body, head
<1> HIDE DEF u
<1>7. u = body \o << wrapping_sum(body) >>
  <2>1. LEADIN \in Byte
    BY DEF LEADIN, Byte
  <2> QED BY <1>4, <1>5, <1>6, <2>1, BehindFirst
<1>8. n \in Nat /\ n >= 6 /\ n = 6 + d
  OBVIOUS
<1> HIDE DEF n
<1>9. /\ u \in Seq(Byte) /\ Len(u) = n + 1 /\ u[n + 1] = wrapping_sum(body)
      /\ \A i \in 1..n : u[i] = body[i]
      /\ SubSeq(u, 1, n) = body
  <2> DEFINE x == wrapping_sum(body)
  <2>1. x \in Byte
    BY <1>5
  <2> HIDE DEF x
  <2>2. /\ body \o << x >> \in Seq(Byte) /\ Len(body \o << x >>) = n + 1
        /\ (body \o << x >>)[n + 1] = x
        /\ \A i \in 1..n : (body \o << x >>)[i] = body[i]
        /\ SubSeq(body \o << x >>, 1, n) = body
    BY <1>4, <2>1, FrontLast
  <2> QED BY <1>7, <2>2 DEF x
<1>10. u[1] = 5 + d /\ u[2] = type
  BY <1>4, <1>8, <1>9
<1>11. p \in Seq(Byte) /\ Len(p) = d /\ \A i \in 1..d : p[i] = body[6 + i]
  BY <1>4, <1>8
<1> HIDE DEF p
<1>12. p = data
  BY <1>4, <1>11, SeqEqual
<1> QED BY <1>8, <1>9, <1>10, <1>12 DEF p, u, Shape

\* An answer that is there as a whole, with nothing after it.
LEMMA WholeAnswers ==
  ASSUME NEW o, NEW n \in Nat, n = 6 + Payload(o), n >= 6, NEW c, NEW w,
         NEW u \in Seq(Byte), Len(u) > 0,
         u[1] = 5 + Payload(o) => Len(u) = n + 1,
         NEW t, t = SubSeq(u, 1, n),
         u[1] = 5 + Payload(o) /\ wrapping_sum(t) = u[n + 1] /\ Accepted(o, t)
           => Truthful(o, t, c, w)
  PROVE  Answers(o, u, c, w)
<1>1. ASSUME u[1] = 5 + Payload(o)
      PROVE  Len(u) > n /\ \A i \in (n + 2)..Len(u) : u[i] = SYNC
  BY <1>1
<1> QED BY <1>1 DEF Answers

\* A disturbed byte makes the checksum wrong, whichever it is.
LEMMA DisturbedSum ==
  ASSUME NEW u \in Seq(Byte), NEW n \in Nat, Len(u) = n + 1,
         wrapping_sum(SubSeq(u, 1, n)) = u[n + 1],
         NEW j \in 1..(n + 1), NEW b \in Byte, b # u[j],
         NEW v, v = [u EXCEPT ![j] = b]
  PROVE  wrapping_sum(SubSeq(v, 1, n)) # v[n + 1]
<1> DEFINE p == SubSeq(u, 1, n)
<1>1. p \in Seq(Byte) /\ Len(p) = n /\ \A i \in 1..n : p[i] = u[i]
  OBVIOUS
<1>2. CASE j \in 1..n
  <2>1. SubSeq(v, 1, n) = [p EXCEPT ![j] = b]
    <3> DEFINE q == SubSeq(v, 1, n)
               r == [p EXCEPT ![j] = b]
    <3>1. v \in Seq(Byte) /\ Len(v) = n + 1
          /\ \A i \in 1..n : v[i] = IF i = j THEN b ELSE u[i]
      BY <1>2
    <3>2. q \in Seq(Byte) /\ Len(q) = n /\ \A i \in 1..n : q[i] = v[i]
      BY <3>1
    <3> HIDE DEF p
    <3>3. r \in Seq(Byte) /\ Len(r) = n /\ \A i \in 1..n : r[i] = IF i = j THEN b ELSE p[i]
      BY <1>1, <1>2
    <3> HIDE DEF q, r
    <3>4. q = r
      BY <1>1, <3>1, <3>2, <3>3, SeqEqual
    <3> QED BY <3>4 DEF q, r
  <2>2. v[n + 1] = u[n + 1]
    BY <1>2
  <2>3. wrapping_sum(p) = u[n + 1] /\ p[j] # b
    BY <1>1, <1>2
  <2> HIDE DEF p
  <2>4. wrapping_sum([p EXCEPT ![j] = b]) # wrapping_sum(p)
    <3>1. j \in 1..Len(p)
      BY <1>1, <1>2
    <3> QED BY <1>1, <2>3, <3>1, SumChanges
  <2> QED BY <2>1, <2>2, <2>3, <2>4
<1>3. CASE j = n + 1
  <2>1. v[n + 1] = b /\ v \in Seq(Byte) /\ Len(v) = n + 1 /\ \A i \in 1..n : v[i] = u[i]
    BY <1>3
  <2> DEFINE q == SubSeq(v, 1, n)
  <2>2. q \in Seq(Byte) /\ Len(q) = n /\ \A i \in 1..n : q[i] = v[i]
    BY <2>1
  <2>3. b # wrapping_sum(p)
    BY <1>3
  <2> HIDE DEF p, q
  <2>4. q = p
    BY <1>1, <2>1, <2>2, SeqEqual
  <2> QED BY <2>1, <2>3, <2>4 DEF q
<1> QED BY <1>2, <1>3, LastIndex, Zenon

\* The answer to a read is truthful if the content has been seen.
LEMMA ReadAnswers ==
  ASSUME NEW o, o.kind = "get", NEW a \in Addr, NEW v \in Val, NEW c, v \in c, NEW w
  PROVE  Answers(o, Tail(Telegram(Response, VirtualRead, a, BlockLen, v)), c, w)
<1> DEFINE u == Tail(Telegram(Response, VirtualRead, a, BlockLen, v))
<1>1. v \in Seq(Byte) /\ Len(v) = BlockLen
  BY ValIsBytes
<1>2. Response \in Byte /\ VirtualRead \in Byte /\ BlockLen \in Byte
  BY BlockLenByte DEF Response, VirtualRead, Byte
<1>3. Payload(o) = BlockLen
  BY DEF Payload
<1>4. PICK n \in Nat : n = 6 + BlockLen /\ n >= 6 /\ BlockLen \in Nat /\ 5 + BlockLen \in Byte
  BY PayloadType, Sizes, <1>3, Zenon
<1>9. Shape(u, BlockLen, Response, v)
  BY <1>1, <1>2, <1>4, TelegramShape
<1> HIDE DEF u
<1>5. /\ u \in Seq(Byte) /\ Len(u) = n + 1 /\ u[1] = 5 + BlockLen
      /\ SubSeq(SubSeq(u, 1, n), 7, n) = v
  BY <1>4, <1>9 DEF Shape
<1>6. Truthful(o, SubSeq(u, 1, n), c, w)
  BY <1>4, <1>5 DEF Truthful
<1>7. Len(u) > 0
  BY <1>5
<1>8. Answers(o, u, c, w)
  BY <1>3, <1>4, <1>5, <1>6, <1>7, WholeAnswers
<1> QED BY <1>8 DEF u

\* The answer to a write is truthful once the write has taken effect.
LEMMA WriteAnswers ==
  ASSUME NEW o, o.kind = "set", NEW a \in Addr, NEW len \in Byte, NEW c
  PROVE  Answers(o, Tail(Telegram(Response, VirtualWrite, a, len, NoData)), c, TRUE)
<1> DEFINE u == Tail(Telegram(Response, VirtualWrite, a, len, NoData))
<1>1. NoData \in Seq(Byte) /\ Len(NoData) = 0
  BY DEF NoData
<1>2. Response \in Byte /\ VirtualWrite \in Byte
  BY DEF Response, VirtualWrite, Byte
<1>3. Payload(o) = 0
  BY DEF Payload
<1>4. PICK n \in Nat : n = 6 + 0 /\ n >= 6 /\ 0 \in Nat /\ 5 + 0 \in Byte
  BY PayloadType, Sizes, <1>3, Zenon
<1>9. Shape(u, 0, Response, NoData)
  BY <1>1, <1>2, <1>4, TelegramShape
<1> HIDE DEF u
<1>5. u \in Seq(Byte) /\ Len(u) = n + 1 /\ u[1] = 5 + 0
  BY <1>4, <1>9 DEF Shape
<1>6. Truthful(o, SubSeq(u, 1, n), c, TRUE)
  BY DEF Truthful
<1>7. Len(u) > 0
  BY <1>5
<1>8. Answers(o, u, c, TRUE)
  BY <1>3, <1>4, <1>5, <1>6, <1>7, WholeAnswers
<1> QED BY <1>8 DEF u

\* An error telegram is not accepted.
LEMMA RefusalAnswers ==
  ASSUME NEW o, NEW fn \in Byte, NEW a \in Addr, NEW c, NEW w
  PROVE  Answers(o, Tail(Telegram(Error, fn, a, 1, << 1 >>)), c, w)
<1> DEFINE u == Tail(Telegram(Error, fn, a, 1, << 1 >>))
<1>1. << 1 >> \in Seq(Byte) /\ Len(<< 1 >>) = 1 /\ 1 \in Byte /\ 1 \in 0..250
  BY DEF Byte
<1>2. Error \in Byte /\ Error # Response
  BY DEF Error, Response, Byte
<1>3. PICK m \in Nat : m = 6 + 1 /\ m >= 6 /\ 1 \in Nat /\ 5 + 1 \in Byte
  BY Sizes, <1>1, Zenon
<1>11. Shape(u, 1, Error, << 1 >>)
  BY <1>1, <1>2, <1>3, TelegramShape
<1> HIDE DEF u
<1>4. u \in Seq(Byte) /\ Len(u) = m + 1 /\ u[1] = 5 + 1 /\ u[2] = Error
  BY <1>3, <1>11 DEF Shape
<1>5. PICK n \in Nat : n = 6 + Payload(o) /\ n >= 6 /\ Payload(o) \in Nat
  BY PayloadType, Sizes, Zenon
<1>6. u[1] = 5 + Payload(o) => Len(u) = n + 1
  BY <1>3, <1>4, <1>5
<1> DEFINE t == SubSeq(u, 1, n)
<1>7. u[1] = 5 + Payload(o) => t[2] = Error
  BY <1>3, <1>4, <1>5
<1> HIDE DEF t
<1>8. u[1] = 5 + Payload(o) => ~Accepted(o, t)
  BY <1>2, <1>7 DEF Accepted
<1>9. Len(u) > 0
  BY <1>4
<1>10. Answers(o, u, c, w)
  BY <1>4, <1>5, <1>6, <1>8, <1>9, WholeAnswers DEF t
<1> QED BY <1>10 DEF u

\* A disturbed answer to a read is not accepted, unless its first byte is.
LEMMA DisturbedAnswers ==
  ASSUME NEW o, o.kind = "get", NEW a \in Addr, NEW v \in Val, NEW c, v \in c, NEW w,
         NEW t, t = Telegram(Response, VirtualRead, a, BlockLen, v),
         NEW i \in 1..Len(t), NEW b \in Byte, b # t[i]
  PROVE  /\ Answers(o, Tail([t EXCEPT ![i] = b]), c, w)
         /\ [t EXCEPT ![i] = b] \in Seq(Byte) /\ Len([t EXCEPT ![i] = b]) > 1
<1> DEFINE u == Tail(t)
           s == [t EXCEPT ![i] = b]
<1>1. v \in Seq(Byte) /\ Len(v) = BlockLen
  BY ValIsBytes
<1>2. Response \in Byte /\ VirtualRead \in Byte /\ BlockLen \in Byte
  BY BlockLenByte DEF Response, VirtualRead, Byte
<1>3. Payload(o) = BlockLen
  BY DEF Payload
<1>4. PICK n \in Nat : n = 6 + BlockLen /\ n >= 6 /\ BlockLen \in Nat /\ 5 + BlockLen \in Byte
  BY PayloadType, Sizes, <1>3, Zenon
<1>5. /\ u \in Seq(Byte) /\ Len(u) = n + 1 /\ u[1] = 5 + BlockLen
      /\ wrapping_sum(SubSeq(u, 1, n)) = u[n + 1]
  <2>1. Shape(u, BlockLen, Response, v)
    BY <1>1, <1>2, <1>4, TelegramShape
  <2> HIDE DEF u
  <2> QED BY <1>4, <2>1 DEF Shape
<1>6. t \in Seq(Byte)
  <2>1. BlockLen \in 0..250
    BY BlockLenAssumption
  <2> QED BY <1>1, <1>2, <2>1, TelegramIsBytes
<1>7. Len(t) = n + 2 /\ \A k \in 1..(n + 1) : u[k] = t[k + 1]
  BY <1>4, <1>5, <1>6
<1>8. s \in Seq(Byte) /\ Len(s) = n + 2 /\ \A k \in 1..(n + 2) : s[k] = IF k = i THEN b ELSE t[k]
  BY <1>6, <1>7
<1> HIDE DEF u, s
<1>9. /\ Tail(s) \in Seq(Byte) /\ Len(Tail(s)) = n + 1
      /\ \A k \in 1..(n + 1) : Tail(s)[k] = s[k + 1]
  BY <1>8
<1>10. ASSUME i = 1 PROVE Answers(o, Tail(s), c, w)
  <2>1. \A k \in 1..(n + 1) : Tail(s)[k] = u[k]
    BY <1>7, <1>8, <1>9, <1>10
  <2>2. Tail(s) = u
    BY <1>5, <1>9, <2>1, SeqEqual
  <2>3. Answers(o, u, c, w)
    BY ReadAnswers DEF u
  <2> QED BY <2>2, <2>3
<1>11. ASSUME i # 1 PROVE Answers(o, Tail(s), c, w)
  <2>1. PICK j \in 1..(n + 1) : i = j + 1
    <3>1. i \in 1..(n + 2)
      BY <1>7
    <3> QED BY <1>11, <3>1
  <2> DEFINE r == [u EXCEPT ![j] = b]
  <2>2. r \in Seq(Byte) /\ Len(r) = n + 1 /\ \A k \in 1..(n + 1) : r[k] = IF k = j THEN b ELSE u[k]
    BY <1>5
  <2>3. u[j] # b
    BY <1>7, <2>1
  <2> HIDE DEF r
  <2>4. ASSUME NEW k \in 1..(n + 1) PROVE Tail(s)[k] = r[k]
    BY <1>7, <1>8, <1>9, <2>1, <2>2
  <2>5. Tail(s) = r
    BY <1>9, <2>2, <2>4, SeqEqual
  <2>6. wrapping_sum(SubSeq(r, 1, n)) # r[n + 1]
    BY <1>5, <2>3, DisturbedSum, Zenon DEF r
  <2>7. Len(r) > 0
    BY <2>2
  <2>8. Answers(o, r, c, w)
    BY <1>3, <1>4, <2>2, <2>6, <2>7, WholeAnswers
  <2> QED BY <2>5, <2>8
<1>12. Len(s) > 1
  BY <1>8
<1> QED BY <1>8, <1>10, <1>11, <1>12 DEF s

\* A telegram is longer than its leadin.
LEMMA LongAnswer ==
  ASSUME NEW o, NEW t \in Seq(Byte), NEW c, NEW w, Answers(o, Tail(t), c, w)
  PROVE  Len(t) > 1
<1>1. Len(Tail(t)) > 0
  BY DEF Answers
<1> QED BY <1>1

\* An answer behind SYNCs is taken for none, and at the front of the line for itself.
LEMMA AnswerArrives ==
  ASSUME NEW o, NEW c, NEW w, NEW r \in Seq(Byte), Syncs(r),
         NEW t \in Seq(Byte), Len(t) > 1, Answers(o, Tail(t), c, w),
         NEW q, q = r \o << ACK >> \o t
  PROVE  /\ q # << >>
         /\ q[1] = ACK => Len(q) > 2 /\ Answers(o, SubSeq(q, 3, Len(q)), c, w)
<1>1. ACK \in Byte /\ SYNC # ACK
  BY DEF ACK, SYNC, Byte
<1> DEFINE h == r \o << ACK >>
<1>2. h \in Seq(Byte) /\ Len(h) = Len(r) + 1 /\ h[Len(r) + 1] = ACK
      /\ \A i \in 1..Len(r) : h[i] = r[i]
  BY <1>1
<1>3. q = h \o t
  OBVIOUS
<1> HIDE DEF h
<1>4. /\ q \in Seq(Byte) /\ Len(q) = Len(h) + Len(t)
      /\ \A i \in 1..Len(h) : q[i] = h[i]
      /\ \A i \in 1..Len(t) : q[Len(h) + i] = t[i]
  BY <1>2, <1>3
<1>5. Len(q) > 2 /\ q # << >>
  BY <1>2, <1>4
<1>6. CASE r = << >>
  <2> DEFINE p == SubSeq(q, 3, Len(q))
  <2>1. Len(h) = 1 /\ Len(q) = Len(t) + 1
    BY <1>2, <1>4, <1>6
  <2>2. p \in Seq(Byte) /\ Len(p) = Len(t) - 1 /\ \A i \in 1..(Len(t) - 1) : p[i] = q[i + 2]
    BY <1>4, <2>1
  <2>3. /\ Tail(t) \in Seq(Byte) /\ Len(Tail(t)) = Len(t) - 1
        /\ \A i \in 1..(Len(t) - 1) : Tail(t)[i] = t[i + 1]
    OBVIOUS
  <2> HIDE DEF p
  <2>4. ASSUME NEW i \in 1..(Len(t) - 1) PROVE p[i] = Tail(t)[i]
    <3>1. \A k \in 1..Len(t) : q[1 + k] = t[k]
      BY <1>4, <2>1
    <3>2. i + 1 \in 1..Len(t) /\ 1 + (i + 1) = i + 2
      OBVIOUS
    <3>3. q[i + 2] = t[i + 1]
      BY <3>1, <3>2
    <3> QED BY <2>2, <2>3, <3>3
  <2>5. p = Tail(t)
    BY <2>2, <2>3, <2>4, SeqEqual
  <2> QED BY <1>5, <2>5 DEF p
<1>7. CASE r # << >>
  <2>1. 1 \in 1..Len(r) /\ 1 \in 1..Len(h)
    BY <1>2, <1>7
  <2>2. q[1] = SYNC
    BY <1>2, <1>4, <2>1 DEF Syncs
  <2> QED BY <1>1, <1>5, <2>2
<1> QED BY <1>6, <1>7

-----------------------------------------------------------------------------
(* Where the line does not matter, and where it must be quiet *)

\* A negotiation begins: reset purges the line.
LEMMA LineAtReset == ASSUME pc' = "reset" PROVE LineInv'
  BY DEF LineInv, AtSync, AtStarted, AtWrite, AtStatus, AtLeadin, AtLength, AtBody, AtEnd, AtReady

\* A failure leaves anything.
LEMMA LineAtFailure == ASSUME pc' = "done", result' # "ok" PROVE LineInv'
  BY DEF LineInv, AtSync, AtStarted, AtWrite, AtStatus, AtLeadin, AtLength, AtBody, AtEnd, AtReady

\* A quiet line is fit for a telegram.
LEMMA LineAtWrite == ASSUME pc' = "write", LineQuiet' PROVE LineInv'
  BY DEF LineInv, AtSync, AtStarted, AtWrite, AtStatus, AtLeadin, AtLength, AtBody, AtEnd, AtReady

\* Between calls the line is quiet, or the next call negotiates.
LEMMA LineAtIdle ==
  ASSUME pc' = "idle", stage' = "ready" /\ connected' => LineQuiet' PROVE LineInv'
  BY DEF LineInv, AtSync, AtStarted, AtWrite, AtStatus, AtLeadin, AtLength, AtBody, AtEnd, AtReady

\* The line stays quiet while nothing is sent.
LEMMA QuietStays == ASSUME LineQuiet, UNCHANGED line PROVE LineQuiet'
  BY DEF LineQuiet, line

\* After a success the line is quiet.
LEMMA QuietAtSuccess == ASSUME LineInv, pc = "done", result = "ok" PROVE LineQuiet
  BY DEF LineInv, AtEnd

-----------------------------------------------------------------------------
(* The methods of VControl *)

\* Which operation an action of VControl begins.
LEMMA BeginsAt ==
  /\ \A id : BeginNegotiate(id) => /\ pc' = "reset" /\ op' = Operation("negotiate", 0, NoData, id)
                                   /\ op'.kind = "negotiate"
  /\ \A a, id : BeginGet(a, id) => /\ pc' = "write" /\ op' = Operation("get", a, NoData, id)
                                   /\ op'.kind = "get" /\ seen' = {mem[a]}
  /\ \A a, v, id : BeginSet(a, v, id) => /\ pc' = "write" /\ op' = Operation("set", a, v, id)
                                         /\ op'.kind = "set"
  BY DEF BeginNegotiate, BeginGet, BeginSet, Begin, Operation

\* Of a task, a get has no data.
LEMMA TaskOperation ==
  ASSUME NEW t \in Tasks, NEW id, BeginTask(t, id)
  PROVE  /\ pc' = "write" /\ op' = Operation(t.kind, t.addr, t.data, id)
         /\ op'.kind = "get" => seen' = {mem[op'.addr]}
<1>1. t.kind = "get" => t.data = NoData
  BY DEF Tasks
<1>2. t.kind \in {"get", "set"}
  BY DEF Tasks
<1>3. CASE t.kind = "get"
  <2>1. BeginGet(t.addr, id)
    BY <1>3 DEF BeginTask
  <2> QED BY <1>1, <1>3, <2>1, BeginsAt DEF Operation
<1>4. CASE t.kind = "set"
  <2>1. BeginSet(t.addr, t.data, id)
    BY <1>4 DEF BeginTask
  <2> QED BY <1>4, <2>1, BeginsAt DEF Operation
<1> QED BY <1>2, <1>3, <1>4

\* The end of the detection.
LEMMA DetectedSafe ==
  ASSUME TypeOK, MethodInv, SeenInv, LineInv, Detected PROVE MethodInv' /\ SeenInv' /\ LineInv'
<1>1. stage = "detect" /\ pc = "done" /\ UNCHANGED line /\ UNCHANGED mem
  BY DEF Detected, controller
<1>2. CASE result = "ok"
  <2>1. BeginGet(IdAddr, 0) /\ stage' = "device_id" /\ connected'
    BY <1>2 DEF Detected
  <2>2. /\ pc' = "write" /\ op'.kind = "get" /\ seen' = {mem[IdAddr]}
        /\ op' = Operation("get", IdAddr, NoData, 0)
    BY <2>1, BeginsAt
  <2>3. LineInv'
    BY <1>1, <1>2, <2>2, QuietAtSuccess, QuietStays, LineAtWrite
  <2>4. SeenInv'
    BY <1>1, <2>2 DEF SeenInv, Operation
  <2> QED BY <2>1, <2>2, <2>3, <2>4 DEF MethodInv
<1>3. CASE result # "ok"
  <2>1. stage' = "vs1" /\ UNCHANGED << connected, client, history >>
    BY <1>3 DEF Detected
  <2>2. LineInv'
    BY <1>1, <1>3, <2>1, LineAtFailure DEF client
  <2> QED BY <1>1, <2>1, <2>2 DEF MethodInv, SeenInv, client, history
<1> QED BY <1>2, <1>3

\* The end of reading the device identifier.
LEMMA DeviceIdReadSafe ==
  ASSUME TypeOK, MethodInv, SeenInv, LineInv, DeviceIdRead
  PROVE  MethodInv' /\ SeenInv' /\ LineInv'
<1>1. stage = "device_id" /\ pc = "done" /\ UNCHANGED line /\ UNCHANGED << mem, connected >>
  BY DEF DeviceIdRead, controller
<1>2. CASE result = "ok"
  <2>1. BeginGet(F0Addr, 0) /\ stage' = "device_id_f0"
    BY <1>2 DEF DeviceIdRead
  <2>2. /\ pc' = "write" /\ op'.kind = "get" /\ seen' = {mem[F0Addr]}
        /\ op' = Operation("get", F0Addr, NoData, 0)
    BY <2>1, BeginsAt
  <2>3. LineInv'
    BY <1>1, <1>2, <2>2, QuietAtSuccess, QuietStays, LineAtWrite
  <2>4. SeenInv'
    BY <1>1, <2>2 DEF SeenInv, Operation
  <2> QED BY <1>1, <2>1, <2>2, <2>3, <2>4 DEF MethodInv
<1>3. CASE result # "ok"
  <2>1. stage' = "failed" /\ UNCHANGED << client, history >>
    BY <1>3 DEF DeviceIdRead
  <2>2. LineInv'
    BY <1>1, <1>3, <2>1, LineAtFailure DEF client
  <2> QED BY <1>1, <2>1, <2>2 DEF MethodInv, SeenInv, client, history
<1> QED BY <1>2, <1>3

\* The end of reading the F0 identifier, where connect would drop an error.
LEMMA DeviceIdF0ReadSafe ==
  ASSUME TypeOK, MethodInv, SeenInv, LineInv, F0Answered, DeviceIdF0Read
  PROVE  MethodInv' /\ SeenInv' /\ LineInv'
<1>1. /\ stage = "device_id_f0" /\ pc = "done" /\ stage' \in {"ready", "failed"} /\ pc' = "idle"
      /\ UNCHANGED << op, connected, mem, seen >> /\ UNCHANGED line
  BY DEF DeviceIdF0Read, controller, history
<1>2. LineQuiet'
  BY <1>1, QuietAtSuccess, QuietStays DEF F0Answered
<1> QED BY <1>1, <1>2, LineAtIdle DEF MethodInv, SeenInv

\* The caller calls get or set.
LEMMA CallSafe ==
  ASSUME TypeOK, MethodInv, SeenInv, LineInv, NEW t \in Tasks, Call(t)
  PROVE  MethodInv' /\ SeenInv' /\ LineInv'
<1>1. /\ stage = "ready" /\ pc = "idle" /\ task' = t /\ calls' = calls + 1
      /\ UNCHANGED line /\ UNCHANGED << mem, connected >>
  BY DEF Call, controller, MethodInv
<1>2. CASE connected
  <2>1. stage' = "command" /\ BeginTask(t, calls + 1)
    BY <1>2 DEF Call
  <2>2. /\ pc' = "write" /\ op' = Operation(t.kind, t.addr, t.data, calls + 1)
        /\ op'.kind = "get" => seen' = {mem[op'.addr]}
    BY <2>1, TaskOperation
  <2>3. LineQuiet
    BY <1>1, <1>2 DEF LineInv, AtReady
  <2>4. LineInv'
    BY <1>1, <2>2, <2>3, QuietStays, LineAtWrite
  <2>5. SeenInv'
    BY <1>1, <2>2 DEF SeenInv
  <2> QED BY <1>1, <1>2, <2>1, <2>2, <2>4, <2>5 DEF MethodInv
<1>3. CASE ~connected
  <2>1. stage' = "negotiate" /\ BeginNegotiate(calls + 1)
    BY <1>3 DEF Call
  <2>2. pc' = "reset" /\ op'.kind = "negotiate"
    BY <2>1, BeginsAt
  <2>3. LineInv'
    BY <2>2, LineAtReset
  <2> QED BY <1>1, <1>3, <2>1, <2>2, <2>3 DEF MethodInv, SeenInv
<1> QED BY <1>2, <1>3

\* Every call.
LEMMA CallerSafe ==
  ASSUME TypeOK, MethodInv, SeenInv, LineInv, CallerStep
  PROVE  MethodInv' /\ SeenInv' /\ LineInv'
<1>1. \A a \in Addr : Task("get", a, NoData) \in Tasks
  BY DEF Task, Tasks
<1>2. \A a \in Addr, v \in Val : Task("set", a, v) \in Tasks
  BY DEF Task, Tasks
<1> QED BY <1>1, <1>2, CallSafe DEF CallerStep, Get, Set

\* The end of renegotiate.
LEMMA RenegotiatedSafe ==
  ASSUME TypeOK, MethodInv, SeenInv, LineInv, Renegotiated
  PROVE  MethodInv' /\ SeenInv' /\ LineInv'
<1>1. /\ stage = "negotiate" /\ pc = "done" /\ ~connected
      /\ UNCHANGED line /\ UNCHANGED << mem, task, calls >>
  BY DEF Renegotiated, controller, MethodInv
<1>2. CASE result = "ok"
  <2>1. stage' = "command" /\ BeginTask(task, calls) /\ connected'
    BY <1>2 DEF Renegotiated
  <2>2. task \in Tasks
    BY DEF TypeOK, MethodOK
  <2>3. /\ pc' = "write" /\ op' = Operation(task.kind, task.addr, task.data, calls)
        /\ op'.kind = "get" => seen' = {mem[op'.addr]}
    BY <2>1, <2>2, TaskOperation
  <2>4. LineInv'
    BY <1>1, <1>2, <2>3, QuietAtSuccess, QuietStays, LineAtWrite
  <2>5. SeenInv'
    BY <1>1, <2>3 DEF SeenInv
  <2> QED BY <1>1, <2>1, <2>3, <2>4, <2>5 DEF MethodInv
<1>3. CASE result # "ok" /\ ~reinitialized
  <2>1. stage' = "reinitialize" /\ UNCHANGED << client, history, connected >>
    BY <1>3 DEF Renegotiated
  <2>2. LineInv'
    BY <1>1, <1>3, <2>1, LineAtFailure DEF client
  <2> QED BY <1>1, <2>1, <2>2 DEF MethodInv, SeenInv, client, history
<1>4. CASE result # "ok" /\ reinitialized
  <2>1. stage' = "ready" /\ pc' = "idle" /\ UNCHANGED << op, history >> /\ UNCHANGED connected
    BY <1>4 DEF Renegotiated, Return
  <2>2. LineInv'
    BY <1>1, <2>1, LineAtIdle
  <2> QED BY <1>1, <2>1, <2>2 DEF MethodInv, SeenInv, history
<1> QED BY <1>2, <1>3, <1>4

\* The port is opened again, or cannot be.
LEMMA ReinitializeSafe ==
  ASSUME TypeOK, MethodInv, SeenInv, LineInv, Reinitialize \/ ReinitializeFails
  PROVE  MethodInv' /\ SeenInv' /\ LineInv'
<1>1. stage = "reinitialize" /\ ~connected /\ UNCHANGED << mem, connected >>
  BY DEF Reinitialize, ReinitializeFails, controller, MethodInv
<1>2. CASE Reinitialize
  <2>1. stage' = "negotiate" /\ pc' = "reset" /\ op'.kind = "negotiate"
    BY <1>2, BeginsAt DEF Reinitialize
  <2>2. LineInv'
    BY <2>1, LineAtReset
  <2> QED BY <1>1, <2>1, <2>2 DEF MethodInv, SeenInv
<1>3. CASE ReinitializeFails
  <2>1. stage' = "ready" /\ pc' = "idle" /\ UNCHANGED << op, history >>
    BY <1>3 DEF ReinitializeFails, Return
  <2>2. LineInv'
    BY <1>1, <2>1, LineAtIdle
  <2> QED BY <1>1, <2>1, <2>2 DEF MethodInv, SeenInv, history
<1> QED BY <1>2, <1>3

\* The end of a get or set: an error ends the connection.
LEMMA CommandReturnsSafe ==
  ASSUME TypeOK, MethodInv, SeenInv, LineInv, CommandReturns
  PROVE  MethodInv' /\ SeenInv' /\ LineInv'
<1>1. /\ stage' = "ready" /\ pc' = "idle" /\ pc = "done" /\ (connected' => result = "ok")
      /\ UNCHANGED line /\ UNCHANGED << op, mem, seen >>
  BY DEF CommandReturns, Return, controller, history
<1>2. connected' => LineQuiet'
  BY <1>1, QuietAtSuccess, QuietStays
<1> QED BY <1>1, <1>2, LineAtIdle DEF MethodInv, SeenInv

-----------------------------------------------------------------------------
(* The client *)

\* The telegram is written.
LEMMA WriteTelegramSafe == ASSUME TypeOK, LineInv, WriteTelegram PROVE LineInv'
<1>1. /\ pc = "write" /\ pc' = "status" /\ tx' = Append(tx, Request(op))
      /\ UNCHANGED << op, rx >>
  BY DEF WriteTelegram
<1>2. LineQuiet
  BY <1>1 DEF LineInv, AtWrite
<1>3. Request(op) \in Messages
  BY <1>1, RequestIsMessage DEF TypeOK, ClientOK
<1>4. tx \in Seq(Messages)
  BY DEF TypeOK, LineOK
<1>5. Sent(tx', Control("ACK"), Request(op))
  BY <1>1, <1>2, <1>3, <1>4, SentAppend DEF LineQuiet
<1>6. Requested'
  BY <1>1, <1>2, <1>5 DEF LineQuiet, Requested
<1> QED BY <1>1, <1>6
        DEF LineInv, AtSync, AtStarted, AtWrite, AtStatus, AtLeadin, AtLength, AtBody, AtEnd,
            AtReady

\* Control bytes differ.
LEMMA ControlBytes == SYNC # ACK /\ SYNC # NACK /\ ACK # NACK
  BY DEF SYNC, ACK, NACK

\* The status byte is read: ACK is that of the request.
LEMMA ReadStatusSafe == ASSUME TypeOK, LineInv, ReadStatus PROVE LineInv'
<1>1. /\ pc = "status" /\ rx # << >> /\ rx' = Tail(rx)
      /\ UNCHANGED << op, tx, seen, applied >>
  BY DEF ReadStatus, history
<1>2. rx \in Seq(Byte)
  BY DEF TypeOK, LineOK
<1>3. rx[1] = Head(rx)
  BY <1>1, <1>2
<1>4. CASE Head(rx) = ACK
  <2>1. pc' = "leadin"
    BY <1>4, ControlBytes DEF ReadStatus
  <2>2. ~Requested
    BY <1>1, <1>2, <1>4, SyncsStay, ControlBytes DEF Requested
  <2>3. Answered
    BY <1>1, <2>2 DEF LineInv, AtStatus
  <2>4. tx = << >> /\ Len(rx) > 2 /\ Answers(op, SubSeq(rx, 3, Len(rx)), seen, applied)
    BY <1>3, <1>4, <2>3 DEF Answered
  <2>5. Len(rx') > 1 /\ SubSeq(rx', 2, Len(rx')) = SubSeq(rx, 3, Len(rx))
    BY <1>1, <1>2, <2>4
  <2>6. AtLeadin'
    BY <1>1, <2>4, <2>5 DEF AtLeadin
  <2> QED BY <2>1, <2>6
          DEF LineInv, AtSync, AtStarted, AtWrite, AtStatus, AtLength, AtBody, AtEnd, AtReady
<1>5. CASE Head(rx) = NACK
  BY <1>5, ControlBytes, LineAtReset DEF ReadStatus
<1>6. CASE Head(rx) \notin {ACK, NACK}
  BY <1>6, LineAtFailure DEF ReadStatus, Finish
<1> QED BY <1>4, <1>5, <1>6

\* Without latency nothing but RESET is on the line after a purge.
LEMMA ResetSafe == ASSUME TypeOK, ~Latency, Reset PROVE LineInv'
<1>1. pc' = "sync" /\ rx' = << >> /\ tx = << >> /\ tx' = Append(tx, Control("RESET"))
  BY DEF Reset, Purge
<1>2. Control("RESET") \in Messages /\ tx \in Seq(Messages)
  BY ControlIsMessage DEF TypeOK, LineOK
<1>3. Sent(tx', Control("RESET"), Control("RESET"))
  BY <1>1, <1>2, NothingSent, SentAppend
<1>4. AtSync'
  BY <1>1, <1>3, NothingSyncs DEF AtSync
<1> QED BY <1>1, <1>4
        DEF LineInv, AtStarted, AtWrite, AtStatus, AtLeadin, AtLength, AtBody, AtEnd, AtReady

\* SYNC is read.
LEMMA AwaitSyncSafe == ASSUME TypeOK, LineInv, AwaitSync PROVE LineInv'
<1>1. pc = "sync" /\ rx # << >> /\ rx' = Tail(rx) /\ pc' \in {"sync", "start"} /\ UNCHANGED tx
  BY DEF AwaitSync
<1>2. AtSync'
  BY <1>1, SyncsStay DEF TypeOK, LineOK, LineInv, AtSync
<1> QED BY <1>1, <1>2
        DEF LineInv, AtStarted, AtWrite, AtStatus, AtLeadin, AtLength, AtBody, AtEnd, AtReady

\* START is written.
LEMMA WriteStartSafe == ASSUME TypeOK, LineInv, WriteStart PROVE LineInv'
<1>1. /\ pc = "start" /\ pc' = "started" /\ tx' = Append(tx, Control("START"))
      /\ UNCHANGED rx
  BY DEF WriteStart
<1>2. Control("START") \in Messages /\ tx \in Seq(Messages)
  BY ControlIsMessage DEF TypeOK, LineOK
<1>3. Syncs(rx) /\ Sent(tx, Control("RESET"), Control("RESET"))
  BY <1>1 DEF LineInv, AtSync
<1>4. Starting'
  BY <1>1, <1>2, <1>3, SentAppend DEF Starting
<1> QED BY <1>1, <1>4
        DEF LineInv, AtSync, AtStarted, AtWrite, AtStatus, AtLeadin, AtLength, AtBody, AtEnd,
            AtReady

\* The answer to START is read: nothing but SYNC is left.
LEMMA ReadStartStatusSafe ==
  ASSUME TypeOK, LineInv, ReadStartStatus PROVE LineInv'
<1>1. pc = "started" /\ rx # << >> /\ rx' = Tail(rx) /\ UNCHANGED << op, tx >>
  BY DEF ReadStartStatus
<1>2. rx \in Seq(Byte)
  BY DEF TypeOK, LineOK
<1>3. rx[1] = Head(rx)
  BY <1>1, <1>2
<1>4. ASSUME Head(rx) \in {ACK, NACK} PROVE Syncs(rx') /\ tx' = << >>
  <2>1. ~Starting
    BY <1>1, <1>2, <1>4, SyncsStay, ControlBytes DEF Starting
  <2>2. Started
    BY <1>1, <2>1 DEF LineInv, AtStarted
  <2> QED BY <1>1, <1>3, <1>4, <2>2 DEF Started
<1>5. CASE Head(rx) = ACK
  <2>1. LineQuiet'
    BY <1>4, <1>5, NothingSent DEF LineQuiet
  <2>2. CASE op.kind = "negotiate"
    <3>1. pc' = "done" /\ op'.kind = "negotiate"
      BY <1>1, <1>5, <2>2, ControlBytes DEF ReadStartStatus, Finish
    <3> QED BY <2>1, <3>1
            DEF LineInv, AtSync, AtStarted, AtWrite, AtStatus, AtLeadin, AtLength, AtBody,
                AtEnd, AtReady
  <2>3. CASE op.kind # "negotiate"
    <3>1. pc' = "write"
      BY <1>5, <2>3, ControlBytes DEF ReadStartStatus
    <3> QED BY <2>1, <3>1, LineAtWrite
  <2> QED BY <2>2, <2>3
<1>6. CASE Head(rx) = NACK
  <2>1. pc' = "sync"
    BY <1>6, ControlBytes DEF ReadStartStatus
  <2>2. AtSync'
    BY <1>4, <1>6, NothingSent DEF AtSync
  <2> QED BY <2>1, <2>2
          DEF LineInv, AtStarted, AtWrite, AtStatus, AtLeadin, AtLength, AtBody, AtEnd, AtReady
<1>7. CASE Head(rx) \notin {ACK, NACK}
  BY <1>7, LineAtFailure DEF ReadStartStatus, Finish
<1> QED BY <1>5, <1>6, <1>7

\* The leadin is read.
LEMMA ReadLeadinSafe == ASSUME TypeOK, LineInv, ReadLeadin PROVE LineInv'
<1>1. /\ pc = "leadin" /\ rx # << >> /\ rx' = Tail(rx)
      /\ UNCHANGED << op, tx, seen, applied >>
  BY DEF ReadLeadin, history
<1>2. rx \in Seq(Byte)
  BY DEF TypeOK, LineOK
<1>3. tx = << >> /\ Answers(op, SubSeq(rx, 2, Len(rx)), seen, applied)
  BY <1>1 DEF LineInv, AtLeadin
<1>4. rx' = SubSeq(rx, 2, Len(rx))
  BY <1>1, <1>2, TailIsSubSeq
<1>5. CASE pc' = "length"
  <2>1. AtLength'
    BY <1>1, <1>3, <1>4 DEF AtLength
  <2> QED BY <1>5, <2>1
          DEF LineInv, AtSync, AtStarted, AtWrite, AtStatus, AtLeadin, AtBody, AtEnd, AtReady
<1>6. CASE pc' # "length"
  BY <1>6, LineAtFailure DEF ReadLeadin, Finish
<1> QED BY <1>5, <1>6

\* The length is read.
LEMMA ReadLengthSafe == ASSUME TypeOK, LineInv, ReadLength PROVE LineInv'
<1>1. /\ pc = "length" /\ rx # << >> /\ rx' = Tail(rx) /\ msgLen' = Head(rx) /\ pc' = "body"
      /\ UNCHANGED << op, tx, seen, applied >>
  BY DEF ReadLength, history
<1>2. rx \in Seq(Byte)
  BY DEF TypeOK, LineOK
<1>3. tx = << >> /\ Answers(op, rx, seen, applied)
  BY <1>1 DEF LineInv, AtLength
<1>4. << msgLen' >> \o rx' = rx
  BY <1>1, <1>2
<1>5. AtBody'
  BY <1>1, <1>3, <1>4 DEF AtBody
<1> QED BY <1>1, <1>5
        DEF LineInv, AtSync, AtStarted, AtWrite, AtStatus, AtLeadin, AtLength, AtEnd, AtReady

\* The line u holds nothing but SYNC from its i-th byte on.
SyncsFrom(u, i) == \A j \in i..Len(u) : u[j] = SYNC

\* Reading m bytes and a checksum of r, behind the length m, reads n + 1 bytes of u
\* and leaves SYNC.
ReadsFront(r, m, u, n) ==
  /\ << m >> \o SubSeq(r, 1, m) = SubSeq(u, 1, n)
  /\ r[m + 1] = u[n + 1]
  /\ Syncs(SubSeq(r, m + 2, Len(r)))

\* A telegram of the length of an answer, when its body is read, and what is left.
LEMMA BodyOfAnswer ==
  ASSUME NEW r \in Seq(Byte), NEW m \in Byte, Len(r) > m, NEW n \in Nat, n = m + 1,
         NEW u, u = << m >> \o r, SyncsFrom(u, n + 2)
  PROVE  ReadsFront(r, m, u, n)
<1> DEFINE p == SubSeq(r, 1, m)
           t == << m >> \o p
           s == SubSeq(u, 1, n)
           x == SubSeq(r, m + 2, Len(r))
<1>1. m \in Nat
  BY InByte
<1>2. p \in Seq(Byte) /\ Len(p) = m /\ \A i \in 1..m : p[i] = r[i]
  BY <1>1
<1>3. x \in Seq(Byte) /\ Len(x) = Len(r) - n /\ \A i \in 1..Len(x) : x[i] = r[n + i]
  BY <1>1
<1> HIDE DEF p, x
<1>4. u \in Seq(Byte) /\ Len(u) = 1 + Len(r) /\ u[1] = m /\ \A i \in 1..Len(r) : u[1 + i] = r[i]
  BY ByteFirst
<1>5. t \in Seq(Byte) /\ Len(t) = n /\ t[1] = m /\ \A i \in 1..m : t[1 + i] = p[i]
  BY <1>1, <1>2, ByteFirst
<1>6. s \in Seq(Byte) /\ Len(s) = n /\ \A i \in 1..n : s[i] = u[i]
  BY <1>1, <1>4
<1> HIDE DEF t, s
<1>7. ASSUME NEW i \in 1..n PROVE t[i] = s[i]
  <2>1. CASE i = 1
    BY <1>4, <1>5, <1>6, <2>1
  <2>2. CASE i # 1
    <3>1. PICK j \in 1..m : i = 1 + j
      <4>1. i - 1 \in 1..m /\ i = 1 + (i - 1)
        BY <1>1, <2>2
      <4> QED BY <4>1
    <3>2. t[i] = p[j]
      BY <1>5, <3>1
    <3>3. s[i] = u[1 + j]
      BY <1>6, <3>1
    <3>4. j \in 1..Len(r)
      BY <1>1
    <3> QED BY <1>2, <1>4, <3>2, <3>3, <3>4
  <2> QED BY <2>1, <2>2
<1>8. t = s
  BY <1>5, <1>6, <1>7, SeqEqual
<1>9. r[m + 1] = u[n + 1]
  <2>1. m + 1 \in 1..Len(r) /\ 1 + (m + 1) = n + 1
    BY <1>1
  <2> QED BY <1>4, <2>1
<1>10. ASSUME NEW i \in 1..Len(x) PROVE x[i] = SYNC
  <2>1. n + i \in 1..Len(r)
    BY <1>1, <1>3
  <2>2. x[i] = u[1 + (n + i)]
    BY <1>3, <1>4, <2>1
  <2>3. 1 + (n + i) \in (n + 2)..Len(u)
    BY <1>1, <1>3, <1>4
  <2> QED BY <2>2, <2>3 DEF SyncsFrom
<1> QED BY <1>8, <1>9, <1>10 DEF t, s, x, p, Syncs, ReadsFront

\* The body is read: what is accepted is the answer to the request, and it is the last
\* that came.
LEMMA ReadBodySafe == ASSUME TypeOK, MethodInv, LineInv, ReadBody PROVE LineInv'
<1> DEFINE t == << msgLen >> \o SubSeq(rx, 1, msgLen)
           u == << msgLen >> \o rx
           intact == wrapping_sum(t) = rx[msgLen + 1]
           good == intact /\ Accepted(op, t)
<1>1. /\ pc = "body" /\ Len(rx) > msgLen
      /\ rx' = SubSeq(rx, msgLen + 2, Len(rx))
      /\ tx' = Append(tx, Control(IF intact THEN "ACK" ELSE "NACK"))
      /\ pc' = "done" /\ result' = (IF good THEN "ok" ELSE "err")
      /\ buf' = IF good /\ op.kind = "get" THEN SubSeq(t, 7, 6 + BlockLen) ELSE NoData
      /\ UNCHANGED << op, seen, applied >>
  BY DEF ReadBody, Finish, history
<1>2. rx \in Seq(Byte) /\ tx \in Seq(Messages) /\ msgLen \in Byte
  BY DEF TypeOK, ClientOK, LineOK
<1>3. tx = << >> /\ Answers(op, u, seen, applied)
  BY <1>1 DEF LineInv, AtBody
<1>4. CASE ~good
  BY <1>1, <1>4, LineAtFailure
<1>5. CASE good
  <2>1. PICK n \in Nat : n = 6 + Payload(op) /\ Payload(op) \in Nat
    BY PayloadType, Sizes, Zenon
  <2>2. t[1] = msgLen /\ u[1] = msgLen
    <3>1. SubSeq(rx, 1, msgLen) \in Seq(Byte)
      <4>1. msgLen \in Nat
        BY <1>2, InByte
      <4>2. \A i \in 1..msgLen : rx[i] \in Byte
        BY <1>1, <1>2, <4>1, ElementOfSeq
      <4> QED BY <1>2, <4>1, <4>2, SubSeqProperties
    <3>2. << msgLen >> \in Seq(Byte) /\ Len(<< msgLen >>) = 1 /\ << msgLen >>[1] = msgLen
      BY <1>2
    <3> QED BY <1>2, <3>1, <3>2, ConcatProperties
  <2> HIDE DEF t, u, intact
  <2>3. t[1] = 5 + Payload(op)
    <3>1. t[1] >= 5 /\ IF op.kind = "get" THEN t[1] - 5 = t[6] /\ t[6] = BlockLen ELSE t[1] = 5
      BY <1>5 DEF Accepted
    <3>2. msgLen \in Int
      BY <1>2, InByte
    <3> QED BY <2>1, <2>2, <3>1, <3>2 DEF Payload
  <2>4. /\ Len(u) > n
        /\ \A i \in (n + 2)..Len(u) : u[i] = SYNC
        /\ wrapping_sum(SubSeq(u, 1, n)) = u[n + 1] /\ Accepted(op, SubSeq(u, 1, n))
             => Truthful(op, SubSeq(u, 1, n), seen, applied)
    BY <1>3, <2>1, <2>2, <2>3 DEF Answers
  <2>5. n = msgLen + 1
    BY <2>1, <2>2, <2>3
  <2>6. /\ t = SubSeq(u, 1, n) /\ rx[msgLen + 1] = u[n + 1]
        /\ Syncs(SubSeq(rx, msgLen + 2, Len(rx)))
    <3>1. SyncsFrom(u, n + 2)
      BY <2>4 DEF SyncsFrom
    <3>2. u = << msgLen >> \o rx
      BY DEF u
    <3>3. ReadsFront(rx, msgLen, u, n)
      BY <1>1, <1>2, <2>5, <3>1, <3>2, BodyOfAnswer
    <3> QED BY <3>3 DEF ReadsFront, t
  <2>7. Truthful(op, t, seen, applied)
    BY <1>5, <2>4, <2>6 DEF intact
  <2>8. Sent(tx', Control("ACK"), Control("ACK"))
    <3>1. tx' = Append(tx, Control("ACK"))
      BY <1>1, <1>5
    <3> QED BY <1>2, <1>3, <3>1, ControlIsMessage, NothingSent, SentAppend
  <2>9. LineQuiet'
    BY <1>1, <2>6, <2>8 DEF LineQuiet
  <2>10. (op'.kind = "get" => buf' \in seen') /\ (op'.kind = "set" => applied')
    BY <1>1, <1>5, <2>7 DEF Truthful
  <2> QED BY <1>1, <2>9, <2>10
          DEF LineInv, AtSync, AtStarted, AtWrite, AtStatus, AtLeadin, AtLength, AtBody,
              AtEnd, AtReady
<1> QED BY <1>4, <1>5

\* Every step of the client.
LEMMA ProgressSafe ==
  ASSUME TypeOK, MethodInv, SeenInv, LineInv, ~Latency, Progress
  PROVE  MethodInv' /\ SeenInv' /\ LineInv'
<1>1. LineInv'
  BY WriteTelegramSafe, ReadStatusSafe, ResetSafe, AwaitSyncSafe, WriteStartSafe,
     ReadStartStatusSafe, ReadLeadinSafe, ReadLengthSafe, ReadBodySafe
  DEF Progress, ClientStep
<1>2. UNCHANGED << op, mem, seen, stage, task, connected, calls >>
  BY DEF Progress, ClientStep, WriteTelegram, ReadStatus, Reset, AwaitSync, WriteStart,
     ReadStartStatus, ReadLeadin, ReadLength, ReadBody, controller, history, sessionvars
<1>3. pc \notin {"idle", "done"} /\ pc' # "idle"
  BY DEF Progress, ClientStep, WriteTelegram, ReadStatus, Reset, AwaitSync, WriteStart,
     ReadStartStatus, ReadLeadin, ReadLength, ReadBody, Finish
<1>4. pc' \in {"leadin", "length", "body"} => op.kind # "negotiate"
  <2>1. pc' \in {"leadin", "length", "body"} => pc \in {"status", "leadin", "length"}
    BY DEF Progress, ClientStep, WriteTelegram, ReadStatus, Reset, AwaitSync, WriteStart,
       ReadStartStatus, ReadLeadin, ReadLength, ReadBody, Finish
  <2> QED BY <2>1 DEF MethodInv, TypeOK, ClientOK
<1> QED BY <1>1, <1>2, <1>3, <1>4 DEF MethodInv, SeenInv

-----------------------------------------------------------------------------
(* The controller and the line *)

\* A step of the environment that leaves the client and VControl alone.
Outside == UNCHANGED client /\ UNCHANGED sessionvars

\* Messages are told apart by what they are.
LEMMA MessageKinds ==
  /\ \A m : Control(m).m = m
  /\ \A o : Request(o).m = "telegram" /\ Request(o).fn = FunctionOf(o)
            /\ Request(o).addr = o.addr /\ Request(o).data = o.data /\ Request(o).id = o.id
  BY DEF Control, Request

\* A telegram reaches the controller: it is the request the client waits for an answer
\* to, or the client does not look at the line.
LEMMA TelegramOnLine ==
  ASSUME TypeOK, LineInv, Receives("telegram")
  PROVE  /\ pc \notin {"sync", "start", "started", "write", "leadin", "length", "body"}
         /\ ~(pc = "done" /\ result = "ok")
         /\ ~(pc = "idle" /\ stage = "ready" /\ connected)
         /\ pc = "status" => Requested /\ Head(tx) = Request(op) /\ tx' = << >>
<1>1. tx # << >> /\ tx \in Seq(Messages) /\ Head(tx).m = "telegram" /\ tx' = Tail(tx)
  BY DEF Receives, TypeOK, LineOK
<1>2. ASSUME NEW m, NEW l, Sent(tx, Control(m), l), m # "telegram"
      PROVE  Head(tx) = l /\ tx' = << >>
  BY <1>1, <1>2, SentTail, MessageKinds
<1>3. ASSUME NEW m, NEW l, Sent(tx, Control(m), Control(l)), m # "telegram", l # "telegram"
      PROVE  FALSE
  BY <1>1, <1>2, <1>3, MessageKinds
<1>4. ~LineQuiet
  BY <1>3 DEF LineQuiet
<1>5. pc \notin {"sync", "start"}
  BY <1>3 DEF LineInv, AtSync
<1>6. pc # "started"
  BY <1>1, <1>3 DEF LineInv, AtStarted, Starting, Started
<1>7. pc \notin {"leadin", "length", "body"}
  BY <1>1 DEF LineInv, AtLeadin, AtLength, AtBody
<1>8. pc # "write" /\ ~(pc = "done" /\ result = "ok") /\ ~(pc = "idle" /\ stage = "ready" /\ connected)
  BY <1>4 DEF LineInv, AtWrite, AtEnd, AtReady
<1>9. ASSUME pc = "status" PROVE Requested /\ Head(tx) = Request(op) /\ tx' = << >>
  <2>1. Requested
    BY <1>1, <1>9 DEF LineInv, AtStatus, Answered
  <2> QED BY <1>2, <2>1 DEF Requested
<1> QED BY <1>5, <1>6, <1>7, <1>8, <1>9

\* A telegram answered: only a client that waits for the answer has to see it arrive.
LEMMA TelegramAnswered ==
  ASSUME TypeOK, LineInv, Receives("telegram"), Outside,
         pc = "status" /\ Requested /\ Head(tx) = Request(op) /\ tx' = << >> => Answered'
  PROVE  LineInv'
<1>1. UNCHANGED << pc, op, result, buf, msgLen, stage, connected >>
  BY DEF Outside, client, sessionvars
<1> QED
  BY <1>1, TelegramOnLine
  DEF LineInv, AtSync, AtStarted, AtWrite, AtStatus, AtLeadin, AtLength, AtBody, AtEnd, AtReady

\* START answered: only a client that waits for the answer has to see it arrive.
LEMMA StartAnswered ==
  ASSUME TypeOK, LineInv, Receives("START"), Outside, UNCHANGED history,
         NEW b \in {ACK, NACK}, rx' = Append(rx, b)
  PROVE  LineInv'
<1>1. UNCHANGED << pc, op, result, buf, msgLen, stage, connected >>
  BY DEF Outside, client, sessionvars
<1>2. tx # << >> /\ tx \in Seq(Messages) /\ Head(tx).m = "START" /\ tx' = Tail(tx)
  BY DEF Receives, TypeOK, LineOK
<1>3. ASSUME NEW m, NEW l, Sent(tx, Control(m), l), m # "START"
      PROVE  Head(tx) = l /\ tx' = << >>
  BY <1>2, <1>3, SentTail, MessageKinds
<1>4. ASSUME NEW m, NEW l, Sent(tx, Control(m), l), m # "START", l.m # "START"
      PROVE  FALSE
  BY <1>2, <1>3, <1>4, MessageKinds
<1>5. ~LineQuiet
  BY <1>4, MessageKinds DEF LineQuiet
<1>6. pc \notin {"sync", "start"}
  BY <1>4, MessageKinds DEF LineInv, AtSync
<1>7. pc # "status"
  BY <1>2, <1>4, MessageKinds DEF LineInv, AtStatus, Requested, Answered
<1>8. pc \notin {"leadin", "length", "body"}
  BY <1>2 DEF LineInv, AtLeadin, AtLength, AtBody
<1>9. pc # "write" /\ ~(pc = "done" /\ result = "ok") /\ ~(pc = "idle" /\ stage = "ready" /\ connected)
  BY <1>5 DEF LineInv, AtWrite, AtEnd, AtReady
<1>10. ASSUME pc = "started" PROVE Started'
  <2>1. Starting
    BY <1>2, <1>10 DEF LineInv, AtStarted, Started
  <2>2. Syncs(rx) /\ tx' = << >>
    BY <1>3, <2>1 DEF Starting
  <2>3. rx \in Seq(Byte) /\ b \in Byte
    BY DEF TypeOK, LineOK, ACK, NACK, Byte
  <2>4. rx' # << >>
    BY <2>3
  <2>5. CASE rx = << >>
    <3>1. Tail(rx') = << >>
      BY <2>5
    <3> QED BY <2>2, <2>4, <3>1, NothingSyncs DEF Started
  <2>6. CASE rx # << >>
    <3>1. rx'[1] = rx[1] /\ rx[1] = SYNC
      BY <2>2, <2>3, <2>6 DEF Syncs
    <3> QED BY <2>2, <2>4, <3>1, ControlBytes DEF Started
  <2> QED BY <2>5, <2>6
<1> QED
  BY <1>1, <1>6, <1>7, <1>8, <1>9, <1>10
  DEF LineInv, AtSync, AtStarted, AtWrite, AtStatus, AtLeadin, AtLength, AtBody, AtEnd, AtReady

\* A message is taken from the line and not answered.
LEMMA MessageDropped ==
  ASSUME TypeOK, LineInv, Outside, UNCHANGED << rx, history >>, tx # << >>, tx' = Tail(tx)
  PROVE  LineInv'
<1>1. /\ UNCHANGED << pc, op, result, buf, msgLen, stage, connected >>
      /\ UNCHANGED << rx, seen, applied >>
  BY DEF Outside, client, sessionvars, history
<1>2. tx \in Seq(Messages)
  BY DEF TypeOK, LineOK
<1>3. \A m, l : Sent(tx, m, l) => Sent(tx', m, l)
  BY <1>2, SentTail
<1>4. LineQuiet => LineQuiet'
  BY <1>1, <1>3 DEF LineQuiet
<1>5. Requested => Requested'
  BY <1>1, <1>3 DEF Requested
<1>6. Starting => Starting'
  BY <1>1, <1>3 DEF Starting
<1>7. ~Answered /\ ~Started /\ pc \notin {"leadin", "length", "body"}
  BY DEF Answered, Started, LineInv, AtLeadin, AtLength, AtBody
<1>8. AtSync'
  BY <1>1, <1>3 DEF LineInv, AtSync
<1>9. AtStarted' /\ AtStatus'
  BY <1>1, <1>5, <1>6, <1>7 DEF LineInv, AtStarted, AtStatus
<1>10. AtWrite' /\ AtEnd' /\ AtReady'
  BY <1>1, <1>4 DEF LineInv, AtWrite, AtEnd, AtReady
<1> QED BY <1>1, <1>7, <1>8, <1>9, <1>10 DEF LineInv, AtLeadin, AtLength, AtBody

\* SYNC arrives.
LEMMA SyncArrives ==
  ASSUME TypeOK, LineInv, Outside, UNCHANGED << tx, history >>, rx' = Append(rx, SYNC)
  PROVE  LineInv'
<1>1. /\ UNCHANGED << pc, op, result, buf, msgLen, stage, connected >>
      /\ UNCHANGED << tx, seen, applied >>
  BY DEF Outside, client, sessionvars, history
<1>2. rx \in Seq(Byte) /\ SYNC \in Byte /\ msgLen \in Byte
  BY DEF TypeOK, LineOK, ClientOK, SYNC, Byte
<1>3. rx' \in Seq(Byte) /\ Len(rx') = Len(rx) + 1 /\ rx' # << >>
  BY <1>2
<1>4. Syncs(rx) => Syncs(rx')
  BY <1>2, SyncsStay
<1>5. LineQuiet => LineQuiet'
  BY <1>1, <1>4 DEF LineQuiet
<1>6. Requested => Requested'
  BY <1>1, <1>4 DEF Requested
<1>7. Starting => Starting'
  BY <1>1, <1>4 DEF Starting
<1>8. ASSUME rx # << >>
      PROVE  rx'[1] = rx[1] /\ Tail(rx') = Append(Tail(rx), SYNC) /\ Tail(rx) \in Seq(Byte)
  <2>1. rx'[1] = rx[1] /\ Tail(rx) \in Seq(Byte)
    BY <1>2, <1>8
  <2>2. Tail(rx') = SubSeq(rx', 2, Len(rx')) /\ Tail(rx) = SubSeq(rx, 2, Len(rx))
    BY <1>2, <1>3, <1>8, TailIsSubSeq
  <2>3. 2 \in 1..(Len(rx) + 1)
    BY <1>2, <1>8
  <2> QED BY <1>2, <2>1, <2>2, <2>3, AppendRest
<1>9. Started => Started'
  <2> SUFFICES ASSUME Started PROVE Started'
    OBVIOUS
  <2>1. rx # << >>
    BY DEF Started
  <2> QED BY <1>1, <1>3, <1>8, <2>1, SyncsStay DEF Started
<1>10. ASSUME NEW k \in 1..(Len(rx) + 1),
              Answers(op, SubSeq(rx, k, Len(rx)), seen, applied)
       PROVE  Answers(op', SubSeq(rx', k, Len(rx')), seen', applied')
  <2>1. SubSeq(rx', k, Len(rx')) = Append(SubSeq(rx, k, Len(rx)), SYNC)
    BY <1>2, AppendRest
  <2>2. SubSeq(rx, k, Len(rx)) \in Seq(Byte)
    BY <1>2
  <2> QED BY <1>1, <1>10, <2>1, <2>2, AnswersThenSync
<1>11. Answered => Answered'
  <2> SUFFICES ASSUME Answered, rx[1] = ACK
               PROVE  Len(rx') > 2 /\ Answers(op', SubSeq(rx', 3, Len(rx')), seen', applied')
    BY <1>1, <1>3, <1>8 DEF Answered
  <2>1. Len(rx) > 2 /\ Answers(op, SubSeq(rx, 3, Len(rx)), seen, applied)
    BY DEF Answered
  <2>2. 3 \in 1..(Len(rx) + 1)
    BY <1>2, <2>1
  <2> QED BY <1>2, <1>3, <1>10, <2>1, <2>2
<1>12. AtSync' /\ AtStarted' /\ AtStatus'
  BY <1>1, <1>4, <1>6, <1>7, <1>9, <1>11 DEF LineInv, AtSync, AtStarted, AtStatus
<1>13. AtWrite' /\ AtEnd' /\ AtReady'
  BY <1>1, <1>5 DEF LineInv, AtWrite, AtEnd, AtReady
<1>14. AtLeadin'
  <2> SUFFICES ASSUME pc = "leadin"
               PROVE  /\ tx' = << >> /\ Len(rx') > 1
                      /\ Answers(op', SubSeq(rx', 2, Len(rx')), seen', applied')
    BY <1>1 DEF AtLeadin
  <2>1. tx = << >> /\ Len(rx) > 1 /\ Answers(op, SubSeq(rx, 2, Len(rx)), seen, applied)
    BY DEF LineInv, AtLeadin
  <2>2. 2 \in 1..(Len(rx) + 1)
    BY <1>2, <2>1
  <2> QED BY <1>1, <1>2, <1>3, <1>10, <2>1, <2>2
<1>15. AtLength'
  <2> SUFFICES ASSUME pc = "length" PROVE tx' = << >> /\ Answers(op', rx', seen', applied')
    BY <1>1 DEF AtLength
  <2>1. tx = << >> /\ Answers(op, rx, seen, applied)
    BY DEF LineInv, AtLength
  <2> QED BY <1>1, <1>2, <2>1, AnswersThenSync
<1>16. AtBody'
  <2> SUFFICES ASSUME pc = "body"
               PROVE  tx' = << >> /\ Answers(op', << msgLen' >> \o rx', seen', applied')
    BY <1>1 DEF AtBody
  <2>1. tx = << >> /\ Answers(op, << msgLen >> \o rx, seen, applied)
    BY DEF LineInv, AtBody
  <2>2. << msgLen >> \o rx \in Seq(Byte)
    BY <1>2
  <2>3. << msgLen >> \o rx' = Append(<< msgLen >> \o rx, SYNC)
    BY <1>2, AppendBehind
  <2> QED BY <1>1, <2>1, <2>2, <2>3, AnswersThenSync
<1> QED BY <1>12, <1>13, <1>14, <1>15, <1>16 DEF LineInv

\* Contents change while nothing moves on the line.
LEMMA ContentsGrow ==
  ASSUME TypeOK, LineInv, Outside, UNCHANGED line, seen \subseteq seen', UNCHANGED applied
  PROVE  LineInv'
<1>1. UNCHANGED << pc, op, result, buf, msgLen, stage, connected, rx, tx, applied >>
  BY DEF Outside, client, sessionvars, line
<1>2. \A u : Answers(op, u, seen, applied) => Answers(op', u, seen', applied')
  BY <1>1, AnswersGrow
<1>3. /\ LineQuiet => LineQuiet'
      /\ Requested => Requested'
      /\ Starting => Starting'
      /\ Started => Started'
      /\ Answered => Answered'
  BY <1>1, <1>2 DEF LineQuiet, Requested, Starting, Started, Answered
<1>4. AtSync' /\ AtStarted' /\ AtStatus' /\ AtWrite'
  BY <1>1, <1>3 DEF LineInv, AtSync, AtStarted, AtStatus, AtWrite
<1>5. AtEnd' /\ AtReady'
  BY <1>1, <1>3 DEF LineInv, AtEnd, AtReady
<1>6. AtLeadin' /\ AtLength' /\ AtBody'
  BY <1>1, <1>2 DEF LineInv, AtLeadin, AtLength, AtBody
<1> QED BY <1>4, <1>5, <1>6 DEF LineInv

\* A content that changes by itself or by a write has been seen by the get of its address.
LEMMA PutSeen ==
  ASSUME TypeOK, SeenInv, UNCHANGED op, NEW a \in Addr, NEW v \in Val, Put(a, v)
  PROVE  SeenInv' /\ seen \subseteq seen'
<1>1. mem \in [Addr -> Val]
  BY DEF TypeOK, ControllerOK
<1>2. mem' = [mem EXCEPT ![a] = v]
      /\ seen' = IF op.kind = "get" /\ op.addr = a THEN seen \cup {v} ELSE seen
  BY DEF Put
<1>3. mem'[a] = v /\ \A b : b # a => mem'[b] = mem[b]
  BY <1>1, <1>2
<1> QED BY <1>2, <1>3 DEF SeenInv

\* The answer to a read.
LEMMA ReceiveReadSafe ==
  ASSUME TypeOK, SeenInv, LineInv, Outside, ReceiveRead PROVE LineInv'
<1> DEFINE a == Head(tx).addr
           t == Telegram(Response, VirtualRead, a, BlockLen, mem[a])
<1>1. /\ Receives("telegram") /\ Head(tx).fn = VirtualRead /\ rx' = rx \o << ACK >> \o t
      /\ UNCHANGED << op, seen, applied >>
  BY DEF ReceiveRead, history, Outside, client
<1>2. Head(tx) \in Messages /\ Head(tx).m = "telegram"
  BY <1>1, ReceiveType DEF TypeOK, LineOK
<1>3. a \in Addr /\ mem[a] \in Val
  BY <1>2, TelegramMessage DEF TypeOK, ControllerOK
<1>4. t \in Seq(Byte)
  BY <1>3, ReadAnswerType DEF TypeOK, ControllerOK
<1>5. ASSUME pc = "status", Requested, Head(tx) = Request(op), tx' = << >> PROVE Answered'
  <2>1. op.kind = "get" /\ a = op.addr
    <3>1. VirtualRead # VirtualWrite
      BY DEF VirtualRead, VirtualWrite
    <3> QED BY <1>1, <1>5, <3>1, MessageKinds DEF FunctionOf
  <2>2. mem[a] \in seen
    BY <2>1 DEF SeenInv
  <2>3. Answers(op, Tail(t), seen, applied)
    BY <1>3, <2>1, <2>2, ReadAnswers
  <2>4. Len(t) > 1
    <3> HIDE DEF t
    <3> QED BY <1>4, <2>3, LongAnswer
  <2> HIDE DEF t
  <2>5. Syncs(rx) /\ rx \in Seq(Byte)
    BY <1>5 DEF Requested, TypeOK, LineOK
  <2>6. /\ rx' # << >>
        /\ rx'[1] = ACK =>
             Len(rx') > 2 /\ Answers(op, SubSeq(rx', 3, Len(rx')), seen, applied)
    BY <1>1, <1>4, <2>3, <2>4, <2>5, AnswerArrives
  <2> QED BY <1>1, <1>5, <2>6 DEF Answered
<1> QED BY <1>1, <1>5, TelegramAnswered

\* The disturbed answer to a read.
LEMMA DisturbReadSafe ==
  ASSUME TypeOK, SeenInv, LineInv, Outside, DisturbRead PROVE LineInv'
<1> DEFINE a == Head(tx).addr
           t == Telegram(Response, VirtualRead, a, BlockLen, mem[a])
<1>1. /\ Receives("telegram") /\ Head(tx).fn = VirtualRead
      /\ UNCHANGED << op, seen, applied >>
  BY DEF DisturbRead, history, Outside, client
<1>2. Head(tx) \in Messages /\ Head(tx).m = "telegram"
  BY <1>1, ReceiveType DEF TypeOK, LineOK
<1>3. a \in Addr /\ mem[a] \in Val
  BY <1>2, TelegramMessage DEF TypeOK, ControllerOK
<1>4. t \in Seq(Byte)
  BY <1>3, ReadAnswerType DEF TypeOK, ControllerOK
<1>5. \E kind \in {"checksum", "garble"}, b \in Noise :
        \E i \in (IF kind = "checksum" THEN {Len(t)} ELSE 1..Len(t)) :
          b # t[i] /\ rx' = rx \o << ACK >> \o [t EXCEPT ![i] = b]
  BY DEF DisturbRead
<1>6. ASSUME pc = "status", Requested, Head(tx) = Request(op), tx' = << >> PROVE Answered'
  <2>1. op.kind = "get" /\ a = op.addr
    <3>1. VirtualRead # VirtualWrite
      BY DEF VirtualRead, VirtualWrite
    <3> QED BY <1>1, <1>6, <3>1, MessageKinds DEF FunctionOf
  <2>2. mem[a] \in seen
    BY <2>1 DEF SeenInv
  <2>3. Len(t) > 0
    <3>1. Answers(op, Tail(t), seen, applied)
      BY <1>3, <2>1, <2>2, ReadAnswers
    <3> HIDE DEF t
    <3>2. Len(t) > 1
      BY <1>4, <3>1, LongAnswer
    <3> QED BY <1>4, <3>2
  <2>4. PICK b \in Byte, i \in 1..Len(t) :
          b # t[i] /\ rx' = rx \o << ACK >> \o [t EXCEPT ![i] = b]
    <3> HIDE DEF t
    <3>1. Len(t) \in 1..Len(t)
      BY <1>4, <2>3
    <3> QED BY <1>5, <3>1, Vs2Assumption
  <2> DEFINE s == [t EXCEPT ![i] = b]
  <2>5. Answers(op, Tail(s), seen, applied) /\ s \in Seq(Byte) /\ Len(s) > 1
    BY <1>3, <2>1, <2>2, <2>4, DisturbedAnswers
  <2>6. rx' = rx \o << ACK >> \o s
    BY <2>4
  <2> HIDE DEF s
  <2>7. Syncs(rx) /\ rx \in Seq(Byte)
    BY <1>6 DEF Requested, TypeOK, LineOK
  <2>8. /\ rx' # << >>
        /\ rx'[1] = ACK =>
             Len(rx') > 2 /\ Answers(op, SubSeq(rx', 3, Len(rx')), seen, applied)
    BY <2>5, <2>6, <2>7, AnswerArrives
  <2> QED BY <1>1, <1>6, <2>8 DEF Answered
<1> QED BY <1>1, <1>6, TelegramAnswered

\* The answer to a write, which has taken effect.
LEMMA ReceiveWriteSafe ==
  ASSUME TypeOK, SeenInv, LineInv, Outside, ReceiveWrite PROVE LineInv' /\ SeenInv'
<1> DEFINE a == Head(tx).addr
           v == Head(tx).data
           t == Telegram(Response, VirtualWrite, a, Len(v), NoData)
<1>1. /\ Receives("telegram") /\ Head(tx).fn = VirtualWrite /\ rx' = rx \o << ACK >> \o t
      /\ Put(a, v) /\ applied' = (applied \/ (op.kind = "set" /\ Head(tx).id = op.id))
      /\ UNCHANGED op
  BY DEF ReceiveWrite, Outside, client
<1>2. Head(tx) \in Messages /\ Head(tx).m = "telegram"
  BY <1>1, ReceiveType DEF TypeOK, LineOK
<1>3. a \in Addr /\ v \in Val
  BY <1>1, <1>2, TelegramMessage
<1>4. Len(v) \in Byte
  BY <1>3, ValIsBytes, BlockLenByte
<1>5. SeenInv'
  BY <1>1, <1>3, PutSeen
<1>6. ASSUME pc = "status", Requested, Head(tx) = Request(op), tx' = << >> PROVE Answered'
  <2>1. op.kind = "set" /\ Head(tx).id = op.id
    <3>1. VirtualRead # VirtualWrite
      BY DEF VirtualRead, VirtualWrite
    <3>2. op.kind \in {"get", "set"}
      BY <1>6 DEF TypeOK, ClientOK, Operations
    <3> QED BY <1>1, <1>6, <3>1, <3>2, MessageKinds DEF FunctionOf
  <2>2. applied' = TRUE
    BY <1>1, <2>1
  <2>3. Answers(op, Tail(t), seen', TRUE)
    BY <1>3, <1>4, <2>1, WriteAnswers
  <2>4. t \in Seq(Byte)
    <3>1. Response \in Byte /\ VirtualWrite \in Byte
      BY DEF Response, VirtualWrite, Byte
    <3>2. NoData \in Seq(Byte) /\ Len(NoData) \in 0..250
      BY DEF NoData
    <3> QED BY <1>3, <1>4, <3>1, <3>2, TelegramIsBytes
  <2>5. Len(t) > 1
    <3> HIDE DEF t
    <3> QED BY <2>3, <2>4, LongAnswer
  <2> HIDE DEF t
  <2>6. Syncs(rx) /\ rx \in Seq(Byte)
    BY <1>6 DEF Requested, TypeOK, LineOK
  <2>7. /\ rx' # << >>
        /\ rx'[1] = ACK =>
             Len(rx') > 2 /\ Answers(op, SubSeq(rx', 3, Len(rx')), seen', TRUE)
    BY <1>1, <2>3, <2>4, <2>5, <2>6, AnswerArrives
  <2>8. applied' = TRUE /\ op' = op
    BY <1>1, <2>2
  <2> QED BY <1>6, <2>7, <2>8 DEF Answered
<1> QED BY <1>1, <1>5, <1>6, TelegramAnswered

\* The error telegram.
LEMMA RefuseSafe == ASSUME TypeOK, LineInv, Outside, Refuse PROVE LineInv'
<1> DEFINE t == Telegram(Error, Head(tx).fn, Head(tx).addr, 1, << 1 >>)
<1>1. /\ Receives("telegram") /\ rx' = rx \o << ACK >> \o t
      /\ UNCHANGED << op, seen, applied >>
  BY DEF Refuse, history, Outside, client
<1>2. Head(tx) \in Messages /\ Head(tx).m = "telegram"
  BY <1>1, ReceiveType DEF TypeOK, LineOK
<1>3. Head(tx).addr \in Addr /\ Head(tx).fn \in Byte
  BY <1>2, TelegramMessage DEF VirtualRead, VirtualWrite, Byte
<1>4. t \in Seq(Byte)
  <2>1. Error \in Byte /\ 1 \in Byte /\ << 1 >> \in Seq(Byte) /\ Len(<< 1 >>) \in 0..250
    BY DEF Error, Byte
  <2> QED BY <1>3, <2>1, TelegramIsBytes
<1>5. Answers(op, Tail(t), seen, applied)
  BY <1>3, RefusalAnswers
<1> HIDE DEF t
<1>6. Len(t) > 1
  BY <1>4, <1>5, LongAnswer
<1>7. ASSUME Requested, tx' = << >> PROVE Answered'
  <2>1. Syncs(rx) /\ rx \in Seq(Byte)
    BY <1>7 DEF Requested, TypeOK, LineOK
  <2>2. /\ rx' # << >>
        /\ rx'[1] = ACK =>
             Len(rx') > 2 /\ Answers(op, SubSeq(rx', 3, Len(rx')), seen, applied)
    BY <1>1, <1>4, <1>5, <1>6, <2>1, AnswerArrives
  <2> QED BY <1>1, <1>7, <2>2 DEF Answered
<1> QED BY <1>1, <1>7, TelegramAnswered

\* NACK for a telegram or for START.
LEMMA AnswerNackSafe == ASSUME TypeOK, LineInv, Outside, AnswerNack PROVE LineInv'
<1>1. rx' = Append(rx, NACK) /\ UNCHANGED history /\ UNCHANGED << op, seen, applied >>
  BY DEF AnswerNack, history, Outside, client
<1>2. CASE Receives("START")
  BY <1>1, <1>2, StartAnswered
<1>3. CASE Receives("telegram")
  <2>1. ASSUME Requested, tx' = << >> PROVE Answered'
    <3>1. Syncs(rx) /\ rx \in Seq(Byte) /\ NACK \in Byte
      BY <2>1 DEF Requested, TypeOK, LineOK, NACK, Byte
    <3>2. rx' # << >> /\ rx'[1] # ACK
      <4>1. CASE rx = << >>
        BY <1>1, <3>1, <4>1, ControlBytes
      <4>2. CASE rx # << >>
        <5>1. rx'[1] = rx[1] /\ rx[1] = SYNC /\ rx' # << >>
          BY <1>1, <3>1, <4>2 DEF Syncs
        <5> QED BY <5>1, ControlBytes
      <4> QED BY <4>1, <4>2
    <3> QED BY <2>1, <3>2 DEF Answered
  <2> QED BY <1>3, <2>1, TelegramAnswered
<1> QED BY <1>2, <1>3 DEF AnswerNack

\* A step that leaves the contents alone.
LEMMA SeenStays == ASSUME SeenInv, UNCHANGED << op, mem, seen >> PROVE SeenInv'
  BY DEF SeenInv

\* Every step of the controller and the line, but for an I/O error.
LEMMA OutsideSafe ==
  ASSUME TypeOK, SeenInv, LineInv, Outside,
         SendSync \/ ControllerStep \/ Fallback \/ Lose \/ Change
  PROVE  SeenInv' /\ LineInv'
<1>1. UNCHANGED op
  BY DEF Outside, client
<1>2. CASE SendSync
  <2>1. UNCHANGED << tx, history >> /\ rx' = Append(rx, SYNC) /\ UNCHANGED << mem, seen >>
    BY <1>2 DEF SendSync, controller, history
  <2> QED BY <1>1, <2>1, SyncArrives, SeenStays
<1>3. CASE ReceiveReset \/ Ignore \/ Lose
  <2>1. UNCHANGED << rx, history >> /\ tx # << >> /\ tx' = Tail(tx) /\ UNCHANGED << mem, seen >>
    BY <1>3 DEF ReceiveReset, Ignore, Lose, Receives, controller, history
  <2> QED BY <1>1, <2>1, MessageDropped, SeenStays
<1>4. CASE ReceiveStart
  <2>1. Receives("START") /\ UNCHANGED history /\ rx' = Append(rx, ACK)
        /\ UNCHANGED << mem, seen >>
    BY <1>4 DEF ReceiveStart, history
  <2> QED BY <1>1, <2>1, StartAnswered, SeenStays
<1>5. CASE ReceiveRead \/ Refuse \/ AnswerNack \/ DisturbRead
  <2>1. UNCHANGED << mem, seen >>
    BY <1>5 DEF ReceiveRead, Refuse, AnswerNack, DisturbRead, controller, history
  <2> QED BY <1>1, <1>5, <2>1, ReceiveReadSafe, RefuseSafe, AnswerNackSafe, DisturbReadSafe,
             SeenStays
<1>6. CASE ReceiveWrite
  BY <1>6, ReceiveWriteSafe
<1>7. CASE Fallback
  <2>1. UNCHANGED line /\ UNCHANGED << mem, seen, applied >>
    BY <1>7 DEF Fallback, history
  <2>2. seen \subseteq seen'
    BY <2>1
  <2> QED BY <1>1, <2>1, <2>2, ContentsGrow, SeenStays
<1>8. CASE Change
  <2>1. UNCHANGED line /\ UNCHANGED applied
    BY <1>8 DEF Change
  <2>2. PICK a \in Addr, v \in Val : Put(a, v)
    BY <1>8 DEF Change
  <2> QED BY <1>1, <2>1, <2>2, PutSeen, ContentsGrow
<1> QED
  BY <1>2, <1>3, <1>4, <1>5, <1>6, <1>7, <1>8 DEF ControllerStep

\* An I/O error.
LEMMA IoErrorSafe ==
  ASSUME TypeOK, MethodInv, SeenInv, IoError, UNCHANGED sessionvars
  PROVE  MethodInv' /\ SeenInv' /\ LineInv'
<1>1. /\ pc \notin {"idle", "done"} /\ pc' = "done" /\ result' = "err"
      /\ UNCHANGED << op, mem, seen, stage, task, connected, calls >>
  BY DEF IoError, Finish, controller, history, sessionvars
<1> QED BY <1>1, LineAtFailure DEF MethodInv, SeenInv

\* Every step of the environment.
LEMMA EnvironmentSafe ==
  ASSUME TypeOK, MethodInv, SeenInv, LineInv, Environment
  PROVE  MethodInv' /\ SeenInv' /\ LineInv'
<1>1. CASE IoError
  BY <1>1, IoErrorSafe DEF Environment
<1>2. CASE SendSync \/ ControllerStep \/ Fallback \/ Lose \/ Change
  <2>1. Outside
    BY <1>2
    DEF Environment, Outside, SendSync, ControllerStep, Fallback, Lose, Change, ReceiveReset,
        ReceiveStart, ReceiveRead, ReceiveWrite, Ignore, Refuse, AnswerNack, DisturbRead
  <2>2. MethodInv'
    BY <2>1 DEF Outside, MethodInv, client, sessionvars
  <2> QED BY <1>2, <2>1, <2>2, OutsideSafe
<1> QED BY <1>1, <1>2 DEF Environment, EnvironmentStep

-----------------------------------------------------------------------------
(* The invariant holds *)

\* A session begins with a negotiation.
LEMMA InitSafe == Init => SafeInv
<1> SUFFICES ASSUME Init PROVE SafeInv
  OBVIOUS
<1>1. pc = "reset" /\ stage = "detect" /\ ~connected /\ op.kind = "negotiate"
  BY DEF Init, Operation
<1>2. LineInv
  BY <1>1 DEF LineInv, AtSync, AtStarted, AtWrite, AtStatus, AtLeadin, AtLength, AtBody, AtEnd,
              AtReady
<1> QED BY <1>1, <1>2, InitType DEF SafeInv, MethodInv, SeenInv

\* Every step of an orderly session keeps the invariant.
LEMMA NextSafe == Orderly /\ SafeInv /\ F0Answered /\ [Next]_vars => SafeInv'
<1> SUFFICES ASSUME Orderly, SafeInv, F0Answered, [Next]_vars PROVE SafeInv'
  OBVIOUS
<1> USE DEF SafeInv
<1>1. TypeOK'
  BY NextType
<1>2. ~Latency /\ ~Cancel
  BY DEF Orderly, Cancel, Happens
<1>3. CASE UNCHANGED vars
  <2>1. UNCHANGED client /\ UNCHANGED sessionvars /\ UNCHANGED line
        /\ UNCHANGED << op, mem, seen, applied >>
    BY <1>3 DEF vars, vs2vars, client, controller, history
  <2>2. MethodInv' /\ SeenInv'
    BY <2>1 DEF MethodInv, SeenInv, client, sessionvars
  <2>3. seen \subseteq seen' /\ Outside
    BY <2>1 DEF Outside
  <2> QED BY <1>1, <2>1, <2>2, <2>3, ContentsGrow
<1>4. CASE Method
  BY <1>1, <1>4, DetectedSafe, DeviceIdReadSafe, DeviceIdF0ReadSafe, RenegotiatedSafe,
     ReinitializeSafe, CommandReturnsSafe DEF Method
<1> QED
  BY <1>1, <1>2, <1>3, <1>4, ProgressSafe, EnvironmentSafe, CallerSafe, ReinitializeSafe
  DEF Next

\* The invariant implies what a session promises its caller.
LEMMA Promises == SafeInv => AnswerIsCurrent /\ WriteTookEffect /\ NoLateWrite
<1> SUFFICES ASSUME SafeInv PROVE AnswerIsCurrent /\ WriteTookEffect /\ NoLateWrite
  OBVIOUS
<1>1. pc = "done" /\ result = "ok" =>
        /\ LineQuiet
        /\ op.kind = "get" => buf \in seen
        /\ op.kind = "set" => applied
  BY DEF SafeInv, LineInv, AtEnd
<1>2. LineQuiet => Writes = {}
  BY MessageKinds DEF LineQuiet, Sent, Writes
<1> QED BY <1>1, <1>2 DEF AnswerIsCurrent, WriteTookEffect, NoLateWrite, Succeeds

\* After a call or a connect that succeeded the line is quiet.
LEMMA PromisesQuiet == SafeInv => Quiet
<1>1. LineQuiet => /\ \A i \in 1..Len(rx) : rx[i] = SYNC
                   /\ \A i \in 1..Len(tx) : tx[i].m # "telegram"
  BY MessageKinds DEF LineQuiet, Syncs, Sent
<1> QED BY <1>1 DEF SafeInv, MethodInv, LineInv, AtReady, Quiet

\* A session whose connect could read DEVICE_ID_F0 keeps the invariant.
LEMMA Safe == ASSUME Orderly PROVE Spec /\ []F0Answered => []SafeInv
<1>1. SafeInv /\ F0Answered /\ [Next]_vars => SafeInv'
  BY NextSafe
<1> QED BY InitSafe, <1>1, PTL DEF Spec

-----------------------------------------------------------------------------
(* What a session promises its caller *)

\* VControl::get never returns what an earlier, failed call left on the line: a get that
\* succeeds returns a content its address had while it ran.
THEOREM AnswersAreCurrent == ASSUME Orderly PROVE Spec /\ []F0Answered => []AnswerIsCurrent
  BY Safe, Promises, PTL

\* VControl::set does not return Ok unless the controller's memory was written by this very
\* call.
THEOREM WritesTakeEffect == ASSUME Orderly PROVE Spec /\ []F0Answered => []WriteTookEffect
  BY Safe, Promises, PTL

\* When VControl::get or VControl::set returns Ok, no write of an earlier call is under way
\* to the controller any more.
THEOREM WritesAreNotLate == ASSUME Orderly PROVE Spec /\ []F0Answered => []NoLateWrite
  BY Safe, Promises, PTL

\* VControl keeps `connected` only while nothing but SYNC is on the line: the next call
\* may send its telegram without a negotiation.
THEOREM ConnectedIsQuiet == ASSUME Orderly PROVE Spec /\ []F0Answered => []Quiet
  BY Safe, PromisesQuiet, PTL


-----------------------------------------------------------------------------
(* The registers as the session implements them: the substitution of       *)
(* SessionRefinement under names                                           *)

Running == stage = "command"
Returned == stage = "ready" /\ calls > 0

Status == IF Running THEN "running" ELSE IF stage \in Calling THEN "waiting" ELSE "idle"
TheCall == [kind |-> task.kind, addr |-> task.addr, data |-> task.data, id |-> calls]
Outcome == IF Returned THEN result ELSE "none"
Answer == IF Returned THEN buf ELSE NoData
SeenNow == IF Running THEN seen ELSE {}
AppliedNow == Running /\ applied

\* What is left of a write telegram.
WriteOf(m) == [addr |-> m.addr, data |-> m.data, id |-> m.id]

LateWrites == {WriteOf(tx[i]) : i \in {j \in Writes : IsLate(j)}}

RegPut(a, v) ==
  /\ mem' = [mem EXCEPT ![a] = v]
  /\ SeenNow' = IF Status = "running" /\ TheCall.kind = "get" /\ TheCall.addr = a
                  THEN SeenNow \cup {v} ELSE SeenNow

\* The command begins to run.
RegRun ==
  /\ Status' = "running"
  /\ SeenNow' = IF TheCall'.kind = "get" THEN {mem[TheCall'.addr]} ELSE {}

RegEnd(how) ==
  /\ Status' = "idle" /\ Outcome' = how
  /\ SeenNow' = {} /\ AppliedNow' = FALSE
  /\ UNCHANGED << mem, TheCall >>

\* Nothing happens.
LEMMA Stutters ==
  ASSUME UNCHANGED << mem, Status, TheCall, Outcome, Answer, SeenNow, AppliedNow, LateWrites >>
  PROVE  UNCHANGED Register!regvars
  BY DEF Register!regvars, Status, TheCall, Outcome, Answer, SeenNow, AppliedNow, LateWrites,
         Running, Returned, WriteOf

\* The steps of RemoteRegister.
LEMMA Invokes ==
  ASSUME Status = "idle", calls < MaxCalls,
         TheCall' \in [kind : {"get", "set"}, addr : Addr, data : Val \cup {NoData},
                       id : 0..MaxCalls],
         calls' = calls + 1,
         task'.kind = "get" => task'.data = NoData,
         task'.kind = "set" => task'.addr \notin Constant /\ task'.data \in Val,
         Outcome' = "none", Answer' = NoData,
         (Status' = "waiting" /\ UNCHANGED SeenNow) \/ RegRun,
         UNCHANGED << mem, AppliedNow, LateWrites >>
  PROVE  Register!RegNext
<1>1. Register!Invoke
  BY DEF Register!Invoke, Register!Run, Register!CallType, Register!NoVal, RegRun, NoData,
         Status, TheCall, Outcome, Answer, SeenNow, AppliedNow, LateWrites,
         Running, Returned, WriteOf
<1> QED BY <1>1 DEF Register!RegNext

\* The connection of a waiting call is up, and its command begins to run.
LEMMA Connects ==
  ASSUME Status = "waiting", RegRun,
         UNCHANGED << mem, TheCall, Outcome, Answer, AppliedNow, LateWrites >>
  PROVE  Register!RegNext
<1>1. Register!Connected
  BY DEF Register!Connected, Register!Run, RegRun,
         Status, TheCall, Outcome, Answer, SeenNow, AppliedNow, LateWrites,
         Running, Returned, WriteOf
<1> QED BY <1>1 DEF Register!RegNext

\* The controller carries out the write of the running set.
LEMMA Applies ==
  ASSUME Status = "running", task.kind = "set", LateWrites = {},
         RegPut(task.addr, task.data), AppliedNow' = TRUE,
         UNCHANGED << Status, TheCall, Outcome, Answer, LateWrites >>
  PROVE  Register!RegNext
<1>1. Register!Apply
  BY DEF Register!Apply, Register!Put, RegPut,
         Status, TheCall, Outcome, Answer, SeenNow, AppliedNow, LateWrites,
         Running, Returned, WriteOf
<1> QED BY <1>1 DEF Register!RegNext

\* The controller carries out the write of an earlier, failed set.
LEMMA AppliesLate ==
  ASSUME NEW w \in LateWrites, RegPut(w.addr, w.data), LateWrites' = LateWrites \ {w},
         UNCHANGED << Status, TheCall, Outcome, Answer, AppliedNow >>
  PROVE  Register!RegNext
<1>1. Register!ApplyLate
  BY DEF Register!ApplyLate, Register!Put, RegPut,
         Status, TheCall, Outcome, Answer, SeenNow, AppliedNow, LateWrites,
         Running, Returned, WriteOf
<1> QED BY <1>1 DEF Register!RegNext

\* A late write is lost, or discarded by a negotiation.
LEMMA Forgets ==
  ASSUME NEW w \in LateWrites, LateWrites' = LateWrites \ {w},
         UNCHANGED << mem, Status, TheCall, Outcome, Answer, SeenNow, AppliedNow >>
  PROVE  Register!RegNext
<1>1. Register!Forget
  BY DEF Register!Forget,
         Status, TheCall, Outcome, Answer, SeenNow, AppliedNow, LateWrites,
         Running, Returned, WriteOf
<1> QED BY <1>1 DEF Register!RegNext

\* The controller changes the content of an address on its own.
LEMMA Varies ==
  ASSUME NEW a \in Addr \ Constant, NEW v \in Val, RegPut(a, v),
         UNCHANGED << Status, TheCall, Outcome, Answer, AppliedNow, LateWrites >>
  PROVE  Register!RegNext
<1>1. Register!Vary
  BY DEF Register!Vary, Register!Put, RegPut,
         Status, TheCall, Outcome, Answer, SeenNow, AppliedNow, LateWrites,
         Running, Returned, WriteOf
<1> QED BY <1>1 DEF Register!RegNext

\* A get or set returns with success: Vs2 has carried it out.
LEMMA Succeeded ==
  ASSUME Status = "running", LateWrites = {},
         \/ task.kind = "get" /\ Answer' \in SeenNow
         \/ task.kind = "set" /\ AppliedNow /\ Answer' = NoData,
         RegEnd("ok"), UNCHANGED LateWrites
  PROVE  Register!RegNext
<1>1. Register!Succeed
  BY DEF Register!Succeed, Register!End, Register!NoVal, RegEnd, NoData,
         Status, TheCall, Outcome, Answer, SeenNow, AppliedNow, LateWrites,
         Running, Returned, WriteOf
<1> QED BY <1>1 DEF Register!RegNext

\* A get or set returns an error; its write may be under way.
LEMMA Failed ==
  ASSUME Status # "idle", Answer' = NoData,
         \/ UNCHANGED LateWrites
         \/ task.kind = "set" /\ LateWrites' = LateWrites \cup {WriteOf(TheCall)},
         RegEnd("err")
  PROVE  Register!RegNext
<1>1. Register!Fail
  BY DEF Register!Fail, Register!End, Register!NoVal, Register!Write, RegEnd, NoData,
         Status, TheCall, Outcome, Answer, SeenNow, AppliedNow, LateWrites,
         Running, Returned, WriteOf
<1> QED BY <1>1 DEF Register!RegNext

-----------------------------------------------------------------------------
(* What the mapping needs besides the safety of the session *)

\* At most one telegram is under way.
Single(s) ==
  \A i, j \in 1..Len(s) : s[i].m = "telegram" /\ s[j].m = "telegram" => i = j

\* While a command runs it is the command's own.
OwnTelegram == Running => \A i \in 1..Len(tx) : tx[i].m = "telegram" => tx[i] = Request(op)

\* Only a get that succeeded has returned bytes.
OutcomeInv ==
  /\ pc \notin {"idle", "done"} => buf = NoData
  /\ buf # NoData => result = "ok" /\ op.kind = "get"
  /\ pc = "done" => result \in {"ok", "err"}
  /\ stage = "reinitialize" => pc = "done" /\ result = "err"
  /\ stage \in Calling => calls > 0
  /\ stage \in Connecting => calls = 0

RefInv == Single(tx) /\ OwnTelegram /\ OutcomeInv

-----------------------------------------------------------------------------
(* Writes on the line *)

IsWrite(m) == m.m = "telegram" /\ m.fn = VirtualWrite

\* The writes among the messages s.
Pending(s) == {WriteOf(s[i]) : i \in {j \in 1..Len(s) : IsWrite(s[j])}}

\* While a command runs no write is late, otherwise every one is.
LEMMA LateNow ==
  /\ Running /\ OwnTelegram => LateWrites = {}
  /\ ~Running => LateWrites = Pending(tx)
<1>1. ASSUME Running, OwnTelegram, NEW i \in Writes PROVE ~IsLate(i)
  <2>1. tx[i] = Request(op)
    BY <1>1 DEF OwnTelegram, Writes
  <2> QED BY <1>1, <2>1, MessageKinds DEF IsLate, Running
<1>2. ~Running => \A i : IsLate(i)
  BY DEF Running, IsLate
<1> QED BY <1>1, <1>2 DEF LateWrites, Pending, IsWrite, Writes

\* The same after a step.
LEMMA LateThen ==
  /\ Running' /\ OwnTelegram' => LateWrites' = {}
  /\ ~Running' => LateWrites' = Pending(tx')
<1>1. ASSUME Running', OwnTelegram', NEW i \in Writes' PROVE ~IsLate(i)'
  <2>1. tx'[i] = Request(op')
    BY <1>1 DEF OwnTelegram, Writes
  <2> QED BY <1>1, <2>1, MessageKinds DEF IsLate, Running
<1>2. ~Running' => \A i : IsLate(i)'
  BY DEF Running, IsLate
<1> QED BY <1>1, <1>2 DEF LateWrites, Pending, IsWrite, Writes

\* A message more.
LEMMA PendingAppend ==
  ASSUME NEW s \in Seq(Messages), NEW m \in Messages
  PROVE  Pending(Append(s, m)) = IF IsWrite(m) THEN Pending(s) \cup {WriteOf(m)} ELSE Pending(s)
<1> DEFINE t == Append(s, m)
           n == Len(s)
<1>1. n \in Nat /\ Len(t) = n + 1 /\ t[n + 1] = m /\ \A i \in 1..n : t[i] = s[i]
  OBVIOUS
<1> HIDE DEF t
<1>2. \A i : i \in 1..(n + 1) <=> i \in 1..n \/ i = n + 1
  BY <1>1
<1>3. ASSUME NEW w PROVE w \in Pending(t) <=> w \in Pending(s) \/ (IsWrite(m) /\ w = WriteOf(m))
  <2>1. w \in Pending(t) <=> \E i \in 1..(n + 1) : IsWrite(t[i]) /\ w = WriteOf(t[i])
    BY <1>1 DEF Pending
  <2>2. w \in Pending(s) <=> \E i \in 1..n : IsWrite(s[i]) /\ w = WriteOf(s[i])
    BY DEF Pending
  <2> HIDE DEF n
  <2> QED BY <1>1, <1>2, <2>1, <2>2
<1> QED BY <1>3 DEF t

\* A message less, of messages with at most one telegram.
LEMMA PendingTail ==
  ASSUME NEW s \in Seq(Messages), s # << >>, Single(s)
  PROVE  /\ Single(Tail(s))
         /\ Head(s).m # "telegram" => Pending(Tail(s)) = Pending(s)
         /\ Head(s).m = "telegram" =>
              /\ Pending(Tail(s)) = {}
              /\ Pending(s) = IF IsWrite(Head(s)) THEN {WriteOf(Head(s))} ELSE {}
<1> DEFINE t == Tail(s)
           n == Len(s) - 1
<1>1. n \in Nat /\ Len(s) = n + 1 /\ Len(t) = n /\ s[1] = Head(s) /\ \A i \in 1..n : t[i] = s[i + 1]
  OBVIOUS
<1> HIDE DEF t, n
<1>2. \A i \in 1..n : i + 1 \in 1..(n + 1) /\ i + 1 # 1
  BY <1>1
<1>3. \A i \in 1..(n + 1) : i = 1 \/ \E j \in 1..n : i = j + 1
  <2>1. \A i \in 1..(n + 1) : i = 1 \/ (i - 1 \in 1..n /\ i = (i - 1) + 1)
    BY <1>1
  <2> QED BY <2>1
<1>4. 1 \in 1..(n + 1)
  BY <1>1
<1>5. Single(t)
  <2>1. ASSUME NEW i \in 1..n, NEW j \in 1..n, t[i].m = "telegram", t[j].m = "telegram"
        PROVE  i = j
    <3>1. i + 1 = j + 1
      BY <1>1, <1>2, <2>1 DEF Single
    <3> QED BY <3>1
  <2> QED BY <1>1, <2>1 DEF Single
<1>6. ASSUME NEW w
      PROVE  w \in Pending(s) <=> w \in Pending(t) \/ (IsWrite(Head(s)) /\ w = WriteOf(Head(s)))
  <2>1. w \in Pending(s) <=> \E i \in 1..(n + 1) : IsWrite(s[i]) /\ w = WriteOf(s[i])
    BY <1>1 DEF Pending
  <2>2. w \in Pending(t) <=> \E i \in 1..n : IsWrite(t[i]) /\ w = WriteOf(t[i])
    BY <1>1 DEF Pending
  <2>3. w \in Pending(t) <=> \E i \in 1..n : IsWrite(s[i + 1]) /\ w = WriteOf(s[i + 1])
    BY <1>1, <2>2
  <2> QED BY <1>1, <1>2, <1>3, <1>4, <2>1, <2>3
<1>7. ASSUME Head(s).m = "telegram" PROVE Pending(t) = {}
  <2>1. \A i \in 1..n : s[i + 1].m # "telegram"
    BY <1>1, <1>2, <1>4, <1>7 DEF Single
  <2> QED BY <1>1, <2>1 DEF Pending, IsWrite
<1>8. Head(s).m # "telegram" => ~IsWrite(Head(s))
  BY DEF IsWrite
<1> QED BY <1>5, <1>6, <1>7, <1>8 DEF t

\* A quiet line holds no telegram.
LEMMA QuietHolds ==
  ASSUME LineQuiet
  PROVE  Single(tx) /\ Pending(tx) = {} /\ \A i \in 1..Len(tx) : tx[i].m # "telegram"
<1>1. \A i \in 1..Len(tx) : tx[i].m # "telegram"
  BY MessageKinds DEF LineQuiet, Sent
<1> QED BY <1>1 DEF Single, Pending, IsWrite

\* Behind a message that is put on the line.
LEMMA SingleAppend ==
  ASSUME NEW s \in Seq(Messages), NEW m \in Messages,
         Single(s), m.m # "telegram" \/ \A i \in 1..Len(s) : s[i].m # "telegram"
  PROVE  Single(Append(s, m))
<1> DEFINE t == Append(s, m)
           n == Len(s)
<1>1. n \in Nat /\ Len(t) = n + 1 /\ t[n + 1] = m /\ \A i \in 1..n : t[i] = s[i]
  OBVIOUS
<1>2. \A i \in 1..n, j \in 1..n : s[i].m = "telegram" /\ s[j].m = "telegram" => i = j
  BY DEF Single
<1>3. m.m # "telegram" \/ \A i \in 1..n : s[i].m # "telegram"
  OBVIOUS
<1> HIDE DEF t, n
<1>4. \A i \in 1..(n + 1) : i = n + 1 \/ i \in 1..n
  BY <1>1, LastIndex
<1>5. \A i, j \in 1..(n + 1) : t[i].m = "telegram" /\ t[j].m = "telegram" => i = j
  BY <1>1, <1>2, <1>3, <1>4
<1>6. Single(t)
  BY <1>1, <1>5 DEF Single
<1> QED BY <1>6 DEF t

-----------------------------------------------------------------------------
(* Steps of the client *)

\* What the client puts on the line: its request, which is late for nobody as long as the
\* command runs, or a control byte.
LEMMA ClientWrites ==
  ASSUME TypeOK, MethodInv, LineInv, RefInv, UNCHANGED << op, stage >>,
         \/ UNCHANGED tx
         \/ pc = "write" /\ tx' = Append(tx, Request(op))
         \/ \E m \in {"RESET", "START", "ACK", "NACK"} : tx' = Append(tx, Control(m))
  PROVE  Single(tx') /\ OwnTelegram' /\ LateWrites' = LateWrites
<1>1. tx \in Seq(Messages) /\ Single(tx) /\ OwnTelegram
  BY DEF TypeOK, LineOK, RefInv
<1>2. Running' = Running
  BY DEF Running
<1>3. ASSUME Single(tx'), OwnTelegram', Running \/ Pending(tx') = Pending(tx)
      PROVE  LateWrites' = LateWrites
  BY <1>1, <1>2, <1>3, LateNow, LateThen
<1>4. CASE UNCHANGED tx
  <2>1. OwnTelegram'
    BY <1>1, <1>2, <1>4 DEF OwnTelegram
  <2> QED BY <1>1, <1>3, <1>4, <2>1
<1>5. ASSUME NEW m \in {"RESET", "START", "ACK", "NACK"}, tx' = Append(tx, Control(m))
      PROVE  Single(tx') /\ OwnTelegram' /\ LateWrites' = LateWrites
  <2>1. Control(m) \in Messages /\ Control(m).m # "telegram"
    BY ControlIsMessage, MessageKinds
  <2>2. Single(tx') /\ Pending(tx') = Pending(tx)
    BY <1>1, <1>5, <2>1, SingleAppend, PendingAppend DEF IsWrite
  <2>3. OwnTelegram'
    <3> SUFFICES ASSUME Running, NEW i \in 1..Len(tx'), tx'[i].m = "telegram"
                 PROVE  tx'[i] = Request(op)
      BY <1>2 DEF OwnTelegram
    <3>1. tx'[i] = Control(m) \/ (i \in 1..Len(tx) /\ tx'[i] = tx[i])
      BY <1>1, <1>5
    <3> QED BY <1>1, <2>1, <3>1 DEF OwnTelegram
  <2> QED BY <1>3, <2>2, <2>3
<1>6. CASE pc = "write" /\ tx' = Append(tx, Request(op))
  <2>1. LineQuiet
    BY <1>6 DEF LineInv, AtWrite
  <2>2. \A i \in 1..Len(tx) : tx[i].m # "telegram"
    BY <2>1, QuietHolds
  <2>3. Request(op) \in Messages
    BY <1>6, RequestIsMessage DEF TypeOK, ClientOK
  <2>4. Single(tx')
    BY <1>1, <1>6, <2>2, <2>3, SingleAppend
  <2>5. OwnTelegram'
    <3> SUFFICES ASSUME Running, NEW i \in 1..Len(tx'), tx'[i].m = "telegram"
                 PROVE  tx'[i] = Request(op)
      BY <1>2 DEF OwnTelegram
    <3>1. tx'[i] = Request(op) \/ (i \in 1..Len(tx) /\ tx'[i] = tx[i])
      BY <1>1, <1>6, <2>3
    <3> QED BY <2>2, <3>1
  <2>6. Running \/ Pending(tx') = Pending(tx)
    <3> SUFFICES ASSUME ~Running PROVE Pending(tx') = Pending(tx)
      OBVIOUS
    <3>1. op.kind = "get"
      <4>1. stage \in {"detect", "negotiate", "reinitialize", "device_id", "device_id_f0",
                       "ready", "failed", "vs1"}
        BY DEF TypeOK, MethodOK, Stages, Connecting, Calling, Over, Running
      <4>2. op.kind # "negotiate"
        BY <1>6 DEF TypeOK, ClientOK
      <4> QED BY <1>6, <4>1, <4>2 DEF MethodInv
    <3>2. ~IsWrite(Request(op))
      BY <3>1, MessageKinds DEF IsWrite, FunctionOf, VirtualRead, VirtualWrite
    <3> QED BY <1>1, <1>6, <2>3, <3>2, PendingAppend
  <2> QED BY <1>3, <2>4, <2>5, <2>6
<1> QED BY <1>4, <1>5, <1>6

\* A step of the client, or an I/O error of one.
ClientActs == Progress \/ (IoError /\ UNCHANGED sessionvars)

\* What such a step leaves alone, and what it writes.
LEMMA ClientFrame ==
  ASSUME ClientActs
  PROVE  /\ UNCHANGED << op, stage, task, connected, calls, mem, seen, applied >>
         /\ pc \notin {"idle", "done"} /\ pc' # "idle"
         /\ \/ UNCHANGED tx
            \/ pc = "write" /\ tx' = Append(tx, Request(op))
            \/ \E m \in {"RESET", "START", "ACK", "NACK"} : tx' = Append(tx, Control(m))
<1>1. CASE ClientStep /\ UNCHANGED sessionvars
  <2>1. UNCHANGED << op, stage, task, connected, calls, mem, seen, applied >>
    BY <1>1 DEF ClientStep, WriteTelegram, ReadStatus, Reset, AwaitSync, WriteStart,
       ReadStartStatus, ReadLeadin, ReadLength, ReadBody, controller, history, sessionvars
  <2>2. pc \notin {"idle", "done"} /\ pc' # "idle"
    BY <1>1 DEF ClientStep, WriteTelegram, ReadStatus, Reset, AwaitSync, WriteStart,
       ReadStartStatus, ReadLeadin, ReadLength, ReadBody, Finish
  <2>3. ReadBody => \E m \in {"RESET", "START", "ACK", "NACK"} : tx' = Append(tx, Control(m))
    BY DEF ReadBody
  <2>4. ClientStep /\ ~ReadBody =>
          \/ UNCHANGED tx
          \/ pc = "write" /\ tx' = Append(tx, Request(op))
          \/ \E m \in {"RESET", "START", "ACK", "NACK"} : tx' = Append(tx, Control(m))
    BY DEF ClientStep, WriteTelegram, ReadStatus, Reset, AwaitSync, WriteStart,
       ReadStartStatus, ReadLeadin, ReadLength
  <2> QED BY <1>1, <2>1, <2>2, <2>3, <2>4
<1>2. CASE IoError /\ UNCHANGED sessionvars
  <2>1. /\ UNCHANGED << op, stage, task, connected, calls, mem, seen, applied >>
        /\ pc \notin {"idle", "done"} /\ pc' # "idle"
    BY <1>2 DEF IoError, Finish, controller, history, sessionvars
  <2>2. \/ UNCHANGED tx
        \/ pc = "write" /\ tx' = Append(tx, Request(op))
        \/ \E m \in {"RESET", "START", "ACK", "NACK"} : tx' = Append(tx, Control(m))
    BY <1>2 DEF IoError, Flushed
  <2> QED BY <2>1, <2>2
<1> QED BY <1>1, <1>2 DEF ClientActs, Progress

\* Only ReadBody returns bytes.
LEMMA ClientReturns ==
  ASSUME OutcomeInv, MethodInv, ClientActs PROVE OutcomeInv'
<1>1. buf = NoData
  BY ClientFrame DEF OutcomeInv
<1>2. stage # "reinitialize" /\ UNCHANGED << op, stage, calls >>
  BY ClientFrame DEF OutcomeInv
<1>3. buf' # NoData => pc' = "done" /\ result' = "ok" /\ op.kind = "get"
  BY <1>1 DEF ClientActs, Progress, ClientStep, WriteTelegram, ReadStatus, Reset, AwaitSync,
     WriteStart, ReadStartStatus, ReadLeadin, ReadLength, ReadBody, IoError, Finish
<1>4. pc' = "done" => result' \in {"ok", "err"}
  BY ClientFrame DEF ClientActs, Progress, ClientStep, WriteTelegram, ReadStatus, Reset, AwaitSync,
     WriteStart, ReadStartStatus, ReadLeadin, ReadLength, ReadBody, IoError, Finish
<1> QED BY <1>2, <1>3, <1>4 DEF OutcomeInv

\* RemoteRegister sees none of it.
LEMMA ClientImplements ==
  ASSUME TypeOK, MethodInv, LineInv, RefInv, ClientActs
  PROVE  RefInv' /\ UNCHANGED Register!regvars
<1>1. Single(tx') /\ OwnTelegram' /\ LateWrites' = LateWrites
  BY ClientFrame, ClientWrites
<1>2. OutcomeInv'
  BY ClientReturns DEF RefInv
<1>3. UNCHANGED << op, stage, task, calls, mem, seen, applied >> /\ stage # "ready"
  BY ClientFrame DEF MethodInv
<1>4. UNCHANGED << mem, Status, TheCall, Outcome, Answer, SeenNow, AppliedNow >>
  BY <1>3 DEF Status, TheCall, Outcome, Answer, SeenNow, AppliedNow, Running, Returned
<1>5. UNCHANGED Register!regvars
  BY <1>1, <1>4, Stutters
<1> QED BY <1>1, <1>2, <1>5 DEF RefInv

-----------------------------------------------------------------------------
(* Steps of the controller and the line *)

\* Of the session only the line and the contents change.
LEMMA OutsideFrame ==
  ASSUME Outside, OutcomeInv
  PROVE  /\ UNCHANGED << op, stage, task, calls >>
         /\ UNCHANGED << Status, TheCall, Outcome, Answer >>
         /\ Running' = Running /\ OutcomeInv'
<1>1. UNCHANGED << pc, op, result, buf, stage, task, calls >>
  BY DEF Outside, client, sessionvars
<1> QED BY <1>1 DEF Status, TheCall, Outcome, Answer, Running, Returned, OutcomeInv

\* The messages on the line, before and after the first is taken.
LEMMA LateTaken ==
  ASSUME TypeOK, RefInv, Outside, tx # << >>, tx' = Tail(tx)
  PROVE  /\ RefInv'
         /\ IF ~Running /\ IsWrite(Head(tx))
              THEN LateWrites = {WriteOf(Head(tx))} /\ LateWrites' = {}
              ELSE LateWrites' = LateWrites
<1>1. tx \in Seq(Messages) /\ Single(tx) /\ OwnTelegram /\ OutcomeInv
  BY DEF TypeOK, LineOK, RefInv
<1>2. Running' = Running /\ OutcomeInv' /\ op' = op
  BY <1>1, OutsideFrame
<1>3. OwnTelegram'
  <2> SUFFICES ASSUME Running, NEW i \in 1..Len(tx'), tx'[i].m = "telegram"
               PROVE  tx'[i] = Request(op)
    BY <1>2 DEF OwnTelegram
  <2>1. i + 1 \in 1..Len(tx) /\ tx'[i] = tx[i + 1]
    BY <1>1
  <2> QED BY <1>1, <2>1 DEF OwnTelegram
<1>4. Single(tx')
  BY <1>1, PendingTail
<1>5. CASE Running
  BY <1>1, <1>2, <1>3, <1>4, <1>5, LateNow, LateThen DEF RefInv
<1>6. CASE ~Running
  <2>1. LateWrites = Pending(tx) /\ LateWrites' = Pending(tx')
    BY <1>2, <1>6, LateNow, LateThen
  <2>2. IsWrite(Head(tx)) => Head(tx).m = "telegram"
    BY DEF IsWrite
  <2>3. IF IsWrite(Head(tx)) THEN Pending(tx) = {WriteOf(Head(tx))} /\ Pending(tx') = {}
                             ELSE Pending(tx') = Pending(tx)
    BY <1>1, <2>2, PendingTail
  <2> QED BY <1>2, <1>3, <1>4, <1>6, <2>1, <2>3 DEF RefInv
<1> QED BY <1>5, <1>6

\* A message is taken from the line and no content changes: either RemoteRegister sees
\* nothing or a late write is forgotten.
LEMMA TakenImplements ==
  ASSUME TypeOK, RefInv, Outside, tx # << >>, tx' = Tail(tx), UNCHANGED << mem, seen, applied >>
  PROVE  RefInv' /\ (Register!RegNext \/ UNCHANGED Register!regvars)
<1>1. OutcomeInv
  BY DEF RefInv
<1>2. UNCHANGED << Status, TheCall, Outcome, Answer >> /\ Running' = Running
  BY <1>1, OutsideFrame
<1>3. UNCHANGED << mem, SeenNow, AppliedNow >>
  BY <1>2 DEF SeenNow, AppliedNow
<1>4. CASE ~Running /\ IsWrite(Head(tx))
  <2>1. RefInv' /\ WriteOf(Head(tx)) \in LateWrites
        /\ LateWrites' = LateWrites \ {WriteOf(Head(tx))}
    BY <1>4, LateTaken
  <2> QED BY <1>2, <1>3, <2>1, Forgets
<1>5. CASE ~(~Running /\ IsWrite(Head(tx)))
  <2>1. RefInv' /\ LateWrites' = LateWrites
    BY <1>5, LateTaken
  <2> QED BY <1>2, <1>3, <2>1, Stutters
<1> QED BY <1>4, <1>5

\* Put is that of RemoteRegister.
LEMMA PutImplements ==
  ASSUME MethodInv, Outside, NEW a, NEW v, Put(a, v) PROVE RegPut(a, v)
<1>1. Running' = Running
  BY DEF Outside, sessionvars, Running
<1>2. Running => op.kind = task.kind /\ op.addr = task.addr
  BY DEF MethodInv, Operation, Running
<1>3. mem' = [mem EXCEPT ![a] = v]
      /\ seen' = IF op.kind = "get" /\ op.addr = a THEN seen \cup {v} ELSE seen
  BY DEF Put
<1> QED BY <1>1, <1>2, <1>3 DEF RegPut, SeenNow, Status, TheCall

\* A write takes effect: that of the running set, or a late one.
LEMMA ReceiveWriteImplements ==
  ASSUME TypeOK, MethodInv, RefInv, Outside, ReceiveWrite
  PROVE  RefInv' /\ Register!RegNext
<1> DEFINE w == Head(tx)
<1>1. /\ tx # << >> /\ tx' = Tail(tx) /\ IsWrite(w) /\ Put(w.addr, w.data)
      /\ applied' = (applied \/ (op.kind = "set" /\ w.id = op.id))
  BY DEF ReceiveWrite, Receives, IsWrite
<1>2. OutcomeInv
  BY DEF RefInv
<1>3. UNCHANGED << Status, TheCall, Outcome, Answer >> /\ Running' = Running
  BY <1>2, OutsideFrame
<1>4. RegPut(w.addr, w.data)
  BY <1>1, PutImplements
<1>5. CASE Running
  <2>1. RefInv' /\ LateWrites' = LateWrites
    BY <1>1, <1>5, LateTaken
  <2>2. LateWrites = {}
    BY <1>5, LateNow DEF RefInv
  <2>3. w = Request(op)
    <3>1. 1 \in 1..Len(tx) /\ w = tx[1]
      BY <1>1 DEF TypeOK, LineOK
    <3> QED BY <1>1, <1>5, <3>1 DEF RefInv, OwnTelegram, IsWrite
  <2>4. op = Operation(task.kind, task.addr, task.data, calls)
    BY <1>5 DEF MethodInv, Running
  <2>5. w.addr = task.addr /\ w.data = task.data /\ w.id = op.id /\ op.kind = task.kind
    BY <2>3, <2>4, MessageKinds DEF Operation
  <2>6. op.kind = "set"
    <3>1. FunctionOf(op) = VirtualWrite
      BY <1>1, <2>3, MessageKinds DEF IsWrite
    <3>2. VirtualRead # VirtualWrite
      BY DEF VirtualRead, VirtualWrite
    <3> QED BY <2>5, <3>1, <3>2 DEF FunctionOf, TypeOK, MethodOK, Tasks
  <2>7. Status = "running" /\ task.kind = "set" /\ AppliedNow' = TRUE
    BY <1>1, <1>3, <1>5, <2>5, <2>6 DEF Status, AppliedNow
  <2> QED BY <1>3, <1>4, <2>1, <2>2, <2>5, <2>7, Applies
<1>6. CASE ~Running
  <2>1. RefInv' /\ WriteOf(w) \in LateWrites /\ LateWrites' = LateWrites \ {WriteOf(w)}
    BY <1>1, <1>6, LateTaken
  <2>2. UNCHANGED AppliedNow
    BY <1>3, <1>6 DEF AppliedNow
  <2>3. WriteOf(w).addr = w.addr /\ WriteOf(w).data = w.data
    BY DEF WriteOf
  <2> QED BY <1>3, <1>4, <2>1, <2>2, <2>3, AppliesLate
<1> QED BY <1>5, <1>6

\* Nothing is taken from the line.
LEMMA UntakenKeeps ==
  ASSUME RefInv, Outside, UNCHANGED tx PROVE RefInv' /\ LateWrites' = LateWrites
<1>1. Single(tx) /\ OwnTelegram /\ OutcomeInv
  BY DEF RefInv
<1>2. Running' = Running /\ OutcomeInv' /\ op' = op
  BY <1>1, OutsideFrame
<1>3. OwnTelegram'
  BY <1>1, <1>2 DEF OwnTelegram
<1> QED BY <1>1, <1>2, <1>3, LateNow, LateThen DEF RefInv

\* Every step of the controller and the line, but for an I/O error.
LEMMA OutsideImplements ==
  ASSUME TypeOK, MethodInv, RefInv, Outside,
         SendSync \/ ControllerStep \/ Fallback \/ Lose \/ Change
  PROVE  RefInv' /\ (Register!RegNext \/ UNCHANGED Register!regvars)
<1>1. OutcomeInv
  BY DEF RefInv
<1>2. UNCHANGED << Status, TheCall, Outcome, Answer >> /\ Running' = Running
  BY <1>1, OutsideFrame
<1>3. CASE SendSync \/ Fallback
  <2>1. UNCHANGED << tx, mem, seen, applied >>
    BY <1>3 DEF SendSync, Fallback, controller, history, line
  <2>2. UNCHANGED << mem, SeenNow, AppliedNow >>
    BY <1>2, <2>1 DEF SeenNow, AppliedNow
  <2> QED BY <1>2, <2>1, <2>2, UntakenKeeps, Stutters
<1>4. CASE \/ ReceiveReset \/ ReceiveStart \/ ReceiveRead \/ Ignore \/ Refuse \/ AnswerNack
           \/ DisturbRead \/ Lose
  <2>1. tx # << >> /\ tx' = Tail(tx) /\ UNCHANGED << mem, seen, applied >>
    BY <1>4 DEF ReceiveReset, ReceiveStart, ReceiveRead, Ignore, Refuse, AnswerNack, DisturbRead,
                Lose, Receives, controller, history
  <2> QED BY <2>1, TakenImplements
<1>5. CASE ReceiveWrite
  BY <1>5, ReceiveWriteImplements
<1>6. CASE Change
  <2>1. UNCHANGED << tx, applied >>
    BY <1>6 DEF Change, line
  <2>2. PICK a \in Addr \ Constant, v \in Val : Put(a, v)
    BY <1>6 DEF Change
  <2>3. RegPut(a, v)
    BY <2>2, PutImplements
  <2>4. UNCHANGED AppliedNow
    BY <1>2, <2>1 DEF AppliedNow
  <2> QED BY <1>2, <2>1, <2>3, <2>4, UntakenKeeps, Varies
<1> QED BY <1>3, <1>4, <1>5, <1>6 DEF ControllerStep

-----------------------------------------------------------------------------
(* The methods of VControl *)

\* The stages, as RemoteRegister sees them.
LEMMA StatusOf ==
  /\ stage \in Connecting \cup Over \cup {"ready"} => ~Running /\ Status = "idle"
  /\ stage \in {"negotiate", "reinitialize"} => ~Running /\ Status = "waiting"
  /\ stage = "command" => Running /\ Status = "running"
  /\ stage' \in Connecting \cup Over \cup {"ready"} => ~Running' /\ Status' = "idle"
  /\ stage' \in {"negotiate", "reinitialize"} => ~Running' /\ Status' = "waiting"
  /\ stage' = "command" => Running' /\ Status' = "running"
  BY DEF Status, Running, Calling, Connecting, Over

\* No command runs before or after: late writes stay late.
LEMMA LateStays ==
  ASSUME RefInv, UNCHANGED tx, ~Running, ~Running'
  PROVE  Single(tx') /\ OwnTelegram' /\ LateWrites' = LateWrites
  BY LateNow, LateThen DEF RefInv, OwnTelegram

\* On a quiet line no write is late, whatever runs.
LEMMA LateOnQuiet ==
  ASSUME RefInv, UNCHANGED tx, LineQuiet
  PROVE  Single(tx') /\ OwnTelegram' /\ LateWrites' = {} /\ LateWrites = {}
<1>1. Single(tx) /\ Pending(tx) = {} /\ \A i \in 1..Len(tx) : tx[i].m # "telegram"
  BY QuietHolds
<1>2. OwnTelegram'
  BY <1>1 DEF OwnTelegram
<1> QED BY <1>1, <1>2, LateNow, LateThen DEF RefInv

\* What BeginX sets.
LEMMA BeginsClean ==
  /\ \A id : BeginNegotiate(id) => pc' = "reset" /\ buf' = NoData
  /\ \A t \in Tasks : \A id :
       BeginTask(t, id) => /\ pc' = "write" /\ buf' = NoData /\ applied' = FALSE
                           /\ seen' = IF t.kind = "get" THEN {mem[t.addr]} ELSE {}
<1>1. \A t \in Tasks : t.kind \in {"get", "set"}
  BY DEF Tasks
<1> QED
  BY <1>1 DEF BeginNegotiate, BeginTask, BeginGet, BeginSet, Begin, Operation

\* The steps of connect are none of RemoteRegister.
LEMMA ConnectImplements ==
  ASSUME TypeOK, MethodInv, LineInv, RefInv, Detected \/ DeviceIdRead \/ DeviceIdF0Read
  PROVE  RefInv' /\ UNCHANGED Register!regvars
<1>1. /\ stage \in Connecting /\ pc = "done" /\ calls = 0
      /\ UNCHANGED << tx, mem, task, calls >>
  BY DEF Detected, DeviceIdRead, DeviceIdF0Read, line, controller, Connecting, RefInv, OutcomeInv
<1>2. \/ /\ stage' \in {"vs1", "failed", "ready"} /\ pc' \in {"idle", "done"}
         /\ UNCHANGED << op, result, buf >>
      \/ stage' \in {"device_id", "device_id_f0"} /\ pc' = "write" /\ buf' = NoData
  BY <1>1 DEF Detected, DeviceIdRead, DeviceIdF0Read, BeginGet, Begin, client
<1>3. ~Running /\ ~Running' /\ Status = "idle" /\ Status' = "idle"
  BY <1>1, <1>2, StatusOf DEF Connecting, Over
<1>4. Single(tx') /\ OwnTelegram' /\ LateWrites' = LateWrites
  BY <1>1, <1>3, LateStays
<1>5. UNCHANGED << mem, Status, TheCall, Outcome, Answer, SeenNow, AppliedNow >>
  BY <1>1, <1>3 DEF TheCall, Outcome, Answer, SeenNow, AppliedNow, Returned
<1>6. OutcomeInv'
  <2>1. pc' = "done" => UNCHANGED result
    BY <1>2
  <2> QED BY <1>1, <1>2, <2>1 DEF RefInv, OutcomeInv, Calling, Connecting
<1> QED BY <1>4, <1>5, <1>6, Stutters DEF RefInv

\* A call is Invoke.
LEMMA CallImplements ==
  ASSUME TypeOK, MethodInv, LineInv, RefInv, NEW t \in Tasks,
         t.kind = "set" => t.addr \notin Constant, Call(t)
  PROVE  RefInv' /\ Register!RegNext
<1>1. /\ stage = "ready" /\ pc = "idle" /\ task' = t /\ calls < MaxCalls /\ calls' = calls + 1
      /\ UNCHANGED << tx, mem >>
  BY DEF Call, line, controller, MethodInv
<1>2. Status = "idle" /\ ~Running
  BY <1>1, StatusOf
<1>3. calls \in Nat /\ calls' \in 0..MaxCalls /\ calls' > 0
  BY <1>1, SessionAssumption DEF TypeOK, MethodOK, Ids
<1>4. /\ t.kind \in {"get", "set"} /\ t.addr \in Addr /\ t.data \in Val \cup {NoData}
      /\ t.kind = "get" => t.data = NoData
      /\ t.kind = "set" => t.data \in Val
  BY DEF Tasks
<1>5. TheCall' \in [kind : {"get", "set"}, addr : Addr, data : Val \cup {NoData},
                    id : 0..MaxCalls]
  BY <1>1, <1>3, <1>4 DEF TheCall
<1>6. ASSUME stage' \in {"command", "negotiate"}, buf' = NoData, pc' \in {"write", "reset"}
      PROVE  OutcomeInv' /\ Outcome' = "none" /\ Answer' = NoData
  BY <1>3, <1>6 DEF OutcomeInv, Outcome, Answer, Returned, Connecting
<1>7. CASE connected
  <2>1. stage' = "command" /\ BeginTask(t, calls + 1)
    BY <1>7 DEF Call
  <2>2. /\ pc' = "write" /\ buf' = NoData /\ applied' = FALSE
        /\ seen' = IF t.kind = "get" THEN {mem[t.addr]} ELSE {}
    BY <2>1, BeginsClean
  <2>3. LineQuiet
    BY <1>1, <1>7 DEF LineInv, AtReady
  <2>4. Single(tx') /\ OwnTelegram' /\ LateWrites' = LateWrites
    BY <1>1, <2>3, LateOnQuiet
  <2>5. RegRun
    BY <1>1, <2>1, <2>2, StatusOf DEF RegRun, SeenNow, TheCall
  <2>6. UNCHANGED AppliedNow
    BY <1>2, <2>2 DEF AppliedNow
  <2> QED BY <1>1, <1>2, <1>4, <1>5, <1>6, <2>1, <2>2, <2>4, <2>5, <2>6, Invokes DEF RefInv
<1>8. CASE ~connected
  <2>1. stage' = "negotiate" /\ BeginNegotiate(calls + 1)
    BY <1>8 DEF Call
  <2>2. pc' = "reset" /\ buf' = NoData
    BY <2>1, BeginsClean
  <2>3. Status' = "waiting" /\ ~Running'
    BY <2>1, StatusOf
  <2>4. Single(tx') /\ OwnTelegram' /\ LateWrites' = LateWrites
    BY <1>1, <1>2, <2>3, LateStays
  <2>5. UNCHANGED << SeenNow, AppliedNow >>
    BY <1>2, <2>3 DEF SeenNow, AppliedNow
  <2> QED BY <1>1, <1>2, <1>4, <1>5, <1>6, <2>1, <2>2, <2>3, <2>4, <2>5, Invokes DEF RefInv
<1> QED BY <1>7, <1>8

\* Every call.
LEMMA CallerImplements ==
  ASSUME TypeOK, MethodInv, LineInv, RefInv, CallerStep PROVE RefInv' /\ Register!RegNext
<1>1. \A a \in Addr : /\ Task("get", a, NoData) \in Tasks
                      /\ Task("get", a, NoData).kind # "set"
  BY DEF Task, Tasks
<1>2. \A a \in Addr, v \in Val : /\ Task("set", a, v) \in Tasks
                                 /\ Task("set", a, v).addr = a
  BY DEF Task, Tasks
<1> QED BY <1>1, <1>2, CallImplements DEF CallerStep, Get, Set

\* A call fails before its command runs.
LEMMA FailsWaiting ==
  ASSUME RefInv, Status = "waiting", ~Running, stage \in Calling, stage' = "ready", pc' = "idle",
         result = "err", UNCHANGED << op, result, buf, tx, mem, task, calls >>
  PROVE  RefInv' /\ Register!RegNext
<1>1. ~Running' /\ Status' = "idle"
  BY StatusOf
<1>2. Single(tx') /\ OwnTelegram' /\ LateWrites' = LateWrites
  BY <1>1, LateStays
<1>3. buf = NoData /\ calls > 0
  BY DEF RefInv, OutcomeInv
<1>4. Outcome' = "err" /\ Answer' = NoData
  BY <1>3 DEF Outcome, Answer, Returned
<1>5. RegEnd("err")
  BY <1>1, <1>4 DEF RegEnd, SeenNow, AppliedNow, TheCall
<1>6. OutcomeInv'
  BY <1>3 DEF OutcomeInv, Calling, Connecting
<1> QED BY <1>2, <1>4, <1>5, <1>6, Failed DEF RefInv

\* The end of renegotiate: the command runs, the port is to be opened again, or the call
\* fails.
LEMMA RenegotiatedImplements ==
  ASSUME TypeOK, MethodInv, LineInv, RefInv, Renegotiated
  PROVE  RefInv' /\ (Register!RegNext \/ UNCHANGED Register!regvars)
<1>1. /\ stage = "negotiate" /\ pc = "done" /\ calls > 0
      /\ UNCHANGED << tx, mem, task, calls >>
  BY DEF Renegotiated, line, controller, RefInv, OutcomeInv, Calling
<1>2. Status = "waiting" /\ ~Running
  BY <1>1, StatusOf
<1>3. CASE result = "ok"
  <2>1. stage' = "command" /\ BeginTask(task, calls) /\ task \in Tasks
    BY <1>3 DEF Renegotiated, TypeOK, MethodOK
  <2>2. /\ pc' = "write" /\ buf' = NoData /\ applied' = FALSE
        /\ seen' = IF task.kind = "get" THEN {mem[task.addr]} ELSE {}
    BY <2>1, BeginsClean
  <2>3. LineQuiet
    BY <1>1, <1>3, QuietAtSuccess
  <2>4. Single(tx') /\ OwnTelegram' /\ LateWrites' = LateWrites
    BY <1>1, <2>3, LateOnQuiet
  <2>5. RegRun
    BY <1>1, <2>1, <2>2, StatusOf DEF RegRun, SeenNow, TheCall
  <2>6. UNCHANGED << TheCall, Outcome, Answer, AppliedNow >>
    BY <1>1, <1>2, <2>1, <2>2 DEF TheCall, Outcome, Answer, Returned, AppliedNow
  <2>7. OutcomeInv'
    BY <1>1, <2>1, <2>2 DEF OutcomeInv, Connecting
  <2> QED BY <1>1, <1>2, <2>4, <2>5, <2>6, <2>7, Connects DEF RefInv
<1>4. CASE result = "err" /\ ~reinitialized
  <2>1. stage' = "reinitialize" /\ UNCHANGED << pc, op, result, buf >>
    BY <1>4 DEF Renegotiated, client
  <2>2. Status' = "waiting" /\ ~Running'
    BY <2>1, StatusOf
  <2>3. Single(tx') /\ OwnTelegram' /\ LateWrites' = LateWrites
    BY <1>1, <1>2, <2>2, LateStays
  <2>4. UNCHANGED << Status, TheCall, Outcome, Answer, SeenNow, AppliedNow >>
    BY <1>1, <1>2, <2>1, <2>2 DEF TheCall, Outcome, Answer, Returned, SeenNow, AppliedNow
  <2>5. OutcomeInv'
    BY <1>1, <1>4, <2>1 DEF RefInv, OutcomeInv, Connecting
  <2> QED BY <1>1, <2>3, <2>4, <2>5, Stutters DEF RefInv
<1>5. CASE result = "err" /\ reinitialized
  <2>1. stage' = "ready" /\ pc' = "idle" /\ UNCHANGED << op, result, buf >>
    BY <1>5 DEF Renegotiated, Return
  <2>2. stage \in Calling
    BY <1>1 DEF Calling
  <2> QED BY <1>1, <1>2, <1>5, <2>1, <2>2, FailsWaiting
<1> QED BY <1>3, <1>4, <1>5 DEF Renegotiated

\* The port is opened again, or the call fails.
LEMMA ReinitializeImplements ==
  ASSUME TypeOK, RefInv, Reinitialize \/ ReinitializeFails
  PROVE  RefInv' /\ (Register!RegNext \/ UNCHANGED Register!regvars)
<1>1. /\ stage = "reinitialize" /\ result = "err" /\ calls > 0
      /\ UNCHANGED << tx, mem, task, calls >>
  BY DEF Reinitialize, ReinitializeFails, line, controller, RefInv, OutcomeInv, Calling
<1>2. Status = "waiting" /\ ~Running
  BY <1>1, StatusOf
<1>3. CASE Reinitialize
  <2>1. stage' = "negotiate" /\ BeginNegotiate(calls)
    BY <1>3 DEF Reinitialize
  <2>2. pc' = "reset" /\ buf' = NoData
    BY <2>1, BeginsClean
  <2>3. Status' = "waiting" /\ ~Running'
    BY <2>1, StatusOf
  <2>4. Single(tx') /\ OwnTelegram' /\ LateWrites' = LateWrites
    BY <1>1, <1>2, <2>3, LateStays
  <2>5. UNCHANGED << Status, TheCall, Outcome, Answer, SeenNow, AppliedNow >>
    BY <1>1, <1>2, <2>1, <2>3 DEF TheCall, Outcome, Answer, Returned, SeenNow, AppliedNow
  <2>6. OutcomeInv'
    BY <1>1, <2>1, <2>2 DEF OutcomeInv, Connecting
  <2> QED BY <1>1, <2>4, <2>5, <2>6, Stutters DEF RefInv
<1>4. CASE ReinitializeFails
  <2>1. stage' = "ready" /\ pc' = "idle" /\ UNCHANGED << op, result, buf >>
    BY <1>4 DEF ReinitializeFails, Return
  <2>2. stage \in Calling
    BY <1>1 DEF Calling
  <2> QED BY <1>1, <1>2, <2>1, <2>2, FailsWaiting
<1> QED BY <1>3, <1>4

\* The end of a command: its write is late if it is still on the line.
LEMMA CommandReturnsImplements ==
  ASSUME TypeOK, MethodInv, LineInv, RefInv, CommandReturns
  PROVE  RefInv' /\ Register!RegNext
<1>1. /\ stage = "command" /\ pc = "done" /\ stage' = "ready" /\ pc' = "idle"
      /\ UNCHANGED << op, result, buf, tx, mem, task, calls >>
  BY DEF CommandReturns, Return, line, controller
<1>2. Status = "running" /\ Running /\ ~Running' /\ Status' = "idle"
  BY <1>1, StatusOf
<1>3. calls > 0 /\ result \in {"ok", "err"} /\ (buf # NoData => result = "ok" /\ op.kind = "get")
  BY <1>1 DEF RefInv, OutcomeInv, Calling
<1>4. Outcome' = result /\ Answer' = buf
  BY <1>1, <1>3 DEF Outcome, Answer, Returned
<1>5. RegEnd(result)
  BY <1>1, <1>2, <1>4 DEF RegEnd, SeenNow, AppliedNow, TheCall
<1>6. Single(tx') /\ OwnTelegram' /\ OutcomeInv'
  BY <1>1, <1>2, <1>3 DEF RefInv, OwnTelegram, OutcomeInv, Calling, Connecting
<1>7. op = Operation(task.kind, task.addr, task.data, calls) /\ task.kind \in {"get", "set"}
  BY <1>1 DEF MethodInv, TypeOK, MethodOK, Tasks
<1>8. op.kind = task.kind /\ op.addr = task.addr /\ op.data = task.data /\ op.id = calls
  BY <1>7 DEF Operation
<1>9. LateWrites = {} /\ LateWrites' = Pending(tx)
  BY <1>1, <1>2, LateNow, LateThen DEF RefInv
<1>10. CASE result = "ok"
  <2>1. LateWrites' = {}
    BY <1>1, <1>10, QuietAtSuccess, LateOnQuiet
  <2>2. \/ task.kind = "get" /\ Answer' \in SeenNow
        \/ task.kind = "set" /\ AppliedNow /\ Answer' = NoData
    BY <1>1, <1>2, <1>3, <1>4, <1>7, <1>8, <1>10 DEF LineInv, AtEnd, SeenNow, AppliedNow
  <2> QED BY <1>2, <1>5, <1>6, <1>9, <1>10, <2>1, <2>2, Succeeded DEF RefInv
<1>11. CASE result = "err"
  <2>1. Answer' = NoData
    BY <1>3, <1>4, <1>11
  <2>2. ASSUME NEW i \in 1..Len(tx), IsWrite(tx[i])
        PROVE  task.kind = "set" /\ WriteOf(tx[i]) = WriteOf(TheCall)
    <3>1. tx[i] = Request(op)
      BY <1>2, <2>2 DEF RefInv, OwnTelegram, IsWrite
    <3>2. VirtualRead # VirtualWrite
      BY DEF VirtualRead, VirtualWrite
    <3>3. task.kind = "set"
      BY <1>7, <1>8, <2>2, <3>1, <3>2, MessageKinds DEF IsWrite, FunctionOf
    <3> QED BY <1>8, <3>1, <3>3, MessageKinds DEF WriteOf, TheCall
  <2>3. Pending(tx) = {} \/ (task.kind = "set" /\ Pending(tx) = {WriteOf(TheCall)})
    BY <2>2 DEF Pending
  <2>4. \/ UNCHANGED LateWrites
        \/ task.kind = "set" /\ LateWrites' = LateWrites \cup {WriteOf(TheCall)}
    BY <1>9, <2>3
  <2> QED BY <1>2, <1>5, <1>6, <1>11, <2>1, <2>4, Failed DEF RefInv
<1> QED BY <1>3, <1>10, <1>11

-----------------------------------------------------------------------------
(* The session implements RemoteRegister *)

\* The beginning.
LEMMA InitImplements == Init => RefInv /\ Register!RegInit
<1> SUFFICES ASSUME Init PROVE RefInv /\ Register!RegInit
  OBVIOUS
<1>1. /\ tx = << >> /\ stage = "detect" /\ pc = "reset" /\ calls = 0 /\ buf = NoData
      /\ task = Task("get", F0Addr, NoData) /\ mem \in [Addr -> Val]
  BY DEF Init
<1>2. ~Running /\ Status = "idle"
  BY <1>1, StatusOf DEF Connecting
<1>3. RefInv
  BY <1>1, <1>2 DEF RefInv, Single, OwnTelegram, OutcomeInv, Calling
<1>4. LateWrites = {}
  <2>1. Pending(tx) = {}
    BY <1>1 DEF Pending
  <2> QED BY <1>2, <2>1, LateNow
<1>5. Outcome = "none" /\ Answer = NoData /\ SeenNow = {} /\ AppliedNow = FALSE
  BY <1>1, <1>2 DEF Outcome, Answer, SeenNow, AppliedNow, Returned
<1>6. TheCall \in [kind : {"get"}, addr : Addr, data : {NoData}, id : {0}]
  BY <1>1, KnownAddresses DEF TheCall, Task
<1>7. Register!RegInit
  BY <1>1, <1>2, <1>4, <1>5, <1>6
  DEF Register!RegInit, Register!NoVal, NoData,
      Status, TheCall, Outcome, Answer, SeenNow, AppliedNow, LateWrites,
      Running, Returned, WriteOf
<1> QED BY <1>3, <1>7

\* Every step.
LEMMA NextImplements ==
  Orderly /\ SafeInv /\ RefInv /\ [Next]_vars => RefInv' /\ [Register!RegNext]_Register!regvars
<1> SUFFICES ASSUME Orderly, SafeInv, RefInv, [Next]_vars
             PROVE  RefInv' /\ (Register!RegNext \/ UNCHANGED Register!regvars)
  OBVIOUS
<1> USE DEF SafeInv
<1>1. ~Cancel
  BY DEF Orderly, Cancel, Happens
<1>2. CASE UNCHANGED vars
  <2>1. Outside /\ UNCHANGED << tx, mem, seen, applied >> /\ OutcomeInv
    BY <1>2 DEF vars, vs2vars, line, controller, history, Outside, RefInv
  <2>2. RefInv' /\ LateWrites' = LateWrites
    BY <2>1, UntakenKeeps
  <2>3. UNCHANGED << Status, TheCall, Outcome, Answer >> /\ Running' = Running
    BY <2>1, OutsideFrame
  <2>4. UNCHANGED << mem, SeenNow, AppliedNow >>
    BY <2>1, <2>3 DEF SeenNow, AppliedNow
  <2> QED BY <2>2, <2>3, <2>4, Stutters
<1>3. CASE Progress
  BY <1>3, ClientImplements DEF ClientActs
<1>4. CASE Environment
  <2>1. CASE IoError
    BY <1>4, <2>1, ClientImplements DEF ClientActs, Environment
  <2>2. CASE SendSync \/ ControllerStep \/ Fallback \/ Lose \/ Change
    <3>1. Outside
      BY <1>4, <2>2
      DEF Environment, Outside, SendSync, ControllerStep, Fallback, Lose, Change, ReceiveReset,
          ReceiveStart, ReceiveRead, ReceiveWrite, Ignore, Refuse, AnswerNack, DisturbRead
    <3> QED BY <2>2, <3>1, OutsideImplements
  <2> QED BY <1>4, <2>1, <2>2 DEF Environment, EnvironmentStep
<1>5. CASE CallerStep
  BY <1>5, CallerImplements
<1>6. CASE Method
  BY <1>6, ConnectImplements, RenegotiatedImplements, ReinitializeImplements,
     CommandReturnsImplements DEF Method
<1>7. CASE ReinitializeFails
  BY <1>7, ReinitializeImplements
<1> QED BY <1>1, <1>2, <1>3, <1>4, <1>5, <1>6, <1>7 DEF Next

\* VControl::get and VControl::set over VS2 do what RemoteRegister promises: a session is a
\* set of registers at the far end of a call that may fail.
THEOREM SessionImplementsRegister ==
  ASSUME Orderly PROVE Spec /\ []F0Answered => ImplementsRegister
<1>1. SafeInv /\ RefInv /\ [Next]_vars => RefInv' /\ [Register!RegNext]_Register!regvars
  BY NextImplements
<1>2. Init => RefInv /\ Register!RegInit
  BY InitImplements
<1> QED BY Safe, <1>1, <1>2, PTL DEF Spec, ImplementsRegister, Register!RegSpec

-----------------------------------------------------------------------------
(* Answers of an address that never changes *)

\* Telegram t, from its length byte on, has the content that its address has in m,
\* if the address is one that keeps its content.
Trusted(t, m) ==
  \A a \in Constant : t[4] * 256 + t[5] = a => SubSeq(t, 7, 6 + BlockLen) = m[a]

\* The answer to a get that seems to begin at the i-th byte of s is there as a whole, and
\* if its checksum is right it can be trusted.
GenuineAt(s, i, m) ==
  /\ i + 7 + BlockLen <= Len(s)
  /\ LET t == SubSeq(s, i + 1, i + 6 + BlockLen)
     IN wrapping_sum(t) = s[i + 7 + BlockLen] => Trusted(t, m)

Genuine(s, m) == \A i \in 1..Len(s) : Opens(s, i) => GenuineAt(s, i, m)

\* What the client has read of the telegram that it is reading.
Taken == IF pc = "length" THEN << LEADIN >> ELSE IF pc = "body" THEN << LEADIN, msgLen >> ELSE << >>

ReadsGenuine == Genuine(Taken \o rx, mem)

\* No call writes an address that keeps its content.
WritesOthers ==
  /\ \A i \in 1..Len(tx) :
       tx[i].m = "telegram" /\ tx[i].fn = VirtualWrite => tx[i].addr \notin Constant
  /\ op.kind = "set" => op.addr \notin Constant
  /\ task.kind = "set" => task.addr \notin Constant

OwnContent ==
  pc = "done" /\ result = "ok" /\ op.kind = "get" /\ op.addr \in Constant => buf = mem[op.addr]

OwnInv == TypeOK /\ ReadsGenuine /\ WritesOthers /\ OwnContent

-----------------------------------------------------------------------------
(* Pieces of the line *)

\* Where the parts of an answer to a get lie.
LEMMA AnswerSizes ==
  /\ BlockLen \in Nat /\ BlockLen >= 1 /\ 5 + BlockLen \in Byte
  /\ Response \in Byte /\ VirtualRead \in Byte /\ VirtualWrite \in Byte /\ Error \in Byte
  /\ LEADIN \in Byte /\ ACK \in Byte /\ SYNC \in Byte /\ NACK \in Byte
  /\ Response = 1 /\ VirtualRead = 1 /\ VirtualWrite = 2 /\ Error = 3
  /\ LEADIN \notin {ACK, SYNC, NACK, 1} /\ ACK # 1 /\ SYNC # 1 /\ NACK # 1
  BY BlockLenAssumption
  DEF Byte, Response, VirtualRead, VirtualWrite, Error, LEADIN, ACK, SYNC, NACK

\* Equal pieces of two sequences of bytes.
LEMMA SamePiece ==
  ASSUME NEW s \in Seq(Byte), NEW u \in Seq(Byte), NEW p \in Nat, NEW q \in Nat, NEW n \in Nat,
         p + n <= Len(u), q + n <= Len(s), \A j \in 1..n : u[p + j] = s[q + j]
  PROVE  SubSeq(u, p + 1, p + n) = SubSeq(s, q + 1, q + n)
<1> DEFINE l == SubSeq(u, p + 1, p + n)
           r == SubSeq(s, q + 1, q + n)
<1>1. l \in Seq(Byte) /\ Len(l) = n /\ \A j \in 1..n : l[j] = u[p + j]
  OBVIOUS
<1>2. r \in Seq(Byte) /\ Len(r) = n /\ \A j \in 1..n : r[j] = s[q + j]
  OBVIOUS
<1> HIDE DEF l, r
<1>3. l = r
  BY <1>1, <1>2, SeqEqual
<1> QED BY <1>3 DEF l, r

\* Sequence u is what s has behind its first k bytes, or a beginning of that.
Piece(u, s, k) == k + Len(u) <= Len(s) /\ \A i \in 1..Len(u) : u[i] = s[k + i]

\* An answer seems to begin in a piece where it does in the whole.
LEMMA PieceOpens ==
  ASSUME NEW s \in Seq(Byte), NEW u \in Seq(Byte), NEW k \in Nat, Piece(u, s, k),
         NEW i \in Nat, i >= 1, i + 3 <= Len(u)
  PROVE  Opens(u, i) <=> Opens(s, k + i)
<1>1. /\ i \in 1..Len(u) /\ i + 1 \in 1..Len(u) /\ i + 2 \in 1..Len(u) /\ i + 3 \in 1..Len(u)
      /\ (k + i) + 1 = k + (i + 1) /\ (k + i) + 2 = k + (i + 2) /\ (k + i) + 3 = k + (i + 3)
  OBVIOUS
<1>2. u[i] = s[k + i]
  BY <1>1, Zenon DEF Piece
<1>3. u[i + 1] = s[k + (i + 1)]
  BY <1>1, Zenon DEF Piece
<1>4. u[i + 2] = s[k + (i + 2)]
  BY <1>1, Zenon DEF Piece
<1>5. u[i + 3] = s[k + (i + 3)]
  BY <1>1, Zenon DEF Piece
<1>6. (k + i) + 3 <= Len(s)
  BY DEF Piece
<1> QED BY <1>1, <1>2, <1>3, <1>4, <1>5, <1>6 DEF Opens

\* A whole answer in a piece is one in the whole, and the other way round.
LEMMA PieceGenuine ==
  ASSUME NEW s \in Seq(Byte), NEW u \in Seq(Byte), NEW k \in Nat, Piece(u, s, k),
         NEW i \in Nat, i >= 1, NEW m
  PROVE  /\ GenuineAt(u, i, m) => GenuineAt(s, k + i, m)
         /\ k + Len(u) = Len(s) /\ GenuineAt(s, k + i, m) => GenuineAt(u, i, m)
<1> DEFINE n == 6 + BlockLen
           j == k + i
<1>1. n \in Nat /\ n + 1 \in Nat /\ j \in Nat
  BY AnswerSizes
<1>2. /\ i + 6 + BlockLen = i + n /\ i + 7 + BlockLen = i + (n + 1)
      /\ j + 6 + BlockLen = j + n /\ j + 7 + BlockLen = j + (n + 1)
  BY AnswerSizes
<1> HIDE DEF n, j
<1>3. j = k + i
  BY DEF j
<1>4. k + Len(u) <= Len(s) /\ Len(s) \in Nat /\ Len(u) \in Nat
  BY DEF Piece
<1>5. ASSUME i + (n + 1) <= Len(u)
      PROVE  /\ u[i + (n + 1)] = s[j + (n + 1)]
             /\ SubSeq(u, i + 1, i + n) = SubSeq(s, j + 1, j + n)
             /\ j + (n + 1) <= Len(s)
  <2>1. u[i + (n + 1)] = s[j + (n + 1)]
    <3>1. i + (n + 1) \in 1..Len(u) /\ j + (n + 1) = k + (i + (n + 1))
      BY <1>1, <1>3, <1>4, <1>5
    <3>2. u[i + (n + 1)] = s[k + (i + (n + 1))]
      BY <3>1, Zenon DEF Piece
    <3> QED BY <3>1, <3>2
  <2>2. i + n <= Len(u) /\ j + n <= Len(s) /\ j + (n + 1) <= Len(s)
    BY <1>1, <1>3, <1>4, <1>5
  <2>3. ASSUME NEW h \in 1..n PROVE u[i + h] = s[j + h]
    <3>1. i + h \in 1..Len(u) /\ j + h = k + (i + h)
      BY <1>1, <1>3, <1>4, <1>5
    <3>2. u[i + h] = s[k + (i + h)]
      BY <3>1, Zenon DEF Piece
    <3> QED BY <3>1, <3>2
  <2>4. SubSeq(u, i + 1, i + n) = SubSeq(s, j + 1, j + n)
    BY <1>1, <2>2, <2>3, SamePiece
  <2> QED BY <2>1, <2>2, <2>4
<1>8. GenuineAt(u, i, m) <=>
        /\ i + (n + 1) <= Len(u)
        /\ wrapping_sum(SubSeq(u, i + 1, i + n)) = u[i + (n + 1)]
             => Trusted(SubSeq(u, i + 1, i + n), m)
  BY <1>2, Zenon DEF GenuineAt
<1>9. GenuineAt(s, j, m) <=>
        /\ j + (n + 1) <= Len(s)
        /\ wrapping_sum(SubSeq(s, j + 1, j + n)) = s[j + (n + 1)]
             => Trusted(SubSeq(s, j + 1, j + n), m)
  BY <1>2, Zenon DEF GenuineAt
<1>6. GenuineAt(u, i, m) => GenuineAt(s, j, m)
  <2> SUFFICES ASSUME GenuineAt(u, i, m) PROVE GenuineAt(s, j, m)
    OBVIOUS
  <2>1. i + (n + 1) <= Len(u)
    BY <1>8, <1>9, Zenon
  <2> QED BY <1>5, <1>8, <1>9, <2>1, Zenon
<1>7. k + Len(u) = Len(s) /\ GenuineAt(s, j, m) => GenuineAt(u, i, m)
  <2> SUFFICES ASSUME k + Len(u) = Len(s), GenuineAt(s, j, m) PROVE GenuineAt(u, i, m)
    OBVIOUS
  <2>1. j + (n + 1) <= Len(s)
    BY <1>8, <1>9, Zenon
  <2>2. i + (n + 1) <= Len(u)
    BY <1>1, <1>3, <1>4, <2>1
  <2> QED BY <1>5, <1>8, <1>9, <2>2, Zenon
<1> QED BY <1>3, <1>6, <1>7

\* What is left of a genuine line is genuine.
LEMMA RestIsGenuine ==
  ASSUME NEW s \in Seq(Byte), NEW u \in Seq(Byte), NEW k \in Nat, Piece(u, s, k),
         k + Len(u) = Len(s), NEW m, Genuine(s, m)
  PROVE  Genuine(u, m)
<1> SUFFICES ASSUME NEW i \in 1..Len(u), Opens(u, i) PROVE GenuineAt(u, i, m)
  BY DEF Genuine
<1>1. i \in Nat /\ i >= 1 /\ i + 3 <= Len(u) /\ k + i \in 1..Len(s)
  BY DEF Opens
<1>2. Opens(s, k + i)
  BY <1>1, PieceOpens
<1>3. GenuineAt(s, k + i, m)
  BY <1>1, <1>2 DEF Genuine
<1> QED BY <1>1, <1>3, PieceGenuine

\* No answer to a get begins in s and reaches into w.
Parted(s, w) == \A i \in 1..Len(s) : i + 3 > Len(s) => ~Opens(s \o w, i)

\* Two sequences are pieces of what they are together.
LEMMA PiecesOfBoth ==
  ASSUME NEW s \in Seq(Byte), NEW w \in Seq(Byte)
  PROVE  /\ s \o w \in Seq(Byte) /\ Len(s \o w) = Len(s) + Len(w)
         /\ Piece(s, s \o w, 0) /\ Piece(w, s \o w, Len(s))
<1> DEFINE u == s \o w
           k == Len(s)
<1>1. /\ u \in Seq(Byte) /\ Len(u) = k + Len(w) /\ k \in Nat /\ Len(w) \in Nat
      /\ \A i \in 1..k : u[i] = s[i]
      /\ \A i \in 1..Len(w) : u[k + i] = w[i]
  OBVIOUS
<1> HIDE DEF u
<1>2. Piece(w, u, k)
  BY <1>1 DEF Piece
<1>3. Piece(s, u, 0)
  BY <1>1 DEF Piece
<1> QED BY <1>1, <1>2, <1>3 DEF u

\* A genuine line grows by what is genuine and begins an answer of its own.
LEMMA GenuineGrows ==
  ASSUME NEW s \in Seq(Byte), NEW w \in Seq(Byte), NEW m, Genuine(s, m), Genuine(w, m),
         Parted(s, w)
  PROVE  s \o w \in Seq(Byte) /\ Genuine(s \o w, m)
<1> DEFINE u == s \o w
           k == Len(s)
<1>1. /\ u \in Seq(Byte) /\ Len(u) = k + Len(w) /\ Piece(s, u, 0) /\ Piece(w, u, k)
  BY PiecesOfBoth
<1>2. \A i \in 1..k : i + 3 > k => ~Opens(u, i)
  BY DEF Parted
<1> HIDE DEF u
<1>3. k \in Nat /\ Len(w) \in Nat
  OBVIOUS
<1> SUFFICES ASSUME NEW i \in 1..Len(u), Opens(u, i) PROVE GenuineAt(u, i, m)
  BY <1>1 DEF Genuine, u
<1>4. i \in Nat /\ i >= 1 /\ i + 3 <= Len(u) /\ 0 + i = i
  BY <1>1 DEF Opens
<1>5. CASE i + 3 <= k
  <2>1. i \in 1..Len(s)
    BY <1>4, <1>5
  <2>2. Opens(s, i)
    BY <1>1, <1>4, <1>5, PieceOpens
  <2>3. GenuineAt(s, i, m)
    BY <2>1, <2>2 DEF Genuine
  <2>4. GenuineAt(s, i, m) => GenuineAt(u, 0 + i, m)
    BY <1>1, <1>4, PieceGenuine
  <2> QED BY <1>4, <2>3, <2>4
<1>6. CASE i + 3 > k /\ i <= k
  BY <1>2, <1>4, <1>6
<1>7. CASE i > k
  <2>1. PICK h \in 1..Len(w) : i = k + h
    <3>1. i - k \in 1..Len(w) /\ i = k + (i - k)
      BY <1>1, <1>3, <1>7
    <3> QED BY <3>1
  <2>2. h + 3 <= Len(w) /\ h \in Nat /\ h >= 1
    BY <1>1, <1>3, <1>4, <2>1
  <2>3. Opens(w, h)
    BY <1>1, <1>3, <2>1, <2>2, PieceOpens
  <2>4. GenuineAt(w, h, m)
    BY <2>3 DEF Genuine
  <2> QED BY <1>1, <1>3, <2>1, <2>2, <2>4, PieceGenuine
<1> QED BY <1>3, <1>5, <1>6, <1>7

-----------------------------------------------------------------------------
(* Telegrams on the line *)

\* The first bytes of a telegram.
LEMMA TelegramHead ==
  ASSUME NEW type \in Byte, NEW fn \in Byte, NEW a \in Addr, NEW len \in Byte,
         NEW data \in Seq(Byte), NEW d \in Nat, Len(data) = d, 5 + d \in Byte,
         NEW t, t = Telegram(type, fn, a, len, data)
  PROVE  /\ t \in Seq(Byte) /\ Len(t) = 8 + d
         /\ t[1] = LEADIN /\ t[2] = 5 + d /\ t[3] = type /\ t[4] = fn
         /\ t[5] = High(a) /\ t[6] = Low(a)
<1> DEFINE head == << 5 + d, type, fn, High(a), Low(a), len >>
           body == head \o data
           x == wrapping_sum(body)
           g == << LEADIN >> \o body
<1>1. High(a) \in Byte /\ Low(a) \in Byte /\ LEADIN \in Byte
  BY AddrBytes, AnswerSizes
<1>2. /\ head \in Seq(Byte) /\ Len(head) = 6 /\ head[1] = 5 + d /\ head[2] = type /\ head[3] = fn
      /\ head[4] = High(a) /\ head[5] = Low(a)
  BY <1>1
<1>3. t = g \o << x >>
  BY DEF Telegram
<1> HIDE DEF head
<1>4. body \in Seq(Byte) /\ Len(body) = 6 + d
  BY <1>2, BehindHead
<1>5. \A i \in 1..(Len(head) + Len(data)) :
        body[i] = IF i <= Len(head) THEN head[i] ELSE data[i - Len(head)]
  BY <1>2, ConcatProperties
<1> HIDE DEF body
<1>6. /\ body[1] = head[1] /\ body[2] = head[2] /\ body[3] = head[3] /\ body[4] = head[4]
      /\ body[5] = head[5]
  BY <1>2, <1>5
<1>7. x \in Byte
  BY <1>4, SumIsByte
<1> HIDE DEF x
<1>8. /\ g \in Seq(Byte) /\ Len(g) = 1 + Len(body) /\ g[1] = LEADIN
      /\ \A i \in 1..Len(body) : g[1 + i] = body[i]
  BY <1>1, <1>4, ByteFirst
<1> HIDE DEF g
<1>9. /\ g[2] = body[1] /\ g[3] = body[2] /\ g[4] = body[3] /\ g[5] = body[4] /\ g[6] = body[5]
      /\ Len(g) = 7 + d
  BY <1>4, <1>8
<1>10. /\ t \in Seq(Byte) /\ Len(t) = Len(g) + 1 /\ \A i \in 1..Len(g) : t[i] = g[i]
  BY <1>3, <1>7, <1>8, FrontLast
<1> QED BY <1>2, <1>6, <1>8, <1>9, <1>10

\* The answer at the beginning of a telegram, as its tail shows it.
LEMMA GenuineFirst ==
  ASSUME NEW t \in Seq(Byte), NEW n, n = 6 + BlockLen, Len(t) = n + 2, NEW m,
         wrapping_sum(SubSeq(Tail(t), 1, n)) = Tail(t)[n + 1] => Trusted(SubSeq(Tail(t), 1, n), m)
  PROVE  GenuineAt(t, 1, m)
<1> DEFINE v == Tail(t)
<1>1. n \in Nat /\ 1 + 6 + BlockLen = 1 + n /\ 1 + 7 + BlockLen = n + 2
  BY AnswerSizes
<1>2. /\ v \in Seq(Byte) /\ Len(v) = n + 1 /\ v[n + 1] = t[n + 2]
      /\ \A j \in 1..n : t[1 + j] = v[0 + j]
  BY <1>1
<1>3. wrapping_sum(SubSeq(v, 1, n)) = v[n + 1] => Trusted(SubSeq(v, 1, n), m)
  OBVIOUS
<1> HIDE DEF v
<1>4. SubSeq(t, 1 + 1, 1 + n) = SubSeq(v, 0 + 1, 0 + n)
  BY <1>1, <1>2, SamePiece
<1>5. SubSeq(t, 1 + 1, 1 + n) = SubSeq(v, 1, n)
  BY <1>1, <1>4
<1>6. wrapping_sum(SubSeq(t, 1 + 1, 1 + n)) = t[n + 2] => Trusted(SubSeq(t, 1 + 1, 1 + n), m)
  BY <1>2, <1>3, <1>5
<1> QED BY <1>1, <1>6 DEF GenuineAt

\* A telegram in which no answer seems to begin but at its start.
LEMMA GenuineTelegram ==
  ASSUME NoFalseAnswer, NEW t \in Telegrams, NEW m, Opens(t, 1) => GenuineAt(t, 1, m)
  PROVE  Genuine(t, m)
<1> SUFFICES ASSUME NEW i \in 1..Len(t), Opens(t, i) PROVE GenuineAt(t, i, m)
  BY DEF Genuine
<1>1. CASE i = 1
  BY <1>1
<1>2. CASE i # 1
  <2>1. i \in 2..Len(t)
    BY <1>2
  <2> QED BY <2>1 DEF NoFalseAnswer
<1> QED BY <1>1, <1>2

\* An address from its two bytes.
LEMMA AddressOfBytes ==
  ASSUME NEW a \in Addr PROVE High(a) * 256 + Low(a) = a
<1>1. a \in 0..(256 * 256 - 1)
  BY AddrAssumption
<1> QED BY <1>1, SMTT(30) DEF High, Low

\* A telegram that reaches the client does not make one of what was there before.
Separate(t) == t \in Seq(Byte) /\ ~(t[1] = Response /\ t[2] = VirtualRead)

\* The answer to a read, with the content the address has, can be trusted.
LEMMA ReadGenuine ==
  ASSUME NoFalseAnswer, NEW a \in Addr, NEW m, m[a] \in Val,
         NEW t, t = Telegram(Response, VirtualRead, a, BlockLen, m[a])
  PROVE  Genuine(t, m) /\ Separate(t)
<1> DEFINE n == 6 + BlockLen
           v == m[a]
           u == Tail(t)
           p == SubSeq(u, 1, n)
<1>1. v \in Seq(Byte) /\ Len(v) = BlockLen
  BY ValIsBytes
<1>2. /\ Response \in Byte /\ VirtualRead \in Byte /\ BlockLen \in Byte
      /\ BlockLen \in Nat /\ 5 + BlockLen \in Byte
  BY AnswerSizes, BlockLenByte
<1>3. /\ t \in Seq(Byte) /\ Len(t) = 8 + BlockLen /\ t[1] = LEADIN
      /\ t[5] = High(a) /\ t[6] = Low(a)
  BY <1>1, <1>2, TelegramHead
<1>4. Shape(u, BlockLen, Response, v)
  BY <1>1, <1>2, TelegramShape
<1>5. SubSeq(p, 7, n) = v
  BY <1>4 DEF Shape
<1>6. n \in Nat /\ n >= 6 /\ Len(t) = n + 2
  BY <1>2, <1>3
<1>7. u \in Seq(Byte) /\ Len(u) = n + 1 /\ u[4] = t[5] /\ u[5] = t[6]
  BY <1>3, <1>6
<1> HIDE DEF u
<1>8. p[4] = u[4] /\ p[5] = u[5]
  BY <1>6, <1>7
<1> HIDE DEF p
<1>9. p[4] * 256 + p[5] = a
  <2>1. High(a) * 256 + Low(a) = a
    BY AddressOfBytes
  <2>2. p[4] = High(a) /\ p[5] = Low(a)
    BY <1>3, <1>7, <1>8
  <2> QED BY <2>1, <2>2
<1>10. Trusted(p, m)
  BY <1>5, <1>9 DEF Trusted
<1>11. GenuineAt(t, 1, m)
  BY <1>3, <1>6, <1>10, GenuineFirst DEF p, u
<1>12. t \in Telegrams
  BY <1>1 DEF Telegrams, ReadTelegrams
<1>13. Genuine(t, m)
  BY <1>11, <1>12, GenuineTelegram
<1> QED BY <1>3, <1>13, AnswerSizes DEF Separate

\* The answer to a write is none to a read.
LEMMA WriteGenuine ==
  ASSUME NoFalseAnswer, NEW a \in Addr, NEW m,
         NEW t, t = Telegram(Response, VirtualWrite, a, BlockLen, NoData)
  PROVE  Genuine(t, m) /\ Separate(t)
<1>1. PICK d \in Nat : NoData \in Seq(Byte) /\ Len(NoData) = d /\ 5 + d \in Byte
  <2>1. NoData \in Seq(Byte) /\ Len(NoData) = 0 /\ 0 \in Nat /\ 5 + 0 \in Byte
    BY DEF NoData, Byte
  <2> QED BY <2>1
<1>2. Response \in Byte /\ VirtualWrite \in Byte /\ BlockLen \in Byte
  BY AnswerSizes, BlockLenByte
<1>3. t \in Seq(Byte) /\ t[1] = LEADIN /\ t[4] = VirtualWrite
  BY <1>1, <1>2, TelegramHead
<1>4. ~Opens(t, 1)
  BY <1>3, AnswerSizes DEF Opens
<1>5. t \in Telegrams
  BY DEF Telegrams, WriteTelegrams
<1> QED BY <1>3, <1>4, <1>5, GenuineTelegram, AnswerSizes DEF Separate

\* An error telegram is no answer to a read.
LEMMA RefusalGenuine ==
  ASSUME NoFalseAnswer, NEW a \in Addr, NEW fn \in {VirtualRead, VirtualWrite}, NEW m,
         NEW t, t = Telegram(Error, fn, a, 1, << 1 >>)
  PROVE  Genuine(t, m) /\ Separate(t)
<1> DEFINE data == << 1 >>
<1>1. PICK d \in Nat : data \in Seq(Byte) /\ Len(data) = d /\ 5 + d \in Byte /\ 1 \in Byte
  <2>1. << 1 >> \in Seq(Byte) /\ Len(<< 1 >>) = 1 /\ 1 \in Nat /\ 5 + 1 \in Byte /\ 1 \in Byte
    BY DEF Byte
  <2> QED BY <2>1
<1>2. Error \in Byte /\ fn \in Byte
  BY AnswerSizes
<1>3. t \in Seq(Byte) /\ t[1] = LEADIN /\ t[3] = Error
  <2>1. t = Telegram(Error, fn, a, 1, data)
    OBVIOUS
  <2> HIDE DEF data
  <2> QED BY <1>1, <1>2, <2>1, TelegramHead
<1>4. ~Opens(t, 1)
  BY <1>3, AnswerSizes DEF Opens
<1>5. t \in Telegrams
  BY DEF Telegrams, ErrorTelegrams
<1> QED BY <1>3, <1>4, <1>5, GenuineTelegram, AnswerSizes DEF Separate

\* A disturbed answer is not taken for one, unless what disturbed it is its leadin.
LEMMA DisturbedGenuine ==
  ASSUME NoFalseAnswer, NEW a \in Addr, NEW v \in Val, NEW m,
         NEW t, t = Telegram(Response, VirtualRead, a, BlockLen, v),
         NEW i \in 1..Len(t), NEW b \in Byte, b # t[i], [t EXCEPT ![i] = b] \in Telegrams
  PROVE  Genuine([t EXCEPT ![i] = b], m) /\ Separate([t EXCEPT ![i] = b])
<1> DEFINE n == 6 + BlockLen
           u == Tail(t)
           s == [t EXCEPT ![i] = b]
<1>1. v \in Seq(Byte) /\ Len(v) = BlockLen
  BY ValIsBytes
<1>2. /\ Response \in Byte /\ VirtualRead \in Byte /\ BlockLen \in Byte
      /\ BlockLen \in Nat /\ 5 + BlockLen \in Byte
  BY AnswerSizes, BlockLenByte
<1>3. t \in Seq(Byte) /\ Len(t) = 8 + BlockLen /\ t[1] = LEADIN /\ t[2] = 5 + BlockLen
  BY <1>1, <1>2, TelegramHead
<1>4. Shape(u, BlockLen, Response, v)
  BY <1>1, <1>2, TelegramShape
<1>5. n \in Nat /\ n >= 6 /\ Len(t) = n + 2 /\ n = 6 + BlockLen
  BY <1>2, <1>3
<1> HIDE DEF n
<1>6. /\ u \in Seq(Byte) /\ Len(u) = n + 1 /\ \A k \in 1..(n + 1) : u[k] = t[k + 1]
  BY <1>3, <1>5
<1>7. wrapping_sum(SubSeq(u, 1, n)) = u[n + 1]
  BY <1>4, <1>5 DEF Shape
<1>8. s \in Seq(Byte) /\ Len(s) = n + 2 /\ \A k \in 1..(n + 2) : s[k] = IF k = i THEN b ELSE t[k]
  BY <1>3, <1>5
<1> HIDE DEF u, s
<1>9. /\ Tail(s) \in Seq(Byte) /\ Len(Tail(s)) = n + 1
      /\ \A k \in 1..(n + 1) : Tail(s)[k] = s[k + 1]
  BY <1>5, <1>8
<1>10. Opens(s, 1) => GenuineAt(s, 1, m)
  <2>1. CASE i = 1
    <3>1. s[1] # LEADIN
      BY <1>3, <1>5, <1>8, <2>1
    <3> QED BY <3>1 DEF Opens
  <2>2. CASE i # 1
    <3>1. PICK j \in 1..(n + 1) : i = j + 1
      <4>1. i - 1 \in 1..(n + 1) /\ i = (i - 1) + 1
        BY <1>5, <2>2
      <4> QED BY <4>1
    <3> DEFINE r == [u EXCEPT ![j] = b]
    <3>2. /\ r \in Seq(Byte) /\ Len(r) = n + 1
          /\ \A k \in 1..(n + 1) : r[k] = IF k = j THEN b ELSE u[k]
      BY <1>6
    <3>3. u[j] # b
      BY <1>6, <3>1
    <3> HIDE DEF r
    <3>4. ASSUME NEW k \in 1..(n + 1) PROVE Tail(s)[k] = r[k]
      BY <1>5, <1>6, <1>8, <1>9, <3>1, <3>2
    <3>5. Tail(s) = r
      BY <1>5, <1>9, <3>2, <3>4, SeqEqual
    <3>6. wrapping_sum(SubSeq(r, 1, n)) # r[n + 1]
      BY <1>5, <1>6, <1>7, <3>3, DisturbedSum, ZenonT(30) DEF r
    <3> QED BY <1>5, <1>8, <3>5, <3>6, GenuineFirst
  <2> QED BY <2>1, <2>2
<1>11. Genuine(s, m)
  BY <1>10, GenuineTelegram DEF s
<1>12. ~(s[1] = Response /\ s[2] = VirtualRead)
  BY <1>2, <1>3, <1>5, <1>8, AnswerSizes
<1> QED BY <1>8, <1>11, <1>12 DEF s, Separate

-----------------------------------------------------------------------------
(* The line grows *)

\* A line on which no answer begins is genuine.
LEMMA NothingGenuine == ASSUME NEW s, Len(s) < 4, Len(s) \in Nat, NEW m PROVE Genuine(s, m)
  BY DEF Genuine, Opens

\* A byte that is not the function code of a read ends no beginning of an answer.
LEMMA GenuineByte ==
  ASSUME NEW s \in Seq(Byte), NEW b \in Byte, b # VirtualRead, NEW m, Genuine(s, m)
  PROVE  s \o << b >> \in Seq(Byte) /\ Genuine(s \o << b >>, m)
<1> DEFINE w == << b >>
           n == Len(s)
           u == s \o w
<1>1. w \in Seq(Byte) /\ Len(w) = 1 /\ n \in Nat
  OBVIOUS
<1>2. Genuine(w, m)
  <2>1. Len(w) < 4 /\ Len(w) \in Nat
    BY <1>1
  <2> HIDE DEF w
  <2> QED BY <2>1, NothingGenuine, Zenon
<1>3. u \in Seq(Byte) /\ Len(u) = n + 1 /\ u[n + 1] = b
  BY FrontLast
<1> HIDE DEF u
<1>4. ASSUME NEW i \in 1..n, i + 3 > n PROVE ~Opens(u, i)
  <2> SUFFICES ASSUME Opens(u, i) PROVE FALSE
    OBVIOUS
  <2>1. i + 3 <= n + 1 /\ u[i + 3] = VirtualRead
    BY <1>3 DEF Opens
  <2>2. i + 3 = n + 1
    BY <1>1, <1>4, <2>1
  <2> QED BY <1>3, <2>1, <2>2
<1>5. Parted(s, w)
  BY <1>4 DEF Parted, u
<1> QED BY <1>1, <1>2, <1>5, GenuineGrows

\* A telegram behind an ACK begins an answer of its own.
LEMMA GenuineBehindAck ==
  ASSUME NEW s \in Seq(Byte), NEW t, Separate(t), NEW m, Genuine(s, m), Genuine(t, m)
  PROVE  (s \o << ACK >>) \o t \in Seq(Byte) /\ Genuine((s \o << ACK >>) \o t, m)
<1> DEFINE r == s \o << ACK >>
           n == Len(s) + 1
           u == r \o t
<1>1. t \in Seq(Byte) /\ n \in Nat /\ Len(t) \in Nat /\ ACK \in Byte /\ ACK # VirtualRead
  BY AnswerSizes DEF Separate
<1>2. r \in Seq(Byte) /\ Len(r) = n /\ r[n] = ACK
  BY <1>1, FrontLast
<1>3. Genuine(r, m)
  BY <1>1, GenuineByte
<1> HIDE DEF r
<1>4. u \in Seq(Byte) /\ Len(u) = n + Len(t) /\ Piece(r, u, 0) /\ Piece(t, u, n)
  BY <1>1, <1>2, PiecesOfBoth
<1> HIDE DEF u
<1>5. u[n] = ACK
  BY <1>1, <1>2, <1>4 DEF Piece
<1>6. ASSUME NEW i \in 1..n, i + 3 > n PROVE ~Opens(u, i)
  <2> SUFFICES ASSUME Opens(u, i) PROVE FALSE
    OBVIOUS
  <2>1. /\ i + 3 <= n + Len(t) /\ u[i] = LEADIN /\ u[i + 2] = Response /\ u[i + 3] = VirtualRead
    BY <1>4 DEF Opens
  <2>2. i = n \/ i + 1 = n \/ i + 2 = n
    BY <1>1, <1>6
  <2>3. i + 1 = n
    BY <1>5, <2>1, <2>2, AnswerSizes
  <2>4. 1 \in 1..Len(t) /\ 2 \in 1..Len(t) /\ n + 1 = i + 2 /\ n + 2 = i + 3
    BY <1>1, <2>1, <2>3
  <2>5. t[1] = u[n + 1]
    BY <1>4, <2>4, Zenon DEF Piece
  <2>6. t[2] = u[n + 2]
    BY <1>4, <2>4, Zenon DEF Piece
  <2> QED BY <2>1, <2>4, <2>5, <2>6 DEF Separate
<1>7. Parted(r, t)
  BY <1>2, <1>6 DEF Parted, u
<1> QED BY <1>1, <1>2, <1>3, <1>7, GenuineGrows DEF r

-----------------------------------------------------------------------------
(* What each step does to the line *)

\* What the client has read of a telegram is bytes.
LEMMA TakenBytes == ASSUME TypeOK PROVE Taken \in Seq(Byte) /\ Taken \o rx \in Seq(Byte)
<1>1. LEADIN \in Byte /\ msgLen \in Byte /\ rx \in Seq(Byte)
  BY AnswerSizes DEF TypeOK, ClientOK, LineOK
<1>2. Taken \in Seq(Byte)
  BY <1>1 DEF Taken
<1> QED BY <1>1, <1>2, ConcatProperties

\* Only the contents of the addresses that keep theirs are of interest.
LEMMA GenuineKeeps ==
  ASSUME NEW s, NEW m, NEW w, \A a \in Constant : m[a] = w[a], Genuine(s, m)
  PROVE  Genuine(s, w)
<1>1. \A t : Trusted(t, m) => Trusted(t, w)
  BY DEF Trusted
<1> QED BY <1>1 DEF Genuine, GenuineAt

\* The client, which is not within a telegram then, has read or dropped a part of the line.
LEMMA LineShrinks ==
  ASSUME TypeOK, ReadsGenuine, UNCHANGED mem, pc' \notin {"length", "body"},
         NEW k \in Nat, k <= Len(rx), rx' = SubSeq(rx, k + 1, Len(rx))
  PROVE  ReadsGenuine'
<1> DEFINE s == Taken \o rx
           n == Len(Taken)
           u == rx'
<1>1. rx \in Seq(Byte) /\ Taken \in Seq(Byte) /\ s \in Seq(Byte) /\ n \in Nat
  BY TakenBytes DEF TypeOK, LineOK
<1>2. Len(s) = n + Len(rx) /\ \A i \in 1..Len(rx) : s[n + i] = rx[i]
  BY <1>1
<1>3. u \in Seq(Byte) /\ Len(u) = Len(rx) - k /\ \A i \in 1..Len(u) : u[i] = rx[k + i]
  BY <1>1
<1>4. Genuine(s, mem')
  BY DEF ReadsGenuine
<1> HIDE DEF s, n, u
<1>5. n + k \in Nat /\ n + k + Len(u) = Len(s) /\ Len(rx) \in Nat
  BY <1>1, <1>2, <1>3
<1>6. Piece(u, s, n + k)
  <2> SUFFICES ASSUME NEW i \in 1..Len(u) PROVE u[i] = s[(n + k) + i]
    BY <1>5 DEF Piece
  <2>1. u[i] = rx[k + i]
    BY <1>3
  <2>2. k + i \in 1..Len(rx) /\ (n + k) + i = n + (k + i)
    BY <1>1, <1>3, <1>5
  <2>3. s[n + (k + i)] = rx[k + i]
    BY <1>2, <2>2, Zenon
  <2> QED BY <2>1, <2>2, <2>3
<1>7. Genuine(u, mem')
  BY <1>1, <1>3, <1>4, <1>5, <1>6, RestIsGenuine
<1>8. Taken' = << >> /\ << >> \o u = u
  <2>1. << >> \o u = u
    BY <1>3
  <2> QED BY <2>1 DEF Taken
<1> QED BY <1>7, <1>8 DEF u, ReadsGenuine

\* One byte is read.
LEMMA ByteRead ==
  ASSUME TypeOK, ReadsGenuine, UNCHANGED mem, pc' \notin {"length", "body"},
         rx # << >>, rx' = Tail(rx)
  PROVE  ReadsGenuine'
<1>1. Tail(rx) = SubSeq(rx, 1 + 1, Len(rx)) /\ 1 \in Nat /\ 1 <= Len(rx)
  BY DEF TypeOK, LineOK
<1> QED BY <1>1, LineShrinks

\* The line stays as it is.
LEMMA LineStays ==
  ASSUME ReadsGenuine, rx' = rx, Taken' = Taken, \A a \in Constant : mem[a] = mem'[a]
  PROVE  ReadsGenuine'
<1>1. Genuine(Taken \o rx, mem')
  BY GenuineKeeps DEF ReadsGenuine
<1> QED BY <1>1 DEF ReadsGenuine

\* The line stays as it is, and the client leaves a telegram at most.
LEMMA LineKept ==
  ASSUME TypeOK, ReadsGenuine, UNCHANGED << rx, mem >>, pc' \notin {"length", "body"}
  PROVE  ReadsGenuine'
<1>1. rx = SubSeq(rx, 0 + 1, Len(rx)) /\ 0 \in Nat /\ 0 <= Len(rx)
  <2>1. rx \in Seq(Byte)
    BY DEF TypeOK, LineOK
  <2> DEFINE r == SubSeq(rx, 0 + 1, Len(rx))
  <2>2. r \in Seq(Byte) /\ Len(r) = Len(rx) /\ \A i \in 1..Len(r) : r[i] = rx[i]
    BY <2>1
  <2> HIDE DEF r
  <2>3. r = rx
    BY <2>1, <2>2, SeqEqual
  <2> QED BY <2>1, <2>3 DEF r
<1> QED BY <1>1, LineShrinks

\* A control byte arrives.
LEMMA ByteArrives ==
  ASSUME TypeOK, ReadsGenuine, UNCHANGED mem, Taken' = Taken,
         NEW b \in {SYNC, ACK, NACK}, rx' = Append(rx, b)
  PROVE  ReadsGenuine'
<1> DEFINE s == Taken \o rx
<1>1. rx \in Seq(Byte) /\ Taken \in Seq(Byte) /\ s \in Seq(Byte)
  BY TakenBytes DEF TypeOK, LineOK
<1>2. b \in Byte /\ b # VirtualRead /\ << b >> \in Seq(Byte)
  BY AnswerSizes
<1>3. Genuine(s, mem)
  BY DEF ReadsGenuine
<1>4. Taken \o (rx \o << b >>) = s \o << b >>
  BY <1>1, <1>2, ConcatAssociative
<1>5. Append(rx, b) = rx \o << b >>
  BY <1>1, <1>2
<1> HIDE DEF s
<1>6. Genuine(s \o << b >>, mem)
  BY <1>1, <1>2, <1>3, GenuineByte
<1> QED BY <1>4, <1>5, <1>6 DEF ReadsGenuine

\* A telegram arrives behind an ACK.
LEMMA TelegramArrives ==
  ASSUME TypeOK, ReadsGenuine, \A a \in Constant : mem[a] = mem'[a], Taken' = Taken,
         NEW t, Separate(t), Genuine(t, mem'), rx' = rx \o << ACK >> \o t
  PROVE  ReadsGenuine'
<1> DEFINE s == Taken \o rx
<1>1. rx \in Seq(Byte) /\ Taken \in Seq(Byte) /\ s \in Seq(Byte) /\ t \in Seq(Byte)
  BY TakenBytes DEF TypeOK, LineOK, Separate
<1>2. << ACK >> \in Seq(Byte)
  BY AnswerSizes
<1>3. Genuine(s, mem')
  BY GenuineKeeps DEF ReadsGenuine
<1>4. Taken \o (rx \o << ACK >>) = s \o << ACK >>
  BY <1>1, <1>2, ConcatAssociative
<1>5. rx \o << ACK >> \in Seq(Byte)
  BY <1>1, <1>2, ConcatProperties
<1>6. Taken \o ((rx \o << ACK >>) \o t) = (Taken \o (rx \o << ACK >>)) \o t
  BY <1>1, <1>5, ConcatAssociative, SMTT(30)
<1> HIDE DEF s
<1>7. Genuine((s \o << ACK >>) \o t, mem')
  BY <1>1, <1>3, GenuineBehindAck
<1> QED BY <1>4, <1>6, <1>7 DEF ReadsGenuine

-----------------------------------------------------------------------------
(* What each step does to the requests *)

\* A step that sends at most what the operation asks for.
LEMMA RequestsStay ==
  ASSUME TypeOK, WritesOthers, UNCHANGED << op, task >>,
         \/ tx' = tx
         \/ tx # << >> /\ tx' = Tail(tx)
         \/ \E m \in {"RESET", "START", "ACK", "NACK"} : tx' = Append(tx, Control(m))
         \/ pc = "write" /\ tx' = Append(tx, Request(op))
  PROVE  WritesOthers'
<1>1. tx \in Seq(Messages)
  BY DEF TypeOK, LineOK
<1>2. ASSUME NEW i \in 1..Len(tx'), tx'[i].m = "telegram", tx'[i].fn = VirtualWrite
      PROVE  tx'[i].addr \notin Constant
  <2>1. ASSUME NEW j \in 1..Len(tx), tx'[i] = tx[j] PROVE tx'[i].addr \notin Constant
    BY <1>2, <2>1 DEF WritesOthers
  <2>2. CASE tx' = tx
    BY <2>1, <2>2
  <2>3. CASE tx # << >> /\ tx' = Tail(tx)
    <3>1. i + 1 \in 1..Len(tx) /\ tx'[i] = tx[i + 1]
      BY <1>1, <2>3
    <3> QED BY <2>1, <3>1
  <2>4. ASSUME NEW c, tx' = Append(tx, c)
        PROVE  tx'[i] = c \/ (i \in 1..Len(tx) /\ tx'[i] = tx[i])
    BY <1>1, <2>4
  <2>5. ASSUME NEW m \in {"RESET", "START", "ACK", "NACK"}, tx' = Append(tx, Control(m))
        PROVE  tx'[i].addr \notin Constant
    <3>1. Control(m).m # "telegram"
      BY MessageKinds
    <3> QED BY <1>2, <2>1, <2>4, <2>5, <3>1
  <2>6. CASE pc = "write" /\ tx' = Append(tx, Request(op))
    <3>1. Request(op).fn = VirtualWrite => op.kind = "set"
      <4>1. op.kind \in {"get", "set"}
        BY <2>6 DEF TypeOK, ClientOK, Operations
      <4> QED BY <4>1, MessageKinds, AnswerSizes DEF FunctionOf
    <3>2. Request(op).addr = op.addr
      BY MessageKinds
    <3> QED BY <1>2, <2>1, <2>4, <2>6, <3>1, <3>2 DEF WritesOthers
  <2> QED BY <2>2, <2>3, <2>5, <2>6
<1> QED BY <1>2 DEF WritesOthers

\* An operation begins.
LEMMA BeginsOther ==
  ASSUME WritesOthers, UNCHANGED tx, task'.kind = "set" => task'.addr \notin Constant,
         NEW id, NEW a, NEW v,
         BeginNegotiate(id) \/ BeginGet(a, id) \/ (BeginSet(a, v, id) /\ a \notin Constant)
  PROVE  WritesOthers' /\ OwnContent' /\ pc' \notin {"length", "body"}
<1>1. pc' \in {"reset", "write"} /\ (op'.kind = "set" => op'.addr \notin Constant)
  BY DEF BeginNegotiate, BeginGet, BeginSet, Begin, Operation
<1> QED BY <1>1 DEF WritesOthers, OwnContent

\* The command of the call begins.
LEMMA TaskOther ==
  ASSUME WritesOthers, UNCHANGED tx, NEW t, NEW id, BeginTask(t, id), task' = t,
         t.kind = "set" => t.addr \notin Constant, t.kind \in {"get", "set"}
  PROVE  WritesOthers' /\ OwnContent' /\ pc' \notin {"length", "body"}
  BY BeginsOther DEF BeginTask

-----------------------------------------------------------------------------
(* The steps *)

\* What the client has read of a telegram stays what it is.
LEMMA TakenStays == ASSUME UNCHANGED << pc, msgLen >> PROVE Taken' = Taken
  BY DEF Taken

\* Two bytes, one by one.
LEMMA TwoBytes ==
  ASSUME NEW b \in Byte, NEW c \in Byte
  PROVE  << b >> \in Seq(Byte) /\ << c >> \in Seq(Byte) /\ << b >> \o << c >> = << b, c >>
<1> DEFINE l == << b >> \o << c >>
           r == << b, c >>
<1>1. /\ << b >> \in Seq(Byte) /\ Len(<< b >>) = 1 /\ << b >>[1] = b
      /\ << c >> \in Seq(Byte) /\ Len(<< c >>) = 1 /\ << c >>[1] = c
  OBVIOUS
<1>2. r \in Seq(Byte) /\ Len(r) = 2 /\ r[1] = b /\ r[2] = c
  OBVIOUS
<1>3. l \in Seq(Byte) /\ Len(l) = 1 + 1 /\ l[1 + 1] = c /\ \A i \in 1..1 : l[i] = << b >>[i]
  BY <1>1, FrontLast
<1> HIDE DEF l, r
<1>4. l[1] = b
  BY <1>1, <1>3
<1>5. \A i \in 1..Len(l) : l[i] = r[i]
  BY <1>2, <1>3, <1>4
<1>6. l = r
  BY <1>2, <1>3, <1>5, SeqEqual
<1> QED BY <1>1, <1>6 DEF l, r

\* The client reads the beginning of a telegram.
LEMMA BeginningRead ==
  ASSUME TypeOK, ReadsGenuine, UNCHANGED mem, rx # << >>, rx' = Tail(rx),
         \/ pc = "leadin" /\ pc' = "length" /\ Head(rx) = LEADIN
         \/ pc = "length" /\ pc' = "body" /\ msgLen' = Head(rx)
  PROVE  ReadsGenuine'
<1> DEFINE r == Tail(rx)
           h == Head(rx)
<1>1. rx \in Seq(Byte)
  BY DEF TypeOK, LineOK
<1>2. /\ r \in Seq(Byte) /\ h \in Byte /\ Len(rx) = 1 + Len(r) /\ rx[1] = h
      /\ \A i \in 1..Len(r) : rx[1 + i] = r[i]
  BY <1>1
<1> HIDE DEF r, h
<1>3. /\ << h >> \o r \in Seq(Byte) /\ Len(<< h >> \o r) = 1 + Len(r)
      /\ (<< h >> \o r)[1] = h /\ \A i \in 1..Len(r) : (<< h >> \o r)[1 + i] = r[i]
  BY <1>2, ByteFirst
<1>4. << h >> \o r = rx
  <2> DEFINE w == << h >> \o r
  <2>1. w \in Seq(Byte) /\ Len(w) = Len(rx) /\ w[1] = rx[1]
        /\ \A i \in 1..Len(r) : w[1 + i] = rx[1 + i]
    BY <1>2, <1>3
  <2> HIDE DEF w
  <2>2. ASSUME NEW j \in 1..Len(w) PROVE w[j] = rx[j]
    <3>1. CASE j = 1
      BY <2>1, <3>1
    <3>2. CASE j # 1
      <4>1. PICK i \in 1..Len(r) : j = 1 + i
        <5>1. j - 1 \in 1..Len(r) /\ j = 1 + (j - 1)
          BY <1>2, <2>1, <3>2
        <5> QED BY <5>1
      <4> QED BY <2>1, <4>1
    <3> QED BY <3>1, <3>2
  <2>3. w = rx
    BY <1>1, <2>1, <2>2, SeqEqual
  <2> QED BY <2>3 DEF w
<1>5. rx' = r /\ Head(rx) = h
  BY DEF r, h
<1>6. CASE pc = "leadin" /\ pc' = "length" /\ Head(rx) = LEADIN
  <2>1. Taken = << >> /\ Taken' = << h >>
    BY <1>5, <1>6 DEF Taken
  <2>2. << >> \o rx = rx
    BY <1>1
  <2> QED BY <1>4, <1>5, <2>1, <2>2 DEF ReadsGenuine
<1>7. CASE pc = "length" /\ pc' = "body" /\ msgLen' = Head(rx)
  <2>1. Taken = << LEADIN >> /\ Taken' = << LEADIN, h >>
    BY <1>5, <1>7 DEF Taken
  <2>2. /\ << LEADIN >> \in Seq(Byte) /\ << h >> \in Seq(Byte)
        /\ << LEADIN >> \o << h >> = << LEADIN, h >>
    BY <1>2, AnswerSizes, TwoBytes, Zenon
  <2>3. << LEADIN >> \o (<< h >> \o r) = << LEADIN, h >> \o r
    BY <1>2, <2>2, ConcatAssociative
  <2> QED BY <1>4, <1>5, <2>1, <2>3 DEF ReadsGenuine
<1> QED BY <1>6, <1>7

\* The client accepts an answer: it is what the address contains.
LEMMA BodyIsOwn ==
  ASSUME TypeOK, ReadsGenuine, pc = "body", Len(rx) > msgLen, op.kind = "get", op.addr \in Constant,
         NEW t, t = << msgLen >> \o SubSeq(rx, 1, msgLen),
         wrapping_sum(t) = rx[msgLen + 1], Accepted(op, t)
  PROVE  SubSeq(t, 7, 6 + BlockLen) = mem[op.addr]
<1> DEFINE s == << LEADIN, msgLen >> \o rx
           n == 6 + BlockLen
           l == SubSeq(rx, 1, msgLen)
<1>1. rx \in Seq(Byte) /\ msgLen \in Byte /\ msgLen \in Nat /\ Len(rx) \in Nat
  BY InByte DEF TypeOK, LineOK, ClientOK
<1>2. l \in Seq(Byte) /\ Len(l) = msgLen /\ \A i \in 1..msgLen : l[i] = rx[i]
  BY <1>1
<1> HIDE DEF l
<1>3. /\ t \in Seq(Byte) /\ Len(t) = 1 + msgLen /\ t[1] = msgLen
      /\ \A i \in 1..msgLen : t[1 + i] = l[i]
  BY <1>1, <1>2, ByteFirst DEF l
<1>4. /\ t[2] = Response /\ t[3] = VirtualRead /\ t[4] * 256 + t[5] = op.addr
      /\ t[1] - 5 = t[6] /\ t[6] = BlockLen
  BY DEF Accepted, FunctionOf
<1>5. msgLen = 5 + BlockLen /\ n = msgLen + 1 /\ n \in Nat /\ n >= 7 /\ BlockLen \in Nat
  <2>1. msgLen - 5 = BlockLen
    BY <1>3, <1>4
  <2>2. BlockLen \in Nat /\ BlockLen >= 1
    BY AnswerSizes
  <2> QED BY <1>1, <2>1, <2>2
<1>6. << LEADIN, msgLen >> \in Seq(Byte) /\ Len(<< LEADIN, msgLen >>) = 2
  BY <1>1, AnswerSizes
<1>7. /\ s \in Seq(Byte) /\ Len(s) = 2 + Len(rx) /\ s[1] = LEADIN /\ s[2] = msgLen
      /\ \A i \in 1..Len(rx) : s[2 + i] = rx[i]
  BY <1>1, <1>6
<1> HIDE DEF n
<1>8. Taken = << LEADIN, msgLen >>
  BY DEF Taken
<1>9. Genuine(s, mem)
  BY <1>8 DEF ReadsGenuine
<1> HIDE DEF s
<1>10. t[2] = rx[1] /\ t[3] = rx[2] /\ s[3] = rx[1] /\ s[4] = rx[2]
  BY <1>1, <1>2, <1>3, <1>5, <1>7
<1>11. Opens(s, 1)
  BY <1>1, <1>4, <1>5, <1>7, <1>10 DEF Opens
<1>12. GenuineAt(s, 1, mem)
  BY <1>1, <1>7, <1>9, <1>11 DEF Genuine
<1>13. SubSeq(t, 0 + 1, 0 + n) = SubSeq(s, 1 + 1, 1 + n)
  <2>1. ASSUME NEW j \in 1..n PROVE t[0 + j] = s[1 + j]
    <3>1. CASE j = 1
      BY <1>3, <1>7, <3>1
    <3>2. CASE j # 1
      <4>1. PICK i \in 1..msgLen : j = 1 + i
        <5>1. j - 1 \in 1..msgLen /\ j = 1 + (j - 1)
          BY <1>1, <1>5, <3>2
        <5> QED BY <5>1
      <4>2. t[1 + i] = rx[i] /\ s[2 + i] = rx[i]
        BY <1>1, <1>2, <1>3, <1>7
      <4> QED BY <1>1, <4>1, <4>2
    <3> QED BY <3>1, <3>2
  <2>2. 0 + n <= Len(t) /\ 1 + n <= Len(s)
    BY <1>1, <1>3, <1>5, <1>7
  <2> DEFINE v == SubSeq(t, 0 + 1, 0 + n)
             w == SubSeq(s, 1 + 1, 1 + n)
  <2>3. v \in Seq(Byte) /\ Len(v) = n /\ \A j \in 1..n : v[j] = t[0 + j]
    BY <1>3, <1>5, <2>2, SMTT(30)
  <2>4. w \in Seq(Byte) /\ Len(w) = n /\ \A j \in 1..n : w[j] = s[1 + j]
    BY <1>5, <1>7, <2>2, SMTT(30)
  <2> HIDE DEF v, w
  <2>5. \A j \in 1..n : v[j] = w[j]
    BY <2>1, <2>3, <2>4, Zenon
  <2>6. v = w
    BY <2>3, <2>4, <2>5, SeqEqual
  <2> QED BY <2>6 DEF v, w
<1>14. SubSeq(t, 0 + 1, 0 + n) = t
  <2> DEFINE r == SubSeq(t, 0 + 1, 0 + n)
  <2>1. r \in Seq(Byte) /\ Len(r) = Len(t) /\ \A i \in 1..Len(r) : r[i] = t[i]
    BY <1>1, <1>3, <1>5
  <2> HIDE DEF r
  <2>2. r = t
    BY <1>3, <2>1, SeqEqual
  <2> QED BY <2>2 DEF r
<1>15. s[n + 2] = rx[msgLen + 1]
  <2>1. msgLen + 1 \in 1..Len(rx) /\ n + 2 = 2 + (msgLen + 1)
    BY <1>1, <1>5
  <2>2. s[2 + (msgLen + 1)] = rx[msgLen + 1]
    BY <1>7, <2>1, Zenon
  <2> QED BY <2>1, <2>2
<1>16. 1 + 6 + BlockLen = 1 + n /\ 1 + 7 + BlockLen = n + 2
  BY <1>5 DEF n
<1>17. wrapping_sum(t) = s[n + 2] => Trusted(t, mem)
  BY <1>12, <1>13, <1>14, <1>16 DEF GenuineAt
<1>18. Trusted(t, mem)
  BY <1>15, <1>17
<1> QED BY <1>4, <1>18 DEF Trusted

\* The client reads the rest of a telegram.
LEMMA ReadBodyOwn ==
  ASSUME TypeOK, ReadsGenuine, ReadBody PROVE ReadsGenuine' /\ OwnContent'
<1> DEFINE t == << msgLen >> \o SubSeq(rx, 1, msgLen)
           good == wrapping_sum(t) = rx[msgLen + 1] /\ Accepted(op, t)
<1>1. /\ pc = "body" /\ Len(rx) > msgLen /\ rx' = SubSeq(rx, msgLen + 2, Len(rx))
      /\ pc' = "done" /\ result' = (IF good THEN "ok" ELSE "err")
      /\ buf' = IF good /\ op.kind = "get" THEN SubSeq(t, 7, 6 + BlockLen) ELSE NoData
      /\ UNCHANGED << op, mem >>
  BY DEF ReadBody, Finish, controller
<1>2. rx \in Seq(Byte) /\ msgLen \in Nat
  BY InByte DEF TypeOK, LineOK, ClientOK
<1>3. ReadsGenuine'
  <2>1. msgLen + 1 \in Nat /\ msgLen + 1 <= Len(rx) /\ (msgLen + 1) + 1 = msgLen + 2
    BY <1>1, <1>2
  <2> QED BY <1>1, <2>1, LineShrinks
<1>4. ASSUME good, op.kind = "get", op.addr \in Constant
      PROVE  SubSeq(t, 7, 6 + BlockLen) = mem[op.addr]
  BY <1>1, <1>4, BodyIsOwn
<1> HIDE DEF t
<1>5. OwnContent'
  BY <1>1, <1>4 DEF OwnContent
<1> QED BY <1>3, <1>5

\* Every step of the client.
LEMMA ProgressOwn ==
  ASSUME OwnInv, Progress PROVE ReadsGenuine' /\ WritesOthers' /\ OwnContent'
<1> USE DEF OwnInv
<1>1. UNCHANGED << op, mem, task >>
  BY DEF Progress, ClientStep, WriteTelegram, ReadStatus, Reset, AwaitSync, WriteStart,
     ReadStartStatus, ReadLeadin, ReadLength, ReadBody, controller, sessionvars
<1>2. ASSUME WriteTelegram PROVE ReadsGenuine' /\ WritesOthers' /\ OwnContent'
  <2>1. pc = "write" /\ tx' = Append(tx, Request(op)) /\ pc' = "status" /\ rx' = rx
    BY <1>2 DEF WriteTelegram
  <2> QED BY <1>1, <2>1, LineKept, RequestsStay DEF OwnContent
<1>3. ASSUME ReadStatus PROVE ReadsGenuine' /\ WritesOthers' /\ OwnContent'
  <2>1. /\ rx # << >> /\ rx' = Tail(rx) /\ tx' = tx
        /\ pc' \in {"leadin", "reset"} \/ (pc' = "done" /\ result' = "err")
    BY <1>3 DEF ReadStatus, Finish
  <2> QED BY <1>1, <2>1, ByteRead, RequestsStay DEF OwnContent
<1>4. ASSUME Reset PROVE ReadsGenuine' /\ WritesOthers' /\ OwnContent'
  <2>1. /\ Purge /\ pc' = "sync" /\ tx' = Append(tx, Control("RESET"))
    BY <1>4 DEF Reset
  <2>2. PICK k \in Nat : k <= Len(rx) /\ rx' = SubSeq(rx, k + 1, Len(rx))
    <3>1. rx \in Seq(Byte)
      BY DEF TypeOK, LineOK
    <3>2. SubSeq(rx, Len(rx) + 1, Len(rx)) = << >> /\ Len(rx) \in Nat /\ Len(rx) <= Len(rx)
      BY <3>1
    <3>3. CASE rx' = << >>
      BY <3>2, <3>3
    <3>4. CASE \E k \in 0..Len(rx) : rx' = SubSeq(rx, k + 1, Len(rx))
      BY <3>4
    <3> QED BY <2>1, <3>3, <3>4 DEF Purge
  <2> QED BY <1>1, <2>1, <2>2, LineShrinks, RequestsStay DEF OwnContent
<1>5. ASSUME AwaitSync PROVE ReadsGenuine' /\ WritesOthers' /\ OwnContent'
  <2>1. rx # << >> /\ rx' = Tail(rx) /\ tx' = tx /\ pc' \in {"start", "sync"}
    BY <1>5 DEF AwaitSync
  <2> QED BY <1>1, <2>1, ByteRead, RequestsStay DEF OwnContent
<1>6. ASSUME WriteStart PROVE ReadsGenuine' /\ WritesOthers' /\ OwnContent'
  <2>1. tx' = Append(tx, Control("START")) /\ pc' = "started" /\ rx' = rx
    BY <1>6 DEF WriteStart
  <2> QED BY <1>1, <2>1, LineKept, RequestsStay DEF OwnContent
<1>7. ASSUME ReadStartStatus PROVE ReadsGenuine' /\ WritesOthers' /\ OwnContent'
  <2>1. /\ rx # << >> /\ rx' = Tail(rx) /\ tx' = tx
        /\ pc' \in {"write", "sync"} \/ (pc' = "done" /\ (result' = "err" \/ op.kind = "negotiate"))
    BY <1>7 DEF ReadStartStatus, Finish
  <2> QED BY <1>1, <2>1, ByteRead, RequestsStay DEF OwnContent
<1>8. ASSUME ReadLeadin PROVE ReadsGenuine' /\ WritesOthers' /\ OwnContent'
  <2>1. /\ pc = "leadin" /\ rx # << >> /\ rx' = Tail(rx) /\ tx' = tx
        /\ (pc' = "length" /\ Head(rx) = LEADIN) \/ (pc' = "done" /\ result' = "err")
    BY <1>8 DEF ReadLeadin, Finish
  <2> QED BY <1>1, <2>1, ByteRead, BeginningRead, RequestsStay DEF OwnContent
<1>9. ASSUME ReadLength PROVE ReadsGenuine' /\ WritesOthers' /\ OwnContent'
  <2>1. /\ pc = "length" /\ rx # << >> /\ rx' = Tail(rx) /\ tx' = tx
        /\ pc' = "body" /\ msgLen' = Head(rx)
    BY <1>9 DEF ReadLength
  <2> QED BY <1>1, <2>1, BeginningRead, RequestsStay DEF OwnContent
<1>10. ASSUME ReadBody PROVE ReadsGenuine' /\ WritesOthers' /\ OwnContent'
  <2>1. tx' = Append(tx, Control("ACK")) \/ tx' = Append(tx, Control("NACK"))
    BY <1>10 DEF ReadBody
  <2> QED BY <1>1, <1>10, <2>1, ReadBodyOwn, RequestsStay
<1> QED BY <1>2, <1>3, <1>4, <1>5, <1>6, <1>7, <1>8, <1>9, <1>10 DEF Progress, ClientStep

\* The controller has got a telegram.
LEMMA GetsTelegram ==
  ASSUME TypeOK, Receives("telegram")
  PROVE  /\ tx # << >> /\ tx' = Tail(tx) /\ Head(tx).addr \in Addr /\ mem[Head(tx).addr] \in Val
         /\ Head(tx).fn \in {VirtualRead, VirtualWrite}
         /\ Head(tx).fn = VirtualWrite => Head(tx).data \in Val
<1>1. Head(tx) \in Messages /\ Head(tx).m = "telegram"
  BY ReceiveType DEF TypeOK, LineOK
<1>2. Head(tx).addr \in Addr
  BY <1>1, TelegramMessage
<1> QED BY <1>1, <1>2, TelegramMessage DEF Receives, TypeOK, ControllerOK

\* A step that leaves the client and the memory alone but for addresses that may change.
LEMMA ContentStays ==
  ASSUME OwnContent, UNCHANGED << pc, result, op, buf >>, \A a \in Constant : mem[a] = mem'[a]
  PROVE  OwnContent'
  BY DEF OwnContent

\* A write does not reach an address that keeps its content.
LEMMA PutOthers ==
  ASSUME TypeOK, NEW a \in Addr \ Constant, NEW v, Put(a, v)
  PROVE  \A b \in Constant : mem[b] = mem'[b]
<1>1. mem \in [Addr -> Val]
  BY DEF TypeOK, ControllerOK
<1> QED BY <1>1, Vs2Assumption DEF Put

\* Every step of the controller and the line.
LEMMA EnvironmentOwn ==
  ASSUME NoFalseAnswer, OwnInv, Environment PROVE ReadsGenuine' /\ WritesOthers' /\ OwnContent'
<1> USE DEF OwnInv
<1>1. CASE IoError
  <2>1. /\ Consumed /\ Flushed /\ pc' = "done" /\ result' = "err"
        /\ UNCHANGED << op, mem, task >>
    BY <1>1 DEF Environment, IoError, Finish, controller, sessionvars
  <2>2. PICK k \in Nat : k <= Len(rx) /\ rx' = SubSeq(rx, k + 1, Len(rx))
    BY <2>1, InByte DEF Consumed, TypeOK, ClientOK
  <2> QED BY <2>1, <2>2, LineShrinks, RequestsStay DEF Flushed, OwnContent
<1> SUFFICES ASSUME ~IoError PROVE ReadsGenuine' /\ WritesOthers' /\ OwnContent'
  BY <1>1
<1>2. UNCHANGED << pc, op, result, buf, msgLen, task >>
  BY DEF Environment, EnvironmentStep, ControllerStep, SendSync, ReceiveReset, ReceiveStart,
     ReceiveRead, ReceiveWrite, Ignore, Refuse, AnswerNack, DisturbRead, Fallback, Lose, Change,
     client, sessionvars
<1>3. Taken' = Taken
  BY <1>2, TakenStays
<1>4. ASSUME UNCHANGED mem PROVE OwnContent'
  BY <1>2, <1>4, ContentStays
<1>5. ASSUME SendSync \/ Fallback PROVE ReadsGenuine' /\ WritesOthers' /\ OwnContent'
  <2>1. UNCHANGED << tx, mem >> /\ (rx' = Append(rx, SYNC) \/ rx' = rx)
    BY <1>5 DEF SendSync, Fallback, controller, line
  <2> QED BY <1>2, <1>3, <1>4, <2>1, LineStays, ByteArrives, RequestsStay
<1>6. ASSUME ReceiveReset \/ ReceiveStart \/ Ignore \/ Lose
      PROVE  ReadsGenuine' /\ WritesOthers' /\ OwnContent'
  <2>1. /\ tx # << >> /\ tx' = Tail(tx) /\ UNCHANGED mem
        /\ rx' = rx \/ rx' = Append(rx, ACK)
    BY <1>6 DEF ReceiveReset, ReceiveStart, Ignore, Lose, Receives, controller
  <2> QED BY <1>2, <1>3, <1>4, <2>1, LineStays, ByteArrives, RequestsStay
<1>7. ASSUME AnswerNack PROVE ReadsGenuine' /\ WritesOthers' /\ OwnContent'
  <2>1. tx # << >> /\ tx' = Tail(tx) /\ UNCHANGED mem /\ rx' = Append(rx, NACK)
    BY <1>7 DEF AnswerNack, Receives, controller
  <2> QED BY <1>2, <1>3, <1>4, <2>1, ByteArrives, RequestsStay
<1>8. ASSUME ReceiveRead PROVE ReadsGenuine' /\ WritesOthers' /\ OwnContent'
  <2> DEFINE a == Head(tx).addr
             t == Telegram(Response, VirtualRead, a, BlockLen, mem[a])
  <2>1. Receives("telegram") /\ UNCHANGED mem /\ rx' = rx \o << ACK >> \o t
    BY <1>8 DEF ReceiveRead, controller
  <2>2. tx # << >> /\ tx' = Tail(tx) /\ a \in Addr /\ mem[a] \in Val
    BY <2>1, GetsTelegram
  <2>3. Genuine(t, mem) /\ Separate(t)
    BY <2>2, ReadGenuine
  <2> HIDE DEF t
  <2> QED BY <1>2, <1>3, <1>4, <2>1, <2>2, <2>3, TelegramArrives, RequestsStay
<1>9. ASSUME ReceiveWrite PROVE ReadsGenuine' /\ WritesOthers' /\ OwnContent'
  <2> DEFINE a == Head(tx).addr
             v == Head(tx).data
             t == Telegram(Response, VirtualWrite, a, Len(v), NoData)
  <2>1. /\ Receives("telegram") /\ Head(tx).fn = VirtualWrite /\ rx' = rx \o << ACK >> \o t
        /\ Put(a, v)
    BY <1>9 DEF ReceiveWrite
  <2>2. tx # << >> /\ tx' = Tail(tx) /\ a \in Addr /\ v \in Val
    BY <2>1, GetsTelegram
  <2>3. a \notin Constant
    <3>1. 1 \in 1..Len(tx) /\ Head(tx) = tx[1]
      BY <2>2 DEF TypeOK, LineOK
    <3> QED BY <2>1, <3>1 DEF Receives, WritesOthers
  <2>4. Len(v) = BlockLen
    BY <2>2, ValIsBytes
  <2>5. Genuine(t, mem') /\ Separate(t)
    BY <2>2, <2>4, WriteGenuine
  <2>6. \A b \in Constant : mem[b] = mem'[b]
    BY <2>1, <2>2, <2>3, PutOthers
  <2> HIDE DEF t
  <2> QED BY <1>2, <1>3, <2>1, <2>2, <2>5, <2>6, TelegramArrives, RequestsStay, ContentStays
<1>10. ASSUME Refuse PROVE ReadsGenuine' /\ WritesOthers' /\ OwnContent'
  <2> DEFINE a == Head(tx).addr
             t == Telegram(Error, Head(tx).fn, a, 1, << 1 >>)
  <2>1. Receives("telegram") /\ UNCHANGED mem /\ rx' = rx \o << ACK >> \o t
    BY <1>10 DEF Refuse, controller
  <2>2. tx # << >> /\ tx' = Tail(tx) /\ a \in Addr /\ Head(tx).fn \in {VirtualRead, VirtualWrite}
    BY <2>1, GetsTelegram
  <2>3. Genuine(t, mem) /\ Separate(t)
    BY <2>2, RefusalGenuine
  <2> HIDE DEF t
  <2> QED BY <1>2, <1>3, <1>4, <2>1, <2>2, <2>3, TelegramArrives, RequestsStay
<1>11. ASSUME DisturbRead PROVE ReadsGenuine' /\ WritesOthers' /\ OwnContent'
  <2> DEFINE a == Head(tx).addr
             t == Telegram(Response, VirtualRead, a, BlockLen, mem[a])
  <2>1. Receives("telegram") /\ UNCHANGED mem
    BY <1>11 DEF DisturbRead, controller
  <2>2. tx # << >> /\ tx' = Tail(tx) /\ a \in Addr /\ mem[a] \in Val
    BY <2>1, GetsTelegram
  <2>3. t \in Seq(Byte) /\ Len(t) \in 1..Len(t)
    <3>1. /\ mem[a] \in Seq(Byte) /\ Len(mem[a]) = BlockLen
          /\ BlockLen \in Nat /\ 5 + BlockLen \in Byte
      BY <2>2, ValIsBytes, AnswerSizes
    <3>2. Response \in Byte /\ VirtualRead \in Byte /\ BlockLen \in Byte
      BY AnswerSizes, BlockLenByte
    <3>3. t \in Seq(Byte) /\ Len(t) = 8 + BlockLen
      BY <2>2, <3>1, <3>2, TelegramHead
    <3> HIDE DEF t
    <3> QED BY <3>1, <3>3
  <2>4. PICK kind \in {"checksum", "garble"}, b \in Noise :
          /\ kind \in EnvKinds
          /\ \E i \in (IF kind = "checksum" THEN {Len(t)} ELSE 1..Len(t)) :
               b # t[i] /\ rx' = rx \o << ACK >> \o [t EXCEPT ![i] = b]
    BY <1>11 DEF DisturbRead, Happens
  <2>5. t \in ReadTelegrams
    BY <2>2 DEF ReadTelegrams
  <2> HIDE DEF t
  <2>6. PICK i \in 1..Len(t) :
          /\ b # t[i] /\ rx' = rx \o << ACK >> \o [t EXCEPT ![i] = b]
          /\ "garble" \in EnvKinds \/ ("checksum" \in EnvKinds /\ i = Len(t))
    BY <2>3, <2>4
  <2>7. [t EXCEPT ![i] = b] \in Telegrams /\ b \in Byte
    <3> DEFINE w == [t EXCEPT ![i] = b]
               all(j) == {[t EXCEPT ![j] = c] : c \in Noise}
    <3>1. i \in Places(t)
      BY <2>6 DEF Places
    <3>2. Disturbed(t) = UNION {all(j) : j \in Places(t)}
      BY DEF Disturbed
    <3>3. w \in all(i)
      OBVIOUS
    <3> HIDE DEF w, all
    <3>4. w \in Disturbed(t)
      BY <3>1, <3>2, <3>3, Zenon
    <3> QED BY <2>5, <3>4, Vs2Assumption DEF Telegrams, w
  <2>8. Genuine([t EXCEPT ![i] = b], mem) /\ Separate([t EXCEPT ![i] = b])
    BY <2>2, <2>6, <2>7, DisturbedGenuine DEF t
  <2> QED BY <1>2, <1>3, <1>4, <2>1, <2>2, <2>6, <2>8, TelegramArrives, RequestsStay
<1>12. ASSUME Change PROVE ReadsGenuine' /\ WritesOthers' /\ OwnContent'
  <2>1. PICK a \in Addr \ Constant, v \in Val : Put(a, v)
    BY <1>12 DEF Change
  <2>2. UNCHANGED << rx, tx >>
    BY <1>12 DEF Change, line
  <2>3. \A b \in Constant : mem[b] = mem'[b]
    BY <2>1, PutOthers
  <2> QED BY <1>2, <1>3, <2>2, <2>3, LineStays, RequestsStay, ContentStays
<1> QED BY <1>5, <1>6, <1>7, <1>8, <1>9, <1>10, <1>11, <1>12
        DEF Environment, EnvironmentStep, ControllerStep

\* The caller calls get, or set for an address that does not keep its content.
LEMMA CallOwn ==
  ASSUME OwnInv, NEW t, Call(t), t.kind \in {"get", "set"}, t.kind = "set" => t.addr \notin Constant
  PROVE  ReadsGenuine' /\ WritesOthers' /\ OwnContent'
<1> USE DEF OwnInv
<1>1. /\ task' = t /\ UNCHANGED << rx, tx, mem >>
      /\ BeginTask(t, calls + 1) \/ BeginNegotiate(calls + 1)
  BY DEF Call, line, controller
<1>2. WritesOthers' /\ OwnContent' /\ pc' \notin {"length", "body"}
  BY <1>1, BeginsOther, TaskOther
<1> QED BY <1>1, <1>2, LineKept

\* The steps of the methods of VControl, and a call that ends early.
LEMMA MethodOwn ==
  ASSUME OwnInv, Method \/ ReinitializeFails \/ Cancel
  PROVE  ReadsGenuine' /\ WritesOthers' /\ OwnContent'
<1> USE DEF OwnInv
<1>1. task.kind \in {"get", "set"} /\ (task.kind = "set" => task.addr \notin Constant)
  BY DEF TypeOK, MethodOK, Tasks, WritesOthers
<1>2. ASSUME UNCHANGED << rx, tx, mem, task >>,
             \/ UNCHANGED client
             \/ pc' = "idle" /\ UNCHANGED op
             \/ \E a, id : BeginGet(a, id)
             \/ \E id : BeginTask(task, id)
      PROVE  ReadsGenuine' /\ WritesOthers' /\ OwnContent'
  <2>1. CASE UNCHANGED client
    BY <1>2, <2>1, TakenStays, LineStays, RequestsStay, ContentStays DEF client
  <2>2. CASE pc' = "idle" /\ UNCHANGED op
    BY <1>2, <2>2, LineKept, RequestsStay DEF OwnContent
  <2>3. CASE \E a, id : BeginGet(a, id)
    BY <1>1, <1>2, <2>3, LineKept, BeginsOther
  <2>4. CASE \E id : BeginTask(task, id)
    BY <1>1, <1>2, <2>4, LineKept, TaskOther
  <2> QED BY <1>2, <2>1, <2>2, <2>3, <2>4
<1>3. CASE Detected \/ DeviceIdRead
  <2>1. UNCHANGED << rx, tx, mem, task >> /\ (UNCHANGED client \/ \E a, id : BeginGet(a, id))
    BY <1>3 DEF Detected, DeviceIdRead, line, controller
  <2> QED BY <1>2, <2>1
<1>4. CASE DeviceIdF0Read \/ CommandReturns \/ ReinitializeFails
  <2>1. UNCHANGED << rx, tx, mem, task, op >> /\ pc' = "idle"
    BY <1>4 DEF DeviceIdF0Read, CommandReturns, ReinitializeFails, Return, line, controller
  <2> QED BY <1>2, <2>1
<1>5. CASE Renegotiated
  <2>1. /\ UNCHANGED << rx, tx, mem, task >>
        /\ UNCHANGED client \/ (pc' = "idle" /\ UNCHANGED op) \/ \E id : BeginTask(task, id)
    BY <1>5 DEF Renegotiated, Return, line, controller
  <2> QED BY <1>2, <2>1
<1>6. CASE Reinitialize
  <2>1. /\ UNCHANGED << tx, mem, task >> /\ BeginNegotiate(calls)
        /\ \E k \in 0..Len(rx) : rx' = SubSeq(rx, k + 1, Len(rx))
    BY <1>6 DEF Reinitialize, controller
  <2>2. PICK k \in Nat : k <= Len(rx) /\ rx' = SubSeq(rx, k + 1, Len(rx))
    BY <2>1
  <2>3. WritesOthers' /\ OwnContent' /\ pc' \notin {"length", "body"}
    BY <1>1, <2>1, BeginsOther
  <2> QED BY <2>1, <2>2, <2>3, LineShrinks
<1>7. CASE Cancel
  <2>1. Consumed /\ pc' = "idle" /\ UNCHANGED << tx, mem, task, op >>
    BY <1>7 DEF Cancel, Return, controller
  <2>2. PICK k \in Nat : k <= Len(rx) /\ rx' = SubSeq(rx, k + 1, Len(rx))
    BY <2>1, InByte DEF Consumed, TypeOK, ClientOK
  <2> QED BY <2>1, <2>2, LineShrinks, RequestsStay DEF OwnContent
<1> QED BY <1>3, <1>4, <1>5, <1>6, <1>7 DEF Method

\* The invariant holds when the program starts.
LEMMA InitOwn == Init => OwnInv
<1> SUFFICES ASSUME Init PROVE OwnInv
  OBVIOUS
<1>1. pc = "reset" /\ op.kind = "negotiate" /\ task.kind = "get" /\ tx = << >>
      /\ rx \in {<< >>, << SYNC >>, << ACK >>, << SYNC, ACK >>}
  BY DEF Init, Operation, Task
<1>2. Taken \o rx = rx /\ Len(rx) < 4 /\ Len(rx) \in Nat
  <2>1. rx \in Seq(Byte)
    BY InitType DEF TypeOK, LineOK
  <2>2. << >> \o rx = rx
    BY <2>1
  <2>3. \A b, c : Len(<< >>) = 0 /\ Len(<< b >>) = 1 /\ Len(<< b, c >>) = 2
    OBVIOUS
  <2>4. Len(rx) < 4 /\ Len(rx) \in Nat
    <3>1. CASE rx = << >>
      BY <2>3, <3>1
    <3>2. CASE rx = << SYNC >>
      BY <2>3, <3>2
    <3>3. CASE rx = << ACK >>
      BY <2>3, <3>3
    <3>4. CASE rx = << SYNC, ACK >>
      BY <2>3, <3>4
    <3> QED BY <1>1, <3>1, <3>2, <3>3, <3>4
  <2>5. Taken = << >>
    BY <1>1 DEF Taken
  <2>6. Taken \o rx = rx
    BY <2>2, <2>5, Zenon
  <2> QED BY <2>4, <2>6
<1>3. ReadsGenuine
  BY <1>2, NothingGenuine DEF ReadsGenuine
<1> QED BY <1>1, <1>3, InitType DEF OwnInv, WritesOthers, OwnContent

\* Every step keeps the invariant.
LEMMA NextOwn == NoFalseAnswer /\ OwnInv /\ [Next]_vars => OwnInv'
<1> SUFFICES ASSUME NoFalseAnswer, OwnInv, [Next]_vars PROVE OwnInv'
  OBVIOUS
<1>1. TypeOK'
  BY NextType DEF OwnInv
<1>2. CASE UNCHANGED vars
  <2>1. UNCHANGED << pc, op, result, buf, msgLen, rx, tx, mem, task >>
    BY <1>2 DEF vars, vs2vars, client, line, controller, sessionvars
  <2> QED BY <1>1, <2>1, TakenStays, LineStays, RequestsStay, ContentStays DEF OwnInv
<1>3. CASE CallerStep
  <2>1. PICK t : /\ Call(t) /\ t.kind \in {"get", "set"}
                 /\ t.kind = "set" => t.addr \notin Constant
    <3>1. \A k, a, d : Task(k, a, d).kind = k /\ Task(k, a, d).addr = a
      BY DEF Task
    <3>2. PICK a \in Addr : Get(a) \/ (a \notin Constant /\ \E v \in Val : Set(a, v))
      BY <1>3 DEF CallerStep
    <3>3. CASE Get(a)
      BY <3>1, <3>3 DEF Get
    <3>4. CASE a \notin Constant /\ \E v \in Val : Set(a, v)
      BY <3>1, <3>4 DEF Set
    <3> QED BY <3>2, <3>3, <3>4
  <2> QED BY <1>1, <2>1, CallOwn DEF OwnInv
<1> QED BY <1>1, <1>2, <1>3, ProgressOwn, EnvironmentOwn, MethodOwn DEF Next, OwnInv

\* VControl::get, whatever the line delays, loses or disturbs and whichever calls the
\* caller dropped, never takes the answer of another address for its own, if no telegram
\* has the bytes of an answer inside.
THEOREM AnswersAreOwn == ASSUME NoFalseAnswer PROVE Spec => []OwnAddress
<1>1. OwnInv /\ [Next]_vars => OwnInv'
  BY NextOwn
<1>2. OwnInv => OwnAddress
  BY DEF OwnInv, OwnContent, OwnAddress, Succeeds
<1> QED BY InitOwn, <1>1, <1>2, PTL DEF Spec

=============================================================================
