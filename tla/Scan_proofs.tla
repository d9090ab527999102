----------------------------- MODULE Scan_proofs -----------------------------
(***************************************************************************)
(* The cache file of the scan is the memory of the controller, for every   *)
(* size of the address space and of a chunk, and however often the scan is *)
(* killed, fails and is continued.                                         *)
(***************************************************************************)
EXTENDS Scan, SequenceTheorems, TLAPS

Bytes == [addr : Nat, version : Nat]

\* The bytes of s are those of the addresses from 0, read one after the other
\* until version v of the memory.
InOrder(s, v) ==
  /\ s \in Seq(Bytes) /\ Len(s) <= MaxAddr
  /\ \A k \in 1..Len(s) : s[k].addr = k - 1 /\ s[k].version <= v
  /\ \A k \in 2..Len(s) : s[k - 1].version <= s[k].version

NumbersOK ==
  /\ addr \in 0..MaxAddr /\ i \in 0..MaxAddr
  /\ pc \in {"stopped", "detect", "loop", "write", "negotiate", "connect", "report"}
  /\ version \in 0..MaxVersion /\ errors \in 0..MaxErrors /\ runs \in 0..MaxRuns

\* No command reaches beyond the last address.
TableFits ==
  /\ table \in [Addrs -> 0..MaxAddr]
  /\ \A a \in Addrs : a + table[a] <= MaxAddr

\* Before it scans, a run has what the file has; while it has read a chunk, that
\* chunk more.
Position ==
  /\ pc = "detect" => content = file
  /\ pc = "write" => addr = Len(file) /\ addr < MaxAddr /\ Len(content) = addr + buf_len

IInv ==
  /\ NumbersOK /\ TableFits
  /\ InOrder(file, version) /\ InOrder(content, version)
  /\ Saved /\ Position

-----------------------------------------------------------------------------
(* Sequences *)

\* The elements behind s in s \o b are b.
LEMMA TailOfConcat ==
  ASSUME NEW S, NEW s \in Seq(S), NEW b \in Seq(S)
  PROVE  SubSeq(s \o b, Len(s) + 1, Len(s \o b)) = b
<1> DEFINE c == s \o b
           t == SubSeq(c, Len(s) + 1, Len(c))
<1>1. c \in Seq(S) /\ Len(c) = Len(s) + Len(b)
      /\ \A k \in 1..Len(s) + Len(b) : c[k] = IF k <= Len(s) THEN s[k] ELSE b[k - Len(s)]
  BY ConcatProperties
<1>2. Len(s) \in Nat /\ Len(b) \in Nat
  BY LenProperties
<1> HIDE DEF c
<1>3. \A k \in Len(s) + 1..Len(c) : c[k] \in S
  BY <1>1, <1>2, ElementOfSeq
<1>4. t \in Seq(S) /\ Len(t) = Len(b) /\ \A k \in 1..Len(b) : t[k] = c[Len(s) + 1 + k - 1]
  BY <1>1, <1>2, <1>3, SubSeqProperties
<1>5. ASSUME NEW k \in 1..Len(b) PROVE t[k] = b[k]
  <2>1. Len(s) + 1 + k - 1 = Len(s) + k /\ ~ Len(s) + k <= Len(s) /\ Len(s) + k - Len(s) = k
    BY <1>2
  <2>2. c[Len(s) + k] = b[Len(s) + k - Len(s)]
    BY <1>1, <1>2, <2>1
  <2> QED BY <1>4, <2>1, <2>2
<1>6. t = b
  <2> HIDE DEF t
  <2> QED BY <1>4, <1>5, SeqEqual
<1> QED BY <1>6 DEF c

\* A sequence begins with what it was before something was appended.
LEMMA ConcatExtends ==
  ASSUME NEW S, NEW s \in Seq(S), NEW b \in Seq(S)
  PROVE  IsPrefix(s, s \o b)
<1> DEFINE c == s \o b
           t == SubSeq(c, 1, Len(s))
<1>1. c \in Seq(S) /\ Len(c) = Len(s) + Len(b)
      /\ \A k \in 1..Len(s) + Len(b) : c[k] = IF k <= Len(s) THEN s[k] ELSE b[k - Len(s)]
  BY ConcatProperties
<1>2. Len(s) \in Nat /\ Len(b) \in Nat
  BY LenProperties
<1> HIDE DEF c
<1>3. \A k \in 1..Len(s) : c[k] \in S
  BY <1>1, <1>2, ElementOfSeq
<1>4. t \in Seq(S) /\ Len(t) = Len(s) /\ \A k \in 1..Len(s) : t[k] = c[k]
  BY <1>1, <1>2, <1>3, SubSeqProperties
<1>5. t = s
  <2> HIDE DEF t
  <2>1. \A k \in 1..Len(s) : t[k] = s[k]
    BY <1>1, <1>2, <1>4
  <2> QED BY <1>4, <2>1, SeqEqual
<1>6. SubSeq(s, 1, Len(s)) = s
  BY SubSeqFull
<1> QED BY <1>1, <1>2, <1>5, <1>6 DEF IsPrefix, c

\* Sequences that begin alike are in order alike.
LEMMA InOrderBegins ==
  ASSUME NEW v, NEW s, InOrder(s, v), NEW t \in Seq(Bytes), Len(t) <= Len(s),
         \A k \in 1..Len(t) : t[k] = s[k], MaxAddr \in Nat
  PROVE  InOrder(t, v)
<1>1. Len(s) \in Nat /\ Len(t) \in Nat
  BY LenProperties DEF InOrder
<1>2. \A k \in 1..Len(t) : t[k].addr = k - 1 /\ t[k].version <= v
  BY <1>1 DEF InOrder
<1>3. \A k \in 2..Len(t) : t[k - 1] = s[k - 1] /\ t[k] = s[k] /\ k \in 2..Len(s)
  BY <1>1
<1>4. \A k \in 2..Len(t) : t[k - 1].version <= t[k].version
  BY <1>3 DEF InOrder
<1> QED BY <1>1, <1>2, <1>4 DEF InOrder

\* What was in order stays so while the memory changes.
LEMMA InOrderLater ==
  ASSUME NEW v \in Nat, NEW w \in Nat, v <= w, NEW s, InOrder(s, v)
  PROVE  InOrder(s, w)
<1>1. \A k \in 1..Len(s) : s[k] \in Bytes
  BY ElementOfSeq DEF InOrder
<1>2. \A k \in 1..Len(s) : s[k].version <= w
  <2>1. \A k \in 1..Len(s) : s[k].version \in Nat
    BY <1>1 DEF Bytes
  <2> QED BY <2>1 DEF InOrder
<1> QED BY <1>2 DEF InOrder

\* A chunk that is read at the end of s, now, goes on where s ends.
LEMMA InOrderReads ==
  ASSUME NEW v \in Nat, NEW s, InOrder(s, v), NEW n \in Nat, Len(s) + n <= MaxAddr,
         MaxAddr \in Nat
  PROVE  LET b == [k \in 1..n |-> [addr |-> Len(s) + k - 1, version |-> v]]
         IN b \in Seq(Bytes) /\ Len(b) = n /\ InOrder(s \o b, v)
<1> DEFINE b == [k \in 1..n |-> [addr |-> Len(s) + k - 1, version |-> v]]
           c == s \o b
<1>1. Len(s) \in Nat
  BY LenProperties DEF InOrder
<1>2. \A k \in 1..n : [addr |-> Len(s) + k - 1, version |-> v] \in Bytes
  BY <1>1 DEF Bytes
<1>3. b \in Seq(Bytes) /\ Len(b) = n
  <2>1. b \in [1..n -> Bytes]
    BY <1>2
  <2> HIDE DEF b
  <2>2. b \in Seq(Bytes)
    BY <2>1
  <2> QED BY <2>1, <2>2, LenProperties
<1>4. \A k \in 1..n : b[k].addr = Len(s) + k - 1 /\ b[k].version = v
  OBVIOUS
<1> HIDE DEF b
<1>5. c \in Seq(Bytes) /\ Len(c) = Len(s) + n
      /\ \A k \in 1..Len(s) + n : c[k] = IF k <= Len(s) THEN s[k] ELSE b[k - Len(s)]
  BY <1>3, ConcatProperties DEF InOrder
<1> HIDE DEF c
<1>6. \A k \in 1..Len(s) : c[k] = s[k]
  BY <1>1, <1>5
<1>7. \A k \in Len(s) + 1..Len(s) + n : c[k].addr = k - 1 /\ c[k].version = v
  <2> TAKE k \in Len(s) + 1..Len(s) + n
  <2>1. k - Len(s) \in 1..n /\ c[k] = b[k - Len(s)]
    BY <1>1, <1>5
  <2>2. Len(s) + (k - Len(s)) - 1 = k - 1
    BY <1>1
  <2> QED BY <1>4, <2>1, <2>2
<1>8. \A k \in 1..Len(c) : c[k].addr = k - 1 /\ c[k].version <= v
  BY <1>1, <1>5, <1>6, <1>7 DEF InOrder
<1>9. \A k \in 2..Len(c) : c[k - 1].version <= c[k].version
  <2> TAKE k \in 2..Len(c)
  <2>1. CASE k <= Len(s)
    <3>1. c[k] = s[k] /\ c[k - 1] = s[k - 1] /\ k \in 2..Len(s)
      BY <1>1, <1>5, <1>6, <2>1
    <3> QED BY <3>1 DEF InOrder
  <2>2. CASE k > Len(s)
    <3>1. c[k].version = v /\ k - 1 \in 1..Len(c)
      BY <1>1, <1>5, <1>7, <2>2
    <3> QED BY <1>8, <3>1
  <2> QED BY <1>1, <1>5, <2>1, <2>2
<1>10. InOrder(c, v)
  BY <1>5, <1>8, <1>9 DEF InOrder
<1> QED BY <1>3, <1>10 DEF b, c

-----------------------------------------------------------------------------
(* The invariant *)

LEMMA InvInit == Init => IInv
<1> SUFFICES ASSUME Init
             PROVE  IInv
  OBVIOUS
<1> USE ScanAssumption DEF Init
<1>1. << >> \in Seq(Bytes) /\ Len(<< >>) = 0
  BY EmptySeq
<1>2. InOrder(file, version) /\ InOrder(content, version)
  BY <1>1 DEF InOrder
<1>3. NumbersOK /\ TableFits
  BY DEF NumbersOK, TableFits, Addrs
<1>4. Saved /\ Position
  BY DEF Saved, Position
<1> QED BY <1>2, <1>3, <1>4 DEF IInv

\* A chunk is not empty and ends at the last address at the latest.
LEMMA ChunkLength ==
  ASSUME addr \in 0..MaxAddr, addr < MaxAddr
  PROVE  buf_len \in Nat \ {0} /\ addr + buf_len <= MaxAddr
BY ScanAssumption DEF buf_len

\* A step from place to place of the program that scans nothing.
Elsewhere ==
  /\ UNCHANGED << file, content, addr, version >>
  /\ \/ pc' \in {"stopped", pc}
     \/ pc \in {"loop", "negotiate"} /\ pc' \in {"loop", "negotiate"}
     \/ pc = "loop" /\ addr >= MaxAddr /\ pc' = "connect"
     \/ pc = "connect" /\ pc' = "report"

LEMMA InvElsewhere ==
  ASSUME IInv, NumbersOK', TableFits', Elsewhere
  PROVE  IInv'
<1> USE ScanAssumption DEF Elsewhere
<1>1. InOrder(file, version)' /\ InOrder(content, version)'
  BY DEF IInv
<1>2. LastRead' = LastRead /\ buf_len' = buf_len
  BY DEF LastRead, buf_len
<1>3. Saved'
  BY <1>2 DEF IInv, Saved, NumbersOK
<1>4. Position'
  BY <1>2 DEF IInv, Position
<1> QED BY <1>1, <1>3, <1>4 DEF IInv

LEMMA InvStart ==
  ASSUME IInv, Start
  PROVE  IInv'
<1> USE DEF Start
<1>1. NumbersOK'
  BY ScanAssumption DEF IInv, NumbersOK
<1>2. TableFits'
  BY DEF IInv, TableFits
<1>3. InOrder(file, version)' /\ InOrder(content, version)'
  BY DEF IInv
<1>4. Saved' /\ Position'
  BY DEF Saved, Position
<1> QED BY <1>1, <1>2, <1>3, <1>4 DEF IInv

LEMMA InvDetectProtocol ==
  ASSUME IInv, DetectProtocol
  PROVE  IInv'
<1> USE DEF DetectProtocol, disk
<1>1. Len(content) \in 0..MaxAddr
  BY LenProperties, ScanAssumption DEF IInv, InOrder
<1>2. NumbersOK'
  BY <1>1 DEF IInv, NumbersOK
<1>3. TableFits'
  BY DEF IInv, TableFits
<1>4. InOrder(file, version)' /\ InOrder(content, version)'
  BY DEF IInv
<1>5. Saved' /\ Position'
  BY DEF IInv, Saved, Position
<1> QED BY <1>2, <1>3, <1>4, <1>5 DEF IInv

LEMMA InvGetOk ==
  ASSUME IInv, GetOk
  PROVE  IInv'
<1> USE DEF GetOk, disk
<1>1. content = file /\ addr = Len(file) /\ addr < MaxAddr /\ addr \in 0..MaxAddr
  BY DEF IInv, Saved, More, NumbersOK
<1>2. buf_len \in Nat \ {0} /\ addr + buf_len <= MaxAddr
  BY <1>1, ChunkLength
<1>3. version \in Nat /\ MaxAddr \in Nat
  BY ScanAssumption DEF IInv, NumbersOK
<1>4. Buf \in Seq(Bytes) /\ Len(Buf) = buf_len /\ InOrder(file \o Buf, version)
  <2> DEFINE b == [k \in 1..buf_len |-> [addr |-> Len(file) + k - 1, version |-> version]]
  <2>1. Buf = b
    BY <1>1 DEF Buf
  <2>2. InOrder(file, version)
    BY DEF IInv
  <2>3. b \in Seq(Bytes) /\ Len(b) = buf_len /\ InOrder(file \o b, version)
    BY <1>1, <1>2, <1>3, <2>2, InOrderReads
  <2> QED BY <2>1, <2>3
<1>5. file \in Seq(Bytes)
  BY DEF IInv, InOrder
<1>6. content' = file \o Buf /\ file' = file
  BY <1>1
<1>7. Len(content') = Len(file) + buf_len
  BY <1>4, <1>5, <1>6, ConcatProperties
<1>8. buf_len' = buf_len
  BY DEF buf_len
<1>9. LastRead' = Buf
  <2>1. Len(content') - buf_len' + 1 = Len(file) + 1
    BY <1>1, <1>2, <1>7, <1>8
  <2>2. SubSeq(file \o Buf, Len(file) + 1, Len(file \o Buf)) = Buf
    BY <1>4, <1>5, TailOfConcat
  <2> QED BY <1>6, <2>1, <2>2 DEF LastRead
<1>10. NumbersOK'
  BY DEF IInv, NumbersOK
<1>11. TableFits'
  BY DEF IInv, TableFits
<1>12. InOrder(file, version)' /\ InOrder(content, version)'
  BY <1>4, <1>6 DEF IInv
<1>13. Saved'
  BY <1>6, <1>9 DEF Saved
<1>14. Position'
  BY <1>1, <1>7, <1>8 DEF Position
<1> QED BY <1>10, <1>11, <1>12, <1>13, <1>14 DEF IInv

LEMMA InvFlush ==
  ASSUME IInv, Flush
  PROVE  IInv'
<1> USE DEF Flush
<1>1. content = file \o LastRead /\ addr = Len(file) /\ addr < MaxAddr
      /\ Len(content) = addr + buf_len /\ addr \in 0..MaxAddr
  BY DEF IInv, Saved, Position, NumbersOK
<1>2. file' = content /\ content' = content /\ version' = version
  BY <1>1
<1>3. addr' = Len(content) /\ addr' \in 0..MaxAddr
  BY <1>1, ChunkLength, ScanAssumption
<1>4. NumbersOK'
  BY <1>3 DEF IInv, NumbersOK
<1>5. TableFits'
  BY DEF IInv, TableFits
<1>6. InOrder(file, version)' /\ InOrder(content, version)'
  BY <1>2 DEF IInv
<1>7. Saved' /\ Position'
  BY <1>2, <1>3 DEF Saved, Position
<1> QED BY <1>4, <1>5, <1>6, <1>7 DEF IInv

\* The chunk that was read last is a sequence of readings.
LEMMA LastReadLength ==
  ASSUME IInv, pc = "write"
  PROVE  LastRead \in Seq(Bytes) /\ Len(LastRead) \in Nat
<1>1. content \in Seq(Bytes) /\ addr < MaxAddr /\ addr \in 0..MaxAddr
      /\ Len(content) = addr + buf_len
  BY DEF IInv, InOrder, Position, NumbersOK
<1>2. buf_len \in Nat /\ Len(content) \in Nat
      /\ Len(content) - buf_len + 1 \in 1..Len(content) + 1
  BY <1>1, ChunkLength
<1>3. \A j \in Len(content) - buf_len + 1..Len(content) : content[j] \in Bytes
  BY <1>1, <1>2, ElementOfSeq
<1>4. LastRead \in Seq(Bytes)
  BY <1>2, <1>3, SubSeqProperties DEF LastRead
<1> QED BY <1>4, LenProperties

\* What is left of a chunk that was being written is in order.
LEMMA TornWrite ==
  ASSUME IInv, pc = "write", NEW k \in 1..Len(LastRead)
  PROVE  InOrder(file \o SubSeq(LastRead, 1, k), version)
<1> DEFINE part == SubSeq(LastRead, 1, k)
           t == file \o part
<1>1. file \in Seq(Bytes) /\ content \in Seq(Bytes) /\ InOrder(content, version)
  BY DEF IInv, InOrder
<1>2. content = file \o LastRead /\ addr < MaxAddr /\ addr \in 0..MaxAddr
      /\ addr = Len(file) /\ Len(content) = addr + buf_len
  BY DEF IInv, Saved, Position, NumbersOK
<1>3. Len(file) \in Nat /\ Len(content) \in Nat /\ MaxAddr \in Nat
  BY <1>1, LenProperties, ScanAssumption
<1>4. LastRead \in Seq(Bytes) /\ Len(LastRead) \in Nat
  BY LastReadLength
<1>5. part \in Seq(Bytes) /\ Len(part) = k /\ \A j \in 1..k : part[j] = LastRead[j]
  <2>1. \A j \in 1..k : LastRead[j] \in Bytes
    BY <1>4, ElementOfSeq
  <2> QED BY <1>4, <2>1, SubSeqProperties
<1> HIDE DEF part
<1>6. t \in Seq(Bytes) /\ Len(t) = Len(file) + k
      /\ \A j \in 1..Len(file) + k : t[j] = IF j <= Len(file) THEN file[j] ELSE part[j - Len(file)]
  BY <1>1, <1>5, ConcatProperties
<1>7. Len(content) = Len(file) + Len(LastRead)
      /\ \A j \in 1..Len(file) + Len(LastRead) :
           content[j] = IF j <= Len(file) THEN file[j] ELSE LastRead[j - Len(file)]
  BY <1>1, <1>2, <1>4, ConcatProperties
<1> HIDE DEF t
<1>8. \A j \in 1..Len(t) : t[j] = content[j]
  <2> TAKE j \in 1..Len(t)
  <2>1. j \in 1..Len(file) + Len(LastRead) /\ j \in 1..Len(file) + k
    BY <1>3, <1>4, <1>6
  <2>2. CASE j <= Len(file)
    BY <1>6, <1>7, <2>1, <2>2
  <2>3. CASE j > Len(file)
    <3>1. j - Len(file) \in 1..k
      BY <1>3, <1>6, <2>3
    <3> QED BY <1>3, <1>5, <1>6, <1>7, <2>1, <2>3, <3>1
  <2> QED BY <1>3, <2>2, <2>3
<1>9. Len(t) <= Len(content)
  BY <1>3, <1>4, <1>6, <1>7
<1>10. InOrder(t, version)
  BY <1>1, <1>3, <1>6, <1>8, <1>9, InOrderBegins
<1> QED BY <1>10 DEF t, part

LEMMA InvFails ==
  ASSUME IInv, Fails
  PROVE  IInv'
<1> USE DEF Fails, Failed
<1>1. InOrder(file', version)
  <2>1. CASE UNCHANGED file
    BY <2>1 DEF IInv
  <2>2. CASE /\ pc = "write"
             /\ \E k \in 1..(Len(LastRead) - 1) : file' = file \o SubSeq(LastRead, 1, k)
    <3>1. PICK k \in 1..(Len(LastRead) - 1) : file' = file \o SubSeq(LastRead, 1, k)
      BY <2>2
    <3>2. Len(LastRead) \in Int => k \in 1..Len(LastRead)
      OBVIOUS
    <3>3. Len(LastRead) \in Int
      BY LastReadLength, <2>2
    <3> QED BY <2>2, <3>1, <3>2, <3>3, TornWrite
  <2> QED BY <2>1, <2>2
<1>2. NumbersOK'
  BY ScanAssumption DEF IInv, NumbersOK
<1>3. TableFits'
  BY DEF IInv, TableFits
<1>4. InOrder(file, version)' /\ InOrder(content, version)'
  BY <1>1 DEF IInv
<1>5. Saved' /\ Position'
  BY DEF Saved, Position
<1> QED BY <1>2, <1>3, <1>4, <1>5 DEF IInv

LEMMA InvCrash ==
  ASSUME IInv, Crash
  PROVE  IInv'
<1> USE DEF Crash
<1>1. InOrder(file', version)
  <2>1. CASE UNCHANGED file
    BY <2>1 DEF IInv
  <2>2. CASE pc = "write" /\ \E k \in 1..Len(LastRead) : file' = file \o SubSeq(LastRead, 1, k)
    BY <2>2, TornWrite
  <2> QED BY <2>1, <2>2
<1>2. NumbersOK'
  BY ScanAssumption DEF IInv, NumbersOK
<1>3. TableFits'
  BY DEF IInv, TableFits
<1>4. InOrder(file, version)' /\ InOrder(content, version)'
  BY <1>1 DEF IInv
<1>5. Saved' /\ Position'
  BY DEF Saved, Position
<1> QED BY <1>2, <1>3, <1>4, <1>5 DEF IInv

LEMMA InvChange ==
  ASSUME IInv, Change
  PROVE  IInv'
<1> USE DEF Change
<1>1. version \in Nat /\ version' \in Nat /\ version <= version'
  BY ScanAssumption DEF IInv, NumbersOK
<1>2. InOrder(file, version)' /\ InOrder(content, version)'
  BY <1>1, InOrderLater DEF IInv
<1>3. NumbersOK'
  BY ScanAssumption DEF IInv, NumbersOK
<1>4. TableFits'
  BY DEF IInv, TableFits
<1>5. Saved' /\ Position'
  BY DEF IInv, Saved, Position, LastRead, buf_len
<1> QED BY <1>2, <1>3, <1>4, <1>5 DEF IInv

LEMMA InvConnect ==
  ASSUME IInv, Connect
  PROVE  IInv'
<1> USE DEF Connect, disk
<1>1. NumbersOK'
  BY DEF IInv, NumbersOK
<1>2. ASSUME NEW a \in Addrs
      PROVE  a + table'[a] <= MaxAddr
  <2>1. table'[a] \in (IF At(DeviceCommands, a) # {} THEN At(DeviceCommands, a)
                       ELSE IF At(SystemCommands, a) # {} THEN At(SystemCommands, a) ELSE {0})
    OBVIOUS
  <2>2. CASE table'[a] = 0
    BY <2>2, ScanAssumption DEF Addrs
  <2>3. CASE table'[a] # 0
    <3>1. table'[a] \in At(DeviceCommands, a) \cup At(SystemCommands, a)
      BY <2>1, <2>3
    <3>2. PICK c \in SystemCommands \cup DeviceCommands : c.addr = a /\ table'[a] = c.block_len
      BY <3>1 DEF At
    <3> QED BY <3>2, ScanAssumption
  <2> QED BY <2>2, <2>3
<1>3. TableFits'
  BY <1>2 DEF TableFits
<1>4. Elsewhere
  BY DEF Elsewhere
<1> QED BY <1>1, <1>3, <1>4, InvElsewhere

LEMMA InvShow ==
  ASSUME IInv, ShowCommand \/ ShowByte
  PROVE  IInv'
<1> USE DEF ShowCommand, ShowByte, disk
<1>1. Len(content) \in Nat /\ Len(content) <= MaxAddr
  BY LenProperties DEF IInv, InOrder
<1>2. i \in Addrs
  BY <1>1, ScanAssumption DEF IInv, NumbersOK, Addrs
<1>3. i + table[i] <= MaxAddr /\ table[i] \in 0..MaxAddr
  BY <1>2 DEF IInv, TableFits
<1>4. i' \in 0..MaxAddr
  <2>1. i' = i + table[i] \/ i' = i + 1
    OBVIOUS
  <2>2. MaxAddr \in Nat /\ i \in 0..(MaxAddr - 1)
    BY <1>2, ScanAssumption DEF Addrs
  <2> HIDE DEF ShowCommand, ShowByte, disk
  <2> QED BY <1>3, <2>1, <2>2
<1>5. NumbersOK'
  BY <1>4 DEF IInv, NumbersOK
<1>6. TableFits'
  BY DEF IInv, TableFits
<1>7. Elsewhere
  BY DEF Elsewhere
<1> QED BY <1>5, <1>6, <1>7, InvElsewhere

LEMMA InvOther ==
  ASSUME IInv, GetFails \/ Negotiate \/ ScanEnds \/ Finish \/ UNCHANGED vars
  PROVE  IInv'
<1> USE DEF GetFails, Negotiate, ScanEnds, Finish, vars, disk
<1>1. NumbersOK'
  BY ScanAssumption DEF IInv, NumbersOK, Failed
<1>2. TableFits'
  BY DEF IInv, TableFits
<1>3. ~More => addr >= MaxAddr
  BY ScanAssumption DEF IInv, NumbersOK, More
<1>4. Elsewhere
  BY <1>3 DEF Elsewhere
<1> QED BY <1>1, <1>2, <1>4, InvElsewhere

\* The inductive invariant of the scan.
THEOREM ScanInvariant == Spec => []IInv
<1>1. IInv /\ [Next]_vars => IInv'
  BY InvStart, InvDetectProtocol, InvGetOk, InvFlush, InvFails, InvCrash, InvChange,
     InvConnect, InvShow, InvOther DEF Next, Step
<1> QED BY InvInit, <1>1, PTL DEF Spec

-----------------------------------------------------------------------------

\* The scan keeps its types, and no read or report goes beyond the last address.
THEOREM ScanTypeCorrect == Spec => []TypeOK
<1>1. IInv => TypeOK
  <2> SUFFICES ASSUME IInv
               PROVE  TypeOK
    OBVIOUS
  <2>1. ASSUME NEW s, InOrder(s, version)
        PROVE  Len(s) <= MaxAddr /\ \A k \in 1..Len(s) : s[k] \in Reading
    <3>1. Len(s) \in Nat
      BY <2>1, LenProperties DEF InOrder
    <3>2. ASSUME NEW k \in 1..Len(s)
          PROVE  s[k] \in Reading
      <4>1. s[k] \in Bytes /\ s[k].addr = k - 1 /\ s[k].version <= version
        BY <2>1, ElementOfSeq DEF InOrder
      <4>2. k - 1 \in Addrs
        BY <2>1, <3>1, ScanAssumption DEF InOrder, Addrs
      <4>3. s[k].version \in 0..MaxVersion
        BY <4>1, ScanAssumption DEF Bytes, IInv, NumbersOK
      <4> QED BY <4>1, <4>2, <4>3 DEF Bytes, Reading
    <3> QED BY <2>1, <3>2 DEF InOrder
  <2> QED BY <2>1 DEF IInv, NumbersOK, TableFits, TypeOK
<1> QED BY <1>1, ScanInvariant, PTL

\* The byte at an offset of the file is that of the address, and none is older than
\* one in front of it.
THEOREM FileIsAligned == Spec => []Aligned
<1>1. IInv => Aligned
  <2> SUFFICES ASSUME IInv, NEW k \in 1..Len(file)
               PROVE  file[k].addr = k - 1 /\ (k > 1 => file[k - 1].version <= file[k].version)
    BY DEF Aligned
  <2>1. Len(file) \in Nat
    BY LenProperties DEF IInv, InOrder
  <2>2. k > 1 => k \in 2..Len(file)
    BY <2>1
  <2> QED BY <2>2 DEF IInv, InOrder
<1> QED BY <1>1, ScanInvariant, PTL

\* What a run has and reports is in the file.
THEOREM ContentIsSaved == Spec => []Saved
BY ScanInvariant, PTL DEF IInv

\* The file only grows, at its end.
THEOREM FileOnlyGrows == Spec => AppendOnly
<1>1. IInv /\ [Next]_vars => [IsPrefix(file, file')]_file
  <2> SUFFICES ASSUME IInv, Next, file' # file
               PROVE  IsPrefix(file, file')
    BY DEF vars
  <2>1. file \in Seq(Bytes)
    BY DEF IInv, InOrder
  <2>2. pc = "write" => LastRead \in Seq(Bytes)
    BY LastReadLength
  <2>3. ASSUME NEW x \in Seq(Bytes), file' = file \o x
        PROVE  IsPrefix(file, file')
    BY <2>1, <2>3, ConcatExtends
  <2>4. ASSUME pc = "write", NEW k \in 1..Len(LastRead)
        PROVE  SubSeq(LastRead, 1, k) \in Seq(Bytes)
    <3>1. \A j \in 1..k : LastRead[j] \in Bytes
      BY <2>2, <2>4, LastReadLength, ElementOfSeq
    <3> QED BY <2>4, <3>1, LastReadLength, SubSeqProperties
  <2>5. CASE Flush
    BY <2>2, <2>3, <2>5 DEF Flush
  <2>6. CASE Fails \/ Crash
    <3>1. pc = "write"
      BY <2>6 DEF Fails, Crash
    <3>2. Len(LastRead) \in Nat
      BY <3>1, LastReadLength
    <3>3. 1..(Len(LastRead) - 1) \subseteq 1..Len(LastRead)
      BY <3>2
    <3>4. \E k \in 1..Len(LastRead) : file' = file \o SubSeq(LastRead, 1, k)
      BY <2>6, <3>3 DEF Fails, Crash
    <3> QED BY <2>3, <2>4, <3>1, <3>4
  <2> QED BY <2>5, <2>6 DEF Next, Step, Start, DetectProtocol, GetOk, GetFails, Negotiate,
                            ScanEnds, Connect, ShowCommand, ShowByte, Finish, Change, disk
<1> QED BY <1>1, ScanInvariant, PTL DEF Spec, AppendOnly

-----------------------------------------------------------------------------
(* The report *)

Lines == [addr : Nat, bytes : Seq(Bytes)]

\* How far the report goes on from address a.
Width(a) == IF table[a] = 0 THEN 1 ELSE table[a]

\* Outside of the report there are no lines; in it, every command is in the table.
ReportInv ==
  /\ pc # "report" => shown = << >> /\ i = 0
  /\ pc = "report" => \A c \in SystemCommands \cup DeviceCommands : table[c.addr] # 0
  /\ shown \in Seq(Lines)
  /\ LinesTrue /\ LinesAscend /\ BytesShown /\ CommandsShown

\* Without lines nothing needs to be shown.
LEMMA NothingShown ==
  ASSUME shown = << >>, i = 0
  PROVE  shown \in Seq(Lines) /\ LinesTrue /\ LinesAscend /\ BytesShown /\ CommandsShown
<1>1. Len(shown) = 0 /\ shown \in Seq(Lines)
  BY EmptySeq
<1>2. \A c \in SystemCommands \cup DeviceCommands : c.addr >= i
  BY ScanAssumption
<1>3. 1..Len(shown) = {} /\ 0..(i - 1) = {}
  BY <1>1
<1> QED BY <1>1, <1>2, <1>3 DEF LinesTrue, LinesAscend, BytesShown, CommandsShown

\* Nor after a step that ends without lines.
LEMMA NothingShownNext ==
  ASSUME shown' = << >>, i' = 0
  PROVE  shown' \in Seq(Lines) /\ LinesTrue' /\ LinesAscend' /\ BytesShown' /\ CommandsShown'
<1>1. Len(shown') = 0 /\ shown' \in Seq(Lines)
  BY EmptySeq
<1>2. \A c \in SystemCommands \cup DeviceCommands : c.addr >= i'
  BY ScanAssumption
<1>3. 1..Len(shown') = {} /\ 0..(i' - 1) = {}
  BY <1>1
<1> QED BY <1>1, <1>2, <1>3
     DEF LinesTrue, LinesAscend, BytesShown, CommandsShown

\* The part of a sequence between k and k is its element k.
LEMMA OneByte ==
  ASSUME NEW S, NEW s \in Seq(S), NEW k \in 1..Len(s)
  PROVE  << s[k] >> = SubSeq(s, k, k)
<1>1. s[k] \in S /\ Len(s) \in Nat
  BY ElementOfSeq, LenProperties
<1>2. \A j \in k..k : s[j] \in S
  BY <1>1
<1>3. SubSeq(s, k, k) \in Seq(S) /\ Len(SubSeq(s, k, k)) = 1 /\ SubSeq(s, k, k)[1] = s[k]
  BY <1>1, <1>2, SubSeqProperties
<1>4. << s[k] >> \in Seq(S) /\ Len(<< s[k] >>) = 1 /\ << s[k] >>[1] = s[k]
  BY <1>1
<1>5. \A j \in 1..1 : << s[k] >>[j] = SubSeq(s, k, k)[j]
  BY <1>3, <1>4
<1> QED BY <1>3, <1>4, <1>5, SeqEqual

\* A part of a sequence has the length that is asked for, and its elements.
LEMMA PartOf ==
  ASSUME NEW S, NEW s \in Seq(S), NEW j \in Nat, NEW n \in Nat \ {0}, j + n <= Len(s)
  PROVE  /\ SubSeq(s, j + 1, j + n) \in Seq(S) /\ Len(SubSeq(s, j + 1, j + n)) = n
         /\ \A k \in 1..n : SubSeq(s, j + 1, j + n)[k] = s[j + k]
<1>1. Len(s) \in Nat
  BY LenProperties
<1>2. \A k \in j + 1..j + n : s[k] \in S
  <2>1. \A k \in j + 1..j + n : k \in 1..Len(s)
    BY <1>1
  <2>2. \A k \in 1..Len(s) : s[k] \in S
    BY ElementOfSeq
  <2> QED BY <2>1, <2>2
<1>3. j + 1 \in Int /\ j + n \in Int /\ j + 1 <= j + n /\ j + n - (j + 1) + 1 = n
  OBVIOUS
<1>4. /\ SubSeq(s, j + 1, j + n) \in Seq(S) /\ Len(SubSeq(s, j + 1, j + n)) = n
      /\ \A k \in 1..n : SubSeq(s, j + 1, j + n)[k] = s[j + 1 + k - 1]
  BY <1>2, <1>3, SubSeqProperties
<1>5. \A k \in 1..n : j + 1 + k - 1 = j + k
  OBVIOUS
<1> QED BY <1>4, <1>5

\* In the report the block at i is a part of what the run has.
LEMMA BlockInContent ==
  ASSUME IInv, pc = "report", i < Len(content)
  PROVE  /\ i \in Addrs /\ i \in Nat /\ Len(content) = MaxAddr
         /\ Width(i) \in Nat \ {0} /\ i + Width(i) <= MaxAddr /\ table[i] \in Nat
         /\ Block(i) \in Seq(Bytes) /\ Len(Block(i)) = Width(i)
         /\ \A k \in 1..Width(i) : Block(i)[k] = content[i + k]
<1>1. i < MaxAddr /\ i \in 0..MaxAddr /\ Len(content) = MaxAddr /\ content \in Seq(Bytes)
  BY DEF IInv, Saved, NumbersOK, InOrder
<1>2. i \in Addrs /\ i \in Nat /\ MaxAddr \in Nat
  BY <1>1, ScanAssumption DEF Addrs
<1>3. table[i] \in 0..MaxAddr /\ i + table[i] <= MaxAddr
  BY <1>2 DEF IInv, TableFits
<1>4. Width(i) \in Nat \ {0} /\ i + Width(i) <= MaxAddr
  BY <1>1, <1>2, <1>3 DEF Width
<1>5. Block(i) = SubSeq(content, i + 1, i + Width(i))
  BY DEF Block, Width
<1>6. /\ Block(i) \in Seq(Bytes) /\ Len(Block(i)) = Width(i)
      /\ \A k \in 1..Width(i) : Block(i)[k] = content[i + k]
  <2>1. ASSUME NEW n \in Nat \ {0}, i + n <= Len(content)
        PROVE  LET b == SubSeq(content, i + 1, i + n)
               IN b \in Seq(Bytes) /\ Len(b) = n /\ \A k \in 1..n : b[k] = content[i + k]
    BY <1>1, <1>2, <2>1, PartOf
  <2> QED BY <1>1, <1>4, <1>5, <2>1
<1> QED BY <1>1, <1>2, <1>3, <1>4, <1>6

\* A block that has a set byte, and a byte that is not 0x00 if it is alone, is added
\* to a report up to i.
LEMMA BlockShown ==
  ASSUME IInv, ReportInv, pc = "report", i < Len(content),
         HasSetByte(Block(i)), table[i] = 0 => ByteOf(content[i + 1]) # 0,
         shown' = Append(shown, [addr |-> i, bytes |-> Block(i)]),
         i' = i + Width(i), content' = content, table' = table
  PROVE  shown' \in Seq(Lines) /\ LinesTrue' /\ LinesAscend' /\ BytesShown' /\ CommandsShown'
<1> DEFINE line == [addr |-> i, bytes |-> Block(i)]
           last == Len(shown) + 1
<1>1. /\ i \in Nat /\ Width(i) \in Nat \ {0} /\ i + Width(i) <= MaxAddr /\ MaxAddr \in Nat
      /\ Block(i) \in Seq(Bytes) /\ Len(Block(i)) = Width(i)
  BY BlockInContent, ScanAssumption
<1>2. line \in Lines /\ line.addr = i /\ line.bytes = Block(i)
  BY <1>1 DEF Lines
<1>3. LineEnd(line) = i + Width(i)
  BY <1>1, <1>2 DEF LineEnd
<1> HIDE DEF line
<1>4. shown' = Append(shown, line) /\ shown \in Seq(Lines) /\ Len(shown) \in Nat
  BY LenProperties DEF ReportInv, line
<1>5. /\ shown' \in Seq(Lines) /\ Len(shown') = last
      /\ \A k \in 1..Len(shown) : shown'[k] = shown[k]
      /\ shown'[last] = line
  BY <1>2, <1>4, AppendProperties
<1>6. /\ last \in 1..Len(shown') /\ last \in Nat
      /\ \A k \in 1..Len(shown') : k \in 1..Len(shown) \/ k = last
      /\ \A k \in 1..Len(shown) : k \in 1..Len(shown')
  BY <1>4, <1>5
<1>7. \A a : Block(a)' = Block(a)
  BY DEF Block
<1>8. LinesTrue'
  <2> SUFFICES ASSUME NEW k \in 1..Len(shown')
               PROVE  /\ shown'[k].addr < MaxAddr /\ shown'[k].bytes = Block(shown'[k].addr)
                      /\ HasSetByte(shown'[k].bytes)
                      /\ table[shown'[k].addr] = 0 => ByteOf(content[shown'[k].addr + 1]) # 0
    BY <1>7 DEF LinesTrue
  <2>1. CASE k \in 1..Len(shown)
    BY <1>5, <2>1 DEF ReportInv, LinesTrue
  <2>2. CASE k = last
    BY <1>1, <1>2, <1>5, <2>2
  <2> QED BY <1>6, <2>1, <2>2
<1>9. LinesAscend'
  <2> SUFFICES ASSUME NEW k \in 1..Len(shown')
               PROVE  LineEnd(shown'[k]) <=
                        IF k < Len(shown') THEN shown'[k + 1].addr ELSE i'
    BY DEF LinesAscend, LineEnd
  <2>1. CASE k \in 1..Len(shown) /\ k < Len(shown)
    <3>1. shown'[k] = shown[k] /\ shown'[k + 1] = shown[k + 1] /\ k < Len(shown')
      BY <1>4, <1>5, <2>1
    <3> QED BY <2>1, <3>1 DEF ReportInv, LinesAscend
  <2>2. CASE k \in 1..Len(shown) /\ ~ k < Len(shown)
    <3>1. shown'[k] = shown[k] /\ shown'[k + 1] = line /\ k < Len(shown')
      BY <1>4, <1>5, <2>2
    <3> QED BY <1>2, <2>2, <3>1 DEF ReportInv, LinesAscend
  <2>3. CASE k = last
    BY <1>1, <1>3, <1>4, <1>5, <2>3
  <2> QED BY <1>6, <2>1, <2>2, <2>3
<1>10. BytesShown'
  <2> SUFFICES ASSUME NEW a \in 0..(i' - 1)
               PROVE  \/ \E k \in 1..Len(shown') : Covers(shown'[k], a)
                      \/ ByteOf(content[a + 1]) = Unset
                      \/ ByteOf(content[a + 1]) = 0 /\ table[a] = 0
    BY Zenon DEF BytesShown, Covers, LineEnd, ByteOf, Unset
  <2>0. a \in 0..(i + Width(i) - 1)
    BY <1>1
  <2>1. CASE a < i
    <3>1. a \in 0..(i - 1)
      BY <1>1, <2>0, <2>1
    <3>2. \/ \E k \in 1..Len(shown) : Covers(shown[k], a)
          \/ ByteOf(content[a + 1]) = Unset
          \/ ByteOf(content[a + 1]) = 0 /\ table[a] = 0
      BY <3>1 DEF ReportInv, BytesShown
    <3> QED BY <1>5, <1>6, <3>2
  <2>2. CASE ~ a < i
    <3>1. Covers(line, a)
      BY <1>1, <1>2, <1>3, <2>0, <2>2 DEF Covers
    <3> QED BY <1>5, <1>6, <3>1
  <2> QED BY <2>1, <2>2
<1>11. CommandsShown'
  <2> SUFFICES ASSUME NEW c \in SystemCommands \cup DeviceCommands
               PROVE  \/ c.addr >= i + Width(i)
                      \/ \E k \in 1..Len(shown') : shown'[k].addr = c.addr
                      \/ ~HasSetByte(Block(c.addr))
                      \/ \E a \in 0..(c.addr - 1) :
                           /\ c.addr < a + table[a]
                           /\ \/ \E k \in 1..Len(shown') : shown'[k].addr = a
                              \/ ~HasSetByte(Block(a))
    BY <1>7 DEF CommandsShown
  <2>1. c.addr \in Nat
    BY ScanAssumption
  <2>2. CASE c.addr < i
    <3>1. \/ \E k \in 1..Len(shown) : shown[k].addr = c.addr
          \/ ~HasSetByte(Block(c.addr))
          \/ \E a \in 0..(c.addr - 1) :
               /\ c.addr < a + table[a]
               /\ \/ \E k \in 1..Len(shown) : shown[k].addr = a
                  \/ ~HasSetByte(Block(a))
      <4>1. ~ c.addr >= i
        BY <1>1, <2>1, <2>2
      <4>2. CommandsShown
        BY DEF ReportInv
      <4> QED BY <4>1, <4>2, Zenon DEF CommandsShown
    <3>2. \A a : (\E k \in 1..Len(shown) : shown[k].addr = a)
                   => \E k \in 1..Len(shown') : shown'[k].addr = a
      BY <1>5, <1>6
    <3> QED BY <3>1, <3>2
  <2>3. CASE c.addr = i
    BY <1>2, <1>5, <1>6, <2>3
  <2>4. CASE c.addr > i /\ c.addr < i + Width(i)
    <3>1. i \in 0..(c.addr - 1) /\ c.addr < i + table[i]
      BY <1>1, <2>1, <2>4 DEF Width
    <3>2. \E k \in 1..Len(shown') : shown'[k].addr = i
      BY <1>2, <1>5, <1>6
    <3> QED BY <3>1, <3>2
  <2>5. \/ c.addr < i \/ c.addr = i \/ c.addr >= i + Width(i)
        \/ c.addr > i /\ c.addr < i + Width(i)
    BY <1>1, <2>1
  <2> QED BY <2>2, <2>3, <2>4, <2>5, Zenon
<1> QED BY <1>5, <1>8, <1>9, <1>10, <1>11

\* A block without a set byte, and a byte alone that is 0x00, is left out of a report up
\* to i.
LEMMA BlockLeftOut ==
  ASSUME IInv, ReportInv, pc = "report", i < Len(content),
         table[i] # 0 => ~HasSetByte(Block(i)),
         table[i] = 0 => ByteOf(content[i + 1]) \in {Unset, 0},
         shown' = shown, i' = i + Width(i), content' = content, table' = table
  PROVE  shown' \in Seq(Lines) /\ LinesTrue' /\ LinesAscend' /\ BytesShown' /\ CommandsShown'
<1>1. /\ i \in Nat /\ Width(i) \in Nat \ {0} /\ Len(Block(i)) = Width(i)
      /\ \A k \in 1..Width(i) : Block(i)[k] = content[i + k]
  BY BlockInContent
<1>2. \A a : Block(a)' = Block(a)
  BY DEF Block
<1>3. shown' \in Seq(Lines) /\ Len(shown) \in Nat
  BY LenProperties DEF ReportInv
<1>4. LinesTrue'
  BY <1>2 DEF ReportInv, LinesTrue
<1>5. LinesAscend'
  <2> SUFFICES ASSUME NEW k \in 1..Len(shown)
               PROVE  LineEnd(shown[k]) <= IF k < Len(shown) THEN shown[k + 1].addr ELSE i'
    BY DEF LinesAscend, LineEnd
  <2>1. LineEnd(shown[k]) <= IF k < Len(shown) THEN shown[k + 1].addr ELSE i
    BY DEF ReportInv, LinesAscend
  <2>2. shown[k] \in Lines
    BY ElementOfSeq DEF ReportInv
  <2>3. LineEnd(shown[k]) \in Nat
    BY <2>2, LenProperties DEF Lines, LineEnd
  <2> QED BY <1>1, <2>1, <2>3
<1>6. BytesShown'
  <2> SUFFICES ASSUME NEW a \in 0..(i' - 1)
               PROVE  \/ \E k \in 1..Len(shown) : Covers(shown[k], a)
                      \/ ByteOf(content[a + 1]) = Unset
                      \/ ByteOf(content[a + 1]) = 0 /\ table[a] = 0
    BY Zenon DEF BytesShown, Covers, LineEnd, ByteOf, Unset
  <2>0. a \in 0..(i + Width(i) - 1)
    BY <1>1
  <2>1. CASE a < i
    <3>1. a \in 0..(i - 1)
      BY <1>1, <2>0, <2>1
    <3>2. BytesShown
      BY DEF ReportInv
    <3> QED BY <3>1, <3>2, Zenon DEF BytesShown
  <2>2. CASE ~ a < i /\ table[i] = 0
    <3>1. a = i
      BY <1>1, <2>0, <2>2 DEF Width
    <3> QED BY <2>2, <3>1
  <2>3. CASE ~ a < i /\ table[i] # 0
    <3>1. a - i + 1 \in 1..Width(i) /\ i + (a - i + 1) = a + 1
      BY <1>1, <2>0, <2>3
    <3>2. ByteOf(Block(i)[a - i + 1]) = Unset
      BY <1>1, <2>3, <3>1 DEF HasSetByte
    <3>3. Block(i)[a - i + 1] = content[a + 1]
      BY <1>1, <3>1
    <3> QED BY <3>2, <3>3
  <2> QED BY <2>1, <2>2, <2>3
<1>7. CommandsShown'
  <2> SUFFICES ASSUME NEW c \in SystemCommands \cup DeviceCommands
               PROVE  \/ c.addr >= i + Width(i)
                      \/ \E k \in 1..Len(shown) : shown[k].addr = c.addr
                      \/ ~HasSetByte(Block(c.addr))
                      \/ \E a \in 0..(c.addr - 1) :
                           /\ c.addr < a + table[a]
                           /\ \/ \E k \in 1..Len(shown) : shown[k].addr = a
                              \/ ~HasSetByte(Block(a))
    BY <1>2 DEF CommandsShown
  <2>1. c.addr \in Nat /\ table[c.addr] # 0
    BY ScanAssumption DEF ReportInv
  <2>2. CASE c.addr < i
    BY <1>1, <2>1, <2>2 DEF ReportInv, CommandsShown
  <2>3. CASE c.addr = i
    BY <2>1, <2>3
  <2>4. CASE c.addr > i /\ c.addr < i + Width(i)
    <3>1. i \in 0..(c.addr - 1) /\ c.addr < i + table[i] /\ table[i] # 0
      BY <1>1, <2>1, <2>4 DEF Width
    <3> QED BY <3>1
  <2>5. \/ c.addr < i \/ c.addr = i \/ c.addr >= i + Width(i)
        \/ c.addr > i /\ c.addr < i + Width(i)
    BY <1>1, <2>1
  <2> QED BY <2>2, <2>3, <2>4, <2>5, Zenon
<1> QED BY <1>3, <1>4, <1>5, <1>6, <1>7

\* Each step keeps the report complete.
LEMMA ReportStep ==
  ASSUME IInv, ReportInv, [Next]_vars
  PROVE  ReportInv'
<1>1. CASE ShowCommand
  <2>1. i < Len(content) /\ pc = "report" /\ table[i] # 0 /\ i' = i + Width(i)
        /\ content' = content /\ table' = table
    BY <1>1 DEF ShowCommand, Width
  <2>2. SubSeq(content, i + 1, i + table[i]) = Block(i)
    BY <2>1 DEF Block
  <2>3. shown' = IF HasSetByte(Block(i)) THEN Append(shown, [addr |-> i, bytes |-> Block(i)])
                 ELSE shown
    BY <1>1, <2>2 DEF ShowCommand
  <2>4. shown' \in Seq(Lines) /\ LinesTrue' /\ LinesAscend' /\ BytesShown' /\ CommandsShown'
    <3>1. CASE HasSetByte(Block(i))
      BY <2>1, <2>3, <3>1, BlockShown
    <3>2. CASE ~HasSetByte(Block(i))
      BY <2>1, <2>3, <3>2, BlockLeftOut
    <3> QED BY <3>1, <3>2
  <2> QED BY <1>1, <2>4 DEF ShowCommand, ReportInv
<1>2. CASE ShowByte
  <2>1. i < Len(content) /\ pc = "report" /\ table[i] = 0 /\ i' = i + Width(i)
        /\ content' = content /\ table' = table
    BY <1>2 DEF ShowByte, Width
  <2>2. /\ Len(Block(i)) = 1 /\ Block(i)[1] = content[i + 1]
        /\ Block(i) = << content[i + 1] >>
    <3>1. i + 1 \in 1..Len(content) /\ content \in Seq(Bytes)
      BY <2>1, BlockInContent, ScanAssumption DEF IInv, InOrder
    <3>2. Block(i) = SubSeq(content, i + 1, i + 1)
      BY <2>1 DEF Block
    <3>3. << content[i + 1] >> = SubSeq(content, i + 1, i + 1)
      BY <3>1, OneByte
    <3>4. Len(<< content[i + 1] >>) = 1 /\ << content[i + 1] >>[1] = content[i + 1]
      OBVIOUS
    <3> QED BY <3>2, <3>3, <3>4
  <2>3. HasSetByte(Block(i)) <=> ByteOf(content[i + 1]) # Unset
    BY <2>2 DEF HasSetByte
  <2>4. shown' = IF ByteOf(content[i + 1]) \notin {Unset, 0}
                   THEN Append(shown, [addr |-> i, bytes |-> Block(i)]) ELSE shown
    BY <1>2, <2>2 DEF ShowByte
  <2>5. shown' \in Seq(Lines) /\ LinesTrue' /\ LinesAscend' /\ BytesShown' /\ CommandsShown'
    <3>1. CASE ByteOf(content[i + 1]) \notin {Unset, 0}
      BY <2>1, <2>3, <2>4, <3>1, BlockShown
    <3>2. CASE ByteOf(content[i + 1]) \in {Unset, 0}
      BY <2>1, <2>4, <3>2, BlockLeftOut
    <3> QED BY <3>1, <3>2
  <2> QED BY <1>2, <2>5 DEF ShowByte, ReportInv
<1>3. CASE Connect
  <2>1. shown' = << >> /\ i' = 0
    BY <1>3 DEF Connect, ReportInv
  <2>2. ASSUME NEW c \in SystemCommands \cup DeviceCommands
        PROVE  table'[c.addr] # 0
    <3> DEFINE a == c.addr
    <3>1. a \in Addrs /\ c.block_len \in At(DeviceCommands, a) \cup At(SystemCommands, a)
      BY <2>2, ScanAssumption DEF At, Addrs
    <3>2. 0 \notin At(DeviceCommands, a) \cup At(SystemCommands, a)
      BY ScanAssumption DEF At
    <3>3. table'[a] \in (IF At(DeviceCommands, a) # {} THEN At(DeviceCommands, a)
                        ELSE IF At(SystemCommands, a) # {} THEN At(SystemCommands, a) ELSE {0})
      BY <1>3, <3>1 DEF Connect
    <3> HIDE DEF a
    <3>4. table'[a] # 0
      BY <3>1, <3>2, <3>3
    <3> QED BY <3>4 DEF a
  <2> QED BY <1>3, <2>1, <2>2, NothingShownNext DEF Connect, ReportInv
<1>4. CASE Fails \/ Crash \/ Finish
  <2>1. shown' = << >> /\ i' = 0 /\ pc' = "stopped"
    BY <1>4 DEF Fails, Crash, Finish
  <2> QED BY <2>1, NothingShownNext DEF ReportInv
<1>5. CASE pc # "report" /\ pc' # "report" /\ UNCHANGED << shown, i >>
  <2>1. shown' = << >> /\ i' = 0
    BY <1>5 DEF ReportInv
  <2> QED BY <1>5, <2>1, NothingShownNext DEF ReportInv
<1>6. CASE UNCHANGED << content, table, shown, i, pc >>
  <2>1. \A a : Block(a)' = Block(a)
    BY <1>6 DEF Block
  <2>2. \A line : LineEnd(line)' = LineEnd(line)
    BY DEF LineEnd
  <2>3. LinesTrue' /\ LinesAscend'
    BY <1>6, <2>1, <2>2 DEF ReportInv, LinesTrue, LinesAscend
  <2>4. BytesShown'
    BY <1>6 DEF ReportInv, BytesShown, Covers, LineEnd
  <2>5. CommandsShown'
    BY <1>6, <2>1 DEF ReportInv, CommandsShown
  <2> QED BY <1>6, <2>3, <2>4, <2>5 DEF ReportInv
<1> QED BY <1>1, <1>2, <1>3, <1>4, <1>5, <1>6
     DEF Next, Step, Start, DetectProtocol, GetOk, Flush, GetFails, Negotiate, ScanEnds, Change,
         vars

\* A report shows each byte at its address and once, and leaves out only what is not
\* set and commands that begin inside another, whatever was scanned before and however
\* the tables of commands overlap.
THEOREM ReportIsComplete == Spec => []ReportComplete
<1>1. Init => ReportInv
  BY NothingShown DEF Init, ReportInv
<1>2. ReportInv => ReportComplete
  BY DEF ReportInv, ReportComplete
<1> QED BY <1>1, <1>2, ReportStep, ScanInvariant, PTL DEF Spec

=============================================================================
