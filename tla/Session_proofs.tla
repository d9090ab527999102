--------------------------- MODULE Session_proofs ---------------------------
(***************************************************************************)
(* Type correctness of Session, for every choice of addresses, contents,   *)
(* noise, events and bounds.                                               *)
(***************************************************************************)
EXTENDS Session, FiniteSetTheorems, SequenceTheorems, TLAPS

-----------------------------------------------------------------------------
(* Bytes and messages *)

\* A byte is an integer between 0 and 255.
LEMMA InByte == \A x : x \in Byte <=> x \in Int /\ 0 <= x /\ x <= 255
  BY DEF Byte

\* A remainder by 256 is a byte.
LEMMA Modulo == \A k \in Nat : k % 256 \in Byte
  BY DEF Byte

\* The length field of a telegram is a byte as long as the payload is short.
LEMMA LengthByte == \A k \in 0..250 : 5 + k \in Byte
  BY DEF Byte

\* The length of a block is a byte.
LEMMA BlockLenByte == BlockLen \in Byte
  BY BlockLenAssumption DEF Byte

\* The indices up to a byte lie within those up to 255.
LEMMA Interval == \A m \in Byte : 1..m \subseteq 1..255
  BY DEF Byte

\* Both halves of a sixteen-bit number are bytes.
LEMMA AddressBytes == \A k \in 0..(256 * 256 - 1) : k \div 256 \in Byte /\ k % 256 \in Byte
<1>1. \A k \in Nat : k < 256 * 256 => k \div 256 \in 0..255
  OBVIOUS
<1>2. \A k \in 0..(256 * 256 - 1) : k \in Nat /\ k < 256 * 256
  OBVIOUS
<1> QED
  BY <1>1, <1>2, Modulo DEF Byte

\* Both halves of an address are bytes.
LEMMA AddrBytes == ASSUME NEW a \in Addr PROVE High(a) \in Byte /\ Low(a) \in Byte
<1>1. a \in 0..(256 * 256 - 1)
  BY AddrAssumption
<1> QED
  BY <1>1, AddressBytes DEF High, Low

\* A content is a sequence of BlockLen bytes.
LEMMA ValIsBytes == ASSUME NEW v \in Val PROVE v \in Seq(Byte) /\ Len(v) = BlockLen
<1>1. v \in [1..BlockLen -> Byte]
  BY ValAssumption
<1>2. BlockLen \in Nat
  BY BlockLenAssumption
<1> QED
  BY <1>1, <1>2

\* The checksum is a byte.
LEMMA SumIsByte == ASSUME NEW s \in Seq(Byte) PROVE wrapping_sum(s) \in Byte
<1> DEFINE U == UNION {{i} \X (1..s[i]) : i \in 1..Len(s)}
<1>1. wrapping_sum(s) = Cardinality(U) % 256
  BY Zenon DEF wrapping_sum
<1>2. ASSUME NEW x \in U PROVE x \in (1..Len(s)) \X (1..255)
  <2>1. PICK i \in 1..Len(s) : x \in {i} \X (1..s[i])
    BY Zenon
  <2>2. s[i] \in Byte
    BY ElementOfSeq
  <2>3. 1..s[i] \subseteq 1..255
    BY <2>2, Interval
  <2>4. PICK j \in 1..s[i] : x = << i, j >>
    BY <2>1
  <2>5. j \in 1..255
    BY <2>3, Zenon
  <2> QED
    BY <2>4, <2>5
<1>3. IsFiniteSet((1..Len(s)) \X (1..255))
  <2>1. Len(s) \in Int /\ 1 \in Int /\ 255 \in Int
    OBVIOUS
  <2>2. IsFiniteSet(1..Len(s)) /\ IsFiniteSet(1..255)
    BY <2>1, FS_Interval
  <2> QED
    BY <2>2, FS_Product
<1>4. Cardinality(U) \in Nat
  <2>1. U \in SUBSET ((1..Len(s)) \X (1..255))
    BY <1>2
  <2> HIDE DEF U
  <2>2. IsFiniteSet(U)
    BY <2>1, <1>3, FS_Subset
  <2> QED
    BY <2>2, FS_CardinalityType
<1> HIDE DEF U
<1> QED
  BY <1>1, <1>4, Modulo

\* A telegram is a sequence of bytes.
LEMMA TelegramIsBytes ==
  ASSUME NEW type \in Byte, NEW fn \in Byte, NEW a \in Addr, NEW n \in Byte,
         NEW data \in Seq(Byte), Len(data) \in 0..250
  PROVE  Telegram(type, fn, a, n, data) \in Seq(Byte)
<1> DEFINE head == << 5 + Len(data), type, fn, High(a), Low(a), n >>
<1> DEFINE body == head \o data
<1>1. High(a) \in Byte /\ Low(a) \in Byte
  BY AddrBytes
<1>2. 5 + Len(data) \in Byte
  BY LengthByte
<1>3. head \in Seq(Byte)
  BY <1>1, <1>2
<1>4. body \in Seq(Byte)
  BY <1>3, ConcatProperties
<1>5. wrapping_sum(body) \in Byte
  BY <1>4, SumIsByte
<1>6. << LEADIN >> \in Seq(Byte)
  BY DEF LEADIN, Byte
<1> HIDE DEF body
<1>7. << LEADIN >> \o body \in Seq(Byte)
  BY <1>4, <1>6, ConcatProperties
<1>8. << wrapping_sum(body) >> \in Seq(Byte)
  BY <1>5
<1>9. << LEADIN >> \o body \o << wrapping_sum(body) >> \in Seq(Byte)
  BY <1>7, <1>8, ConcatProperties
<1> QED
  BY <1>9 DEF body, Telegram

\* A control byte is a message.
LEMMA ControlIsMessage ==
  \A m \in {"RESET", "START", "ACK", "NACK"} : Control(m) \in Messages
  BY DEF Control, Messages

\* The request of an existing call is a message.
LEMMA RequestIsMessage ==
  ASSUME op \in Operations, op.kind # "negotiate"
  PROVE  Request(op) \in Messages
  BY DEF Operations, Request, FunctionOf, Messages, VirtualRead, VirtualWrite

\* What a call asks for has its type.
LEMMA OperationTypes ==
  /\ \A n \in Ids : Operation("negotiate", 0, NoData, n) \in Operations
  /\ \A a \in Addr, n \in Ids : Operation("get", a, NoData, n) \in Operations
  /\ \A a \in Addr, v \in Val, n \in Ids : Operation("set", a, v, n) \in Operations
  BY DEF Operation, Operations

-----------------------------------------------------------------------------
(* Pieces of steps *)

\* The rest of the line after its first byte is a sequence of bytes.
LEMMA TailType ==
  ASSUME rx \in Seq(Byte), rx # << >> PROVE Head(rx) \in Byte /\ Tail(rx) \in Seq(Byte)
  BY HeadTailProperties

\* The rest of the line after n bytes is a sequence of bytes.
LEMMA DropType ==
  ASSUME rx \in Seq(Byte), NEW k \in Nat
  PROVE  SubSeq(rx, k + 1, Len(rx)) \in Seq(Byte)
<1>1. \A i \in (k + 1)..Len(rx) : rx[i] \in Byte
  BY ElementOfSeq
<1> QED
  BY <1>1, SubSeqProperties

\* The line with a control byte at its end is a sequence of bytes.
LEMMA AppendControlType ==
  ASSUME tx \in Seq(Messages), NEW m \in {"RESET", "START", "ACK", "NACK"}
  PROVE  Append(tx, Control(m)) \in Seq(Messages)
  BY ControlIsMessage, AppendProperties

\* Receiving bytes leaves the rest of the line well-typed.
LEMMA ReceiveType ==
  ASSUME tx \in Seq(Messages), NEW m, Receives(m)
  PROVE  tx' \in Seq(Messages) /\ Head(tx) \in Messages /\ Head(tx).m = m
  BY HeadTailProperties DEF Receives

\* A step that counts a disturbance keeps the count in its range.
LEMMA HappensType ==
  ASSUME events \in 0..MaxEvents, NEW kind, Happens(kind) PROVE events' \in 0..MaxEvents
  BY Vs2Assumption DEF Happens

\* Beginning an operation sets the client's state to one of its type.
LEMMA BeginType ==
  ASSUME ControllerOK, NEW o \in Operations, NEW first, Begin(o, first),
         first \in {"reset", "write"}, first = "write" => o.kind # "negotiate"
  PROVE  ClientOK' /\ seen' \subseteq Val /\ applied' \in BOOLEAN
<1>1. o.kind = "get" => o.addr \in Addr
  BY DEF Operations
<1>2. NoData \in Seq(Byte) /\ 0 \in Byte
  BY DEF NoData, Byte
<1> QED
  BY <1>1, <1>2 DEF Begin, ClientOK, ControllerOK

-----------------------------------------------------------------------------
(* The client *)

\* Writing a telegram keeps the types.
LEMMA WriteTelegramType == ASSUME TypeOK, WriteTelegram PROVE ClientOK' /\ LineOK'
<1>1. Request(op) \in Messages
  BY RequestIsMessage DEF TypeOK, ClientOK, WriteTelegram
<1>2. tx' \in Seq(Messages)
  BY <1>1, AppendProperties DEF TypeOK, LineOK, WriteTelegram
<1> QED
  BY <1>2 DEF TypeOK, ClientOK, LineOK, WriteTelegram

\* Reading the status byte keeps the types.
LEMMA ReadStatusType == ASSUME TypeOK, ReadStatus PROVE ClientOK' /\ LineOK'
  BY TailType DEF TypeOK, ClientOK, LineOK, ReadStatus, Finish

\* Writing RESET and purging keeps the types.
LEMMA ResetType == ASSUME TypeOK, Reset PROVE ClientOK' /\ LineOK'
<1>1. rx' \in Seq(Byte)
  <2>1. CASE rx' = << >>
    BY <2>1
  <2>2. CASE \E k \in 0..Len(rx) : rx' = SubSeq(rx, k + 1, Len(rx))
    <3>1. PICK k \in 0..Len(rx) : rx' = SubSeq(rx, k + 1, Len(rx))
      BY <2>2
    <3> QED
      BY <3>1, DropType DEF TypeOK, LineOK
  <2> QED
    BY <2>1, <2>2 DEF Reset, Purge
<1>2. tx' \in Seq(Messages)
  BY AppendControlType DEF TypeOK, LineOK, Reset
<1> QED
  BY <1>1, <1>2 DEF TypeOK, ClientOK, LineOK, Reset

\* Reading SYNC keeps the types.
LEMMA AwaitSyncType == ASSUME TypeOK, AwaitSync PROVE ClientOK' /\ LineOK'
  BY TailType DEF TypeOK, ClientOK, LineOK, AwaitSync

\* Writing START keeps the types.
LEMMA WriteStartType == ASSUME TypeOK, WriteStart PROVE ClientOK' /\ LineOK'
  BY AppendControlType DEF TypeOK, ClientOK, LineOK, WriteStart

\* Reading the answer to START keeps the types.
LEMMA ReadStartStatusType == ASSUME TypeOK, ReadStartStatus PROVE ClientOK' /\ LineOK'
  BY TailType DEF TypeOK, ClientOK, LineOK, ReadStartStatus, Finish

\* Reading the leadin keeps the types.
LEMMA ReadLeadinType == ASSUME TypeOK, ReadLeadin PROVE ClientOK' /\ LineOK'
  BY TailType DEF TypeOK, ClientOK, LineOK, ReadLeadin, Finish

\* Reading the length keeps the types.
LEMMA ReadLengthType == ASSUME TypeOK, ReadLength PROVE ClientOK' /\ LineOK'
  BY TailType DEF TypeOK, ClientOK, LineOK, ReadLength

\* Reading the body of a response keeps the types.
LEMMA ReadBodyType == ASSUME TypeOK, ReadBody PROVE ClientOK' /\ LineOK'
<1> DEFINE t == << msgLen >> \o SubSeq(rx, 1, msgLen)
           intact == wrapping_sum(t) = rx[msgLen + 1]
           good == intact /\ Accepted(op, t)
<1>1. /\ pc = "body" /\ Len(rx) > msgLen
      /\ rx' = SubSeq(rx, msgLen + 2, Len(rx))
      /\ tx' = Append(tx, Control(IF intact THEN "ACK" ELSE "NACK"))
      /\ Finish(IF good THEN "ok" ELSE "err")
      /\ buf' = IF good /\ op.kind = "get" THEN SubSeq(t, 7, 6 + BlockLen) ELSE NoData
      /\ UNCHANGED << op, msgLen >>
  BY DEF ReadBody
<1>2. rx \in Seq(Byte) /\ tx \in Seq(Messages) /\ msgLen \in Byte
  BY DEF TypeOK, ClientOK, LineOK
<1>3. SubSeq(rx, 1, msgLen) \in Seq(Byte) /\ Len(SubSeq(rx, 1, msgLen)) = msgLen
  <2>1. msgLen \in Nat
    BY <1>2, InByte
  <2>2. \A i \in 1..msgLen : rx[i] \in Byte
    BY <1>1, <1>2, <2>1, ElementOfSeq
  <2> QED
    BY <2>1, <2>2, SubSeqProperties
<1>4. t \in Seq(Byte) /\ Len(t) = msgLen + 1 /\ t[1] = msgLen
  <2>1. << msgLen >> \in Seq(Byte) /\ Len(<< msgLen >>) = 1
    BY <1>2
  <2> QED
    BY <1>2, <1>3, <2>1, InByte, ConcatProperties
<1> HIDE DEF t
<1>5. rx' \in Seq(Byte)
  <2>1. msgLen + 1 \in Nat /\ msgLen + 2 = (msgLen + 1) + 1
    BY <1>2 DEF Byte
  <2> QED
    BY <1>1, <1>2, <2>1, DropType
<1>6. tx' \in Seq(Messages)
  BY <1>1, <1>2, AppendControlType
<1>7. buf' \in Seq(Byte)
  <2>1. CASE good /\ op.kind = "get"
    <3>1. t[1] >= 5 /\ t[1] - 5 = t[6] /\ t[6] = BlockLen
      BY <2>1 DEF Accepted
    <3>2. BlockLen \in 1..250
      BY BlockLenAssumption
    <3>9. msgLen \in Int
      BY <1>2, InByte
    <3>3. Len(t) = 6 + BlockLen
      BY <1>4, <3>1, <3>2, <3>9
    <3>4. \A i \in 7..(6 + BlockLen) : t[i] \in Byte
      BY <1>4, <3>2, <3>3, ElementOfSeq
    <3>5. SubSeq(t, 7, 6 + BlockLen) \in Seq(Byte)
      BY <3>2, <3>4, SubSeqProperties
    <3> QED
      BY <1>1, <2>1, <3>5
  <2>2. CASE ~(good /\ op.kind = "get")
    BY <1>1, <2>2 DEF NoData
  <2> QED
    BY <2>1, <2>2
<1> HIDE DEF good, intact
<1> QED
  BY <1>1, <1>5, <1>6, <1>7 DEF TypeOK, ClientOK, LineOK, Finish

\* What a failing read has consumed leaves a sequence of bytes.
LEMMA ConsumedType == ASSUME TypeOK, Consumed PROVE rx' \in Seq(Byte)
<1> PICK k \in 0..(IF pc = "body" THEN msgLen ELSE 0) : rx' = SubSeq(rx, k + 1, Len(rx))
  BY DEF Consumed
<1>1. k \in Nat
  BY DEF TypeOK, ClientOK, Byte
<1> QED
  BY <1>1, DropType DEF TypeOK, LineOK

\* An I/O error keeps the types.
LEMMA IoErrorType == ASSUME TypeOK, IoError PROVE ClientOK' /\ LineOK' /\ ControllerOK'
<1>1. rx' \in Seq(Byte)
  BY ConsumedType DEF IoError
<1>2. tx' \in Seq(Messages)
  <2>1. pc = "write" => Append(tx, Request(op)) \in Seq(Messages)
    BY RequestIsMessage, AppendProperties DEF TypeOK, ClientOK, LineOK
  <2> QED
    BY <2>1, AppendControlType DEF TypeOK, LineOK, IoError, Flushed
<1>3. events' \in 0..MaxEvents
  BY HappensType DEF TypeOK, ControllerOK, IoError
<1> QED
  BY <1>1, <1>2, <1>3
  DEF TypeOK, ClientOK, LineOK, ControllerOK, IoError, Finish, controller, history

\* Every step of the client keeps the types.
LEMMA ProgressType == ASSUME TypeOK, Progress PROVE TypeOK'
<1>1. ClientOK' /\ LineOK'
  BY WriteTelegramType, ReadStatusType, ResetType, AwaitSyncType, WriteStartType,
     ReadStartStatusType, ReadLeadinType, ReadLengthType, ReadBodyType
  DEF Progress, ClientStep
<1>2. UNCHANGED << controller, events, history >>
  BY DEF Progress, ClientStep, WriteTelegram, ReadStatus, Reset, AwaitSync, WriteStart,
     ReadStartStatus, ReadLeadin, ReadLength, ReadBody
<1> QED
  BY <1>1, <1>2
  DEF TypeOK, ControllerOK, MethodOK, Progress, sessionvars, controller, history

-----------------------------------------------------------------------------
(* The controller and the line *)

\* An answer of the controller is a sequence of bytes.
LEMMA AnswerType ==
  ASSUME rx \in Seq(Byte), NEW t \in Seq(Byte)
  PROVE  rx \o << ACK >> \o t \in Seq(Byte)
<1>1. << ACK >> \in Seq(Byte)
  BY DEF ACK, Byte
<1>2. rx \o << ACK >> \in Seq(Byte)
  BY <1>1, ConcatProperties
<1> QED
  BY <1>2, ConcatProperties

\* A status byte of the controller on the line keeps the types.
LEMMA StatusType ==
  ASSUME rx \in Seq(Byte)
  PROVE  \A b \in {SYNC, ACK, NACK} : Append(rx, b) \in Seq(Byte)
<1>1. \A b \in {SYNC, ACK, NACK} : b \in Byte
  BY DEF SYNC, ACK, NACK, Byte
<1> QED
  BY <1>1, AppendProperties

\* The answer to a read is a sequence of bytes.
LEMMA ReadAnswerType ==
  ASSUME mem \in [Addr -> Val], NEW a \in Addr
  PROVE  Telegram(Response, VirtualRead, a, BlockLen, mem[a]) \in Seq(Byte)
<1>1. mem[a] \in Seq(Byte) /\ Len(mem[a]) = BlockLen
  BY ValIsBytes
<1>2. Response \in Byte /\ VirtualRead \in Byte
  BY DEF Response, VirtualRead, Byte
<1>3. BlockLen \in 0..250
  BY BlockLenAssumption
<1>4. BlockLen \in Byte
  BY BlockLenByte
<1> QED
  BY <1>1, <1>2, <1>3, <1>4, TelegramIsBytes

\* An answer with a disturbed byte is a sequence of bytes.
LEMMA DisturbedType ==
  ASSUME NEW t \in Seq(Byte), NEW i, NEW b \in Byte
  PROVE  [t EXCEPT ![i] = b] \in Seq(Byte)
<1>1. CASE i \in 1..Len(t)
  BY <1>1, ExceptSeq
<1>2. CASE i \notin 1..Len(t)
  <2>1. DOMAIN t = 1..Len(t)
    BY LenProperties
  <2>2. [t EXCEPT ![i] = b] = t
    BY <1>2, <2>1, IsASeq
  <2> QED
    BY <2>2
<1> QED
  BY <1>1, <1>2

\* A telegram on the line carries the identifier of an existing call.
LEMMA TelegramMessage ==
  ASSUME NEW msg \in Messages, msg.m = "telegram"
  PROVE  /\ msg.addr \in Addr /\ msg.fn \in {VirtualRead, VirtualWrite}
         /\ msg.fn = VirtualWrite => msg.data \in Val
  BY DEF Messages, VirtualRead, VirtualWrite

\* Bytes the controller puts on the line keep the types.
LEMMA PutType ==
  ASSUME ControllerOK, NEW a \in Addr, NEW v \in Val, Put(a, v)
  PROVE  mem' \in [Addr -> Val] /\ seen' \subseteq Val
  BY DEF ControllerOK, Put

\* SYNC of the idle controller keeps the types.
LEMMA SendSyncType == ASSUME TypeOK, SendSync PROVE ClientOK' /\ LineOK' /\ ControllerOK'
<1>1. rx' \in Seq(Byte)
  BY StatusType DEF TypeOK, LineOK, SendSync
<1> QED
  BY <1>1 DEF TypeOK, ClientOK, LineOK, ControllerOK, SendSync, client, controller, history

\* The controller's reaction to RESET keeps the types.
LEMMA ReceiveResetType ==
  ASSUME TypeOK, ReceiveReset PROVE ClientOK' /\ LineOK' /\ ControllerOK'
<1>1. tx' \in Seq(Messages)
  BY ReceiveType DEF TypeOK, LineOK, ReceiveReset
<1> QED
  BY <1>1 DEF TypeOK, ClientOK, LineOK, ControllerOK, ReceiveReset, client, history

\* The controller's reaction to START keeps the types.
LEMMA ReceiveStartType ==
  ASSUME TypeOK, ReceiveStart PROVE ClientOK' /\ LineOK' /\ ControllerOK'
<1>1. tx' \in Seq(Messages)
  BY ReceiveType DEF TypeOK, LineOK, ReceiveStart
<1>2. rx' \in Seq(Byte)
  BY StatusType DEF TypeOK, LineOK, ReceiveStart
<1> QED
  BY <1>1, <1>2 DEF TypeOK, ClientOK, LineOK, ControllerOK, ReceiveStart, client, history

\* The controller's reaction to a read keeps the types.
LEMMA ReceiveReadType ==
  ASSUME TypeOK, ReceiveRead PROVE ClientOK' /\ LineOK' /\ ControllerOK'
<1>1. tx' \in Seq(Messages) /\ Head(tx) \in Messages /\ Head(tx).m = "telegram"
  BY ReceiveType DEF TypeOK, LineOK, ReceiveRead
<1>2. Telegram(Response, VirtualRead, Head(tx).addr, BlockLen, mem[Head(tx).addr]) \in Seq(Byte)
  BY <1>1, TelegramMessage, ReadAnswerType DEF TypeOK, ControllerOK
<1>3. rx' \in Seq(Byte)
  BY <1>2, AnswerType DEF TypeOK, LineOK, ReceiveRead
<1> QED
  BY <1>1, <1>3
  DEF TypeOK, ClientOK, LineOK, ControllerOK, ReceiveRead, client, controller, history

\* The controller's reaction to a write keeps the types.
LEMMA ReceiveWriteType ==
  ASSUME TypeOK, ReceiveWrite PROVE ClientOK' /\ LineOK' /\ ControllerOK'
<1> DEFINE a == Head(tx).addr
           v == Head(tx).data
<1>1. tx' \in Seq(Messages) /\ Head(tx) \in Messages /\ Head(tx).m = "telegram"
  BY ReceiveType DEF TypeOK, LineOK, ReceiveWrite
<1>2. a \in Addr /\ v \in Val
  BY <1>1, TelegramMessage DEF ReceiveWrite
<1>3. Len(v) = BlockLen /\ BlockLen \in 1..250
  BY <1>2, ValIsBytes, BlockLenAssumption
<1>4. Response \in Byte /\ VirtualWrite \in Byte /\ NoData \in Seq(Byte) /\ Len(NoData) \in 0..250
  BY DEF Response, VirtualWrite, NoData, Byte
<1>5. Len(v) \in Byte
  BY <1>3, BlockLenByte
<1>6. Telegram(Response, VirtualWrite, a, Len(v), NoData) \in Seq(Byte)
  BY <1>2, <1>4, <1>5, TelegramIsBytes
<1>7. rx' = rx \o << ACK >> \o Telegram(Response, VirtualWrite, a, Len(v), NoData) /\ Put(a, v)
  BY DEF ReceiveWrite
<1>8. rx' \in Seq(Byte)
  BY <1>6, <1>7, AnswerType DEF TypeOK, LineOK
<1>9. mem' \in [Addr -> Val] /\ seen' \subseteq Val
  BY <1>2, <1>7, PutType DEF TypeOK
<1>10. applied' \in BOOLEAN
  BY DEF TypeOK, ControllerOK, ReceiveWrite
<1> HIDE DEF a, v
<1> QED
  BY <1>1, <1>8, <1>9, <1>10
  DEF TypeOK, ClientOK, LineOK, ControllerOK, ReceiveWrite, client

\* Ignoring a message keeps the types.
LEMMA IgnoreType == ASSUME TypeOK, Ignore PROVE ClientOK' /\ LineOK' /\ ControllerOK'
<1>1. tx' \in Seq(Messages)
  BY HeadTailProperties DEF TypeOK, LineOK, Ignore
<1> QED
  BY <1>1
  DEF TypeOK, ClientOK, LineOK, ControllerOK, Ignore, client, controller, history

\* Losing a message keeps the types.
LEMMA LoseType == ASSUME TypeOK, Lose PROVE ClientOK' /\ LineOK' /\ ControllerOK'
<1>1. tx' \in Seq(Messages)
  BY HeadTailProperties DEF TypeOK, LineOK, Lose
<1>2. events' \in 0..MaxEvents
  BY HappensType DEF TypeOK, ControllerOK, Lose
<1> QED
  BY <1>1, <1>2
  DEF TypeOK, ClientOK, LineOK, ControllerOK, Lose, client, controller, history

\* Answering with an error telegram keeps the types.
LEMMA RefuseType == ASSUME TypeOK, Refuse PROVE ClientOK' /\ LineOK' /\ ControllerOK'
<1>1. tx' \in Seq(Messages) /\ Head(tx) \in Messages /\ Head(tx).m = "telegram"
  BY ReceiveType DEF TypeOK, LineOK, Refuse
<1>2. Head(tx).addr \in Addr /\ Head(tx).fn \in Byte
  BY <1>1, TelegramMessage DEF VirtualRead, VirtualWrite, Byte
<1>3. Error \in Byte /\ 1 \in Byte /\ << 1 >> \in Seq(Byte) /\ Len(<< 1 >>) \in 0..250
  BY DEF Error, Byte
<1>4. Telegram(Error, Head(tx).fn, Head(tx).addr, 1, << 1 >>) \in Seq(Byte)
  BY <1>2, <1>3, TelegramIsBytes
<1>5. rx' \in Seq(Byte)
  BY <1>4, AnswerType DEF TypeOK, LineOK, Refuse
<1>6. events' \in 0..MaxEvents
  BY HappensType DEF TypeOK, ControllerOK, Refuse
<1> QED
  BY <1>1, <1>5, <1>6
  DEF TypeOK, ClientOK, LineOK, ControllerOK, Refuse, client, controller, history

\* Answering with NACK keeps the types.
LEMMA AnswerNackType == ASSUME TypeOK, AnswerNack PROVE ClientOK' /\ LineOK' /\ ControllerOK'
<1>1. tx' \in Seq(Messages)
  BY ReceiveType DEF TypeOK, LineOK, AnswerNack
<1>2. rx' \in Seq(Byte)
  BY StatusType DEF TypeOK, LineOK, AnswerNack
<1>3. events' \in 0..MaxEvents
  BY HappensType DEF TypeOK, ControllerOK, AnswerNack
<1> QED
  BY <1>1, <1>2, <1>3
  DEF TypeOK, ClientOK, LineOK, ControllerOK, AnswerNack, client, controller, history

\* Disturbing the answer to a read keeps the types.
LEMMA DisturbReadType ==
  ASSUME TypeOK, DisturbRead PROVE ClientOK' /\ LineOK' /\ ControllerOK'
<1> DEFINE a == Head(tx).addr
           t == Telegram(Response, VirtualRead, a, BlockLen, mem[a])
<1>1. tx' \in Seq(Messages) /\ Head(tx) \in Messages /\ Head(tx).m = "telegram"
  BY ReceiveType DEF TypeOK, LineOK, DisturbRead
<1>2. t \in Seq(Byte)
  BY <1>1, TelegramMessage, ReadAnswerType DEF TypeOK, ControllerOK
<1>3. PICK kind \in {"checksum", "garble"}, b \in Noise :
        /\ Happens(kind)
        /\ \E i \in (IF kind = "checksum" THEN {Len(t)} ELSE 1..Len(t)) :
             b # t[i] /\ rx' = rx \o << ACK >> \o [t EXCEPT ![i] = b]
  BY DEF DisturbRead
<1>4. PICK i : rx' = rx \o << ACK >> \o [t EXCEPT ![i] = b]
  BY <1>3, Zenon
<1> HIDE DEF t
<1>5. b \in Byte
  BY Vs2Assumption
<1>6. [t EXCEPT ![i] = b] \in Seq(Byte)
  BY <1>2, <1>5, DisturbedType
<1>7. rx' \in Seq(Byte)
  BY <1>4, <1>6, AnswerType DEF TypeOK, LineOK
<1>8. events' \in 0..MaxEvents
  BY <1>3, HappensType DEF TypeOK, ControllerOK
<1> QED
  BY <1>1, <1>7, <1>8
  DEF TypeOK, ClientOK, LineOK, ControllerOK, DisturbRead, client, controller, history

\* The controller's fallback keeps the types.
LEMMA FallbackType == ASSUME TypeOK, Fallback PROVE ClientOK' /\ LineOK' /\ ControllerOK'
<1>1. events' \in 0..MaxEvents
  BY HappensType DEF TypeOK, ControllerOK, Fallback
<1> QED
  BY <1>1
  DEF TypeOK, ClientOK, LineOK, ControllerOK, Fallback, client, line, history

\* A content that changes by itself keeps the types.
LEMMA ChangeType == ASSUME TypeOK, Change PROVE ClientOK' /\ LineOK' /\ ControllerOK'
<1>1. events' \in 0..MaxEvents
  BY HappensType DEF TypeOK, ControllerOK, Change
<1>2. mem' \in [Addr -> Val] /\ seen' \subseteq Val
  BY PutType DEF TypeOK, Change
<1> QED
  BY <1>1, <1>2 DEF TypeOK, ClientOK, LineOK, ControllerOK, Change, client, line

\* Every step of the controller and the line keeps the types.
LEMMA EnvironmentType == ASSUME TypeOK, Environment PROVE TypeOK'
<1>1. ClientOK' /\ LineOK' /\ ControllerOK'
  BY SendSyncType, ReceiveResetType, ReceiveStartType, ReceiveReadType, ReceiveWriteType,
     IgnoreType, LoseType, RefuseType, AnswerNackType, DisturbReadType, FallbackType,
     ChangeType, IoErrorType
  DEF Environment, EnvironmentStep, ControllerStep
<1> QED
  BY <1>1 DEF TypeOK, MethodOK, Environment, sessionvars

-----------------------------------------------------------------------------
(* The methods of VControl *)

\* Beginning any operation of VControl sets the client's state to one of its type.
LEMMA BeginTypes ==
  ASSUME ControllerOK, NEW n \in Ids
  PROVE  /\ BeginNegotiate(n) => ClientOK' /\ seen' \subseteq Val /\ applied' \in BOOLEAN
         /\ \A a \in Addr :
              BeginGet(a, n) => ClientOK' /\ seen' \subseteq Val /\ applied' \in BOOLEAN
         /\ \A t \in Tasks :
              BeginTask(t, n) => ClientOK' /\ seen' \subseteq Val /\ applied' \in BOOLEAN
<1>1. \A a \in Addr :
        BeginGet(a, n) => ClientOK' /\ seen' \subseteq Val /\ applied' \in BOOLEAN
  BY OperationTypes, BeginType DEF BeginGet, Operation
<1>2. \A a \in Addr, v \in Val :
        BeginSet(a, v, n) => ClientOK' /\ seen' \subseteq Val /\ applied' \in BOOLEAN
  BY OperationTypes, BeginType DEF BeginSet, Operation
<1>3. BeginNegotiate(n) => ClientOK' /\ seen' \subseteq Val /\ applied' \in BOOLEAN
  BY OperationTypes, BeginType DEF BeginNegotiate
<1>4. ASSUME NEW t \in Tasks, BeginTask(t, n)
      PROVE  ClientOK' /\ seen' \subseteq Val /\ applied' \in BOOLEAN
  <2>1. t.addr \in Addr /\ (t.kind # "get" => t.data \in Val)
    BY DEF Tasks
  <2> QED
    BY <1>1, <1>2, <1>4, <2>1 DEF BeginTask
<1> QED
  BY <1>1, <1>3, <1>4

\* The identifiers 0 and of the last call are identifiers.
LEMMA IdsType == ASSUME TypeOK PROVE 0 \in Ids /\ calls \in Ids
  BY SessionAssumption DEF TypeOK, MethodOK, Ids

\* The addresses of the two device identifiers are addresses.
LEMMA KnownAddresses == IdAddr \in Addr /\ F0Addr \in Addr
  BY SessionAssumption, Vs2Assumption

\* A returned outcome keeps the types.
LEMMA ReturnType ==
  ASSUME TypeOK, Return
  PROVE  ClientOK' /\ seen' \subseteq Val /\ applied' \in BOOLEAN /\ stage' \in Stages
  BY DEF TypeOK, ClientOK, ControllerOK, Return, history, Stages

\* The end of the detection keeps the types.
LEMMA DetectedType == ASSUME TypeOK, Detected PROVE TypeOK'
<1>1. ClientOK' /\ seen' \subseteq Val /\ applied' \in BOOLEAN
  <2>1. CASE result = "ok"
    BY <2>1, BeginTypes, IdsType, KnownAddresses DEF Detected, TypeOK
  <2>2. CASE result # "ok"
    BY <2>2 DEF Detected, TypeOK, ClientOK, ControllerOK, client, history
  <2> QED
    BY <2>1, <2>2
<1> QED
  BY <1>1 DEF TypeOK, LineOK, ControllerOK, MethodOK, Detected, line, controller,
              Stages, Connecting, Over

\* The end of reading the device identifier keeps the types.
LEMMA DeviceIdReadType == ASSUME TypeOK, DeviceIdRead PROVE TypeOK'
<1>1. ClientOK' /\ seen' \subseteq Val /\ applied' \in BOOLEAN
  <2>1. CASE result = "ok"
    BY <2>1, BeginTypes, IdsType, KnownAddresses DEF DeviceIdRead, TypeOK
  <2>2. CASE result # "ok"
    BY <2>2 DEF DeviceIdRead, TypeOK, ClientOK, ControllerOK, client, history
  <2> QED
    BY <2>1, <2>2
<1> QED
  BY <1>1 DEF TypeOK, LineOK, ControllerOK, MethodOK, DeviceIdRead, line, controller,
              Stages, Connecting, Over

\* The end of reading the F0 identifier keeps the types.
LEMMA DeviceIdF0ReadType == ASSUME TypeOK, DeviceIdF0Read PROVE TypeOK'
  BY DEF TypeOK, ClientOK, LineOK, ControllerOK, MethodOK, DeviceIdF0Read, line,
         controller, history, Stages, Over

\* A new call keeps the types.
LEMMA CallType == ASSUME TypeOK, NEW t \in Tasks, Call(t) PROVE TypeOK'
<1>1. calls + 1 \in Ids
  BY SessionAssumption DEF TypeOK, MethodOK, Ids, Call
<1>2. ClientOK' /\ seen' \subseteq Val /\ applied' \in BOOLEAN
  <2>1. CASE connected
    BY <1>1, <2>1, BeginTypes DEF Call, TypeOK
  <2>2. CASE ~connected
    BY <1>1, <2>2, BeginTypes DEF Call, TypeOK
  <2> QED
    BY <2>1, <2>2
<1> QED
  BY <1>1, <1>2 DEF TypeOK, LineOK, ControllerOK, MethodOK, Call, line, controller,
                    Stages, Calling

\* Every step of connect and the callers keeps the types.
LEMMA CallerType == ASSUME TypeOK, CallerStep PROVE TypeOK'
<1>1. \A a \in Addr : Task("get", a, NoData) \in Tasks
  BY DEF Task, Tasks
<1>2. \A a \in Addr, v \in Val : Task("set", a, v) \in Tasks
  BY DEF Task, Tasks
<1> QED
  BY <1>1, <1>2, CallType DEF CallerStep, Get, Set

\* The end of renegotiate keeps the types.
LEMMA RenegotiatedType == ASSUME TypeOK, Renegotiated PROVE TypeOK'
<1>1. /\ ClientOK' /\ seen' \subseteq Val /\ applied' \in BOOLEAN
      /\ stage' \in Stages /\ connected' \in BOOLEAN
  <2>1. CASE result = "ok"
    <3>1. BeginTask(task, calls) /\ stage' = "command" /\ connected' = TRUE
      BY <2>1 DEF Renegotiated
    <3> QED
      BY <3>1, BeginTypes, IdsType DEF TypeOK, MethodOK, Stages, Calling
  <2>2. CASE result # "ok" /\ ~reinitialized
    BY <2>2 DEF Renegotiated, TypeOK, ClientOK, ControllerOK, MethodOK, client, history,
                Stages, Calling
  <2>3. CASE result # "ok" /\ reinitialized
    BY <2>3, ReturnType DEF Renegotiated, TypeOK, MethodOK
  <2> QED
    BY <2>1, <2>2, <2>3 DEF TypeOK, MethodOK
<1> QED
  BY <1>1 DEF TypeOK, LineOK, ControllerOK, MethodOK, Renegotiated, line, controller

\* Opening the port again keeps the types.
LEMMA ReinitializeType == ASSUME TypeOK, Reinitialize PROVE TypeOK'
<1>1. ClientOK' /\ seen' \subseteq Val /\ applied' \in BOOLEAN
  BY BeginTypes, IdsType DEF Reinitialize, TypeOK
<1>2. rx' \in Seq(Byte)
  <2>1. PICK k \in 0..Len(rx) : rx' = SubSeq(rx, k + 1, Len(rx))
    BY DEF Reinitialize
  <2> QED
    BY <2>1, DropType DEF TypeOK, LineOK
<1> QED
  BY <1>1, <1>2 DEF TypeOK, LineOK, ControllerOK, MethodOK, Reinitialize, controller,
                    Stages, Calling

\* Failing to open the port again keeps the types.
LEMMA ReinitializeFailsType == ASSUME TypeOK, ReinitializeFails PROVE TypeOK'
<1>1. events' \in 0..MaxEvents
  BY HappensType DEF TypeOK, ControllerOK, ReinitializeFails
<1> QED
  BY <1>1, ReturnType
  DEF TypeOK, LineOK, ControllerOK, MethodOK, ReinitializeFails, line, controller

\* The end of a get or set keeps the types.
LEMMA CommandReturnsType == ASSUME TypeOK, CommandReturns PROVE TypeOK'
<1>1. connected' \in BOOLEAN
  BY DEF CommandReturns
<1> QED
  BY <1>1, ReturnType
  DEF TypeOK, LineOK, ControllerOK, MethodOK, CommandReturns, line, controller

\* Dropping the future of a call keeps the types.
LEMMA CancelType == ASSUME TypeOK, Cancel PROVE TypeOK'
<1>1. rx' \in Seq(Byte)
  BY ConsumedType DEF Cancel
<1>2. events' \in 0..MaxEvents
  BY HappensType DEF TypeOK, ControllerOK, Cancel
<1> QED
  BY <1>1, <1>2, ReturnType
  DEF TypeOK, LineOK, ControllerOK, MethodOK, Cancel, controller

-----------------------------------------------------------------------------
(* The theorem *)

\* The initial states are well-typed.
LEMMA InitType == Init => TypeOK
<1> SUFFICES ASSUME Init PROVE TypeOK
  OBVIOUS
<1>1. 0 \in Ids /\ 0 \in 0..MaxEvents
  BY SessionAssumption, Vs2Assumption DEF Ids
<1>2. ClientOK
  BY <1>1, OperationTypes DEF Init, ClientOK, NoData, Operation, Byte
<1>3. LineOK
  <2>1. SYNC \in Byte /\ ACK \in Byte
    BY DEF SYNC, ACK, Byte
  <2>2. \A b, c \in Byte :
          /\ << >> \in Seq(Byte) /\ << b >> \in Seq(Byte) /\ << b, c >> \in Seq(Byte)
    OBVIOUS
  <2>3. rx \in Seq(Byte)
    BY <2>1, <2>2, Zenon DEF Init
  <2>4. tx \in Seq(Messages)
    BY DEF Init
  <2> QED
    BY <2>3, <2>4 DEF LineOK
<1>4. ControllerOK
  BY <1>1 DEF Init, ControllerOK
<1>5. MethodOK
  BY <1>1, KnownAddresses DEF Init, MethodOK, Task, Tasks, Stages, Connecting
<1> QED
  BY <1>2, <1>3, <1>4, <1>5 DEF TypeOK

\* Every step keeps the types.
LEMMA NextType == TypeOK /\ [Next]_vars => TypeOK'
<1> SUFFICES ASSUME TypeOK, [Next]_vars PROVE TypeOK'
  OBVIOUS
<1>1. CASE UNCHANGED vars
  BY <1>1 DEF TypeOK, ClientOK, LineOK, ControllerOK, MethodOK, vars, vs2vars, client,
              line, controller, history, sessionvars
<1>2. CASE Method
  BY <1>2, DetectedType, DeviceIdReadType, DeviceIdF0ReadType, RenegotiatedType,
     ReinitializeType, CommandReturnsType DEF Method
<1> QED
  BY <1>1, <1>2, ProgressType, EnvironmentType, CallerType, ReinitializeFailsType,
     CancelType DEF Next

\* Every variable of a session keeps its type: in particular what the line
\* delivers are bytes, and what a successful get returns is a byte sequence,
\* whatever disturbances, failures and dropped calls came before.
THEOREM TypeCorrect == Spec => []TypeOK
  BY InitType, NextType, PTL DEF Spec

=============================================================================
