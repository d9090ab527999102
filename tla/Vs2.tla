-------------------------------- MODULE Vs2 --------------------------------
(***************************************************************************)
(* The Viessmann protocol 2 client of src/src/protocol/vs2.rs, the         *)
(* Optolink line it talks over (src/src/optolink.rs) and, as an external   *)
(* component, the heating controller at the other end.                     *)
(*                                                                         *)
(* The line from the controller is a sequence of bytes, because the client *)
(* tells SYNC, ACK, NACK and the bytes of a telegram apart only by their   *)
(* place in the stream: a length byte or a data byte can equal SYNC.  The  *)
(* line to the controller is a sequence of whole messages.                 *)
(*                                                                         *)
(* There is one client action per await point of the code (`pc` names the  *)
(* await the client is suspended at), and one action per reaction of the   *)
(* controller.  A caller starts an operation with BeginX in "idle" and     *)
(* collects it in "done"; see module Session.                              *)
(***************************************************************************)
EXTENDS Integers, Sequences, FiniteSets

CONSTANTS
  Addr,        \* the addresses the callers use
  Constant,    \* those whose content never changes (identification blocks)
  Val,         \* the contents of an address: sequences of BlockLen bytes
  BlockLen,    \* how many bytes an operation reads or writes
  Noise,       \* the bytes a disturbed byte of a response may turn into
  EnvKinds,    \* which of the environment's events below may happen
  Latency,     \* may anything still be on the way, either way, at a purge?
  MaxEvents,   \* bound: how many such events happen in a behaviour
  MaxRx        \* bound: the bytes on the line beyond which no SYNC is sent,
               \* unless the client waits for the rest of a telegram

Byte == 0..255
NoData == << >>

EventKinds ==
  {"io",        \* an await of the client fails with an I/O error
   "nack",      \* the controller answers a telegram or START with NACK
   "refuse",    \* the controller answers with an error telegram
   "checksum",  \* the checksum byte of a response is disturbed
   "garble",    \* some byte of a response is disturbed
   "fallback",  \* the controller leaves the VS2 mode on its own
   "lose",      \* a message to the controller is lost
   "change",    \* the controller changes the content of an address
   "reopen",    \* Optolink::reinitialize fails
   "cancel"}    \* the caller drops the future of a running call

ASSUME AddrAssumption == Addr \subseteq 0..(256 * 256 - 1)

ASSUME BlockLenAssumption == BlockLen \in 1..250

ASSUME ValAssumption == Val \subseteq [1..BlockLen -> Byte]

ASSUME Vs2Assumption ==
  /\ Constant \subseteq Addr
  /\ Noise \subseteq Byte
  /\ EnvKinds \subseteq EventKinds
  /\ Latency \in BOOLEAN
  /\ MaxEvents \in Nat
  /\ MaxRx \in Nat

LEADIN == 65
SYNC == 5
ACK == 6
NACK == 21

\* MessageType and Function, the members the client sends or accepts.
Response == 1
Error == 3
VirtualRead == 1
VirtualWrite == 2

VARIABLES
  pc,       \* the await point the client is suspended at
  op,       \* the operation in progress
  result,   \* how the last operation ended: "none", "ok" or "err"
  buf,      \* the bytes a successful read returned
  msgLen,   \* message_len of the telegram being read
  rx,       \* bytes on the way from the controller to the client
  tx,       \* messages on the way from the client to the controller
  mode,     \* the controller's mode: "sync" (sends SYNC) or "vs2"
  mem,      \* the controller's memory
  events,   \* how many events of EnvKinds have happened
  seen,     \* history: contents of op.addr since the operation began
  applied   \* history: whether this operation's write took effect

client == << pc, op, result, buf, msgLen >>
line == << rx, tx >>
controller == << mode, mem >>
history == << seen, applied >>
vs2vars == << client, line, controller, events, history >>

-----------------------------------------------------------------------------
(* Messages *)

(* wrapping_sum: the u8 sum of s.  The sum is written as the size of the   *)
(* disjoint union of the intervals 1..s[i].                                *)
wrapping_sum(s) ==
  Cardinality(UNION {{i} \X (1..s[i]) : i \in 1..Len(s)}) % 256

High(a) == a \div 256
Low(a) == a % 256

\* The bytes of a response telegram, as read_telegram expects to find them.
Telegram(type, fn, addr, len, data) ==
  LET body == << 5 + Len(data), type, fn, High(addr), Low(addr), len >> \o data
  IN  << LEADIN >> \o body \o << wrapping_sum(body) >>

FunctionOf(o) == IF o.kind = "get" THEN VirtualRead ELSE VirtualWrite

\* What write_telegram puts on the line for operation o.
Request(o) ==
  [m |-> "telegram", fn |-> FunctionOf(o), addr |-> o.addr, data |-> o.data, id |-> o.id]

Control(m) == [m |-> m, fn |-> 0, addr |-> 0, data |-> NoData, id |-> 0]

Operation(kind, addr, data, id) == [kind |-> kind, addr |-> addr, data |-> data, id |-> id]

\* Mutant: the address of a response is not compared.
AcceptedAnyAddress(o, t) ==
  /\ t[1] >= 5
  /\ t[2] = Response
  /\ t[3] = FunctionOf(o)
  /\ IF o.kind = "get" THEN t[1] - 5 = t[6] /\ t[6] = BlockLen
                       ELSE t[1] = 5 /\ t[6] = Len(o.data)

\* The tests of read_telegram and check_response on a telegram whose
\* checksum is right; t starts at its length byte.
Accepted(o, t) ==
  /\ t[1] >= 5
  /\ t[2] = Response
  /\ t[3] = FunctionOf(o)
  /\ t[4] * 256 + t[5] = o.addr
  /\ IF o.kind = "get" THEN t[1] - 5 = t[6] /\ t[6] = BlockLen
                       ELSE t[1] = 5 /\ t[6] = Len(o.data)

-----------------------------------------------------------------------------
(* The client *)

Finish(res) == pc' = "done" /\ result' = res

Begin(o, first) ==
  /\ op' = o
  /\ pc' = first
  /\ result' = "none"
  /\ buf' = NoData
  /\ msgLen' = 0
  /\ seen' = IF o.kind = "get" THEN {mem[o.addr]} ELSE {}
  /\ applied' = FALSE

\* Vs2::negotiate, Vs2::get and Vs2::set are called.
BeginNegotiate(id) == Begin(Operation("negotiate", 0, NoData, id), "reset")
BeginGet(a, id) == Begin(Operation("get", a, NoData, id), "write")
\* Mutant: the payload of a set is left out.
BeginSetEmpty(a, v, id) == Begin(Operation("set", a, NoData, id), "write")

BeginSet(a, v, id) == Begin(Operation("set", a, v, id), "write")

\* write_telegram: write_all and flush.
WriteTelegram ==
  /\ pc = "write"
  /\ tx' = Append(tx, Request(op))
  /\ pc' = "status"
  /\ UNCHANGED << op, result, buf, msgLen, rx, controller, events, history >>

\* Mutant: bytes other than ACK and NACK are skipped.
ReadStatusSkipping ==
  /\ pc = "status" /\ rx # << >>
  /\ rx' = Tail(rx)
  /\ pc' = (CASE Head(rx) = ACK -> "leadin" [] Head(rx) = NACK -> "reset" [] OTHER -> pc)
  /\ UNCHANGED << op, result, buf, msgLen, tx, controller, events, history >>

\* write_telegram: read_status and the match on it.
ReadStatus ==
  /\ pc = "status" /\ rx # << >>
  /\ rx' = Tail(rx)
  /\ \/ Head(rx) = ACK /\ pc' = "leadin" /\ UNCHANGED result
     \/ Head(rx) = NACK /\ pc' = "reset" /\ UNCHANGED result
     \/ Head(rx) \notin {ACK, NACK} /\ Finish("err")
  /\ UNCHANGED << op, buf, msgLen, tx, controller, events, history >>

\* Optolink::purge discards what has arrived, a prefix of rx; what is still
\* on the way stays.  On a line without latency nothing is on the way.
Purge ==
  \/ Latency /\ \E k \in 0..Len(rx) : rx' = SubSeq(rx, k + 1, Len(rx))
  \/ ~Latency /\ tx = << >> /\ rx' = << >>

\* Mutant: reset does not purge.
ResetUnpurged ==
  /\ pc = "reset"
  /\ tx = << >> /\ tx' = Append(tx, Control("RESET"))
  /\ pc' = "sync"
  /\ UNCHANGED << op, result, buf, msgLen, rx, controller, events, history >>

\* reset: purge, then RESET is written and flushed.
Reset ==
  /\ pc = "reset"
  /\ Purge
  /\ tx' = Append(tx, Control("RESET"))
  /\ pc' = "sync"
  /\ UNCHANGED << op, result, buf, msgLen, controller, events, history >>

\* negotiate: skip bytes up to a SYNC.
AwaitSync ==
  /\ pc = "sync" /\ rx # << >>
  /\ rx' = Tail(rx)
  /\ pc' = IF Head(rx) = SYNC THEN "start" ELSE "sync"
  /\ UNCHANGED << op, result, buf, msgLen, tx, controller, events, history >>

WriteStart ==
  /\ pc = "start"
  /\ tx' = Append(tx, Control("START"))
  /\ pc' = "started"
  /\ UNCHANGED << op, result, buf, msgLen, rx, controller, events, history >>

\* negotiate: the answer to START.  A negotiation inside write_telegram
\* goes on to send the telegram again.
ReadStartStatus ==
  /\ pc = "started" /\ rx # << >>
  /\ rx' = Tail(rx)
  /\ \/ /\ Head(rx) = ACK
        /\ IF op.kind = "negotiate" THEN Finish("ok") ELSE pc' = "write" /\ UNCHANGED result
     \/ Head(rx) = NACK /\ pc' = "sync" /\ UNCHANGED result
     \/ Head(rx) \notin {ACK, NACK} /\ Finish("err")
  /\ UNCHANGED << op, buf, msgLen, tx, controller, events, history >>

ReadLeadin ==
  /\ pc = "leadin" /\ rx # << >>
  /\ rx' = Tail(rx)
  /\ IF Head(rx) = LEADIN THEN pc' = "length" /\ UNCHANGED result ELSE Finish("err")
  /\ UNCHANGED << op, buf, msgLen, tx, controller, events, history >>

ReadLength ==
  /\ pc = "length" /\ rx # << >>
  /\ rx' = Tail(rx)
  /\ msgLen' = Head(rx)
  /\ pc' = "body"
  /\ UNCHANGED << op, result, buf, tx, controller, events, history >>

\* read_telegram: the rest of the telegram with its checksum, the ACK or
\* NACK for it, and the tests of read_telegram, get, set and check_response.
ReadBody ==
  /\ pc = "body" /\ Len(rx) > msgLen
  /\ LET t == << msgLen >> \o SubSeq(rx, 1, msgLen)
         intact == wrapping_sum(t) = rx[msgLen + 1]
         good == intact /\ Accepted(op, t)
     IN  /\ rx' = SubSeq(rx, msgLen + 2, Len(rx))
         /\ tx' = Append(tx, Control(IF intact THEN "ACK" ELSE "NACK"))
         /\ Finish(IF good THEN "ok" ELSE "err")
         /\ buf' = IF good /\ op.kind = "get" THEN SubSeq(t, 7, 6 + BlockLen) ELSE NoData
  /\ UNCHANGED << op, msgLen, controller, events, history >>

\* The content of address a becomes v.
Put(a, v) ==
  /\ mem' = [mem EXCEPT ![a] = v]
  /\ seen' = IF op.kind = "get" /\ op.addr = a THEN seen \cup {v} ELSE seen

Happens(kind) == kind \in EnvKinds /\ events < MaxEvents /\ events' = events + 1

\* The bytes the failing or abandoned await may have consumed.
Consumed ==
  \E k \in 0..(IF pc = "body" THEN msgLen ELSE 0) :
    k <= Len(rx) /\ rx' = SubSeq(rx, k + 1, Len(rx))

\* The message the client is about to write may be on the line already.
Flushed ==
  \/ UNCHANGED tx
  \/ pc = "write" /\ tx' = Append(tx, Request(op))
  \/ pc = "reset" /\ tx' = Append(tx, Control("RESET"))
  \/ pc = "start" /\ tx' = Append(tx, Control("START"))

\* Any `?` on an I/O operation returns its error to the caller.
IoError ==
  /\ pc \notin {"idle", "done"}
  /\ Happens("io")
  /\ Consumed
  /\ Flushed
  /\ Finish("err")
  /\ UNCHANGED << op, buf, msgLen, controller, history >>

ClientStep ==
  \/ WriteTelegram \/ ReadStatus \/ Reset \/ AwaitSync \/ WriteStart
  \/ ReadStartStatus \/ ReadLeadin \/ ReadLength \/ ReadBody

-----------------------------------------------------------------------------
(* The controller: external, as the client expects it to behave *)

Receives(m) == tx # << >> /\ Head(tx).m = m /\ tx' = Tail(tx)

\* It sends SYNC every now and then until START arrives.
SendSync ==
  /\ mode = "sync" /\ (Len(rx) < MaxRx \/ (pc = "body" /\ Len(rx) <= msgLen))
  /\ rx' = Append(rx, SYNC)
  /\ UNCHANGED << client, tx, controller, events, history >>

ReceiveReset ==
  /\ Receives("RESET")
  /\ mode' = "sync"
  /\ UNCHANGED << client, rx, mem, events, history >>

ReceiveStart ==
  /\ Receives("START")
  /\ mode' = "vs2"
  /\ rx' = Append(rx, ACK)
  /\ UNCHANGED << client, mem, events, history >>

ReceiveRead ==
  /\ Receives("telegram") /\ mode = "vs2" /\ Head(tx).fn = VirtualRead
  /\ LET a == Head(tx).addr IN
       rx' = rx \o << ACK >> \o Telegram(Response, VirtualRead, a, BlockLen, mem[a])
  /\ UNCHANGED << client, controller, events, history >>

ReceiveWrite ==
  /\ Receives("telegram") /\ mode = "vs2" /\ Head(tx).fn = VirtualWrite
  /\ LET a == Head(tx).addr
         v == Head(tx).data IN
       /\ rx' = rx \o << ACK >> \o Telegram(Response, VirtualWrite, a, Len(v), NoData)
       /\ Put(a, v)
  /\ applied' = (applied \/ (op.kind = "set" /\ Head(tx).id = op.id))
  /\ UNCHANGED << client, mode, events >>

\* ACK and NACK for a response need no reaction; a telegram without START
\* before it is no telegram.
Ignore ==
  /\ tx # << >> /\ tx' = Tail(tx)
  /\ \/ Head(tx).m \in {"ACK", "NACK"}
     \/ Head(tx).m = "telegram" /\ mode = "sync"
  /\ UNCHANGED << client, rx, controller, events, history >>

Refuse ==
  /\ Receives("telegram") /\ mode = "vs2"
  /\ Happens("refuse")
  /\ rx' = rx \o << ACK >> \o Telegram(Error, Head(tx).fn, Head(tx).addr, 1, << 1 >>)
  /\ UNCHANGED << client, controller, history >>

AnswerNack ==
  /\ (Receives("telegram") /\ mode = "vs2") \/ Receives("START")
  /\ Happens("nack")
  /\ rx' = Append(rx, NACK)
  /\ UNCHANGED << client, controller, history >>

\* One byte of a read response is disturbed on the line: its checksum byte
\* or any byte.
DisturbRead ==
  /\ Receives("telegram") /\ mode = "vs2" /\ Head(tx).fn = VirtualRead
  /\ \E kind \in {"checksum", "garble"}, b \in Noise :
       /\ Happens(kind)
       /\ LET a == Head(tx).addr
              t == Telegram(Response, VirtualRead, a, BlockLen, mem[a])
          IN  \E i \in (IF kind = "checksum" THEN {Len(t)} ELSE 1..Len(t)) :
                b # t[i] /\ rx' = rx \o << ACK >> \o [t EXCEPT ![i] = b]
  /\ UNCHANGED << client, controller, history >>

Fallback ==
  /\ mode = "vs2" /\ mode' = "sync"
  /\ Happens("fallback")
  /\ UNCHANGED << client, line, mem, history >>

Lose ==
  /\ tx # << >> /\ tx' = Tail(tx)
  /\ Happens("lose")
  /\ UNCHANGED << client, rx, controller, history >>

\* The content of an address changes by itself, as a temperature does.
Change ==
  /\ Happens("change")
  /\ \E a \in Addr \ Constant, v \in Val :
       mem[a] # v /\ Put(a, v)
  /\ UNCHANGED << client, line, mode, applied >>

ControllerStep ==
  \/ ReceiveReset \/ ReceiveStart \/ ReceiveRead \/ ReceiveWrite \/ Ignore
  \/ Refuse \/ AnswerNack \/ DisturbRead

EnvironmentStep == SendSync \/ ControllerStep \/ Fallback \/ Lose \/ Change \/ IoError

=============================================================================
