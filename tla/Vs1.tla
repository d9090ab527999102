-------------------------------- MODULE Vs1 --------------------------------
(***************************************************************************)
(* The Viessmann protocol 1 client of src/src/protocol/vs1.rs and, as an   *)
(* external component, the controller it talks to.                         *)
(*                                                                         *)
(* An answer of this protocol is bare data, without address, length or     *)
(* checksum, and an idle controller sends SYNC every Period ticks, so that *)
(* only TIME tells an answer that contains the SYNC byte from the SYNCs of *)
(* a controller that never got the request.  A tick is the half second of  *)
(* Vs1::get: a read of n bytes is quick when it takes less than n ticks.   *)
(*                                                                         *)
(* There is one client action per await point (`pc` names the await the    *)
(* client is suspended at) and one per reaction of the controller.         *)
(***************************************************************************)
EXTENDS Integers, Sequences, FiniteSets, FiniteSetsExt

CONSTANTS
  Addr,        \* the addresses the caller uses
  Val,         \* the contents of an address: sequences of BlockLen bytes
  BlockLen,    \* how many bytes an operation reads or writes
  Period,      \* ticks between two SYNCs of an idle controller
  MaxDelay,    \* the most ticks the controller takes to answer, unless slow
  Spaced,      \* are two SYNCs of the controller a tick apart at least?
  EnvKinds,    \* which of the environment's events below may happen
  MaxEvents,   \* bound: how many such events happen in a behaviour
  MaxCalls     \* bound: how many calls are made

EventKinds ==
  {"io",      \* an await of the client fails with an I/O error
   "slow",    \* the controller takes BlockLen ticks or more to answer
   "lose",    \* a message to the controller is lost
   "close",   \* the connection is closed: from now on every read fails
   "change",  \* the controller changes the content of an address
   "cancel"}  \* the caller drops the future of the running call

Byte == 0..255
NoData == << >>
SYNC == 5
Done == 0

ASSUME Vs1Assumption ==
  /\ BlockLen \in 1..255
  /\ Val \subseteq [1..BlockLen -> Byte]
  /\ Period \in Nat \ {0} /\ MaxDelay \in Nat
  /\ Spaced \in BOOLEAN
  /\ EnvKinds \subseteq EventKinds
  /\ MaxEvents \in Nat /\ MaxCalls \in Nat

VARIABLES
  pc,        \* the await point the client is suspended at
  op,        \* the operation in progress, or the last one
  result,    \* how the last operation ended: "none", "ok" or "err"
  buf,       \* the bytes a successful get returned
  connected, \* VControl::connected
  elapsed,   \* ticks since the read of get began, BlockLen at most
  rx,        \* bytes on the way from the controller to the client
  tx,        \* messages on the way from the client to the controller
  closed,    \* is the connection closed?
  mem,       \* the controller's memory
  pending,   \* the set of requests the controller is working on, one at most
  timer,     \* ticks since its last SYNC, or since it got the request
  events,    \* how many events of EnvKinds have happened
  seen,      \* history: contents of op.addr since Vs1::get began
  applied    \* history: whether this operation's write took effect

client == << pc, op, result, buf, connected, elapsed >>
line == << rx, tx, closed >>
controller == << mem, pending, timer >>
history == << seen, applied >>
vars == << client, line, controller, events, history >>

Operation(kind, addr, data, id) == [kind |-> kind, addr |-> addr, data |-> data, id |-> id]
Operations ==
  [kind : {"get"}, addr : Addr, data : {NoData}, id : 0..MaxCalls]
    \cup [kind : {"set"}, addr : Addr, data : Val, id : 0..MaxCalls]
Reset == Operation("reset", 0, NoData, 0)

TypeOK ==
  /\ pc \in {"idle", "renegotiate", "reset", "sync", "write", "read", "answer"}
  /\ op \in Operations
  /\ result \in {"none", "ok", "err"}
  /\ buf \in Seq(Byte) /\ rx \in Seq(Byte)
  /\ connected \in BOOLEAN
  /\ elapsed \in 0..BlockLen
  /\ tx \in Seq(Operations \cup {Reset})
  /\ closed \in BOOLEAN
  /\ mem \in [Addr -> Val]
  /\ pending \subseteq Operations /\ Cardinality(pending) <= 1
  /\ timer \in 0..Max({Period, MaxDelay})
  /\ events \in 0..MaxEvents
  /\ seen \subseteq Val /\ applied \in BOOLEAN

\* Protocol::detect has chosen VS1, which wrote RESET.
Init ==
  /\ pc = "idle" /\ op \in [kind : {"get"}, addr : Addr, data : {NoData}, id : {0}]
  /\ result = "none" /\ buf = NoData /\ elapsed = 0
  /\ connected = TRUE
  /\ rx \in {<< >>, << SYNC >>, << Done >>} /\ tx = << Reset >> /\ closed = FALSE
  /\ mem \in [Addr -> Val] /\ pending = {} /\ timer = 0
  /\ events = 0 /\ seen = {} /\ applied = FALSE

-----------------------------------------------------------------------------
(* The client *)

\* Mutant: a call on a connection does not sync.
CallUnsynced(o) ==
  /\ pc = "idle" /\ op.id < MaxCalls
  /\ op' = o /\ pc' = (IF connected THEN "write" ELSE "renegotiate")
  /\ result' = "none" /\ buf' = NoData
  /\ seen' = IF o.kind = "get" THEN {mem[o.addr]} ELSE {}
  /\ applied' = FALSE
  /\ UNCHANGED << connected, elapsed, line, controller, events >>

\* VControl::get and VControl::set: renegotiate first, unless connected.
Call(o) ==
  /\ pc = "idle" /\ op.id < MaxCalls
  /\ op' = o /\ pc' = (IF connected THEN "reset" ELSE "renegotiate")
  /\ result' = "none" /\ buf' = NoData
  /\ seen' = IF o.kind = "get" THEN {mem[o.addr]} ELSE {}
  /\ applied' = FALSE
  /\ UNCHANGED << connected, elapsed, line, controller, events >>

Get(a) == Call(Operation("get", a, NoData, op.id + 1))
Set(a, v) == Call(Operation("set", a, v, op.id + 1))

Return(res, data) ==
  /\ pc' = "idle" /\ result' = res /\ buf' = data
  /\ connected' = (connected /\ res = "ok")

\* Optolink::purge discards what has arrived.  Client and line are fast
\* against a tick, so nothing is on the way by then.
Purge == tx = << >> /\ rx' = << >>

\* Mutant: negotiate does not purge.
NegotiateUnpurged ==
  /\ pc \in {"renegotiate", "reset"}
  /\ tx = << >> /\ tx' = Append(tx, Reset)
  /\ IF pc = "reset" THEN pc' = "sync" /\ UNCHANGED connected
                     ELSE pc' = "reset" /\ connected' = TRUE
  /\ seen' = IF pc = "renegotiate" /\ op.kind = "get" THEN {mem[op.addr]} ELSE seen
  /\ UNCHANGED << op, result, buf, elapsed, rx, closed, controller, events, applied >>

\* negotiate, called by renegotiate and at the beginning of sync: purge, then
\* RESET.
Negotiate ==
  /\ pc \in {"renegotiate", "reset"}
  /\ Purge
  /\ tx' = Append(tx, Reset)
  /\ IF pc = "reset" THEN pc' = "sync" /\ UNCHANGED connected
                     ELSE pc' = "reset" /\ connected' = TRUE
  /\ seen' = IF pc = "renegotiate" /\ op.kind = "get" THEN {mem[op.addr]} ELSE seen
  /\ UNCHANGED << op, result, buf, elapsed, closed, controller, events, applied >>

\* The loop of sync: skip bytes up to a SYNC, then purge.  A failing read is
\* as good as a byte that is not SYNC.
AwaitSync ==
  /\ pc = "sync" /\ rx # << >> /\ ~closed
  /\ IF Head(rx) = SYNC THEN pc' = "write" /\ Purge
                        ELSE rx' = Tail(rx) /\ UNCHANGED pc
  /\ UNCHANGED << op, result, buf, connected, elapsed, tx, closed, controller, events, history >>

\* Mutant: a write request without its payload.
WriteNoData ==
  /\ pc = "write"
  /\ tx' = Append(tx, [op EXCEPT !.data = NoData])
  /\ pc' = IF op.kind = "get" THEN "read" ELSE "answer"
  /\ elapsed' = 0
  /\ UNCHANGED << op, result, buf, connected, rx, closed, controller, events, history >>

\* The request is written and flushed; the clock of get starts.
WriteRequest ==
  /\ pc = "write"
  /\ tx' = Append(tx, op)
  /\ pc' = IF op.kind = "get" THEN "read" ELSE "answer"
  /\ elapsed' = 0
  /\ UNCHANGED << op, result, buf, connected, rx, closed, controller, events, history >>

Contains(data, b) == \E i \in 1..Len(data) : data[i] = b

\* Mutant: any answer is taken.
ReadAnyAnswer ==
  /\ pc = "read" /\ Len(rx) >= BlockLen /\ ~closed
  /\ Return("ok", SubSeq(rx, 1, BlockLen)) /\ rx' = SubSeq(rx, BlockLen + 1, Len(rx))
  /\ UNCHANGED << op, elapsed, tx, closed, controller, events, history >>

\* get: a slow answer with a SYNC in it is purged and asked for again.
ReadAnswer ==
  /\ pc = "read" /\ Len(rx) >= BlockLen /\ ~closed
  /\ LET data == SubSeq(rx, 1, BlockLen)
     IN  IF Contains(data, SYNC) /\ elapsed >= BlockLen
           THEN pc' = "write" /\ Purge /\ UNCHANGED << result, buf, connected >>
           ELSE Return("ok", data) /\ rx' = SubSeq(rx, BlockLen + 1, Len(rx))
  /\ UNCHANGED << op, elapsed, tx, closed, controller, events, history >>

\* Mutant: any byte is an acknowledgement.
ReadAnyDone ==
  /\ pc = "answer" /\ rx # << >> /\ ~closed
  /\ rx' = Tail(rx)
  /\ Return("ok", NoData)
  /\ UNCHANGED << op, elapsed, tx, closed, controller, events, history >>

\* Mutant: set skips bytes until it is acknowledged.
ReadUntilDone ==
  /\ pc = "answer" /\ rx # << >> /\ ~closed
  /\ rx' = Tail(rx)
  /\ IF Head(rx) = Done THEN Return("ok", NoData)
                        ELSE UNCHANGED << pc, result, buf, connected >>
  /\ UNCHANGED << op, elapsed, tx, closed, controller, events, history >>

\* set: anything but 0x00 makes it write again.
ReadDone ==
  /\ pc = "answer" /\ rx # << >> /\ ~closed
  /\ rx' = Tail(rx)
  /\ IF Head(rx) = Done THEN Return("ok", NoData)
                        ELSE pc' = "write" /\ UNCHANGED << result, buf, connected >>
  /\ UNCHANGED << op, elapsed, tx, closed, controller, events, history >>

\* A read of get or set finds the connection closed.
ReadClosed ==
  /\ pc \in {"read", "answer"} /\ closed
  /\ Return("err", NoData)
  /\ UNCHANGED << op, elapsed, line, controller, events, history >>

ClientStep ==
  Negotiate \/ AwaitSync \/ WriteRequest \/ ReadAnswer \/ ReadDone \/ ReadClosed

Happens(kind) == kind \in EnvKinds /\ events < MaxEvents /\ events' = events + 1

\* The bytes a failing or abandoned await may have consumed.
Consumed ==
  \E k \in 0..(IF pc = "read" THEN BlockLen - 1 ELSE 1) :
    k <= Len(rx) /\ rx' = SubSeq(rx, k + 1, Len(rx))

Flushed ==
  \/ UNCHANGED tx
  \/ pc = "write" /\ tx' = Append(tx, op)
  \/ pc \in {"renegotiate", "reset"} /\ tx' = Append(tx, Reset)

\* An error of any await but the read of sync is returned; in sync only the
\* purge after a SYNC returns one.  renegotiate may try again.
IoError ==
  /\ pc # "idle"
  /\ Happens("io")
  /\ \/ pc # "sync" /\ Consumed /\ Flushed
     \/ pc = "sync" /\ rx # << >> /\ Head(rx) = SYNC /\ rx' = Tail(rx) /\ UNCHANGED tx
  /\ \/ Return("err", NoData)
     \/ pc = "renegotiate" /\ UNCHANGED << pc, result, buf, connected >>
  /\ UNCHANGED << op, elapsed, closed, controller, history >>

\* The caller drops the future: VControl runs no further.
Cancel ==
  /\ pc # "idle"
  /\ Happens("cancel")
  /\ Consumed
  /\ pc' = "idle" /\ result' = "err" /\ buf' = NoData
  /\ UNCHANGED << op, connected, elapsed, tx, closed, controller, history >>

-----------------------------------------------------------------------------
(* The controller and the line: external *)

Put(a, v) ==
  /\ mem' = [mem EXCEPT ![a] = v]
  /\ seen' = IF op.kind = "get" /\ op.addr = a THEN seen \cup {v} ELSE seen

\* RESET makes it forget a request and send SYNC, at once or, when SYNCs are
\* Spaced, not in the tick of the one before.
ReceiveReset ==
  /\ tx # << >> /\ Head(tx) = Reset /\ tx' = Tail(tx)
  /\ pending' = {}
  /\ timer' = IF Spaced /\ timer = 0 THEN Period - 1 ELSE Period
  /\ UNCHANGED << client, rx, closed, mem, events, history >>

ReceiveRequest ==
  /\ tx # << >> /\ Head(tx) # Reset /\ tx' = Tail(tx)
  /\ pending' = {Head(tx)} /\ timer' = 0
  /\ UNCHANGED << client, rx, closed, mem, events, history >>

AnswerRead ==
  /\ \E r \in pending : r.kind = "get" /\ rx' = rx \o mem[r.addr]
  /\ pending' = {} /\ timer' = 0
  /\ UNCHANGED << client, tx, closed, mem, events, history >>

AnswerWrite ==
  /\ \E r \in pending :
       /\ r.kind = "set" /\ Put(r.addr, r.data)
       /\ applied' = (applied \/ (op.kind = "set" /\ r.id = op.id))
  /\ rx' = Append(rx, Done)
  /\ pending' = {} /\ timer' = 0
  /\ UNCHANGED << client, tx, closed, events >>

SyncDue == pending = {} /\ timer >= Period

\* A client that does not read keeps BlockLen + 1 bytes waiting at most.
SendSync ==
  /\ SyncDue
  /\ rx' = IF Len(rx) <= BlockLen THEN Append(rx, SYNC) ELSE rx
  /\ timer' = 0
  /\ UNCHANGED << client, tx, closed, mem, pending, events, history >>

Lose ==
  /\ tx # << >> /\ tx' = Tail(tx)
  /\ Happens("lose")
  /\ UNCHANGED << client, rx, closed, controller, history >>

Close ==
  /\ ~closed /\ closed' = TRUE
  /\ Happens("close")
  /\ UNCHANGED << client, rx, tx, controller, history >>

Change ==
  /\ Happens("change")
  /\ \E a \in Addr, v \in Val : mem[a] # v /\ Put(a, v)
  /\ UNCHANGED << client, line, pending, timer, applied >>

\* Can the client go on without anything from the controller?
ClientReady ==
  \/ pc \in {"renegotiate", "reset", "write"}
  \/ pc \in {"sync", "answer"} /\ rx # << >>
  \/ pc = "read" /\ Len(rx) >= BlockLen
  \/ pc \in {"read", "answer"} /\ closed

\* Time passes while client and line wait.
Tick ==
  /\ ~ClientReady /\ tx = << >>
  /\ ~SyncDue /\ (pending # {} => timer < MaxDelay)
  /\ timer' = timer + 1
  /\ elapsed' = IF pc = "read" /\ elapsed < BlockLen THEN elapsed + 1 ELSE elapsed
  /\ UNCHANGED << pc, op, result, buf, connected, line, mem, pending, events, history >>

Stall ==
  /\ pending # {} /\ ~ClientReady /\ tx = << >>
  /\ Happens("slow")
  /\ elapsed' = BlockLen
  /\ UNCHANGED << pc, op, result, buf, connected, line, controller, history >>

ControllerStep == ReceiveReset \/ ReceiveRequest \/ AnswerRead \/ AnswerWrite \/ SendSync

Next ==
  \/ ClientStep \/ ControllerStep \/ Tick
  \/ IoError \/ Cancel \/ Stall \/ Lose \/ Close \/ Change
  \/ \E a \in Addr : Get(a) \/ \E v \in Val : Set(a, v)

Spec == Init /\ [][Next]_vars

\* The runtime polls a ready future, the controller answers and keeps
\* sending SYNC, time passes.  No event has to happen, no caller has to call.
FairSpec == Spec /\ WF_vars(ClientStep) /\ WF_vars(ControllerStep) /\ WF_vars(Tick)

-----------------------------------------------------------------------------
(* What the protocol promises its caller *)

Succeeded(kind) == pc = "idle" /\ result = "ok" /\ op.kind = kind

\* A get that succeeds returns a content its address had while it ran, and
\* never the SYNCs of a controller that lost the request, nor the answer to
\* an earlier call: there is nothing in an answer to tell them apart by.
AnswerIsCurrent == Succeeded("get") => buf \in seen

\* A set that succeeds has changed the controller's memory in this call: it
\* took no earlier 0x00 for its own.
WriteTookEffect == Succeeded("set") => applied

\* After a success no request is under way that could still take effect or
\* be answered, so the next call sees nothing of this one.
NothingLeft == result = "ok" => pending = {} /\ tx = << >>

\* Every call returns, as long as the other end keeps the connection open:
\* retries and resets end, and no answer is waited for that will not come.
\* (On a closed one sync spins: it takes the failing reads for wrong bytes.)
CallReturns == pc # "idle" ~> pc = "idle" \/ closed

=============================================================================
