----------------------------- MODULE Vs1_proofs -----------------------------
(***************************************************************************)
(* Over VS1 a call that succeeds tells the truth, and Vs1 implements       *)
(* RemoteRegister: for every choice of addresses, contents, times, events  *)
(* and bounds, if the controller spaces its SYNCs.                         *)
(***************************************************************************)
EXTENDS Vs1Refinement, SequenceTheorems, FiniteSetTheorems, TLAPS

-----------------------------------------------------------------------------
(* The inductive invariant: what may be on the line at each await point *)

OnlySyncs(s) == \A i \in 1..Len(s) : s[i] = SYNC

\* Nothing is under way, and no SYNC is due before time passes.
Still == tx = << >> /\ pending = {} /\ timer < Period

\* The request is under way or lost, or the controller works on it, and
\* nothing has come yet.
Asked ==
  /\ rx = << >>
  /\ \/ tx = << op >> /\ pending = {} /\ timer < Period
     \/ tx = << >> /\ pending = {op}

\* RESET is the only message under way.  What is there already came with no
\* time passing since, so the SYNC that answers RESET is not followed by another.
AtSync ==
  /\ tx \in {<< >>, << Reset >>}
  /\ rx # << >> => /\ pending = {} /\ timer < Period
                   /\ tx # << >> => timer = 0

\* The client's own answer, or SYNCs of a controller that lost the request, for
\* each of which time had to pass.
AtRead ==
  \/ Asked
  \/ Still /\ rx \in seen
  \/ /\ tx = << >> /\ pending = {}
     /\ OnlySyncs(rx) /\ Len(rx) <= elapsed
     /\ timer >= Period => Len(rx) < elapsed

AtAnswer ==
  \/ Asked
  \/ Still /\ rx = << Done >> /\ applied
  \/ tx = << >> /\ pending = {} /\ rx = << >>
  \/ Still /\ rx = << SYNC >>

LineInv ==
  /\ pc = "sync" => AtSync
  /\ pc = "write" => Still /\ rx = << >>
  /\ pc = "read" => AtRead /\ op.kind = "get"
  /\ pc = "answer" => AtAnswer /\ op.kind = "set"

\* The history of a running get has what the address contains, and a set has none.
SeenInv ==
  /\ op.kind = "get" /\ pc # "idle" => mem[op.addr] \in seen
  /\ op.kind = "set" => seen = {}

\* What a success leaves.
EndInv ==
  result = "ok" =>
    /\ pc = "idle" /\ tx = << >> /\ pending = {}
    /\ op.kind = "get" => buf \in seen
    /\ op.kind = "set" => applied /\ buf = NoData

SafeInv == TypeOK /\ LineInv /\ SeenInv /\ EndInv

-----------------------------------------------------------------------------
(* What the refinement needs besides *)

IsRequest(m) == m.kind \in {"get", "set"}

On(s) == {s[i] : i \in 1..Len(s)}
NoRequest(s) == \A i \in 1..Len(s) : ~IsRequest(s[i])
OneRequest(s) == \A i, j \in 1..Len(s) : IsRequest(s[i]) /\ IsRequest(s[j]) => i = j

\* There is one request at most that was written and not answered.
Single ==
  /\ OneRequest(tx)
  /\ \A r, u \in pending : r = u
  /\ pending # {} => NoRequest(tx)

\* It is of an earlier call until the running one has written its own.
OwnRequest ==
  /\ \A r \in UnderWay : IsRequest(r) => r.id <= op.id
  /\ pc \in {"renegotiate", "reset", "sync"} =>
       \A r \in UnderWay : IsRequest(r) => r.id < op.id

RefInv == Single /\ OwnRequest


-----------------------------------------------------------------------------
(* Bytes, messages and times *)

\* What the constants are.
LEMMA Constants ==
  /\ BlockLen \in Nat /\ BlockLen > 0
  /\ Period \in Nat /\ Period > 0 /\ MaxDelay \in Nat
  /\ MaxCalls \in Nat /\ MaxEvents \in Nat
  /\ SYNC \in Byte /\ Done \in Byte /\ SYNC # Done
  BY Vs1Assumption DEF Byte, SYNC, Done

\* No bytes, a single one, and no messages.
LEMMA Short ==
  /\ NoData \in Seq(Byte) /\ << >> \in Seq(Byte) /\ << SYNC >> \in Seq(Byte) /\ << Done >> \in Seq(Byte)
  /\ \A s : Append(<< >>, s) = << s >> /\ Len(<< s >>) = 1 /\ << s >>[1] = s
  BY Constants DEF NoData

\* A content is a sequence of BlockLen bytes.
LEMMA ValIsBytes == ASSUME NEW v \in Val PROVE v \in Seq(Byte) /\ Len(v) = BlockLen
<1>1. v \in [1..BlockLen -> Byte] /\ BlockLen \in Nat
  BY Vs1Assumption, Constants
<1> QED BY <1>1

\* The longest time the clock shows.
LEMMA Longest ==
  /\ Max({Period, MaxDelay}) \in Nat
  /\ Period <= Max({Period, MaxDelay}) /\ MaxDelay <= Max({Period, MaxDelay})
<1> DEFINE S == {Period, MaxDelay}
<1>1. \E x \in S : \A y \in S : x >= y
  BY Constants
<1>2. Max(S) \in S /\ \A y \in S : Max(S) >= y
  BY <1>1 DEF Max
<1> QED BY <1>2, Constants

\* The requests and RESET, and how they differ.
LEMMA Kinds ==
  /\ \A o \in Operations :
       /\ o.kind \in {"get", "set"} /\ o.addr \in Addr /\ o.id \in 0..MaxCalls
       /\ o.kind = "get" => o.data = NoData
       /\ o.kind = "set" => o.data \in Val
       /\ IsRequest(o) /\ o # Reset
  /\ ~IsRequest(Reset) /\ Reset.kind = "reset"
  BY DEF Operations, Reset, Operation, IsRequest

\* The controller works on one request at most.
LEMMA OnePending ==
  /\ Cardinality({}) <= 1
  /\ \A r : Cardinality({r}) <= 1
  BY FS_EmptySet, FS_Singleton

-----------------------------------------------------------------------------
(* Type correctness *)

\* What is left of the bytes after the first k.
LEMMA Rest ==
  ASSUME NEW S, NEW s \in Seq(S), NEW k \in Nat, k <= Len(s)
  PROVE  SubSeq(s, k + 1, Len(s)) \in Seq(S)
  OBVIOUS

\* The first k bytes.
LEMMA First ==
  ASSUME NEW S, NEW s \in Seq(S), NEW k \in Nat, k <= Len(s)
  PROVE  /\ SubSeq(s, 1, k) \in Seq(S)
         /\ Len(SubSeq(s, 1, k)) = k
         /\ \A i \in 1..k : SubSeq(s, 1, k)[i] = s[i]
  OBVIOUS

\* A failing or abandoned await leaves bytes.
LEMMA ConsumedType == TypeOK /\ Consumed => rx' \in Seq(Byte)
<1> SUFFICES ASSUME rx \in Seq(Byte), Consumed PROVE rx' \in Seq(Byte)
  BY DEF TypeOK
<1>1. PICK k \in 0..(IF pc = "read" THEN BlockLen - 1 ELSE 1) :
             k <= Len(rx) /\ rx' = SubSeq(rx, k + 1, Len(rx))
  BY DEF Consumed
<1>2. k \in Nat
  BY <1>1, Constants
<1> QED BY <1>1, <1>2, Rest

\* The initial states have the types.
LEMMA TypeInit == Init => TypeOK
<1> SUFFICES ASSUME Init PROVE TypeOK
  OBVIOUS
<1>1. op \in Operations
  BY Constants DEF Init, Operations
<1>2. rx \in Seq(Byte) /\ tx \in Seq(Operations \cup {Reset}) /\ buf \in Seq(Byte)
  <2>1. rx \in Seq(Byte) /\ buf \in Seq(Byte)
    BY Short DEF Init
  <2>2. tx = << Reset >>
    BY DEF Init
  <2> QED BY <2>1, <2>2
<1>3. timer \in 0..Max({Period, MaxDelay}) /\ events \in 0..MaxEvents /\ elapsed \in 0..BlockLen
  BY Longest, Constants DEF Init
<1> QED BY <1>1, <1>2, <1>3, OnePending DEF Init, TypeOK

\* A call is well typed.
LEMMA TypeCall ==
  ASSUME TypeOK, NEW o \in Operations, Call(o) PROVE TypeOK'
<1>1. seen' \subseteq Val
  BY Kinds DEF TypeOK, Call
<1> QED BY <1>1, Short DEF TypeOK, Call, line, controller

\* The operation of a new call.
LEMMA NewCall ==
  ASSUME TypeOK, op.id < MaxCalls
  PROVE  /\ op.id + 1 \in 0..MaxCalls
         /\ \A a \in Addr : /\ Operation("get", a, NoData, op.id + 1) \in Operations
                            /\ \A v \in Val : Operation("set", a, v, op.id + 1) \in Operations
<1>1. op.id + 1 \in 0..MaxCalls
  BY Kinds, Constants DEF TypeOK
<1> QED BY <1>1 DEF Operation, Operations

\* The steps of the client keep the types.
LEMMA TypeClient == ASSUME TypeOK, ClientStep PROVE TypeOK'
<1> USE DEF TypeOK
<1>1. CASE Negotiate
  <2>1. tx' \in Seq(Operations \cup {Reset}) /\ rx' \in Seq(Byte)
    BY <1>1 DEF Negotiate, Purge
  <2>2. seen' \subseteq Val
    BY <1>1, Kinds DEF Negotiate
  <2> QED BY <1>1, <2>1, <2>2 DEF Negotiate, controller
<1>2. CASE AwaitSync
  <2>1. rx' \in Seq(Byte)
    BY <1>2 DEF AwaitSync, Purge
  <2> QED BY <1>2, <2>1 DEF AwaitSync, controller, history
<1>3. CASE WriteRequest
  <2>1. tx' \in Seq(Operations \cup {Reset})
    BY <1>3 DEF WriteRequest
  <2> QED BY <1>3, <2>1, Constants DEF WriteRequest, controller, history
<1>4. CASE ReadAnswer
  <2>1. SubSeq(rx, 1, BlockLen) \in Seq(Byte) /\ SubSeq(rx, BlockLen + 1, Len(rx)) \in Seq(Byte)
    BY <1>4, Constants, Rest, First DEF ReadAnswer
  <2>2. rx' \in Seq(Byte) /\ buf' \in Seq(Byte)
    BY <1>4, <2>1, Short DEF ReadAnswer, Return, Purge
  <2> QED BY <1>4, <2>2 DEF ReadAnswer, Return, controller, history
<1>5. CASE ReadDone
  <2>1. rx' \in Seq(Byte) /\ buf' \in Seq(Byte)
    BY <1>5, Short DEF ReadDone, Return
  <2> QED BY <1>5, <2>1 DEF ReadDone, Return, controller, history
<1>6. CASE ReadClosed
  BY <1>6, Short DEF ReadClosed, Return, line, controller, history
<1> QED BY <1>1, <1>2, <1>3, <1>4, <1>5, <1>6 DEF ClientStep

\* So do I/O errors and dropped futures.
LEMMA TypeFail == ASSUME TypeOK, IoError \/ Cancel PROVE TypeOK'
<1>1. rx' \in Seq(Byte)
  <2>1. Consumed \/ (rx # << >> /\ rx' = Tail(rx))
    BY DEF IoError, Cancel
  <2>2. rx \in Seq(Byte)
    BY DEF TypeOK
  <2>3. rx # << >> /\ rx' = Tail(rx) => rx' \in Seq(Byte)
    BY <2>2
  <2> QED BY <2>1, <2>3, ConsumedType
<1>2. tx' \in Seq(Operations \cup {Reset})
  <2>1. Flushed \/ UNCHANGED tx
    BY DEF IoError, Cancel
  <2>2. tx \in Seq(Operations \cup {Reset}) /\ op \in Operations
    BY DEF TypeOK
  <2>3. \A m \in Operations \cup {Reset} : Append(tx, m) \in Seq(Operations \cup {Reset})
    BY <2>2
  <2> QED BY <2>1, <2>2, <2>3 DEF Flushed
<1>3. events' \in 0..MaxEvents
  BY Constants DEF IoError, Cancel, Happens, TypeOK
<1>4. CASE IoError
  <2>1. /\ pc' \in {"idle", pc} /\ result' \in {"err", result} /\ buf' \in {NoData, buf}
        /\ connected' \in BOOLEAN
    BY <1>4 DEF IoError, Return, TypeOK
  <2> QED BY <1>1, <1>2, <1>3, <1>4, <2>1, Short DEF TypeOK, IoError, controller, history
<1>5. CASE Cancel
  BY <1>1, <1>2, <1>3, <1>5, Short DEF TypeOK, Cancel, controller, history
<1> QED BY <1>4, <1>5

\* A content that is put in the memory.
LEMMA TypePut ==
  ASSUME TypeOK, NEW a \in Addr, NEW v \in Val, Put(a, v)
  PROVE  mem' \in [Addr -> Val] /\ seen' \subseteq Val
  BY DEF TypeOK, Put

\* The steps of the controller keep the types.
LEMMA TypeController == ASSUME TypeOK, ControllerStep PROVE TypeOK'
<1> USE DEF TypeOK
<1>1. CASE ReceiveReset
  <2>1. timer' \in 0..Max({Period, MaxDelay})
    BY <1>1, Longest, Constants DEF ReceiveReset
  <2> QED BY <1>1, <2>1, OnePending DEF ReceiveReset, client, history
<1>2. CASE ReceiveRequest
  <2>1. Head(tx) \in Operations /\ tx' \in Seq(Operations \cup {Reset})
    BY <1>2 DEF ReceiveRequest
  <2>2. pending' \subseteq Operations /\ Cardinality(pending') <= 1
    BY <1>2, <2>1, OnePending DEF ReceiveRequest
  <2> QED BY <1>2, <2>1, <2>2, Longest DEF ReceiveRequest, client, history
<1>3. CASE AnswerRead
  <2>1. rx' \in Seq(Byte)
    BY <1>3, Kinds, ValIsBytes DEF AnswerRead
  <2> QED BY <1>3, <2>1, OnePending, Longest DEF AnswerRead, client, history
<1>4. CASE AnswerWrite
  <2>1. mem' \in [Addr -> Val] /\ seen' \subseteq Val
    BY <1>4, Kinds, TypePut DEF AnswerWrite
  <2>2. applied' \in BOOLEAN
    BY <1>4 DEF AnswerWrite
  <2>3. rx' \in Seq(Byte)
    BY <1>4, Constants DEF AnswerWrite
  <2> QED BY <1>4, <2>1, <2>2, <2>3, OnePending, Longest DEF AnswerWrite, client
<1>5. CASE SendSync
  <2>1. rx' \in Seq(Byte)
    BY <1>5, Constants DEF SendSync
  <2> QED BY <1>5, <2>1, Longest DEF SendSync, client, history
<1> QED BY <1>1, <1>2, <1>3, <1>4, <1>5 DEF ControllerStep

\* So do time and the environment.
LEMMA TypeEnvironment == ASSUME TypeOK, Tick \/ Stall \/ Lose \/ Close \/ Change PROVE TypeOK'
<1> USE DEF TypeOK
<1>1. CASE Tick
  <2>1. timer' \in 0..Max({Period, MaxDelay})
    BY <1>1, Longest, Constants DEF Tick, SyncDue
  <2>2. elapsed' \in 0..BlockLen
    BY <1>1, Constants DEF Tick
  <2> QED BY <1>1, <2>1, <2>2 DEF Tick, line, history
<1>2. CASE Stall
  BY <1>2, Constants DEF Stall, Happens, line, controller, history
<1>3. CASE Lose
  <2>1. tx' \in Seq(Operations \cup {Reset})
    BY <1>3 DEF Lose
  <2> QED BY <1>3, <2>1, Constants DEF Lose, Happens, client, controller, history
<1>4. CASE Close
  BY <1>4, Constants DEF Close, Happens, client, controller, history
<1>5. CASE Change
  <2>1. mem' \in [Addr -> Val] /\ seen' \subseteq Val
    BY <1>5, TypePut DEF Change
  <2> QED BY <1>5, <2>1, Constants DEF Change, Happens, client, line
<1> QED BY <1>1, <1>2, <1>3, <1>4, <1>5

\* Every step keeps the types.
LEMMA TypeStep == TypeOK /\ [Next]_vars => TypeOK'
<1> SUFFICES ASSUME TypeOK, [Next]_vars PROVE TypeOK'
  OBVIOUS
<1>1. CASE UNCHANGED vars
  BY <1>1 DEF vars, client, line, controller, history, TypeOK
<1>2. ASSUME NEW a \in Addr, Get(a) PROVE TypeOK'
  BY <1>2, NewCall, TypeCall DEF Get, Call
<1>3. ASSUME NEW a \in Addr, NEW v \in Val, Set(a, v) PROVE TypeOK'
  BY <1>3, NewCall, TypeCall DEF Set, Call
<1> QED BY <1>1, <1>2, <1>3, TypeClient, TypeFail, TypeController, TypeEnvironment DEF Next

\* Type correctness of the VS1 session: a request has the id of a call that was made, an
\* answer is bytes, no read waits longer than its clock goes, and the controller works on
\* one request at a time.
THEOREM TypeCorrect == Spec => []TypeOK
  BY TypeInit, TypeStep, PTL DEF Spec


-----------------------------------------------------------------------------
(* The line *)

\* A sequence of one element.
LEMMA OneElement ==
  \A m : /\ << m >> # << >> /\ Head(<< m >>) = m /\ Tail(<< m >>) = << >>
         /\ Len(<< m >>) = 1 /\ Append(<< >>, m) = << m >>
  OBVIOUS

\* The length of what has arrived.
LEMMA Arrived == TypeOK => Len(rx) \in Nat /\ (rx = << >> <=> Len(rx) = 0)
  BY DEF TypeOK

\* One more SYNC behind SYNCs.
LEMMA OneMoreSync ==
  ASSUME NEW s \in Seq(Byte), OnlySyncs(s)
  PROVE  OnlySyncs(Append(s, SYNC)) /\ Len(Append(s, SYNC)) = Len(s) + 1
<1>1. \A i \in 1..(Len(s) + 1) : Append(s, SYNC)[i] = SYNC
  BY DEF OnlySyncs
<1> QED BY <1>1 DEF OnlySyncs

\* What get takes for its answer: the content, if it is the client's own answer, and
\* otherwise SYNCs, which took too long.
LEMMA Taken ==
  ASSUME TypeOK, AtRead, Len(rx) >= BlockLen
  PROVE  /\ tx = << >> /\ pending = {} /\ timer < Period
         /\ \/ SubSeq(rx, 1, BlockLen) = rx /\ rx \in seen
            \/ Contains(SubSeq(rx, 1, BlockLen), SYNC) /\ elapsed >= BlockLen
<1>1. ~Asked
  BY Constants, Arrived DEF Asked
<1>2. CASE Still /\ rx \in seen
  <2>1. rx \in Val
    BY <1>2 DEF TypeOK
  <2>2. rx \in Seq(Byte) /\ Len(rx) = BlockLen
    BY <2>1, ValIsBytes
  <2>3. SubSeq(rx, 1, BlockLen) = rx
    BY <2>2
  <2> QED BY <1>2, <2>3 DEF Still
<1>3. CASE /\ tx = << >> /\ pending = {}
           /\ OnlySyncs(rx) /\ Len(rx) <= elapsed
           /\ timer >= Period => Len(rx) < elapsed
  <2>1. Len(rx) \in Nat /\ elapsed \in Nat /\ elapsed <= BlockLen /\ timer \in Nat
    BY Constants, Longest, Arrived DEF TypeOK
  <2>2. elapsed >= BlockLen /\ timer < Period
    BY <1>3, <2>1, Constants
  <2>3. SubSeq(rx, 1, BlockLen)[1] = rx[1] /\ Len(SubSeq(rx, 1, BlockLen)) = BlockLen
    BY Constants, First DEF TypeOK
  <2>4. 1 \in 1..Len(rx) /\ 1 \in 1..BlockLen
    BY <2>1, Constants
  <2>5. Contains(SubSeq(rx, 1, BlockLen), SYNC)
    BY <1>3, <2>3, <2>4 DEF Contains, OnlySyncs
  <2> QED BY <1>3, <2>2, <2>5
<1> QED BY <1>1, <1>2, <1>3 DEF AtRead

-----------------------------------------------------------------------------
(* The steps of the client *)

\* What the client leaves on the line for the next await.
LEMMA LineClient == ASSUME TypeOK, LineInv, ClientStep PROVE LineInv'
<1> USE DEF LineInv
<1>1. CASE Negotiate
  <2>1. tx' = << Reset >> /\ rx' = << >> /\ pc' \in {"reset", "sync"}
    BY <1>1, OneElement DEF Negotiate, Purge
  <2> QED BY <2>1 DEF AtSync
<1>2. CASE AwaitSync
  <2>1. AtSync /\ rx # << >>
    BY <1>2 DEF AwaitSync
  <2>2. CASE Head(rx) = SYNC
    <3>1. pc' = "write" /\ Still' /\ rx' = << >>
      BY <1>2, <2>1, <2>2 DEF AwaitSync, Purge, AtSync, Still, controller
    <3> QED BY <3>1
  <2>3. CASE Head(rx) # SYNC
    <3>1. pc' = "sync" /\ AtSync'
      BY <1>2, <2>1, <2>3 DEF AwaitSync, AtSync, controller
    <3> QED BY <3>1
  <2> QED BY <2>2, <2>3
<1>3. CASE WriteRequest
  <2>1. Asked'
    BY <1>3, OneElement DEF WriteRequest, Asked, Still, controller
  <2>2. op.kind \in {"get", "set"} /\ op' = op
    BY <1>3, Kinds DEF TypeOK, WriteRequest
  <2>3. pc' = IF op.kind = "get" THEN "read" ELSE "answer"
    BY <1>3 DEF WriteRequest
  <2>4. CASE op.kind = "get"
    BY <2>1, <2>2, <2>3, <2>4 DEF AtRead
  <2>5. CASE op.kind = "set"
    BY <2>1, <2>2, <2>3, <2>5 DEF AtAnswer
  <2> QED BY <2>2, <2>4, <2>5
<1>4. CASE ReadAnswer
  <2>1. tx = << >> /\ pending = {} /\ timer < Period
    BY <1>4, Taken DEF ReadAnswer
  <2>2. pc' = "idle" \/ (pc' = "write" /\ rx' = << >>)
    BY <1>4 DEF ReadAnswer, Return, Purge
  <2>3. UNCHANGED << tx, pending, timer >>
    BY <1>4 DEF ReadAnswer, controller
  <2> QED BY <2>1, <2>2, <2>3 DEF Still
<1>5. CASE ReadDone
  <2>1. CASE Head(rx) = Done
    BY <1>5, <2>1 DEF ReadDone, Return
  <2>2. CASE Head(rx) # Done
    <3>1. Still /\ rx = << SYNC >>
      BY <1>5, <2>2, OneElement DEF ReadDone, AtAnswer, Asked
    <3>2. rx' = << >> /\ pc' = "write" /\ UNCHANGED << tx, pending, timer >>
      BY <1>5, <2>2, <3>1, OneElement DEF ReadDone, controller
    <3> QED BY <3>1, <3>2 DEF Still
  <2> QED BY <2>1, <2>2
<1>6. CASE ReadClosed
  BY <1>6 DEF ReadClosed, Return
<1> QED BY <1>1, <1>2, <1>3, <1>4, <1>5, <1>6 DEF ClientStep

\* A running call has not succeeded yet.
LEMMA NotYet == EndInv /\ pc # "idle" => result # "ok"
  BY DEF EndInv

\* When the client reports success, its operation has been carried out.
LEMMA EndClient == ASSUME TypeOK, LineInv, EndInv, ClientStep PROVE EndInv'
<1>1. CASE Negotiate
  BY <1>1, NotYet DEF Negotiate, EndInv
<1>2. CASE AwaitSync
  BY <1>2, NotYet DEF AwaitSync, EndInv
<1>3. CASE WriteRequest
  BY <1>3, NotYet DEF WriteRequest, EndInv
<1>4. CASE ReadAnswer
  <2>1. /\ tx = << >> /\ pending = {} /\ op.kind = "get"
        /\ \/ SubSeq(rx, 1, BlockLen) = rx /\ rx \in seen
           \/ Contains(SubSeq(rx, 1, BlockLen), SYNC) /\ elapsed >= BlockLen
    BY <1>4, Taken DEF ReadAnswer, LineInv
  <2>2. UNCHANGED << tx, pending, op, seen >>
    BY <1>4 DEF ReadAnswer, controller, history
  <2>3. \/ result' = result
        \/ pc' = "idle" /\ buf' = rx /\ rx \in seen
    BY <1>4, <2>1 DEF ReadAnswer, Return
  <2>4. result # "ok"
    BY <1>4, NotYet DEF ReadAnswer
  <2> QED BY <2>1, <2>2, <2>3, <2>4 DEF EndInv
<1>5. CASE ReadDone
  <2>1. UNCHANGED << tx, pending, op, applied >> /\ op.kind = "set" /\ result # "ok"
    BY <1>5, NotYet DEF ReadDone, controller, history, LineInv
  <2>2. CASE Head(rx) = Done
    <3>1. tx = << >> /\ pending = {} /\ applied
      BY <1>5, <2>2, OneElement, Constants DEF ReadDone, LineInv, AtAnswer, Asked, Still
    <3>2. pc' = "idle" /\ buf' = NoData
      BY <1>5, <2>2 DEF ReadDone, Return
    <3> QED BY <2>1, <3>1, <3>2 DEF EndInv
  <2>3. CASE Head(rx) # Done
    BY <1>5, <2>1, <2>3 DEF ReadDone, EndInv
  <2> QED BY <2>2, <2>3
<1>6. CASE ReadClosed
  BY <1>6 DEF ReadClosed, Return, EndInv
<1> QED BY <1>1, <1>2, <1>3, <1>4, <1>5, <1>6 DEF ClientStep

\* The steps of the client keep the invariant.
LEMMA SafeClient == ASSUME SafeInv, ClientStep PROVE SafeInv'
<1>1. SeenInv'
  BY DEF SafeInv, SeenInv, ClientStep, Negotiate, AwaitSync, WriteRequest, ReadAnswer, ReadDone,
     ReadClosed, controller, history
<1> QED BY <1>1, TypeClient, LineClient, EndClient DEF SafeInv

\* A call that fails or is dropped has not succeeded, and the next one takes nothing of it
\* for its own: it begins with a negotiation.
LEMMA SafeFail == ASSUME SafeInv, IoError \/ Cancel PROVE SafeInv'
<1>1. pc' \in {"idle", "renegotiate"} /\ result' # "ok"
  BY NotYet DEF SafeInv, IoError, Cancel, Return
<1>2. SeenInv'
  BY DEF SafeInv, SeenInv, IoError, Cancel, controller, history
<1> QED BY <1>1, <1>2, TypeFail DEF SafeInv, LineInv, EndInv

\* A new call.
LEMMA SafeCall ==
  ASSUME SafeInv, NEW o \in Operations, Call(o) PROVE SafeInv'
<1>1. pc' \in {"reset", "renegotiate"} /\ result' = "none" /\ SeenInv'
  BY DEF Call, SeenInv, controller
<1> QED BY <1>1, TypeCall DEF SafeInv, LineInv, EndInv

-----------------------------------------------------------------------------
(* The steps of the controller, and time *)

\* The history follows the memory.
LEMMA SeenPut ==
  ASSUME TypeOK, SeenInv, NEW a \in Addr, NEW v \in Val, Put(a, v), UNCHANGED << pc, op >>
  PROVE  SeenInv' /\ seen \subseteq seen'
<1>1. op.addr \in Addr
  BY Kinds DEF TypeOK
<1> QED BY <1>1 DEF TypeOK, SeenInv, Put

\* RESET is received during sync, or by a controller whose client is not waiting for it.
LEMMA SafeReceiveReset == ASSUME Spaced, SafeInv, ReceiveReset PROVE SafeInv'
<1>1. UNCHANGED << pc, op, result, buf, rx, mem, seen, applied >> /\ pending' = {} /\ tx' = Tail(tx)
  BY DEF ReceiveReset, client, history
<1>2. tx # << >> /\ Head(tx) = Reset
  BY DEF ReceiveReset
<1>3. op # Reset
  BY Kinds DEF SafeInv, TypeOK
<1>4. pc \notin {"write", "read", "answer"}
  BY <1>2, <1>3, OneElement DEF SafeInv, LineInv, AtRead, AtAnswer, Asked, Still
<1>5. pc = "sync" => AtSync'
  <2> SUFFICES ASSUME AtSync PROVE AtSync'
    BY DEF SafeInv, LineInv
  <2>1. tx' = << >>
    BY <1>1, <1>2, OneElement DEF AtSync
  <2>2. rx # << >> => timer' = Period - 1
    BY <1>2 DEF AtSync, ReceiveReset
  <2>3. rx # << >> => timer' < Period
    BY <2>2, Constants
  <2> QED BY <1>1, <2>1, <2>3 DEF AtSync
<1>6. LineInv' /\ SeenInv'
  BY <1>1, <1>4, <1>5 DEF SafeInv, LineInv, SeenInv
<1>7. EndInv'
  BY <1>1, <1>2 DEF SafeInv, EndInv
<1>8. TypeOK'
  BY TypeController DEF SafeInv, ControllerStep
<1> QED BY <1>6, <1>7, <1>8 DEF SafeInv

\* The controller begins to work on a request: a running get or set has one under way only
\* when it waits for the answer.
LEMMA SafeReceiveRequest == ASSUME SafeInv, ReceiveRequest PROVE SafeInv'
<1>1. /\ UNCHANGED << pc, op, result, buf, rx, mem, seen, applied >>
      /\ pending' = {Head(tx)} /\ tx' = Tail(tx)
  BY DEF ReceiveRequest, client, history
<1>2. tx # << >> /\ Head(tx) # Reset
  BY DEF ReceiveRequest
<1>3. pc \notin {"sync", "write"}
  BY <1>2, OneElement DEF SafeInv, LineInv, AtSync, Still
<1>4. pc \in {"read", "answer"} => Asked'
  BY <1>1, <1>2, OneElement DEF SafeInv, LineInv, AtRead, AtAnswer, Asked, Still
<1>5. LineInv' /\ SeenInv'
  BY <1>1, <1>3, <1>4 DEF SafeInv, LineInv, SeenInv, AtRead, AtAnswer
<1>6. EndInv'
  BY <1>1, <1>2 DEF SafeInv, EndInv
<1>7. TypeOK'
  BY TypeController DEF SafeInv, ControllerStep
<1> QED BY <1>5, <1>6, <1>7 DEF SafeInv

\* While a get or set waits, the controller can only be working on its request.
LEMMA OwnPending ==
  ASSUME LineInv, pending # {}
  PROVE  /\ pc # "write"
         /\ pc \in {"read", "answer"} => pending = {op} /\ tx = << >> /\ rx = << >>
         /\ pc = "sync" => rx = << >>
  BY DEF LineInv, AtSync, AtRead, AtAnswer, Asked, Still

\* The answer to a read that the client waits for is what the address contains.
LEMMA SafeAnswerRead == ASSUME SafeInv, AnswerRead PROVE SafeInv'
<1>1. UNCHANGED << pc, op, result, buf, tx, mem, seen, applied >> /\ pending' = {} /\ timer' = 0
  BY DEF AnswerRead, client, history
<1>2. PICK r \in pending : r.kind = "get" /\ rx' = rx \o mem[r.addr]
  BY DEF AnswerRead
<1>3. 0 < Period
  BY Constants
<1>4. pc # "answer" /\ pc # "write"
  BY <1>2, OwnPending DEF SafeInv, LineInv
<1>5. pc = "sync" => AtSync'
  BY <1>1, <1>3 DEF SafeInv, LineInv, AtSync
<1>6. pc = "read" => AtRead'
  <2> SUFFICES ASSUME pc = "read" PROVE AtRead'
    OBVIOUS
  <2>1. r = op /\ tx = << >> /\ rx = << >> /\ op.kind = "get"
    BY <1>2, OwnPending DEF SafeInv, LineInv
  <2>2. mem[op.addr] \in Val /\ mem[op.addr] \in seen
    BY <2>1, Kinds DEF SafeInv, TypeOK, SeenInv
  <2>3. rx' = mem[op.addr]
    BY <1>2, <2>1, <2>2, ValIsBytes
  <2> QED BY <1>1, <1>3, <2>1, <2>2, <2>3 DEF AtRead, Still
<1>7. LineInv' /\ SeenInv'
  BY <1>1, <1>4, <1>5, <1>6 DEF SafeInv, LineInv, SeenInv
<1>8. EndInv'
  BY <1>1, <1>2 DEF SafeInv, EndInv
<1>9. TypeOK'
  BY TypeController DEF SafeInv, ControllerStep
<1> QED BY <1>7, <1>8, <1>9 DEF SafeInv

\* The acknowledgement that the client waits for comes with the effect of its write.
LEMMA SafeAnswerWrite == ASSUME SafeInv, AnswerWrite PROVE SafeInv'
<1>1. UNCHANGED << pc, op, result, buf, tx >> /\ pending' = {} /\ timer' = 0 /\ rx' = Append(rx, Done)
  BY DEF AnswerWrite, client
<1>2. PICK r \in pending : /\ r.kind = "set" /\ Put(r.addr, r.data)
                           /\ applied' = (applied \/ (op.kind = "set" /\ r.id = op.id))
  BY DEF AnswerWrite
<1>3. 0 < Period
  BY Constants
<1>4. pc # "read" /\ pc # "write"
  BY <1>2, OwnPending DEF SafeInv, LineInv
<1>5. pc = "sync" => AtSync'
  BY <1>1, <1>3 DEF SafeInv, LineInv, AtSync
<1>6. pc = "answer" => AtAnswer' /\ op.kind = "set"
  <2> SUFFICES ASSUME pc = "answer" PROVE AtAnswer' /\ op.kind = "set"
    OBVIOUS
  <2>1. r = op /\ tx = << >> /\ rx = << >> /\ op.kind = "set"
    BY <1>2, OwnPending DEF SafeInv, LineInv
  <2>2. rx' = << Done >> /\ applied'
    BY <1>1, <1>2, <2>1, OneElement
  <2> QED BY <1>1, <1>3, <2>1, <2>2 DEF AtAnswer, Still
<1>7. SeenInv'
  <2>1. r.addr \in Addr /\ r.data \in Val
    BY <1>2, Kinds DEF SafeInv, TypeOK
  <2> QED BY <1>1, <1>2, <2>1, SeenPut DEF SafeInv
<1>8. LineInv'
  BY <1>1, <1>4, <1>5, <1>6 DEF SafeInv, LineInv
<1>9. EndInv'
  BY <1>1, <1>2 DEF SafeInv, EndInv
<1>10. TypeOK'
  BY TypeController DEF SafeInv, ControllerStep
<1> QED BY <1>7, <1>8, <1>9, <1>10 DEF SafeInv

\* An idle controller sends SYNC, and time has passed since the last one.
LEMMA SafeSendSync == ASSUME SafeInv, SendSync PROVE SafeInv'
<1>1. /\ UNCHANGED << pc, op, result, buf, elapsed, tx, mem, pending, seen, applied >>
      /\ timer' = 0 /\ pending = {} /\ timer >= Period
      /\ rx' = IF Len(rx) <= BlockLen THEN Append(rx, SYNC) ELSE rx
  BY DEF SendSync, SyncDue, client, history
<1>2. 0 < Period /\ timer \in Nat /\ Period \in Nat
  BY Constants, Longest DEF SafeInv, TypeOK
<1>3. ~Still
  BY <1>1, <1>2 DEF Still
<1>4. ~Asked
  BY <1>1, <1>2 DEF Asked
<1>5. pc = "sync" => AtSync'
  BY <1>1, <1>2 DEF SafeInv, LineInv, AtSync
<1>6. pc = "read" => AtRead'
  <2> SUFFICES ASSUME pc = "read" PROVE AtRead'
    OBVIOUS
  <2>1. tx = << >> /\ OnlySyncs(rx) /\ Len(rx) < elapsed
    BY <1>1, <1>3, <1>4 DEF SafeInv, LineInv, AtRead
  <2>2. rx \in Seq(Byte) /\ Len(rx) \in Nat /\ elapsed \in Nat
    BY Constants DEF SafeInv, TypeOK
  <2>3. OnlySyncs(rx') /\ Len(rx') <= elapsed
    BY <1>1, <2>1, <2>2, OneMoreSync
  <2> QED BY <1>1, <1>2, <2>1, <2>3 DEF AtRead
<1>7. pc = "answer" => AtAnswer'
  <2> SUFFICES ASSUME pc = "answer" PROVE AtAnswer'
    OBVIOUS
  <2>1. tx = << >> /\ rx = << >>
    BY <1>3, <1>4 DEF SafeInv, LineInv, AtAnswer
  <2>2. Len(rx) <= BlockLen
    BY <2>1, Constants
  <2>3. rx' = << SYNC >>
    BY <1>1, <2>1, <2>2, OneElement
  <2> QED BY <1>1, <1>2, <2>1, <2>3 DEF AtAnswer, Still
<1>8. LineInv' /\ SeenInv'
  BY <1>1, <1>3, <1>5, <1>6, <1>7 DEF SafeInv, LineInv, SeenInv
<1>9. EndInv'
  BY <1>1 DEF SafeInv, EndInv
<1>10. TypeOK'
  BY TypeController DEF SafeInv, ControllerStep
<1> QED BY <1>8, <1>9, <1>10 DEF SafeInv

\* Time passes only while the client waits and nothing is under way to the controller.
LEMMA SafeTick == ASSUME SafeInv, Tick PROVE SafeInv'
<1>1. /\ UNCHANGED << pc, op, result, buf, rx, tx, mem, pending, seen, applied >>
      /\ tx = << >> /\ ~ClientReady
      /\ elapsed' = IF pc = "read" /\ elapsed < BlockLen THEN elapsed + 1 ELSE elapsed
  BY DEF Tick, line, history
<1>2. pc # "write"
  BY <1>1 DEF ClientReady
<1>3. pc \in {"sync", "answer"} => rx = << >>
  BY <1>1 DEF ClientReady
<1>4. Asked => Asked'
  BY <1>1, OneElement DEF Asked
<1>5. pc = "sync" => AtSync'
  BY <1>1, <1>3 DEF SafeInv, LineInv, AtSync
<1>6. pc = "answer" => AtAnswer'
  BY <1>1, <1>3, <1>4, OneElement DEF SafeInv, LineInv, AtAnswer
<1>7. pc = "read" => AtRead'
  <2> SUFFICES ASSUME pc = "read", ~Asked PROVE AtRead'
    BY <1>4 DEF AtRead
  <2>1. Len(rx) < BlockLen
    BY <1>1, Constants, Arrived DEF ClientReady, SafeInv
  <2>2. rx \notin Val
    BY <2>1, ValIsBytes, Constants
  <2>3. pending = {} /\ OnlySyncs(rx) /\ Len(rx) <= elapsed
    BY <2>2 DEF SafeInv, LineInv, TypeOK, AtRead
  <2>4. Len(rx) < elapsed'
    BY <1>1, <2>1, <2>3, Constants, Arrived DEF SafeInv, TypeOK
  <2>5. Len(rx) \in Nat /\ elapsed' \in Nat
    BY <1>1, Constants, Arrived DEF SafeInv, TypeOK
  <2> QED BY <1>1, <2>3, <2>4, <2>5 DEF AtRead
<1>8. LineInv' /\ SeenInv'
  BY <1>1, <1>2, <1>5, <1>6, <1>7 DEF SafeInv, LineInv, SeenInv
<1>9. EndInv'
  BY <1>1 DEF SafeInv, EndInv
<1>10. TypeOK'
  BY TypeEnvironment DEF SafeInv
<1> QED BY <1>8, <1>9, <1>10 DEF SafeInv

\* A slow answer, and the end of the connection.
LEMMA SafeStall == ASSUME SafeInv, Stall \/ Close PROVE SafeInv'
<1>1. UNCHANGED << pc, op, result, buf, rx, tx, mem, pending, timer, seen, applied >>
  BY DEF Stall, Close, client, line, controller, history
<1>2. pending # {} \/ elapsed' = elapsed
  BY DEF Stall, Close, client
<1>3. AtRead => AtRead'
  BY <1>1, <1>2 DEF AtRead, Asked, Still
<1>4. AtSync' = AtSync /\ AtAnswer' = AtAnswer /\ Still' = Still
  BY <1>1 DEF AtSync, AtAnswer, Asked, Still
<1>5. LineInv' /\ SeenInv' /\ EndInv'
  BY <1>1, <1>3, <1>4 DEF SafeInv, LineInv, SeenInv, EndInv
<1>6. TypeOK'
  BY TypeEnvironment DEF SafeInv
<1> QED BY <1>5, <1>6 DEF SafeInv

\* A message that is lost leaves the client with SYNCs.
LEMMA SafeLose == ASSUME SafeInv, Lose PROVE SafeInv'
<1>1. /\ UNCHANGED << pc, op, result, buf, elapsed, rx, mem, pending, timer, seen, applied >>
      /\ tx # << >> /\ tx' = Tail(tx)
  BY DEF Lose, client, controller, history
<1>2. pc # "write"
  BY <1>1 DEF SafeInv, LineInv, Still
<1>3. pc = "sync" => AtSync'
  BY <1>1, OneElement, Constants DEF SafeInv, LineInv, AtSync
<1>4. pc \in {"read", "answer"} => tx' = << >> /\ pending = {} /\ rx = << >> /\ timer < Period
  BY <1>1, OneElement DEF SafeInv, LineInv, AtRead, AtAnswer, Asked, Still
<1>5. OnlySyncs(<< >>) /\ Len(<< >>) = 0
  BY DEF OnlySyncs
<1>6. pc = "read" => AtRead'
  BY <1>1, <1>4, <1>5, Constants, Longest DEF SafeInv, TypeOK, AtRead
<1>7. pc = "answer" => AtAnswer'
  BY <1>1, <1>4 DEF AtAnswer
<1>8. LineInv' /\ SeenInv'
  BY <1>1, <1>2, <1>3, <1>6, <1>7 DEF SafeInv, LineInv, SeenInv
<1>9. EndInv'
  BY <1>1 DEF SafeInv, EndInv
<1>10. TypeOK'
  BY TypeEnvironment DEF SafeInv
<1> QED BY <1>8, <1>9, <1>10 DEF SafeInv

\* The controller changes a content: an answer on the line stays one that was seen.
LEMMA SafeChange == ASSUME SafeInv, Change PROVE SafeInv'
<1>1. UNCHANGED << pc, op, result, buf, connected, elapsed, rx, tx, pending, timer, applied >>
  BY DEF Change, client, line
<1>2. SeenInv' /\ seen \subseteq seen'
  BY <1>1, SeenPut DEF Change, SafeInv
<1>3. LineInv'
  BY <1>1, <1>2 DEF SafeInv, LineInv, AtSync, AtRead, AtAnswer, Asked, Still
<1>4. EndInv'
  BY <1>1, <1>2 DEF SafeInv, EndInv
<1>5. TypeOK'
  BY TypeEnvironment DEF SafeInv
<1> QED BY <1>2, <1>3, <1>4, <1>5 DEF SafeInv

-----------------------------------------------------------------------------
(* What a success means *)

\* The invariant holds initially.
LEMMA SafeInit == Init => SafeInv
  BY TypeInit DEF Init, SafeInv, LineInv, SeenInv, EndInv

\* Every step keeps the invariant.
LEMMA SafeStep == ASSUME Spaced PROVE SafeInv /\ [Next]_vars => SafeInv'
<1> SUFFICES ASSUME SafeInv, [Next]_vars PROVE SafeInv'
  OBVIOUS
<1>1. CASE UNCHANGED vars
  <2>1. TypeOK'
    BY <1>1, TypeStep DEF SafeInv
  <2> QED BY <1>1, <2>1 DEF vars, client, line, controller, history, SafeInv, LineInv, SeenInv,
       EndInv, AtSync, AtRead, AtAnswer, Asked, Still
<1>2. ASSUME NEW a \in Addr, Get(a) PROVE SafeInv'
  BY <1>2, NewCall, SafeCall DEF Get, Call, SafeInv
<1>3. ASSUME NEW a \in Addr, NEW v \in Val, Set(a, v) PROVE SafeInv'
  BY <1>3, NewCall, SafeCall DEF Set, Call, SafeInv
<1>4. CASE ControllerStep
  BY <1>4, SafeReceiveReset, SafeReceiveRequest, SafeAnswerRead, SafeAnswerWrite, SafeSendSync
     DEF ControllerStep
<1> QED BY <1>1, <1>2, <1>3, <1>4, SafeClient, SafeFail, SafeTick, SafeStall, SafeLose, SafeChange
     DEF Next

\* The invariant of the VS1 session: at each await point the line holds the client's own
\* answer or SYNCs that took their time.
THEOREM Vs1Invariance == ASSUME Spaced PROVE Spec => []SafeInv
  BY SafeInit, SafeStep, PTL DEF Spec

\* What it says of a call that has succeeded.
LEMMA Promises == SafeInv => AnswerIsCurrent /\ WriteTookEffect /\ NothingLeft
  BY DEF SafeInv, EndInv, AnswerIsCurrent, WriteTookEffect, NothingLeft, Succeeded

\* A get over VS1 returns what the address contained while it ran, whatever fails, is slow,
\* lost or dropped: never the SYNCs of a controller that lost the request, and never what is
\* left of an earlier call.
THEOREM AnswersAreCurrent == ASSUME Spaced PROVE Spec => []AnswerIsCurrent
  BY Vs1Invariance, Promises, PTL

\* A set over VS1 that returns success has taken effect in this call: the 0x00 it read is the
\* acknowledgement of its own request.
THEOREM WritesTakeEffect == ASSUME Spaced PROVE Spec => []WriteTookEffect
  BY Vs1Invariance, Promises, PTL

\* When a call over VS1 returns success nothing of it is under way any more: no repeated
\* request that the controller could still carry out or answer.
THEOREM SuccessLeavesNothing == ASSUME Spaced PROVE Spec => []NothingLeft
  BY Vs1Invariance, Promises, PTL

-----------------------------------------------------------------------------
(* The registers as Vs1 implements them: the substitution of Vs1Refinement *)
(* under names                                                             *)

Status == IF pc = "idle" THEN "idle" ELSE IF pc = "renegotiate" THEN "waiting" ELSE "running"
SeenNow == IF pc \in {"idle", "renegotiate"} THEN {} ELSE seen
AppliedNow == pc # "idle" /\ applied

\* What is left of a write request.
WriteOf(r) == [addr |-> r.addr, data |-> r.data, id |-> r.id]

LateWrites == {WriteOf(r) : r \in {u \in UnderWay : IsLate(u)}}

RegPut(a, v) ==
  /\ mem' = [mem EXCEPT ![a] = v]
  /\ SeenNow' = IF Status = "running" /\ op.kind = "get" /\ op.addr = a
                  THEN SeenNow \cup {v} ELSE SeenNow

\* The command begins to run.
RegRun ==
  /\ Status' = "running"
  /\ SeenNow' = IF op'.kind = "get" THEN {mem[op'.addr]} ELSE {}

RegEnd(how) ==
  /\ Status' = "idle" /\ result' = how
  /\ SeenNow' = {} /\ AppliedNow' = FALSE
  /\ UNCHANGED << mem, op >>

\* Nothing happens.
LEMMA Stutters ==
  ASSUME UNCHANGED << mem, Status, op, result, buf, SeenNow, AppliedNow, LateWrites >>
  PROVE  UNCHANGED Register!regvars
  BY DEF Register!regvars, Status, SeenNow, AppliedNow, LateWrites, WriteOf

\* The caller calls get or set.
LEMMA Invokes ==
  ASSUME Status = "idle", op.id < MaxCalls,
         op' \in [kind : {"get", "set"}, addr : Addr, data : Val \cup {NoData}, id : 0..MaxCalls],
         op'.id = op.id + 1,
         op'.kind = "get" => op'.data = NoData,
         op'.kind = "set" => op'.data \in Val,
         result' = "none", buf' = NoData,
         (Status' = "waiting" /\ UNCHANGED SeenNow) \/ RegRun,
         UNCHANGED << mem, AppliedNow, LateWrites >>
  PROVE  Register!RegNext
<1>1. Register!Invoke
  BY DEF Register!Invoke, Register!Run, Register!CallType, Register!NoVal, RegRun, NoData,
         Status, SeenNow, AppliedNow, LateWrites, WriteOf
<1> QED BY <1>1 DEF Register!RegNext

\* The connection of a waiting call is up, and its command begins to run.
LEMMA Connects ==
  ASSUME Status = "waiting", RegRun, UNCHANGED << mem, op, result, buf, AppliedNow, LateWrites >>
  PROVE  Register!RegNext
<1>1. Register!Connected
  BY DEF Register!Connected, Register!Run, RegRun, Status, SeenNow, AppliedNow, LateWrites, WriteOf
<1> QED BY <1>1 DEF Register!RegNext

\* The controller carries out the write of the running set.
LEMMA Applies ==
  ASSUME Status = "running", op.kind = "set", LateWrites = {},
         RegPut(op.addr, op.data), AppliedNow' = TRUE,
         UNCHANGED << Status, op, result, buf, LateWrites >>
  PROVE  Register!RegNext
<1>1. Register!Apply
  BY DEF Register!Apply, Register!Put, RegPut, Status, SeenNow, AppliedNow, LateWrites, WriteOf
<1> QED BY <1>1 DEF Register!RegNext

\* The controller carries out the write of an earlier, failed set.
LEMMA AppliesLate ==
  ASSUME NEW w \in LateWrites, RegPut(w.addr, w.data), LateWrites' = LateWrites \ {w},
         UNCHANGED << Status, op, result, buf, AppliedNow >>
  PROVE  Register!RegNext
<1>1. Register!ApplyLate
  BY DEF Register!ApplyLate, Register!Put, RegPut, Status, SeenNow, AppliedNow, LateWrites, WriteOf
<1> QED BY <1>1 DEF Register!RegNext

\* A late write is lost, or the controller drops it for a RESET.
LEMMA Forgets ==
  ASSUME NEW w \in LateWrites, LateWrites' = LateWrites \ {w},
         UNCHANGED << mem, Status, op, result, buf, SeenNow, AppliedNow >>
  PROVE  Register!RegNext
<1>1. Register!Forget
  BY DEF Register!Forget, Status, SeenNow, AppliedNow, LateWrites, WriteOf
<1> QED BY <1>1 DEF Register!RegNext

\* The controller changes the content of an address on its own.
LEMMA Varies ==
  ASSUME NEW a \in Addr, NEW v \in Val, RegPut(a, v),
         UNCHANGED << Status, op, result, buf, AppliedNow, LateWrites >>
  PROVE  Register!RegNext
<1>1. Register!Vary
  BY DEF Register!Vary, Register!Put, RegPut, Status, SeenNow, AppliedNow, LateWrites, WriteOf
<1> QED BY <1>1 DEF Register!RegNext

\* A get or set returns with success.
LEMMA Succeeds ==
  ASSUME Status = "running", LateWrites = {},
         \/ op.kind = "get" /\ buf' \in SeenNow
         \/ op.kind = "set" /\ AppliedNow /\ buf' = NoData,
         RegEnd("ok"), UNCHANGED LateWrites
  PROVE  Register!RegNext
<1>1. Register!Succeed
  BY DEF Register!Succeed, Register!End, Register!NoVal, RegEnd, NoData,
         Status, SeenNow, AppliedNow, LateWrites, WriteOf
<1> QED BY <1>1 DEF Register!RegNext

\* A get or set returns an error; its write may be under way.
LEMMA Fails ==
  ASSUME Status # "idle", buf' = NoData,
         \/ UNCHANGED LateWrites
         \/ op.kind = "set" /\ LateWrites' = LateWrites \cup {WriteOf(op)},
         RegEnd("err")
  PROVE  Register!RegNext
<1>1. Register!Fail
  BY DEF Register!Fail, Register!End, Register!NoVal, Register!Write, RegEnd, NoData,
         Status, SeenNow, AppliedNow, LateWrites, WriteOf
<1> QED BY <1>1 DEF Register!RegNext

-----------------------------------------------------------------------------
(* Requests on the line *)

Messages == Operations \cup {Reset}

\* What a message less leaves.
LEMMA LessOne ==
  ASSUME NEW s \in Seq(Messages), s # << >>, OneRequest(s)
  PROVE  /\ OneRequest(Tail(s)) /\ On(s) = {Head(s)} \cup On(Tail(s))
         /\ IsRequest(Head(s)) \/ NoRequest(s) => NoRequest(Tail(s))
<1> DEFINE t == Tail(s)
           n == Len(s) - 1
<1>1. n \in Nat /\ Len(s) = n + 1 /\ Len(t) = n /\ s[1] = Head(s) /\ \A i \in 1..n : t[i] = s[i + 1]
  OBVIOUS
<1> HIDE DEF t, n
<1>2. \A i \in 1..n : i + 1 \in 1..(n + 1) /\ i + 1 # 1
  BY <1>1
<1>3. \A i \in 1..(n + 1) : i = 1 \/ \E j \in 1..n : i = j + 1
  <2>1. \A i \in 1..(n + 1) : i = 1 \/ (i - 1 \in 1..n /\ i = (i - 1) + 1)
    BY <1>1
  <2> QED BY <2>1
<1>4. 1 \in 1..(n + 1)
  BY <1>1
<1>5. OneRequest(t)
  <2>1. ASSUME NEW i \in 1..n, NEW j \in 1..n, IsRequest(t[i]), IsRequest(t[j])
        PROVE  i = j
    <3>1. i + 1 = j + 1
      BY <1>1, <1>2, <2>1 DEF OneRequest
    <3> QED BY <3>1
  <2> QED BY <1>1, <2>1 DEF OneRequest
<1>6. On(s) = {Head(s)} \cup On(t)
  <2>1. ASSUME NEW m PROVE m \in On(s) <=> m = Head(s) \/ m \in On(t)
    <3>1. m \in On(s) <=> \E i \in 1..(n + 1) : m = s[i]
      BY <1>1 DEF On
    <3>2. m \in On(t) <=> \E i \in 1..n : m = s[i + 1]
      BY <1>1 DEF On
    <3> QED BY <1>1, <1>2, <1>3, <1>4, <3>1, <3>2
  <2> QED BY <2>1
<1>7. IsRequest(Head(s)) \/ NoRequest(s) => NoRequest(t)
  BY <1>1, <1>2, <1>4 DEF OneRequest, NoRequest
<1> QED BY <1>5, <1>6, <1>7 DEF t

\* One RESET more.
LEMMA OneMoreReset ==
  ASSUME NEW s \in Seq(Messages)
  PROVE  /\ On(Append(s, Reset)) = On(s) \cup {Reset}
         /\ OneRequest(s) => OneRequest(Append(s, Reset))
         /\ NoRequest(s) => NoRequest(Append(s, Reset))
<1> DEFINE t == Append(s, Reset)
           n == Len(s)
<1>1. n \in Nat /\ Len(t) = n + 1 /\ t[n + 1] = Reset /\ \A i \in 1..n : t[i] = s[i]
  OBVIOUS
<1> HIDE DEF t, n
<1>2. \A i : i \in 1..(n + 1) <=> i \in 1..n \/ i = n + 1
  BY <1>1
<1>3. On(t) = On(s) \cup {Reset}
  <2>1. ASSUME NEW m PROVE m \in On(t) <=> m \in On(s) \/ m = Reset
    BY <1>1, <1>2 DEF On, n
  <2> QED BY <2>1
<1>4. OneRequest(s) => OneRequest(t)
  BY <1>1, <1>2, Kinds DEF OneRequest, n
<1>5. NoRequest(s) => NoRequest(t)
  BY <1>1, <1>2, Kinds DEF NoRequest, n
<1> QED BY <1>3, <1>4, <1>5 DEF t

\* No message, and a single one.
LEMMA FewMessages ==
  /\ On(<< >>) = {} /\ NoRequest(<< >>) /\ OneRequest(<< >>)
  /\ \A m : On(<< m >>) = {m} /\ OneRequest(<< m >>)
<1>1. \A m : Len(<< m >>) = 1 /\ << m >>[1] = m
  OBVIOUS
<1>2. 1..0 = {} /\ Len(<< >>) = 0 /\ \A i : i \in 1..1 <=> i = 1
  OBVIOUS
<1> QED BY <1>1, <1>2 DEF On, NoRequest, OneRequest

\* The messages under way.
LEMMA UnderWayIs ==
  UnderWay = pending \cup On(tx) /\ UnderWay' = pending' \cup On(tx')
  BY DEF UnderWay, On

\* What is late of them.
LEMMA LateIs ==
  /\ \A w : w \in LateWrites <=> \E r \in UnderWay : IsLate(r) /\ w = WriteOf(r)
  /\ \A w : w \in LateWrites' <=> \E r \in UnderWay' : IsLate(r)' /\ w = WriteOf(r)
  BY DEF LateWrites, WriteOf

\* A request that waits for its answer is that of the running call.
LEMMA OnlyOwn ==
  ASSUME LineInv, pc \in {"write", "read", "answer"}
  PROVE  UnderWay \subseteq {op} /\ LateWrites = {}
<1>1. UnderWay \subseteq {op}
  BY FewMessages, UnderWayIs DEF LineInv, Still, AtRead, AtAnswer, Asked
<1> QED BY <1>1, LateIs DEF IsLate

\* What is late does not change as long as the same requests are under way, for a call of
\* which the same can be said.
LEMMA SameLate ==
  ASSUME \A r : IsRequest(r) => (r \in UnderWay <=> r \in UnderWay'),
         \A r \in UnderWay : IsRequest(r) => IsLate(r)' = IsLate(r)
  PROVE  LateWrites' = LateWrites
<1>1. \A r : IsLate(r) \/ IsLate(r)' => IsRequest(r)
  BY DEF IsLate, IsRequest
<1>2. \A w : w \in LateWrites' <=> w \in LateWrites
  BY <1>1, LateIs
<1> QED BY <1>2

\* One request less is one late write less, or none.
LEMMA LessLate ==
  ASSUME NEW r, UNCHANGED << mem, Status, op, result, buf, SeenNow, AppliedNow, pc >>,
         UnderWay' \subseteq UnderWay,
         \A u \in UnderWay : IsRequest(u) => u = r \/ u \in UnderWay'
  PROVE  Register!RegNext \/ UNCHANGED Register!regvars
<1>1. \A u : IsLate(u)' = IsLate(u) /\ (IsLate(u) => IsRequest(u))
  BY DEF IsLate, IsRequest
<1>2. LateWrites' \subseteq LateWrites
  BY <1>1, LateIs
<1>3. \A w \in LateWrites : w = WriteOf(r) \/ w \in LateWrites'
  BY <1>1, LateIs
<1>4. CASE LateWrites' = LateWrites
  BY <1>4, Stutters
<1>5. CASE LateWrites' # LateWrites
  <2>1. WriteOf(r) \in LateWrites /\ LateWrites' = LateWrites \ {WriteOf(r)}
    BY <1>2, <1>3, <1>5
  <2> QED BY <2>1, Forgets
<1> QED BY <1>4, <1>5


-----------------------------------------------------------------------------
(* Steps of the client *)

Early == {"renegotiate", "reset", "sync"}

\* Whose the requests are stays so when only the running call adds its own.
LEMMA OwnKept ==
  ASSUME TypeOK, OwnRequest, UNCHANGED op,
         \A r \in UnderWay' : IsRequest(r) => r \in UnderWay \/ (r = op /\ pc' \notin Early),
         pc' \in Early => pc \in Early
  PROVE  OwnRequest'
<1>1. op.id \in Nat
  BY Kinds, Constants DEF TypeOK
<1>2. \A r \in UnderWay' : IsRequest(r) => r.id <= op.id
  BY <1>1 DEF OwnRequest
<1>3. pc' \in Early => \A r \in UnderWay' : IsRequest(r) => r.id < op.id
  BY DEF OwnRequest, Early
<1> QED BY <1>2, <1>3 DEF OwnRequest, Early

\* As long as the running call has not written its request, every request is late or a read.
LEMMA EarlyLate ==
  ASSUME TypeOK, OwnRequest, pc \in Early, NEW r \in UnderWay, IsRequest(r), UNCHANGED op
  PROVE  r.id # op.id /\ IsLate(r) = (r.kind = "set") /\ IsLate(r)' = (r.kind = "set")
<1>1. r.id < op.id
  BY DEF OwnRequest, Early
<1>2. op.id \in Int /\ r.id \in Int
  <2>1. r \in Operations
    BY UnderWayIs, Kinds DEF On, TypeOK
  <2> QED BY <2>1, Kinds, Constants DEF TypeOK
<1>3. r.id # op.id
  BY <1>1, <1>2
<1> QED BY <1>3 DEF IsLate

\* Nothing under way changes.
LEMMA SameUnderWay ==
  ASSUME TypeOK, RefInv, UNCHANGED << op, tx, pending >>, pc' \in Early => pc \in Early
  PROVE  RefInv' /\ UnderWay' = UnderWay
<1>1. UnderWay' = UnderWay
  BY UnderWayIs
<1>2. OwnRequest'
  BY <1>1, OwnKept DEF RefInv
<1> QED BY <1>1, <1>2 DEF RefInv, Single

\* A RESET is put on the line.
LEMMA ResetAdded ==
  ASSUME TypeOK, RefInv, pc \in Early, UNCHANGED << op, pending >>, tx' = Append(tx, Reset)
  PROVE  RefInv' /\ (pc' # "idle" => LateWrites' = LateWrites)
<1>1. tx \in Seq(Messages)
  BY DEF TypeOK, Messages
<1>2. UnderWay' = UnderWay \cup {Reset}
  BY <1>1, OneMoreReset, UnderWayIs
<1>3. \A r : IsRequest(r) => (r \in UnderWay <=> r \in UnderWay')
  BY <1>2, Kinds
<1>4. Single'
  BY <1>1, OneMoreReset DEF RefInv, Single
<1>5. OwnRequest'
  BY <1>3, OwnKept DEF RefInv
<1>6. LateWrites' = LateWrites
  <2>1. \A r \in UnderWay : IsRequest(r) => IsLate(r)' = IsLate(r)
    BY EarlyLate DEF RefInv
  <2> QED BY <1>3, <2>1, SameLate
<1> QED BY <1>4, <1>5, <1>6 DEF RefInv

\* The running call puts its request on the line.
LEMMA RequestAdded ==
  ASSUME TypeOK, LineInv, RefInv, pc = "write", pc' \notin Early, UNCHANGED << op, pending >>,
         tx' = Append(tx, op)
  PROVE  /\ RefInv' /\ UnderWay' = {op}
         /\ pc' # "idle" => LateWrites' = {}
<1>1. tx = << >> /\ pending = {}
  BY DEF LineInv, Still
<1>2. tx' = << op >> /\ pending' = {}
  BY <1>1, OneElement
<1>3. UnderWay' = {op} /\ Single'
  BY <1>2, FewMessages, UnderWayIs DEF Single
<1>4. OwnRequest'
  BY <1>3, OwnKept DEF RefInv
<1>5. pc' # "idle" => ~IsLate(op)'
  BY DEF IsLate
<1> QED BY <1>3, <1>4, <1>5, LateIs DEF RefInv

\* A step within a call, or a negotiation that is repeated, is nothing to the registers.
LEMMA Unseen ==
  ASSUME UNCHANGED << op, mem, result, buf, seen, applied, LateWrites >>,
         pc = "idle" <=> pc' = "idle", pc = "renegotiate" <=> pc' = "renegotiate"
  PROVE  UNCHANGED Register!regvars
<1>1. UNCHANGED << Status, SeenNow, AppliedNow >>
  BY DEF Status, SeenNow, AppliedNow
<1> QED BY <1>1, Stutters

\* A retry or a step to the next await.
LEMMA Goes ==
  ASSUME TypeOK, RefInv, UNCHANGED << op, tx, pending, mem, result, buf, seen, applied >>,
         pc \notin {"idle", "renegotiate"}, pc' \notin {"idle", "renegotiate"},
         pc' \in Early => pc \in Early
  PROVE  RefInv' /\ UNCHANGED Register!regvars
<1>1. RefInv' /\ UnderWay' = UnderWay
  BY SameUnderWay
<1>2. \A r : IsLate(r)' = IsLate(r)
  BY DEF IsLate
<1>3. LateWrites' = LateWrites
  BY <1>1, <1>2, SameLate
<1> QED BY <1>1, <1>3, Unseen

\* The end of a call that fails, at any of its awaits.
LEMMA Ends ==
  ASSUME TypeOK, LineInv, RefInv, pc # "idle", pc' = "idle", result' = "err", buf' = NoData,
         UNCHANGED << op, mem, pending >>, Flushed
  PROVE  RefInv' /\ Register!RegNext
<1>1. RegEnd("err") /\ Status # "idle"
  BY DEF RegEnd, Status, SeenNow, AppliedNow
<1>2. CASE pc \in Early
  <2>1. CASE UNCHANGED tx
    <3>1. RefInv' /\ UnderWay' = UnderWay
      BY <2>1, SameUnderWay DEF Early
    <3>2. \A r \in UnderWay : IsRequest(r) => IsLate(r)' = IsLate(r)
      BY <1>2, EarlyLate DEF RefInv
    <3>3. LateWrites' = LateWrites
      BY <3>1, <3>2, SameLate
    <3> QED BY <1>1, <3>1, <3>3, Fails
  <2>2. CASE tx' = Append(tx, Reset)
    <3>1. tx \in Seq(Messages)
      BY DEF TypeOK, Messages
    <3>2. RefInv'
      BY <1>2, <2>2, ResetAdded
    <3>3. \A r : IsRequest(r) => (r \in UnderWay <=> r \in UnderWay')
      BY <2>2, <3>1, OneMoreReset, UnderWayIs, Kinds
    <3>4. \A r \in UnderWay : IsRequest(r) => IsLate(r)' = IsLate(r)
      BY <1>2, EarlyLate DEF RefInv
    <3>5. LateWrites' = LateWrites
      BY <3>3, <3>4, SameLate
    <3> QED BY <1>1, <3>2, <3>5, Fails
  <2> QED BY <1>2, <2>1, <2>2 DEF Flushed, Early
<1>3. CASE pc \notin Early
  <2>1. pc \in {"write", "read", "answer"}
    BY <1>3 DEF TypeOK, Early
  <2>2. UnderWay \subseteq {op} /\ LateWrites = {}
    BY <2>1, OnlyOwn
  <2>3. RefInv' /\ UnderWay' \subseteq {op}
    <3>1. CASE UNCHANGED tx
      BY <2>2, <3>1, SameUnderWay DEF Early
    <3>2. CASE pc = "write" /\ tx' = Append(tx, op)
      BY <3>2, RequestAdded DEF Early
    <3> QED BY <1>3, <3>1, <3>2 DEF Flushed, Early
  <2>4. \/ LateWrites' = {}
        \/ op.kind = "set" /\ LateWrites' = {WriteOf(op)}
    <3>1. \A w \in LateWrites' : w = WriteOf(op) /\ op.kind = "set"
      BY <2>3, LateIs DEF IsLate
    <3> QED BY <3>1
  <2> QED BY <1>1, <2>2, <2>3, <2>4, Fails
<1> QED BY <1>2, <1>3

\* The end of a call that succeeds: its operation has been carried out.
LEMMA EndsWell ==
  ASSUME SafeInv, RefInv, EndInv', pc \in {"read", "answer"}, pc' = "idle", result' = "ok",
         UNCHANGED << op, mem, tx, pending, seen, applied >>
  PROVE  RefInv' /\ Register!RegNext
<1>1. RefInv' /\ LateWrites = {}
  BY SameUnderWay, OnlyOwn DEF SafeInv, Early
<1>2. LateWrites' = {}
  <2>1. UnderWay' = {}
    BY FewMessages, UnderWayIs DEF EndInv
  <2> QED BY <2>1, LateIs
<1>3. RegEnd("ok") /\ Status = "running" /\ SeenNow = seen /\ AppliedNow = applied
  BY DEF RegEnd, Status, SeenNow, AppliedNow, SafeInv, TypeOK
<1>4. \/ op.kind = "get" /\ buf' \in SeenNow
      \/ op.kind = "set" /\ AppliedNow /\ buf' = NoData
  <2>1. op.kind \in {"get", "set"}
    BY Kinds DEF SafeInv, TypeOK
  <2> QED BY <1>3, <2>1 DEF EndInv
<1> QED BY <1>1, <1>2, <1>3, <1>4, Succeeds

\* The steps of the client.
LEMMA ClientImplements ==
  ASSUME SafeInv, RefInv, ClientStep
  PROVE  RefInv' /\ (Register!RegNext \/ UNCHANGED Register!regvars)
<1> USE DEF SafeInv
<1>1. CASE Negotiate
  <2>1. /\ pc \in Early /\ tx' = Append(tx, Reset) /\ pc' \in {"reset", "sync"}
        /\ UNCHANGED << op, result, buf, mem, pending, applied >>
    BY <1>1 DEF Negotiate, Early, controller
  <2>2. RefInv' /\ LateWrites' = LateWrites
    BY <2>1, ResetAdded
  <2>3. CASE pc = "renegotiate"
    <3>1. Status = "waiting" /\ Status' = "running" /\ UNCHANGED AppliedNow
      BY <2>1, <2>3 DEF Status, AppliedNow
    <3>2. SeenNow' = IF op'.kind = "get" THEN {mem[op'.addr]} ELSE {}
      <4>1. op.kind = "get" => seen' = {mem[op.addr]}
        BY <1>1, <2>3 DEF Negotiate
      <4>2. op.kind = "set" => seen' = seen /\ seen = {}
        BY <1>1 DEF Negotiate, SeenInv
      <4>3. op.kind \in {"get", "set"}
        BY Kinds DEF TypeOK
      <4> QED BY <2>1, <4>1, <4>2, <4>3 DEF SeenNow
    <3> QED BY <2>1, <2>2, <3>1, <3>2, Connects DEF RegRun
  <2>4. CASE pc = "reset"
    <3>1. seen' = seen /\ pc' = "sync"
      BY <1>1, <2>4 DEF Negotiate
    <3> QED BY <2>1, <2>2, <2>4, <3>1, Unseen
  <2> QED BY <1>1, <2>3, <2>4 DEF Negotiate
<1>2. CASE AwaitSync
  <2>1. /\ pc = "sync" /\ pc' \in {"sync", "write"}
        /\ UNCHANGED << op, tx, pending, mem, result, buf, seen, applied >>
    BY <1>2 DEF AwaitSync, Purge, controller, history
  <2> QED BY <2>1, Goes DEF Early
<1>3. CASE WriteRequest
  <2>1. /\ pc = "write" /\ pc' \in {"read", "answer"} /\ tx' = Append(tx, op)
        /\ UNCHANGED << op, pending, mem, result, buf, seen, applied >>
    BY <1>3 DEF WriteRequest, controller, history
  <2>2. RefInv' /\ LateWrites' = {}
    BY <2>1, RequestAdded DEF Early
  <2>3. LateWrites = {}
    BY <2>1, OnlyOwn
  <2> QED BY <2>1, <2>2, <2>3, Unseen
<1>4. CASE ReadAnswer
  <2>1. pc = "read" /\ UNCHANGED << op, tx, pending, mem, seen, applied >>
    BY <1>4 DEF ReadAnswer, controller, history
  <2>2. \/ pc' = "write" /\ UNCHANGED << result, buf >>
        \/ pc' = "idle" /\ result' = "ok"
    BY <1>4 DEF ReadAnswer, Return
  <2>3. EndInv'
    BY EndClient
  <2> QED BY <2>1, <2>2, <2>3, Goes, EndsWell DEF Early
<1>5. CASE ReadDone
  <2>1. pc = "answer" /\ UNCHANGED << op, tx, pending, mem, seen, applied >>
    BY <1>5 DEF ReadDone, controller, history
  <2>2. \/ pc' = "write" /\ UNCHANGED << result, buf >>
        \/ pc' = "idle" /\ result' = "ok"
    BY <1>5 DEF ReadDone, Return
  <2>3. EndInv'
    BY EndClient
  <2> QED BY <2>1, <2>2, <2>3, Goes, EndsWell DEF Early
<1>6. CASE ReadClosed
  BY <1>6, Ends DEF ReadClosed, Return, line, controller, Flushed
<1> QED BY <1>1, <1>2, <1>3, <1>4, <1>5, <1>6 DEF ClientStep

\* I/O errors and dropped futures.
LEMMA FailImplements ==
  ASSUME SafeInv, RefInv, IoError \/ Cancel
  PROVE  RefInv' /\ (Register!RegNext \/ UNCHANGED Register!regvars)
<1>1. pc # "idle" /\ Flushed /\ UNCHANGED << op, mem, pending, seen, applied >>
  BY DEF IoError, Cancel, Flushed, controller, history
<1>2. \/ pc' = "idle" /\ result' = "err" /\ buf' = NoData
      \/ pc = "renegotiate" /\ UNCHANGED << pc, result, buf >>
  BY DEF IoError, Cancel, Return
<1>3. CASE pc' = "idle"
  BY <1>1, <1>2, <1>3, Ends DEF SafeInv
<1>4. CASE pc = "renegotiate" /\ UNCHANGED << pc, result, buf >>
  <2>1. CASE UNCHANGED tx
    <3>1. RefInv' /\ UnderWay' = UnderWay
      BY <1>1, <1>4, <2>1, SameUnderWay DEF SafeInv
    <3>2. \A r : IsLate(r)' = IsLate(r)
      BY <1>1, <1>4 DEF IsLate
    <3>3. LateWrites' = LateWrites
      BY <3>1, <3>2, SameLate
    <3> QED BY <1>1, <1>4, <3>1, <3>3, Unseen
  <2>2. CASE tx' = Append(tx, Reset)
    <3>1. RefInv' /\ LateWrites' = LateWrites
      BY <1>1, <1>4, <2>2, ResetAdded DEF SafeInv, Early
    <3> QED BY <1>1, <1>4, <3>1, Unseen
  <2> QED BY <1>1, <1>4, <2>1, <2>2 DEF Flushed
<1> QED BY <1>2, <1>3, <1>4

\* A new call: every request under way is of an earlier one.
LEMMA CallImplements ==
  ASSUME SafeInv, RefInv, NEW o \in Operations, o.id = op.id + 1, Call(o)
  PROVE  RefInv' /\ Register!RegNext
<1>1. /\ pc = "idle" /\ op.id < MaxCalls /\ op' = o /\ pc' \in {"reset", "renegotiate"}
      /\ result' = "none" /\ buf' = NoData /\ applied' = FALSE
      /\ seen' = IF o.kind = "get" THEN {mem[o.addr]} ELSE {}
      /\ UNCHANGED << tx, pending, mem >>
  BY DEF Call, line, controller
<1>2. UnderWay' = UnderWay
  BY <1>1, UnderWayIs
<1>3. \A r \in UnderWay : IsRequest(r) => r.id \in Nat /\ r.id < o.id
  <2>1. ASSUME NEW r \in UnderWay, IsRequest(r) PROVE r.id \in Nat /\ r.id < o.id
    <3>1. r \in Operations
      BY <2>1, UnderWayIs, Kinds DEF On, SafeInv, TypeOK
    <3>2. r.id \in Nat /\ op.id \in Nat /\ r.id <= op.id
      BY <2>1, <3>1, Kinds, Constants DEF SafeInv, TypeOK, RefInv, OwnRequest
    <3> QED BY <3>2
  <2> QED BY <2>1
<1>4. o.id \in Nat
  BY Kinds, Constants
<1>5. RefInv'
  BY <1>1, <1>2, <1>3, <1>4 DEF RefInv, Single, OwnRequest
<1>6. LateWrites' = LateWrites
  <2>1. \A r \in UnderWay : IsRequest(r) => IsLate(r)' = IsLate(r)
    BY <1>1, <1>3, <1>4 DEF IsLate
  <2> QED BY <1>2, <2>1, SameLate
<1>7. Status = "idle" /\ UNCHANGED AppliedNow
  BY <1>1 DEF Status, AppliedNow
<1>8. (Status' = "waiting" /\ UNCHANGED SeenNow) \/ RegRun
  BY <1>1 DEF Status, SeenNow, RegRun
<1>9. /\ o \in [kind : {"get", "set"}, addr : Addr, data : Val \cup {NoData}, id : 0..MaxCalls]
      /\ o.kind = "get" => o.data = NoData
      /\ o.kind = "set" => o.data \in Val
  BY Kinds DEF Operations
<1> QED BY <1>1, <1>5, <1>6, <1>7, <1>8, <1>9, Invokes

-----------------------------------------------------------------------------
(* Steps of the controller and the line *)

\* A message that is taken off the line, or a request that is dropped.
LEMMA LessUnderWay ==
  ASSUME TypeOK, RefInv, UNCHANGED << pc, op >>, UnderWay' \subseteq UnderWay, Single'
  PROVE  RefInv'
  BY OwnKept DEF RefInv

\* What the registers see when only the line changes.
LEMMA Kept ==
  ASSUME UNCHANGED << pc, op, seen, applied >>
  PROVE  UNCHANGED << Status, SeenNow, AppliedNow >>
  BY DEF Status, SeenNow, AppliedNow

\* Beside the request that the controller works on there is no other.
LEMMA PendingIs ==
  ASSUME TypeOK, RefInv, NEW r \in pending
  PROVE  pending = {r} /\ r \in Operations /\ IsRequest(r) /\ \A u \in On(tx) : ~IsRequest(u)
<1>1. r \in Operations
  BY DEF TypeOK
<1>2. pending = {r} /\ NoRequest(tx)
  BY DEF RefInv, Single
<1> QED BY <1>1, <1>2, Kinds DEF On, NoRequest

\* The first message is taken off the line.
LEMMA FirstTaken ==
  ASSUME TypeOK, RefInv, tx # << >>, tx' = Tail(tx)
  PROVE  /\ On(tx) = {Head(tx)} \cup On(tx') /\ Head(tx) \in Messages
         /\ OneRequest(tx') /\ (IsRequest(Head(tx)) \/ NoRequest(tx) => NoRequest(tx'))
<1>1. tx \in Seq(Messages) /\ OneRequest(tx)
  BY DEF TypeOK, Messages, RefInv, Single
<1> QED BY <1>1, LessOne

\* RESET makes the controller drop its request.
LEMMA ReceiveResetImplements ==
  ASSUME SafeInv, RefInv, ReceiveReset
  PROVE  RefInv' /\ (Register!RegNext \/ UNCHANGED Register!regvars)
<1> USE DEF SafeInv
<1>1. /\ UNCHANGED << pc, op, result, buf, mem, seen, applied >>
      /\ tx # << >> /\ Head(tx) = Reset /\ tx' = Tail(tx) /\ pending' = {}
  BY DEF ReceiveReset, client, history
<1>2. UnderWay' \subseteq UnderWay /\ On(tx) = {Reset} \cup On(tx') /\ Single'
  BY <1>1, FirstTaken, UnderWayIs DEF Single
<1>3. RefInv'
  BY <1>1, <1>2, LessUnderWay
<1>4. PICK r : pending \subseteq {r}
  BY DEF RefInv, Single
<1>5. \A u \in UnderWay : IsRequest(u) => u = r \/ u \in UnderWay'
  BY <1>2, <1>4, UnderWayIs, Kinds
<1> QED BY <1>1, <1>2, <1>3, <1>5, Kept, LessLate

\* The controller begins to work on a request.
LEMMA ReceiveRequestImplements ==
  ASSUME SafeInv, RefInv, ReceiveRequest
  PROVE  RefInv' /\ (Register!RegNext \/ UNCHANGED Register!regvars)
<1> USE DEF SafeInv
<1>1. /\ UNCHANGED << pc, op, result, buf, mem, seen, applied >>
      /\ tx # << >> /\ Head(tx) # Reset /\ tx' = Tail(tx) /\ pending' = {Head(tx)}
  BY DEF ReceiveRequest, client, history
<1>2. /\ On(tx) = {Head(tx)} \cup On(tx') /\ OneRequest(tx') /\ NoRequest(tx')
      /\ IsRequest(Head(tx))
  BY <1>1, FirstTaken, Kinds DEF Messages
<1>3. pending = {}
  <2>1. ASSUME NEW r \in pending PROVE FALSE
    BY <1>2, PendingIs
  <2> QED BY <2>1
<1>4. UnderWay' = UnderWay /\ Single'
  BY <1>1, <1>2, <1>3, UnderWayIs DEF Single
<1>5. RefInv'
  BY <1>1, <1>4, LessUnderWay
<1> QED BY <1>1, <1>4, <1>5, Kept, LessLate

\* The controller answers a read.
LEMMA AnswerReadImplements ==
  ASSUME SafeInv, RefInv, AnswerRead
  PROVE  RefInv' /\ (Register!RegNext \/ UNCHANGED Register!regvars)
<1> USE DEF SafeInv
<1>1. UNCHANGED << pc, op, result, buf, tx, mem, seen, applied >> /\ pending' = {}
  BY DEF AnswerRead, client, history
<1>2. PICK r \in pending : TRUE
  BY DEF AnswerRead
<1>3. /\ UnderWay' \subseteq UnderWay /\ Single'
      /\ \A u \in UnderWay : IsRequest(u) => u = r \/ u \in UnderWay'
  BY <1>1, <1>2, PendingIs, UnderWayIs DEF RefInv, Single
<1>4. RefInv'
  BY <1>1, <1>3, LessUnderWay
<1> QED BY <1>1, <1>3, <1>4, Kept, LessLate

\* The controller carries out a write: that of the running set, or a late one.
LEMMA AnswerWriteImplements ==
  ASSUME SafeInv, RefInv, AnswerWrite
  PROVE  RefInv' /\ (Register!RegNext \/ UNCHANGED Register!regvars)
<1> USE DEF SafeInv
<1>1. UNCHANGED << pc, op, result, buf, tx >> /\ pending' = {}
  BY DEF AnswerWrite, client
<1>2. PICK r \in pending : /\ r.kind = "set" /\ Put(r.addr, r.data)
                           /\ applied' = (applied \/ (op.kind = "set" /\ r.id = op.id))
  BY DEF AnswerWrite
<1>3. UnderWay = {r} \cup On(tx) /\ UnderWay' = On(tx) /\ Single'
  BY <1>1, PendingIs, UnderWayIs DEF RefInv, Single
<1>4. RefInv'
  BY <1>1, <1>3, LessUnderWay
<1>5. LateWrites' = {} /\ LateWrites \subseteq {WriteOf(r)}
  <2>1. \A u \in On(tx) : ~IsLate(u) /\ ~IsLate(u)'
    BY PendingIs DEF IsLate, IsRequest
  <2> QED BY <1>3, <2>1, LateIs
<1>6. RegPut(r.addr, r.data) /\ UNCHANGED Status
  <2>1. SeenNow' = IF Status = "running" /\ op.kind = "get" /\ op.addr = r.addr
                     THEN SeenNow \cup {r.data} ELSE SeenNow
    BY <1>1, <1>2 DEF Put, Status, SeenNow
  <2> QED BY <1>1, <1>2, <2>1 DEF RegPut, Put, Status
<1>7. CASE IsLate(r)
  <2>1. WriteOf(r) \in LateWrites /\ LateWrites' = LateWrites \ {WriteOf(r)}
    BY <1>3, <1>5, <1>7, LateIs
  <2>2. WriteOf(r).addr = r.addr /\ WriteOf(r).data = r.data
    BY DEF WriteOf
  <2>3. UNCHANGED AppliedNow
    BY <1>1, <1>2, <1>7 DEF AppliedNow, IsLate, TypeOK
  <2>4. Register!RegNext
    BY <1>1, <1>6, <2>1, <2>2, <2>3, AppliesLate
  <2> QED BY <1>4, <2>4
<1>8. CASE ~IsLate(r)
  <2>1. pc # "idle" /\ r.id = op.id
    BY <1>2, <1>8 DEF IsLate
  <2>2. pc \notin Early
    BY <1>1, <1>3, <2>1, EarlyLate, PendingIs DEF RefInv
  <2>3. UnderWay \subseteq {op} /\ LateWrites = {}
    BY <2>1, <2>2, OnlyOwn DEF TypeOK, Early
  <2>4. r = op
    BY <1>3, <2>3
  <2>5. Status = "running" /\ AppliedNow'
    BY <1>1, <1>2, <2>1, <2>2, <2>4 DEF Status, AppliedNow, Early
  <2>6. Register!RegNext
    BY <1>1, <1>2, <1>5, <1>6, <2>3, <2>4, <2>5, Applies DEF AppliedNow
  <2> QED BY <1>4, <2>6
<1> QED BY <1>7, <1>8

\* A message is lost.
LEMMA LoseImplements ==
  ASSUME SafeInv, RefInv, Lose
  PROVE  RefInv' /\ (Register!RegNext \/ UNCHANGED Register!regvars)
<1> USE DEF SafeInv
<1>1. /\ UNCHANGED << pc, op, result, buf, mem, pending, seen, applied >>
      /\ tx # << >> /\ tx' = Tail(tx)
  BY DEF Lose, client, controller, history
<1>2. On(tx) = {Head(tx)} \cup On(tx') /\ Single'
  BY <1>1, FirstTaken DEF RefInv, Single
<1>3. UnderWay' \subseteq UnderWay /\ \A u \in UnderWay : u = Head(tx) \/ u \in UnderWay'
  BY <1>1, <1>2, UnderWayIs
<1>4. RefInv'
  BY <1>1, <1>2, <1>3, LessUnderWay
<1> QED BY <1>1, <1>3, <1>4, Kept, LessLate

\* SYNCs, time and the end of the connection are nothing to the registers.
LEMMA NothingSeen ==
  ASSUME TypeOK, RefInv, UNCHANGED << pc, op, result, buf, mem, tx, pending, seen, applied >>
  PROVE  RefInv' /\ UNCHANGED Register!regvars
<1>1. RefInv' /\ UnderWay' = UnderWay
  BY SameUnderWay
<1>2. LateWrites' = LateWrites
  BY <1>1, SameLate DEF IsLate
<1> QED BY <1>1, <1>2, Unseen

\* The controller changes a content.
LEMMA ChangeImplements ==
  ASSUME SafeInv, RefInv, Change
  PROVE  RefInv' /\ (Register!RegNext \/ UNCHANGED Register!regvars)
<1>1. UNCHANGED << pc, op, result, buf, tx, pending, applied >>
  BY DEF Change, client, line
<1>2. PICK a \in Addr, v \in Val : Put(a, v)
  BY DEF Change
<1>3. RefInv' /\ UnderWay' = UnderWay
  BY <1>1, SameUnderWay DEF SafeInv
<1>4. LateWrites' = LateWrites
  BY <1>1, <1>3, SameLate DEF IsLate
<1>5. RegPut(a, v) /\ UNCHANGED << Status, AppliedNow >>
  BY <1>1, <1>2 DEF RegPut, Put, Status, SeenNow, AppliedNow
<1> QED BY <1>1, <1>3, <1>4, <1>5, Varies

-----------------------------------------------------------------------------
(* The refinement *)

\* The beginning.
LEMMA InitImplements == Init => RefInv /\ Register!RegInit
<1> SUFFICES ASSUME Init PROVE RefInv /\ Register!RegInit
  OBVIOUS
<1>1. /\ tx = << Reset >> /\ pending = {} /\ pc = "idle" /\ buf = NoData /\ result = "none"
      /\ op \in [kind : {"get"}, addr : Addr, data : {NoData}, id : {0}]
      /\ mem \in [Addr -> Val]
  BY DEF Init
<1>2. UnderWay = {Reset}
  BY <1>1, FewMessages, UnderWayIs
<1>3. RefInv
  BY <1>1, <1>2, FewMessages, Kinds DEF RefInv, Single, OwnRequest
<1>4. LateWrites = {}
  BY <1>2, Kinds, LateIs DEF IsLate
<1>5. Register!RegInit
  BY <1>1, <1>4 DEF Register!RegInit, Register!NoVal, NoData, Status, SeenNow, AppliedNow,
     LateWrites, WriteOf
<1> QED BY <1>3, <1>5

\* Every step.
LEMMA NextImplements ==
  ASSUME Spaced
  PROVE  SafeInv /\ RefInv /\ [Next]_vars => RefInv' /\ [Register!RegNext]_Register!regvars
<1> SUFFICES ASSUME SafeInv, RefInv, [Next]_vars
             PROVE  RefInv' /\ (Register!RegNext \/ UNCHANGED Register!regvars)
  OBVIOUS
<1> USE DEF SafeInv
<1>1. CASE UNCHANGED vars
  BY <1>1, NothingSeen DEF vars, client, line, controller, history
<1>2. CASE ControllerStep
  <2>1. CASE SendSync
    BY <2>1, NothingSeen DEF SendSync, client, history
  <2> QED BY <1>2, <2>1, ReceiveResetImplements, ReceiveRequestImplements, AnswerReadImplements,
             AnswerWriteImplements DEF ControllerStep
<1>3. CASE Tick \/ Stall \/ Close
  BY <1>3, NothingSeen DEF Tick, Stall, Close, client, line, controller, history
<1>4. ASSUME NEW a \in Addr, Get(a) \/ \E v \in Val : Set(a, v)
      PROVE  RefInv' /\ Register!RegNext
  <2>1. PICK o \in Operations : o.id = op.id + 1 /\ Call(o)
    BY <1>4, NewCall DEF Get, Set, Call, Operation
  <2> QED BY <2>1, CallImplements
<1> QED BY <1>1, <1>2, <1>3, <1>4, ClientImplements, FailImplements, LoseImplements,
           ChangeImplements DEF Next

\* VControl::get and VControl::set over VS1 do what RemoteRegister promises, whatever fails,
\* is slow, lost or dropped: a write of a failed set is never carried out after a later
\* success.
THEOREM Vs1ImplementsRegister == ASSUME Spaced PROVE Spec => ImplementsRegister
<1>1. SafeInv /\ RefInv /\ [Next]_vars => RefInv' /\ [Register!RegNext]_Register!regvars
  BY NextImplements
<1>2. Init => RefInv /\ Register!RegInit
  BY InitImplements
<1> QED BY Vs1Invariance, <1>1, <1>2, PTL DEF Spec, ImplementsRegister, Register!RegSpec

=============================================================================
