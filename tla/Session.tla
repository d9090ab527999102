------------------------------ MODULE Session ------------------------------
(***************************************************************************)
(* A connection as src/src/vcontrol.rs keeps it, over the VS2 protocol:    *)
(* VControl::connect with Protocol::detect (src/src/protocol.rs), then     *)
(* VControl::get and VControl::set, each of which first renegotiates when  *)
(* the previous call failed.  The `connected` flag is all that stands      *)
(* between a failed call and the bytes it left on the line.                *)
(*                                                                         *)
(* The protocol client, the line and the controller are those of Vs2.      *)
(***************************************************************************)
EXTENDS Vs2

CONSTANTS
  IdAddr,      \* DEVICE_ID, read by connect
  F0Addr,      \* DEVICE_ID_F0, read by connect
  MaxCalls     \* bound: how many times the caller calls get or set

ASSUME SessionAssumption ==
  /\ IdAddr \in Constant
  /\ F0Addr \in Constant
  /\ MaxCalls \in Nat

VARIABLES
  stage,         \* where the VControl method in progress is
  task,          \* the get or set the caller asked for
  connected,     \* VControl::connected
  reinitialized, \* the local of renegotiate
  calls          \* how many calls the caller has made

sessionvars == << stage, task, connected, reinitialized, calls >>
vars == << vs2vars, sessionvars >>

Connecting == {"detect", "device_id", "device_id_f0"}
Calling == {"negotiate", "reinitialize", "command"}
Over == {"vs1", "failed"}  \* the session goes on with VS1, or connect failed
Stages == Connecting \cup Calling \cup Over \cup {"ready"}

Ids == 0..MaxCalls

Operations ==
  [kind : {"negotiate"}, addr : {0}, data : {NoData}, id : Ids]
    \cup [kind : {"get"}, addr : Addr, data : {NoData}, id : Ids]
    \cup [kind : {"set"}, addr : Addr, data : Val, id : Ids]

Messages ==
  [m : {"RESET", "START", "ACK", "NACK"}, fn : {0}, addr : {0}, data : {NoData}, id : {0}]
    \cup [m : {"telegram"}, fn : {VirtualRead}, addr : Addr, data : {NoData}, id : Ids]
    \cup [m : {"telegram"}, fn : {VirtualWrite}, addr : Addr, data : Val, id : Ids]

Tasks ==
  [kind : {"get"}, addr : Addr, data : {NoData}]
    \cup [kind : {"set"}, addr : Addr, data : Val]

ClientOK ==
  /\ pc \in {"idle", "write", "status", "reset", "sync", "start", "started",
             "leadin", "length", "body", "done"}
  /\ op \in Operations
  /\ pc \in {"write", "status"} => op.kind # "negotiate"
  /\ result \in {"none", "ok", "err"}
  /\ buf \in Seq(Byte)
  /\ msgLen \in Byte

LineOK == rx \in Seq(Byte) /\ tx \in Seq(Messages)

ControllerOK ==
  /\ mode \in {"sync", "vs2"}
  /\ mem \in [Addr -> Val]
  /\ events \in 0..MaxEvents
  /\ seen \subseteq Val
  /\ applied \in BOOLEAN

MethodOK ==
  /\ stage \in Stages
  /\ task \in Tasks
  /\ connected \in BOOLEAN
  /\ reinitialized \in BOOLEAN
  /\ calls \in Ids

TypeOK == ClientOK /\ LineOK /\ ControllerOK /\ MethodOK

Task(kind, a, data) == [kind |-> kind, addr |-> a, data |-> data]

\* connect begins with Protocol::detect, which tries VS2 first.  What an
\* earlier program left on the line is there still.
Init ==
  /\ pc = "reset" /\ op = Operation("negotiate", 0, NoData, 0)
  /\ result = "none" /\ buf = NoData /\ msgLen = 0
  /\ rx \in {<< >>, << SYNC >>, << ACK >>, << SYNC, ACK >>}
  /\ tx = << >>
  /\ mode \in {"sync", "vs2"}
  /\ mem \in [Addr -> Val]
  /\ events = 0 /\ seen = {} /\ applied = FALSE
  /\ stage = "detect" /\ task = Task("get", F0Addr, NoData)
  /\ connected = FALSE /\ reinitialized = FALSE /\ calls = 0

-----------------------------------------------------------------------------
(* VControl::connect *)

\* Protocol::detect: VS2 when its negotiation succeeded.
Detected ==
  /\ stage = "detect" /\ pc = "done"
  /\ IF result = "ok"
       THEN stage' = "device_id" /\ connected' = TRUE /\ BeginGet(IdAddr, 0)
       ELSE stage' = "vs1" /\ UNCHANGED << connected, client, history >>
  /\ UNCHANGED << line, controller, events, task, reinitialized, calls >>

\* DEVICE_ID.get(..).await?
DeviceIdRead ==
  /\ stage = "device_id" /\ pc = "done"
  /\ IF result = "ok"
       THEN stage' = "device_id_f0" /\ BeginGet(F0Addr, 0)
       ELSE stage' = "failed" /\ UNCHANGED << client, history >>
  /\ UNCHANGED << line, controller, events, task, connected, reinitialized, calls >>

\* An error of DEVICE_ID_F0.get is logged and dropped, `connected` stays
\* TRUE, and renegotiate therefore returns at once.  Or Device::detect
\* knows no such device.
DeviceIdF0Read ==
  /\ stage = "device_id_f0" /\ pc = "done"
  /\ stage' \in {"ready", "failed"}
  /\ pc' = "idle"
  /\ UNCHANGED << op, result, buf, msgLen, line, controller, events, history,
                  task, connected, reinitialized, calls >>

-----------------------------------------------------------------------------
(* VControl::get and VControl::set *)

BeginTask(t, id) ==
  IF t.kind = "get" THEN BeginGet(t.addr, id) ELSE BeginSet(t.addr, t.data, id)

\* The caller calls get or set; renegotiate begins, or finds the connection
\* good and the command is sent.
Call(t) ==
  /\ stage = "ready" /\ calls < MaxCalls
  /\ calls' = calls + 1
  /\ task' = t
  /\ IF connected
       THEN stage' = "command" /\ BeginTask(t, calls + 1)
       ELSE stage' = "negotiate" /\ BeginNegotiate(calls + 1)
  /\ reinitialized' = FALSE
  /\ UNCHANGED << line, controller, events, connected >>

Get(a) == Call(Task("get", a, NoData))
Set(a, v) == Call(Task("set", a, v))

Return ==
  /\ stage' = "ready" /\ pc' = "idle"
  /\ UNCHANGED << op, result, buf, msgLen, history >>

\* renegotiate: the loop over Protocol::negotiate.
Renegotiated ==
  /\ stage = "negotiate" /\ pc = "done"
  /\ \/ /\ result = "ok"
        /\ connected' = TRUE
        /\ stage' = "command" /\ BeginTask(task, calls)
     \/ /\ result = "err" /\ ~reinitialized
        /\ stage' = "reinitialize" /\ UNCHANGED << client, history, connected >>
     \/ /\ result = "err" /\ reinitialized
        /\ Return /\ UNCHANGED connected
  /\ UNCHANGED << line, controller, events, task, reinitialized, calls >>

\* Optolink::reinitialize: a TCP stream is kept as it is, a serial port is
\* opened again, which may drop what has arrived, or kept after ten failures.
Reinitialize ==
  /\ stage = "reinitialize"
  /\ \E k \in 0..Len(rx) : rx' = SubSeq(rx, k + 1, Len(rx))
  /\ reinitialized' = TRUE
  /\ stage' = "negotiate" /\ BeginNegotiate(calls)
  /\ UNCHANGED << tx, controller, events, task, connected, calls >>

\* It fails: renegotiate returns the error of the negotiation.
ReinitializeFails ==
  /\ stage = "reinitialize"
  /\ Happens("reopen")
  /\ Return
  /\ UNCHANGED << line, controller, task, connected, reinitialized, calls >>

\* Mutant: an error leaves `connected` as it is.
CommandReturnsConnected ==
  /\ stage = "command" /\ pc = "done"
  /\ Return
  /\ UNCHANGED << line, controller, events, task, connected, reinitialized, calls >>

\* An error of Command::get or Command::set ends the connection, whether it is
\* one of the protocol or of the value (a mode, bounds or format that does not
\* fit, see module Command: it leaves line and controller as an I/O error at
\* the first or after the last await does).
CommandReturns ==
  /\ stage = "command" /\ pc = "done"
  /\ connected' = (connected /\ result = "ok")
  /\ Return
  /\ UNCHANGED << line, controller, events, task, reinitialized, calls >>

\* The caller drops the future at an await: nothing of VControl runs again,
\* `connected` keeps its value.
Cancel ==
  /\ stage \in Calling /\ (pc # "done" \/ stage = "reinitialize")
  /\ Happens("cancel")
  /\ Consumed
  /\ Return
  /\ UNCHANGED << tx, controller, task, connected, reinitialized, calls >>

-----------------------------------------------------------------------------

Progress == ClientStep /\ UNCHANGED sessionvars
Environment == EnvironmentStep /\ UNCHANGED sessionvars

CallerStep ==
  \E a \in Addr : Get(a) \/ (a \notin Constant /\ \E v \in Val : Set(a, v))

Method ==
  \/ Detected \/ DeviceIdRead \/ DeviceIdF0Read
  \/ Renegotiated \/ Reinitialize \/ CommandReturns

Next == Progress \/ Environment \/ CallerStep \/ Method \/ ReinitializeFails \/ Cancel

Spec == Init /\ [][Next]_vars

\* The runtime polls a ready future, the controller answers what reaches it
\* and keeps sending SYNC while it waits for START.  No disturbance has to
\* happen and no caller has to call.
Fairness ==
  /\ WF_vars(Progress)
  /\ WF_vars(Method)
  /\ WF_vars(ControllerStep /\ UNCHANGED sessionvars)
  /\ WF_vars(SendSync /\ UNCHANGED sessionvars)

FairSpec == Spec /\ Fairness

-----------------------------------------------------------------------------
(* What a session promises its caller *)

Succeeds(kind) == stage = "command" /\ pc = "done" /\ result = "ok" /\ op.kind = kind

Writes == {i \in 1..Len(tx) : tx[i].m = "telegram" /\ tx[i].fn = VirtualWrite}

\* A get that succeeds returns a content its address had while it ran: an
\* answer an earlier, failed call left on the line is never taken for it.
AnswerIsCurrent == Succeeds("get") => buf \in seen

\* A set that succeeds has changed the controller's memory in this call.
WriteTookEffect == Succeeds("set") => applied

\* The write of a failed set never takes effect after a later call succeeded.
NoLateWrite == Succeeds("get") \/ Succeeds("set") => Writes = {}

\* A get never returns the content of another address, whatever the line
\* delays and whichever calls were dropped.
OwnAddress == Succeeds("get") /\ op.addr \in Constant => buf = mem[op.addr]

\* After a success nothing but SYNC is left on the line, so the next call
\* needs no negotiation.  DEVICE_ID_F0 is exempt: connect drops its error and
\* keeps `connected`, and the answer it left serves the next get of it.
Quiet ==
  stage = "ready" /\ connected /\ result = "ok" /\ op.addr # F0Addr =>
    /\ \A i \in 1..Len(rx) : rx[i] = SYNC
    /\ \A i \in 1..Len(tx) : tx[i].m # "telegram"

\* read_exact waits for a telegram longer than any the controller sends, since
\* its length byte was disturbed, and a controller in VS2 mode has no more to say.
Hangs == pc = "body" /\ msgLen > 5 + BlockLen /\ mode = "vs2"

\* Every get and set returns, and so does connect, or a disturbed length byte
\* makes it wait for ever.
CallReturns == stage \in Calling ~> (stage = "ready" \/ []Hangs)
ConnectReturns == stage \in Connecting ~> (stage \notin Connecting \/ []Hangs)

-----------------------------------------------------------------------------
(* The contents for which OwnAddress can be promised *)

\* An answer to a get seems to begin at the i-th byte of s.
Opens(s, i) ==
  /\ i + 3 <= Len(s)
  /\ s[i] = LEADIN /\ s[i + 1] = 5 + BlockLen /\ s[i + 2] = Response /\ s[i + 3] = VirtualRead

\* What may become of telegram t on the line: a byte of it changes, or its checksum does.
Places(t) == {i \in 1..Len(t) : "garble" \in EnvKinds \/ ("checksum" \in EnvKinds /\ i = Len(t))}
Disturbed(t) == UNION {{[t EXCEPT ![i] = b] : b \in Noise} : i \in Places(t)}

\* What the controller may send for a telegram.
ReadTelegrams == {Telegram(Response, VirtualRead, a, BlockLen, v) : a \in Addr, v \in Val}
WriteTelegrams == {Telegram(Response, VirtualWrite, a, BlockLen, NoData) : a \in Addr}
ErrorTelegrams ==
  {Telegram(Error, fn, a, 1, << 1 >>) : fn \in {VirtualRead, VirtualWrite}, a \in Addr}
Telegrams ==
  ReadTelegrams \cup WriteTelegrams \cup ErrorTelegrams
    \cup UNION {Disturbed(t) : t \in ReadTelegrams}

\* No telegram has an answer to a get inside: the client, which has lost its place in
\* the stream, cannot take address, content and checksum of one for the beginning of another.
NoFalseAnswer == \A t \in Telegrams : \A i \in 2..Len(t) : ~Opens(t, i)

=============================================================================
