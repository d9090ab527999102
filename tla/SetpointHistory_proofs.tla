----------------------- MODULE SetpointHistory_proofs -----------------------
(***************************************************************************)
(* Proofs that RemoteRegister lets a caller read its own writes: for every *)
(* set of registers and contents and every number of calls.                *)
(***************************************************************************)
EXTENDS SetpointHistory, TLAPS

USE DEF NoVal

\* IInv holds initially.
LEMMA InitIInv == Init => IInv
<1> SUFFICES ASSUME Init PROVE IInv
  OBVIOUS
<1>1. TypeOK
  <2>1. call \in CallType
    BY RegisterAssumption DEF Init, RegInit, CallType
  <2> QED
    BY <2>1 DEF Init, RegInit, TypeOK
<1>2. ContentsPossible
  BY SetpointAssumption DEF Init, RegInit, ContentsPossible
<1> QED
  BY <1>1, <1>2
  DEF Init, RegInit, IInv, RunningGet, CalledSet, Applied, Settled, ReadYourWrites,
      SetpointHolds

\* A new call keeps IInv: the writes that may still happen are those of failed sets.
LEMMA InvokeIInv == IInv /\ InvokeH => IInv'
<1> SUFFICES ASSUME IInv, InvokeH PROVE IInv'
  OBVIOUS
<1> USE RegisterAssumption, SetpointAssumption
<1>1. /\ status = "idle" /\ outcome' = "none" /\ mem' = mem /\ late' = late
      /\ applied' = applied /\ call' \in CallType
      /\ call'.kind = "set" => call'.addr \notin Constant /\ call'.data \in Val
      /\ \/ status' = "waiting" /\ seen' = seen
         \/ status' = "running" /\ seen' = IF call'.kind = "get" THEN {mem[call'.addr]} ELSE {}
  BY DEF InvokeH, Invoke, Run
<1>2. call'.addr \in Addr
  BY <1>1 DEF CallType
<1>3. \A a \in Addr : possible[a] \subseteq possible'[a]
  BY <1>2 DEF InvokeH, IInv, TypeOK
<1>4. TypeOK'
  BY <1>1, <1>2 DEF InvokeH, IInv, TypeOK, CallType
<1>5. ContentsPossible'
  BY <1>1, <1>3 DEF IInv, TypeOK, ContentsPossible
<1>6. RunningGet'
  BY <1>1, <1>2, <1>3 DEF IInv, TypeOK, RunningGet, ContentsPossible
<1>7. CalledSet'
  BY <1>1, <1>2 DEF InvokeH, IInv, TypeOK, CalledSet
<1>8. Applied' /\ Settled' /\ ReadYourWrites' /\ SetpointHolds'
  BY <1>1 DEF IInv, Applied, Settled, ReadYourWrites, SetpointHolds
<1> QED
  BY <1>4, <1>5, <1>6, <1>7, <1>8 DEF IInv

\* connect keeps IInv: it changes no register.
LEMMA ConnectedIInv == IInv /\ Connected /\ UNCHANGED possible => IInv'
<1> SUFFICES ASSUME IInv, Connected, UNCHANGED possible PROVE IInv'
  OBVIOUS
<1>1. call.addr \in Addr
  BY DEF IInv, TypeOK, CallType
<1> QED
  BY <1>1 DEF Connected, Run, IInv, TypeOK, CallType, ContentsPossible, RunningGet,
     CalledSet, Applied, Settled, ReadYourWrites, SetpointHolds

\* A set that takes effect during its call keeps IInv: it stores its own value.
LEMMA ApplyIInv == IInv /\ Apply /\ UNCHANGED possible => IInv'
<1> SUFFICES ASSUME IInv, Apply, UNCHANGED possible PROVE IInv'
  OBVIOUS
<1>1. call.addr \in Addr /\ call.data \in Val /\ call.data \in possible[call.addr]
  BY DEF Apply, IInv, TypeOK, CallType, CalledSet
<1>2. /\ status = "running" /\ call.kind = "set" /\ late = {} /\ late' = {}
      /\ mem' = [mem EXCEPT ![call.addr] = call.data] /\ seen' = seen /\ applied' = TRUE
      /\ UNCHANGED << status, call, outcome, answer >>
  BY DEF Apply, Put
<1>3. TypeOK'
  BY <1>1, <1>2 DEF IInv, TypeOK
<1>4. ContentsPossible' /\ Applied'
  BY <1>1, <1>2, SetpointAssumption DEF IInv, TypeOK, ContentsPossible, Applied
<1>5. RunningGet' /\ CalledSet' /\ Settled' /\ ReadYourWrites' /\ SetpointHolds'
  BY <1>2 DEF IInv, RunningGet, CalledSet, Settled, ReadYourWrites, SetpointHolds
<1> QED
  BY <1>3, <1>4, <1>5 DEF IInv

\* A failed set that takes effect late keeps IInv: its value is a possible one.
LEMMA ApplyLateIInv == IInv /\ ApplyLate /\ UNCHANGED possible => IInv'
<1> SUFFICES ASSUME IInv, UNCHANGED possible,
                    NEW w \in late, Put(w.addr, w.data), late' = late \ {w},
                    UNCHANGED << status, call, outcome, answer, applied >>
             PROVE  IInv'
  BY DEF ApplyLate
<1>1. w.addr \in Addr /\ w.data \in Val
  BY DEF IInv, TypeOK, WriteType
<1>2. w.addr \in Setpoint => w.data \in possible[w.addr]
  BY DEF IInv, ContentsPossible
<1>3. ~applied
  BY DEF IInv, Applied
<1>4. TypeOK'
  BY <1>1, <1>2 DEF Put, IInv, TypeOK
<1>5. ContentsPossible'
  BY <1>1, <1>2, SetpointAssumption DEF Put, IInv, TypeOK, ContentsPossible
<1>6. RunningGet'
  BY <1>2 DEF Put, IInv, RunningGet
<1>7. CalledSet' /\ Applied' /\ Settled' /\ ReadYourWrites' /\ SetpointHolds'
  BY <1>3 DEF IInv, CalledSet, Applied, Settled, ReadYourWrites, SetpointHolds
<1> QED
  BY <1>4, <1>5, <1>6, <1>7 DEF IInv

\* A failed set that will never take effect keeps IInv.
LEMMA ForgetIInv == IInv /\ Forget /\ UNCHANGED possible => IInv'
  BY DEF Forget, IInv, TypeOK, ContentsPossible, RunningGet, CalledSet, Applied, Settled,
     ReadYourWrites, SetpointHolds

\* A register the controller changes by itself keeps IInv: it is no setpoint.
LEMMA VaryIInv == IInv /\ VaryH => IInv'
<1> SUFFICES ASSUME IInv, UNCHANGED << status, call, outcome, answer, applied, late, possible >>,
                    NEW a \in Addr \ Constant, NEW v \in Val, Put(a, v),
                    \A b \in Setpoint : mem'[b] = mem[b]
             PROVE  IInv'
  BY DEF VaryH, Vary
<1> QED
  BY SetpointAssumption
  DEF Put, IInv, TypeOK, ContentsPossible, RunningGet, CalledSet, Applied, Settled,
      ReadYourWrites, SetpointHolds

\* A call that succeeds keeps IInv: a set leaves its own value as the only possible one.
LEMMA SucceedIInv == IInv /\ SucceedH => IInv'
<1> SUFFICES ASSUME IInv, SucceedH PROVE IInv'
  OBVIOUS
<1> USE SetpointAssumption
<1>1. /\ status = "running" /\ late = {} /\ late' = {} /\ status' = "idle" /\ outcome' = "ok"
      /\ seen' = {} /\ applied' = FALSE /\ mem' = mem /\ call' = call
      /\ \/ call.kind = "get" /\ answer' \in seen
         \/ call.kind = "set" /\ applied /\ answer' = NoVal
  BY DEF SucceedH, Succeed, End
<1>2. call.addr \in Addr /\ call \in CallType
  BY DEF IInv, TypeOK, CallType
<1>3. TypeOK'
  BY <1>1, <1>2 DEF SucceedH, Setting, IInv, TypeOK, CallType
<1>4. ContentsPossible'
  BY <1>1, <1>2 DEF SucceedH, Setting, IInv, TypeOK, ContentsPossible, Applied
<1>5. ReadYourWrites' /\ SetpointHolds'
  BY <1>1, <1>2 DEF SucceedH, Setting, IInv, RunningGet, Applied, ReadYourWrites, SetpointHolds
<1>6. RunningGet' /\ CalledSet' /\ Applied' /\ Settled'
  BY <1>1 DEF RunningGet, CalledSet, Applied, Settled
<1> QED
  BY <1>3, <1>4, <1>5, <1>6 DEF IInv

\* A call that fails keeps IInv: its value joins the possible ones.
LEMMA FailIInv == IInv /\ Fail /\ UNCHANGED possible => IInv'
<1> SUFFICES ASSUME IInv, Fail, UNCHANGED possible PROVE IInv'
  OBVIOUS
<1>1. /\ status # "idle" /\ status' = "idle" /\ outcome' = "err" /\ seen' = {}
      /\ applied' = FALSE /\ mem' = mem /\ call' = call
      /\ late' = late \/ (call.kind = "set" /\ late' = late \cup {Write(call)})
  BY DEF Fail, End
<1>2. call.addr \in Addr /\ call.id \in 0..MaxCalls
  BY DEF IInv, TypeOK, CallType
<1>3. call.kind = "set" =>
        /\ Write(call) \in WriteType
        /\ Write(call).data \in possible[Write(call).addr]
  BY <1>1, <1>2 DEF Write, WriteType, IInv, CalledSet
<1>4. TypeOK'
  BY <1>1, <1>3 DEF IInv, TypeOK
<1>5. ContentsPossible'
  BY <1>1, <1>3 DEF IInv, ContentsPossible
<1> QED
  BY <1>1, <1>4, <1>5
  DEF IInv, RunningGet, CalledSet, Applied, Settled, ReadYourWrites, SetpointHolds

\* Every step keeps IInv.
LEMMA NextIInv == IInv /\ [Next]_vars => IInv'
<1>1. IInv /\ UNCHANGED vars => IInv'
  BY DEF vars, regvars, IInv, TypeOK, ContentsPossible, RunningGet, CalledSet, Applied,
     Settled, ReadYourWrites, SetpointHolds
<1> QED
  BY <1>1, InvokeIInv, ConnectedIInv, ApplyIInv, ApplyLateIInv, ForgetIInv, VaryIInv,
     SucceedIInv, FailIInv
  DEF Next, Unexpected

(* The inductive invariant holds in every reachable state. *)
THEOREM Invariance == Spec => []IInv
  BY InitIInv, NextIInv, PTL DEF Spec

(* A get that VControl answers with Ok returns what the last successful    *)
(* set of that setpoint wrote, or what a set that failed since then meant  *)
(* to write.                                                               *)
THEOREM CallerReadsItsWrites == Spec => []ReadYourWrites
<1>1. IInv => ReadYourWrites
  BY DEF IInv
<1> QED
  BY <1>1, Invariance, PTL

(* What a set that VControl answers with Ok wrote stays in the setpoint    *)
(* until the next call: no write of an earlier, failed set follows it.     *)
THEOREM CallerKeepsSetpoint == Spec => []SetpointHolds
<1>1. IInv => SetpointHolds
  BY DEF IInv
<1> QED
  BY <1>1, Invariance, PTL

=============================================================================
