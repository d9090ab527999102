-------------------------- MODULE RemoteRegister --------------------------
(***************************************************************************)
(* What VControl::get and VControl::set (src/src/vcontrol.rs) promise: the *)
(* controller is a set of registers at the far end of an unreliable call.  *)
(*                                                                         *)
(*   - a successful get returns a content the register had while the       *)
(*     command ran;                                                        *)
(*   - a successful set has taken effect;                                  *)
(*   - a failed set may have taken effect or not, and may still take       *)
(*     effect later, but never after a later set has taken effect or a     *)
(*     later call has succeeded.                                           *)
(*                                                                         *)
(* Module Session implements it on a line without latency.                 *)
(***************************************************************************)
EXTENDS Integers, FiniteSets

CONSTANTS
  Addr,       \* the registers
  Constant,   \* those that never change
  Val,        \* their contents
  MaxCalls    \* bound: how many calls are made

ASSUME RegisterAssumption ==
  /\ Constant \subseteq Addr
  /\ MaxCalls \in Nat

NoVal == << >>

VARIABLES
  mem,      \* the registers
  status,   \* "idle"; "waiting" for the connection; "running"
  call,     \* the call in progress, or the last one
  outcome,  \* how the last call ended: "none", "ok" or "err"
  answer,   \* what the last call returned, if it was a successful get
  seen,     \* the contents of the register since the get began to run
  applied,  \* has the running set taken effect?
  late      \* writes of failed calls that may still take effect

regvars == << mem, status, call, outcome, answer, seen, applied, late >>

CallType == [kind : {"get", "set"}, addr : Addr, data : Val \cup {NoVal}, id : 0..MaxCalls]
WriteType == [addr : Addr, data : Val, id : 0..MaxCalls]
Write(c) == [addr |-> c.addr, data |-> c.data, id |-> c.id]

RegInit ==
  /\ mem \in [Addr -> Val]
  /\ status = "idle"
  /\ call \in [kind : {"get"}, addr : Addr, data : {NoVal}, id : {0}]
  /\ outcome = "none" /\ answer = NoVal
  /\ seen = {} /\ applied = FALSE /\ late = {}

\* The command begins to run: from now on the content of the register counts.
Run(c) ==
  /\ status' = "running"
  /\ seen' = IF c.kind = "get" THEN {mem[c.addr]} ELSE {}

Invoke ==
  /\ status = "idle" /\ call.id < MaxCalls
  /\ call' \in CallType /\ call'.id = call.id + 1
  /\ call'.kind = "get" => call'.data = NoVal
  /\ call'.kind = "set" => call'.addr \notin Constant /\ call'.data \in Val
  /\ outcome' = "none" /\ answer' = NoVal
  /\ \/ status' = "waiting" /\ UNCHANGED seen
     \/ Run(call')
  /\ UNCHANGED << mem, applied, late >>

Connected ==
  /\ status = "waiting"
  /\ Run(call)
  /\ UNCHANGED << mem, call, outcome, answer, applied, late >>

Put(a, v) ==
  /\ mem' = [mem EXCEPT ![a] = v]
  /\ seen' = IF status = "running" /\ call.kind = "get" /\ call.addr = a
               THEN seen \cup {v} ELSE seen

\* Mutant: an earlier write may still be under way.
ApplyEarly ==
  /\ status = "running" /\ call.kind = "set"
  /\ Put(call.addr, call.data)
  /\ applied' = TRUE
  /\ UNCHANGED << status, call, outcome, answer, late >>

\* The running set takes effect, once no earlier write can any more.
Apply ==
  /\ status = "running" /\ call.kind = "set" /\ late = {}
  /\ Put(call.addr, call.data)
  /\ applied' = TRUE
  /\ UNCHANGED << status, call, outcome, answer, late >>

\* A write of a failed call takes effect after all, or never will.
ApplyLate ==
  \E w \in late :
    /\ Put(w.addr, w.data)
    /\ late' = late \ {w}
    /\ UNCHANGED << status, call, outcome, answer, applied >>

Forget ==
  \E w \in late :
    /\ late' = late \ {w}
    /\ UNCHANGED << mem, status, call, outcome, answer, seen, applied >>

\* The controller changes a register by itself.
Vary ==
  /\ \E a \in Addr \ Constant, v \in Val : Put(a, v)
  /\ UNCHANGED << status, call, outcome, answer, applied, late >>

End(how) ==
  /\ status' = "idle" /\ outcome' = how
  /\ seen' = {} /\ applied' = FALSE
  /\ UNCHANGED << mem, call >>

Succeed ==
  /\ status = "running" /\ late = {}
  /\ \/ call.kind = "get" /\ answer' \in seen
     \/ call.kind = "set" /\ applied /\ answer' = NoVal
  /\ End("ok")
  /\ UNCHANGED late

Fail ==
  /\ status # "idle"
  /\ answer' = NoVal
  /\ \/ UNCHANGED late
     \/ call.kind = "set" /\ late' = late \cup {Write(call)}
  /\ End("err")

RegNext ==
  Invoke \/ Connected \/ Apply \/ ApplyLate \/ Forget \/ Vary \/ Succeed \/ Fail

RegSpec == RegInit /\ [][RegNext]_regvars

=============================================================================
