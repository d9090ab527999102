-------------------------- MODULE SetpointHistory --------------------------
(***************************************************************************)
(* What the promises of RemoteRegister mean to a caller that alone changes *)
(* some registers, the setpoints: it reads its own writes.  The history    *)
(* variable `possible` is what such a caller may expect a setpoint to      *)
(* contain, counting that a failed set may have taken effect.              *)
(***************************************************************************)
EXTENDS RemoteRegister

CONSTANT Setpoint  \* the registers only the caller changes

ASSUME SetpointAssumption == Setpoint \subseteq Addr \ Constant

VARIABLE possible

vars == << regvars, possible >>

Init == RegInit /\ possible = [a \in Addr |-> {mem[a]}]

Setting == call.kind = "set"

InvokeH ==
  /\ Invoke
  /\ possible' = IF call'.kind = "set"
                   THEN [possible EXCEPT ![call'.addr] = @ \cup {call'.data}]
                   ELSE possible

SucceedH ==
  /\ Succeed
  /\ possible' = IF Setting THEN [possible EXCEPT ![call.addr] = {call.data}] ELSE possible

VaryH ==
  /\ Vary
  /\ \A a \in Setpoint : mem'[a] = mem[a]
  /\ UNCHANGED possible

Unexpected == (Connected \/ Apply \/ ApplyLate \/ Forget \/ Fail) /\ UNCHANGED possible

Next == InvokeH \/ SucceedH \/ VaryH \/ Unexpected

Spec == Init /\ [][Next]_vars

\* A successful get of a setpoint returns what the last successful set wrote,
\* or what a set that failed since then meant to write.
ReadYourWrites ==
  outcome = "ok" /\ status = "idle" /\ call.kind = "get" /\ call.addr \in Setpoint =>
    answer \in possible[call.addr]

\* After a successful set the setpoint holds what was set, and goes on to.
SetpointHolds ==
  outcome = "ok" /\ status = "idle" /\ call.kind = "set" /\ call.addr \in Setpoint =>
    mem[call.addr] = call.data

-----------------------------------------------------------------------------
(* The inductive invariant *)

TypeOK ==
  /\ mem \in [Addr -> Val]
  /\ status \in {"idle", "waiting", "running"}
  /\ call \in CallType
  /\ outcome \in {"none", "ok", "err"}
  /\ seen \subseteq Val
  /\ applied \in BOOLEAN
  /\ late \subseteq WriteType
  /\ possible \in [Addr -> SUBSET (Val \cup {NoVal})]

\* Nothing but possible contents is or will be in a setpoint.
ContentsPossible ==
  /\ \A a \in Setpoint : mem[a] \in possible[a]
  /\ \A w \in late : w.addr \in Setpoint => w.data \in possible[w.addr]

RunningGet ==
  status = "running" /\ call.kind = "get" /\ call.addr \in Setpoint =>
    seen \subseteq possible[call.addr]

CalledSet ==
  status # "idle" /\ call.kind = "set" =>
    call.data \in Val /\ call.data \in possible[call.addr]

Applied ==
  applied => /\ status = "running" /\ call.kind = "set" /\ late = {}
             /\ call.addr \in Setpoint => mem[call.addr] = call.data

\* After a success no write is left to take effect.
Settled == outcome = "ok" => status = "idle" /\ late = {}

IInv ==
  /\ TypeOK /\ ContentsPossible /\ RunningGet /\ CalledSet /\ Applied /\ Settled
  /\ ReadYourWrites /\ SetpointHolds

=============================================================================
