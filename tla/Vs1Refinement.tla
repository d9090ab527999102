--------------------------- MODULE Vs1Refinement ---------------------------
(***************************************************************************)
(* Vs1 implements RemoteRegister, as the VS2 session does.                 *)
(***************************************************************************)
EXTENDS Vs1

\* A write that is still under way though its call is over, or of an
\* earlier call.
IsLate(r) == r.kind = "set" /\ ~(pc # "idle" /\ r.id = op.id)

UnderWay == pending \cup {tx[i] : i \in 1..Len(tx)}

Register == INSTANCE RemoteRegister WITH
  Constant <- {},
  status <- IF pc = "idle" THEN "idle" ELSE IF pc = "renegotiate" THEN "waiting" ELSE "running",
  call <- op,
  outcome <- result,
  answer <- buf,
  seen <- IF pc \in {"idle", "renegotiate"} THEN {} ELSE seen,
  applied <- pc # "idle" /\ applied,
  late <- {[addr |-> r.addr, data |-> r.data, id |-> r.id] : r \in {u \in UnderWay : IsLate(u)}}

\* VControl::get and VControl::set over VS1 promise what they promise over VS2:
\* a successful get returns a current content, a successful set has taken
\* effect, and the write of a failed set never takes effect after a later
\* success.
ImplementsRegister == Register!RegSpec

=============================================================================
