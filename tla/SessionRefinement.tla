------------------------- MODULE SessionRefinement -------------------------
(***************************************************************************)
(* Session implements RemoteRegister.                                      *)
(***************************************************************************)
EXTENDS Session

\* get and set are those of RemoteRegister: a call of it is running while
\* the command is on the line, its late writes are the telegrams of earlier
\* calls.
IsLate(i) == ~(stage = "command" /\ tx[i].id = op.id)

Register == INSTANCE RemoteRegister WITH
  status <- IF stage = "command" THEN "running"
            ELSE IF stage \in Calling THEN "waiting" ELSE "idle",
  call <- [kind |-> task.kind, addr |-> task.addr, data |-> task.data, id |-> calls],
  outcome <- IF stage = "ready" /\ calls > 0 THEN result ELSE "none",
  answer <- IF stage = "ready" /\ calls > 0 THEN buf ELSE NoData,
  seen <- IF stage = "command" THEN seen ELSE {},
  applied <- stage = "command" /\ applied,
  late <- {[addr |-> tx[i].addr, data |-> tx[i].data, id |-> tx[i].id] :
             i \in {j \in Writes : IsLate(j)}}

ImplementsRegister == Register!RegSpec

=============================================================================
