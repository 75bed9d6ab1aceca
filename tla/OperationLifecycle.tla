------------------------- MODULE OperationLifecycle -------------------------
(***************************************************************************)
(* What libertined promises a client of its D-Bus interface: a request is  *)
(* answered with an operation in flight, either a new one or one that is   *)
(* shared with an earlier request; an operation ends once, as finished or  *)
(* as failed, keeps that outcome for as long as it can be polled, and can  *)
(* be polled until it has ended.  The promise has one gap: an operation    *)
(* that was just withdrawn from the bus may still be handed out.           *)
(***************************************************************************)
CONSTANT Operations

VARIABLES
  ops,     \* what polling an operation shows
  reply    \* the operation the last request was answered with

States == {"none", "running", "finished", "failed", "withdrawn", "gone"}

Init == ops = [o \in Operations |-> "none"] /\ reply \notin Operations

Become(o, s) == ops' = [ops EXCEPT ![o] = s]

\* A request starts an operation.
Begin(o) == ops[o] = "none" /\ Become(o, "running") /\ reply' = o

\* A request is answered with the operation of an earlier one.
Share(o) == ops[o] \in {"running", "withdrawn"} /\ reply' = o /\ UNCHANGED ops

End(o) ==
  /\ ops[o] = "running"
  /\ \E s \in {"finished", "failed"} : Become(o, s)
  /\ UNCHANGED reply

\* The operation leaves the bus.
Withdraw(o) == ops[o] \in {"finished", "failed"} /\ Become(o, "withdrawn") /\ UNCHANGED reply

\* From here on it is not handed out any more.
Expire(o) == ops[o] = "withdrawn" /\ Become(o, "gone") /\ UNCHANGED reply

Next == \E o \in Operations : Begin(o) \/ Share(o) \/ End(o) \/ Withdraw(o) \/ Expire(o)

Spec == Init /\ [][Next]_<<ops, reply>>
=============================================================================
