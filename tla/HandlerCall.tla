----------------------------- MODULE HandlerCall -----------------------------
(* What the live runtime takes a call of the execution handler to be, one   *)
(* for each idempotency key: the guardrail admits the intent or refuses it, *)
(* an admitted one may send its transaction, once, and the call answers or  *)
(* throws.  It answers with a success only after its transaction went out.  *)
EXTENDS Naturals

CONSTANT Key
VARIABLES phase, sends

Phase == {"called", "refused", "executing", "sent", "succeeded", "failed", "thrown"}
UnderWay == {"refused", "executing", "sent"}

Init == phase = [k \in Key |-> "called"] /\ sends = [k \in Key |-> 0]

Becomes(k, next) == phase' = [phase EXCEPT ![k] = next]

Admit(k) == phase[k] = "called" /\ Becomes(k, "executing") /\ UNCHANGED sends
Refuse(k) == phase[k] = "called" /\ Becomes(k, "refused") /\ UNCHANGED sends

Send(k) ==
  /\ phase[k] = "executing" /\ Becomes(k, "sent")
  /\ sends[k] = 0 /\ sends' = [sends EXCEPT ![k] = 1]

Succeed(k) == phase[k] = "sent" /\ Becomes(k, "succeeded") /\ UNCHANGED sends
Fail(k) == phase[k] \in UnderWay /\ Becomes(k, "failed") /\ UNCHANGED sends
Throw(k) == phase[k] \in UnderWay /\ Becomes(k, "thrown") /\ UNCHANGED sends

Next ==
  \E k \in Key : Admit(k) \/ Refuse(k) \/ Send(k) \/ Succeed(k) \/ Fail(k) \/ Throw(k)

Spec == Init /\ [][Next]_<<phase, sends>>
=============================================================================
