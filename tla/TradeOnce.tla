------------------------------ MODULE TradeOnce ------------------------------
(* What the idempotency repository promises the live runtime: an intent's   *)
(* key is claimed before its transaction may go out, a transaction goes out *)
(* at most once per key, and a key whose outcome is recorded is closed.     *)
EXTENDS Naturals

CONSTANT Key
VARIABLES claimed, closed, sends

Init == claimed = {} /\ closed = {} /\ sends = [k \in Key |-> 0]

Claim(k) == k \notin claimed /\ claimed' = claimed \cup {k} /\ UNCHANGED <<closed, sends>>

Send(k) ==
  /\ k \in claimed \ closed /\ sends[k] = 0
  /\ sends' = [sends EXCEPT ![k] = 1]
  /\ UNCHANGED <<claimed, closed>>

Close(k) == k \in claimed \ closed /\ closed' = closed \cup {k} /\ UNCHANGED <<claimed, sends>>

Next == \E k \in Key : Claim(k) \/ Send(k) \/ Close(k)

Spec == Init /\ [][Next]_<<claimed, closed, sends>>
=============================================================================
