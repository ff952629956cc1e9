---------------------------- MODULE MarketIntake ----------------------------
(***************************************************************************)
(* The market data of a paper cycle: fetchMarketData tries the adapters in *)
(* order (bot/src/adapters/orchestrator/adapter-orchestrator.ts), skipping *)
(* those whose circuit breaker is open                                     *)
(* (bot/src/governance/circuit-breaker.ts), and an adapter's client        *)
(* retries its request (bot/src/adapters/http-resilience.ts) under a       *)
(* circuit breaker of its own.  createPaperRuntime configures both         *)
(* breakers alike.                                                         *)
(*                                                                         *)
(* Cycles exclude each other, so one fetch is under way at a time.         *)
(***************************************************************************)
EXTENDS Integers, Sequences

CONSTANTS
  Adapters,       \* the adapters in their order
  Threshold,      \* failureThreshold: failures in a row that open a breaker
  RecoveryTime,   \* recoveryTimeMs: a breaker open for so long lets a probe through
  MaxRetries,     \* retries of one request
  MaxTime, MaxTries   \* bounds of the model; failed attempts of an adapter

Adapter == {Adapters[i] : i \in 1 .. Len(Adapters)}

VARIABLES
  now,
  clientBreaker, runtimeBreaker,   \* per adapter: the health each of the two breakers keeps
  fetching,          \* fetchMarketData: its place, the adapter it is at, the attempts made
  tries,             \* history: per adapter, when its attempts failed since one succeeded
  refused            \* history: a client refused an attempt that the runtime let through

breakers == <<clientBreaker, runtimeBreaker>>
vars == <<now, breakers, fetching, tries, refused>>

Never == -1
Sound == [healthy |-> TRUE, failures |-> 0, since |-> Never]
Idle == [place |-> "idle", adapter |-> 1, attempt |-> 0]

At(place) == fetching.place = place
Current == Adapters[fetching.adapter]
Goto(place) == fetching' = [fetching EXCEPT !.place = place]

(* Mutant: a failed probe does not start another recovery time. *)
ReportedOnce(h, success) ==
  IF success THEN Sound
  ELSE LET n == h.failures + 1 IN
       [healthy |-> h.healthy /\ n < Threshold,
        failures |-> IF n > Threshold THEN Threshold ELSE n,
        since |-> IF n >= Threshold /\ h.since = Never THEN now ELSE h.since]

(* reportHealth; failures are counted up to the threshold. *)
Reported(h, success) ==
  IF success THEN Sound
  ELSE LET n == h.failures + 1 IN
       IF n >= Threshold THEN [healthy |-> FALSE, failures |-> Threshold, since |-> now]
       ELSE [h EXCEPT !.failures = n]

(* isHealthy: an open breaker answers yes again after the recovery time. *)
IsHealthy(h) == h.healthy \/ (h.since # Never /\ now - h.since >= RecoveryTime)

Begin ==
  /\ At("idle")
  /\ \A a \in Adapter : Len(tries[a]) < MaxTries
  /\ fetching' = [place |-> "next", adapter |-> 1, attempt |-> 0]
  /\ UNCHANGED <<now, breakers, tries, refused>>

(* The runtime's breaker is open: the next adapter. *)
Skip ==
  /\ At("next") /\ fetching.adapter <= Len(Adapters)
  /\ ~IsHealthy(runtimeBreaker[Current])
  /\ fetching' = [fetching EXCEPT !.adapter = @ + 1]
  /\ UNCHANGED <<now, breakers, tries, refused>>

(* adapter.fetch(): requireHealthy of the client's breaker, then the request *)
Fetch ==
  /\ At("next") /\ fetching.adapter <= Len(Adapters)
  /\ IsHealthy(runtimeBreaker[Current])
  /\ IF IsHealthy(clientBreaker[Current])
     THEN fetching' = [fetching EXCEPT !.place = "request", !.attempt = 0] /\ UNCHANGED refused
     ELSE Goto("failed") /\ refused' = TRUE
  /\ UNCHANGED <<now, breakers, tries>>

(* A 429, a 5xx or an aborted request is tried again after a back-off. *)
Retry ==
  /\ At("request") /\ fetching.attempt < MaxRetries
  /\ fetching' = [fetching EXCEPT !.attempt = @ + 1]
  /\ UNCHANGED <<now, breakers, tries, refused>>

(* An answer that is not ok, an error, or the last retry failed *)
RequestFails ==
  /\ At("request")
  /\ clientBreaker' = [clientBreaker EXCEPT ![Current] = Reported(@, FALSE)]
  /\ Goto("failed")
  /\ UNCHANGED <<now, runtimeBreaker, tries, refused>>

RequestSucceeds ==
  /\ At("request")
  /\ clientBreaker' = [clientBreaker EXCEPT ![Current] = Reported(@, TRUE)]
  /\ Goto("received")
  /\ UNCHANGED <<now, runtimeBreaker, tries, refused>>

(* The data is fresh enough for the client and the runtime. *)
Accept ==
  /\ At("received")
  /\ runtimeBreaker' = [runtimeBreaker EXCEPT ![Current] = Reported(@, TRUE)]
  /\ tries' = [tries EXCEPT ![Current] = <<>>]
  /\ fetching' = Idle
  /\ UNCHANGED <<now, clientBreaker, refused>>

(* The answer is stale, or no market data: only the runtime calls it a      *)
(* failure.                                                                 *)
Unusable ==
  /\ At("received")
  /\ Goto("failed")
  /\ UNCHANGED <<now, breakers, tries, refused>>

Failed ==
  /\ At("failed")
  /\ runtimeBreaker' = [runtimeBreaker EXCEPT ![Current] = Reported(@, FALSE)]
  /\ tries' = [tries EXCEPT ![Current] = Append(@, now)]
  /\ fetching' = [fetching EXCEPT !.place = "next", !.adapter = @ + 1]
  /\ UNCHANGED <<now, clientBreaker, refused>>

(* No adapter is left: the cycle is blocked. *)
NoData ==
  /\ At("next") /\ fetching.adapter > Len(Adapters)
  /\ fetching' = Idle
  /\ UNCHANGED <<now, breakers, tries, refused>>

Tick ==
  /\ now < MaxTime /\ now' = now + 1
  /\ UNCHANGED <<breakers, fetching, tries, refused>>

Init ==
  /\ now = 0
  /\ clientBreaker = [a \in Adapter |-> Sound] /\ runtimeBreaker = [a \in Adapter |-> Sound]
  /\ fetching = Idle
  /\ tries = [a \in Adapter |-> <<>>] /\ refused = FALSE

Next ==
  \/ Begin \/ Skip \/ Fetch \/ Retry \/ RequestFails \/ RequestSucceeds
  \/ Accept \/ Unusable \/ Failed \/ NoData \/ Tick

Spec == Init /\ [][Next]_vars

-----------------------------------------------------------------------------
(* A failing adapter is let alone: after the failures that open its breaker *)
(* its attempts are at least the recovery time apart, whoever is asked in   *)
(* between.  And the client's breaker, which counts a stale answer as a     *)
(* success, never refuses what the runtime's lets through, so that a probe  *)
(* is always a request.                                                     *)
ProbesSpaced ==
  /\ ~refused
  /\ \A a \in Adapter : \A k \in Threshold .. Len(tries[a]) - 1 :
       tries[a][k + 1] - tries[a][k] >= RecoveryTime
=============================================================================
