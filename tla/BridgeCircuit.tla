---------------------------- MODULE BridgeCircuit ----------------------------
(***************************************************************************)
(* A bridge to a connector: the retry loop of its requests and the circuit *)
(* breaker they share (appfs/cli/src/cmd/appfs/bridge_resilience.rs, and   *)
(* the same loop in http_bridge_adapter.rs and grpc_bridge_adapter.rs).    *)
(*                                                                         *)
(* A bridge belongs to one runtime, which makes one request at a time.     *)
(* Time goes on at any moment.  An attempt is answered, rejected by a      *)
(* status that is not worth a retry, fails in a way that is, or its answer *)
(* cannot be decoded.                                                      *)
(***************************************************************************)
EXTENDS Naturals

CONSTANTS
    MaxRetries,     \* max_retries
    MaxU32,         \* u32::MAX
    Threshold,      \* circuit_breaker_failures; 0 turns the breaker off
    Cooldown        \* circuit_breaker_cooldown

\* BridgeRuntimeOptions after normalize.
BridgeRuntimeOptions ==
    /\ MaxU32 \in Nat \ {0}
    /\ MaxRetries \in 0..MaxU32 /\ Threshold \in 0..MaxU32 /\ Cooldown \in Nat \ {0}

\* max_retries.saturating_add(1)
MaxAttempts == IF MaxRetries < MaxU32 THEN MaxRetries + 1 ELSE MaxU32

VARIABLES
    now,        \* the clock
    failures,   \* consecutive_failures
    openUntil,  \* open_until
    pc,         \* "idle", "attempt" or "backoff"
    attempt,    \* attempts of the request under way
    requests,   \* history: requests sent since the last answer or opening
    failed      \* history: when a failure was last recorded

vars == <<now, failures, openUntil, pc, attempt, requests, failed>>

Never == 0      \* no Instant: an open circuit ends after the start

Init ==
    /\ now = 0 /\ failures = 0 /\ openUntil = Never
    /\ pc = "idle" /\ attempt = 0
    /\ requests = 0 /\ failed = 0

-----------------------------------------------------------------------------

Tick == now' = now + 1 /\ UNCHANGED <<failures, openUntil, pc, attempt, requests, failed>>

\* check_open, before anything is sent: a request is refused, or forgets an expired circuit.
Open == openUntil # Never /\ now < openUntil
Refuse == pc = "idle" /\ Open /\ UNCHANGED vars
Send ==
    /\ pc = "idle" /\ ~Open
    /\ openUntil' = Never
    /\ pc' = "attempt" /\ attempt' = 1
    /\ requests' = requests + 1
    /\ UNCHANGED <<now, failures, failed>>

\* The request returns.
Return == pc' = "idle" /\ attempt' = 0 /\ UNCHANGED now

\* record_success: an answer, or a rejection that shows the connector is there.
Answered ==
    /\ pc = "attempt"
    /\ failures' = 0 /\ openUntil' = Never
    /\ requests' = 0
    /\ Return /\ UNCHANGED failed

\* record_failure.
record_failure ==
    \/ Threshold = 0 /\ UNCHANGED <<failures, openUntil, requests, failed>>
    \/ Threshold # 0 /\ Open /\ UNCHANGED <<failures, openUntil, requests, failed>>
    \/ /\ Threshold # 0 /\ ~Open
       /\ failed' = now
       /\ IF failures + 1 < Threshold
            THEN failures' = failures + 1 /\ openUntil' = Never /\ UNCHANGED requests
            ELSE failures' = 0 /\ openUntil' = now + Cooldown /\ requests' = 0

\* A failure that may pass: tried again after a pause, or recorded.
Retry ==
    /\ pc = "attempt" /\ attempt < MaxAttempts
    /\ pc' = "backoff"
    /\ UNCHANGED <<now, failures, openUntil, attempt, requests, failed>>
GiveUp == pc = "attempt" /\ attempt >= MaxAttempts /\ record_failure /\ Return
Resend ==
    /\ pc = "backoff"
    /\ pc' = "attempt" /\ attempt' = attempt + 1
    /\ UNCHANGED <<now, failures, openUntil, requests, failed>>

\* The answer does not decode: not tried again.
DecodeError == pc = "attempt" /\ record_failure /\ Return

Next == Tick \/ Refuse \/ Send \/ Answered \/ Retry \/ GiveUp \/ Resend \/ DecodeError

Spec == Init /\ [][Next]_vars

-----------------------------------------------------------------------------
(* Properties.                                                             *)

\* A connector that is down is asked at most Threshold requests of MaxAttempts attempts each
\* before the circuit opens, whatever the failures are and however the clock runs.
LoadBounded == /\ attempt <= MaxAttempts
               /\ Threshold # 0 => requests <= Threshold

\* The circuit refuses requests for the cooldown after the failure that opened it and never
\* longer: no failure in between prolongs it.
CooldownEnds == openUntil # Never => failed <= now /\ openUntil = failed + Cooldown

\* While the circuit is open nothing is sent, not even by a request already under way.
NothingSentWhileOpen == [][Open => UNCHANGED <<attempt, requests>>]_vars
=============================================================================
