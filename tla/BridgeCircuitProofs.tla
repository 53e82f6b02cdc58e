------------------------- MODULE BridgeCircuitProofs -------------------------
(* Proofs about BridgeCircuit, for every choice of the options. *)
EXTENDS BridgeCircuit, TLAPS

\* The inductive invariant: a request under way has found the circuit closed, and what has
\* been sent since the last answer or opening is the failures recorded and the request itself.
BridgeInv ==
    /\ now \in Nat /\ failures \in Nat /\ openUntil \in Nat /\ attempt \in Nat
    /\ requests \in Nat /\ failed \in Nat
    /\ pc \in {"idle", "attempt", "backoff"}
    /\ pc # "idle" => openUntil = Never
    /\ attempt <= MaxAttempts
    /\ pc = "backoff" => attempt < MaxAttempts
    /\ Threshold # 0 => /\ failures < Threshold
                        /\ requests = failures + (IF pc = "idle" THEN 0 ELSE 1)
    /\ CooldownEnds

\* The invariant holds before the first request.
LEMMA InitInv == BridgeRuntimeOptions /\ Init => BridgeInv
BY DEF BridgeRuntimeOptions, Init, BridgeInv, MaxAttempts, Never, CooldownEnds

\* Every step of a request, an attempt or the clock keeps it.
LEMMA StepInv == BridgeRuntimeOptions /\ BridgeInv /\ [Next]_vars => BridgeInv'
<1> SUFFICES ASSUME BridgeRuntimeOptions, BridgeInv, [Next]_vars PROVE BridgeInv'
    OBVIOUS
<1> USE DEF BridgeRuntimeOptions, BridgeInv, MaxAttempts, Never, CooldownEnds
<1>1. CASE Tick
    BY <1>1 DEF Tick
<1>2. CASE Refuse \/ UNCHANGED vars
    BY <1>2 DEF Refuse, vars
<1>3. CASE Send
    BY <1>3 DEF Send
<1>4. CASE Answered
    BY <1>4 DEF Answered, Return
<1>5. CASE Retry
    BY <1>5 DEF Retry
<1>6. CASE Resend
    BY <1>6 DEF Resend
<1>7. CASE GiveUp \/ DecodeError
    BY <1>7 DEF GiveUp, DecodeError, record_failure, Return, Open
<1> QED BY <1>1, <1>2, <1>3, <1>4, <1>5, <1>6, <1>7 DEF Next

\* The retry loops and the breaker together: a connector that is down is asked a bounded
\* number of times before the circuit opens.
THEOREM BridgeLoadBounded == BridgeRuntimeOptions => (Spec => []LoadBounded)
<1> SUFFICES ASSUME BridgeRuntimeOptions PROVE Spec => []LoadBounded
    OBVIOUS
<1>1. BridgeInv => LoadBounded
    BY DEF BridgeRuntimeOptions, BridgeInv, LoadBounded
<1>2. Init => BridgeInv
    BY InitInv
<1>3. BridgeInv /\ [Next]_vars => BridgeInv'
    BY StepInv
<1> QED BY <1>1, <1>2, <1>3, PTL DEF Spec

\* record_failure sets open_until once per opening: a circuit ends after its cooldown.
THEOREM BridgeCooldownEnds == BridgeRuntimeOptions => (Spec => []CooldownEnds)
<1> SUFFICES ASSUME BridgeRuntimeOptions PROVE Spec => []CooldownEnds
    OBVIOUS
<1>1. BridgeInv => CooldownEnds
    BY DEF BridgeInv
<1>2. Init => BridgeInv
    BY InitInv
<1>3. BridgeInv /\ [Next]_vars => BridgeInv'
    BY StepInv
<1> QED BY <1>1, <1>2, <1>3, PTL DEF Spec

\* check_open precedes every attempt of every request.
THEOREM BridgeSendsNothingWhileOpen == BridgeRuntimeOptions => (Spec => NothingSentWhileOpen)
<1> SUFFICES ASSUME BridgeRuntimeOptions PROVE Spec => NothingSentWhileOpen
    OBVIOUS
<1>1. BridgeInv /\ [Next]_vars => [Open => UNCHANGED <<attempt, requests>>]_vars
    <2> SUFFICES ASSUME BridgeInv, [Next]_vars, Open PROVE UNCHANGED <<attempt, requests>>
        BY DEF vars
    <2>1. pc = "idle"
        BY DEF BridgeInv, Open
    <2> QED
        BY <2>1 DEF Next, Tick, Refuse, Send, Answered, Retry, GiveUp, Resend, DecodeError, vars
<1>2. Init => BridgeInv
    BY InitInv
<1>3. BridgeInv /\ [Next]_vars => BridgeInv'
    BY StepInv
<1> QED BY <1>1, <1>2, <1>3, PTL DEF Spec, NothingSentWhileOpen
=============================================================================
