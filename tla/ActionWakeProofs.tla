-------------------------- MODULE ActionWakeProofs --------------------------
(***************************************************************************)
(* The wake-up of the runtime loop is never lost, for any number of        *)
(* writers, writes and timer ticks.                                        *)
(***************************************************************************)
EXTENDS ActionWake, TLAPS

\* The initial state is well typed.
LEMMA WakeInit == Init => TypeOK
<1> SUFFICES ASSUME Init PROVE TypeOK
  OBVIOUS
<1>1. fallback \in BOOLEAN /\ pending \in BOOLEAN /\ permit \in BOOLEAN
  BY Zenon DEF Init
<1>2. wpc \in [Writers -> WriterStates] /\ dirty \subseteq Writers /\ loop \in LoopStates
  BY Zenon DEF Init, WriterStates, LoopStates
<1>3. /\ written \in Nat /\ polled \in Nat /\ consumed \in Nat
      /\ transients \in Nat /\ ticks \in Nat
  BY SMT DEF Init
<1> QED BY <1>1, <1>2, <1>3 DEF TypeOK

\* Type correctness of the wake handle, its writers and the loop.
THEOREM WakeTypeOK == Spec => []TypeOK
<1>1. Init => TypeOK
  BY WakeInit
<1>2. TypeOK /\ [Next]_vars => TypeOK'
  <2> SUFFICES ASSUME TypeOK, [Next]_vars PROVE TypeOK'
    OBVIOUS
  <2> USE DEF TypeOK, WriterStates, LoopStates
  <2>1. CASE \E w \in Writers : Pwrite(w) \/ Fsync(w)
    BY <2>1 DEF Pwrite, Fsync
  <2>2. CASE \E w \in Writers : SignalSwap(w) \/ SignalNotify(w)
    BY <2>2 DEF SignalSwap, SignalNotify
  <2>3. CASE WaitSwap \/ WaitAwait \/ WaitAgain
    BY <2>3 DEF WaitSwap, WaitAwait, WaitAgain
  <2>4. CASE OtherBranch \/ FallbackTick
    <3>1. permit' \in BOOLEAN
      BY <2>4, Zenon DEF OtherBranch, FallbackTick, DropWait
    <3> QED BY <2>4, <3>1 DEF OtherBranch, FallbackTick
  <2>5. CASE PollConsumes \/ PollRetryPending
    BY <2>5 DEF PollConsumes, PollRetryPending
  <2>6. CASE UNCHANGED vars
    BY <2>6 DEF vars
  <2> QED BY <2>1, <2>2, <2>3, <2>4, <2>5, <2>6 DEF Next
<1> QED BY <1>1, <1>2, PTL DEF Spec

\* An unpolled write stays announced: by the flag, by its writer, or by a poll
\* about to start.
LEMMA WriteAnnouncedStep ==
  TypeOK /\ WriteAnnounced /\ [Next]_vars => WriteAnnounced'
<1> SUFFICES ASSUME TypeOK, WriteAnnounced, [Next]_vars PROVE WriteAnnounced'
  OBVIOUS
<1> USE DEF TypeOK, WriteAnnounced
<1>1. ASSUME NEW w \in Writers, Pwrite(w) PROVE WriteAnnounced'
  BY <1>1 DEF Pwrite
<1>2. ASSUME NEW w \in Writers, Fsync(w) PROVE WriteAnnounced'
  BY <1>2 DEF Fsync
<1>3. ASSUME NEW w \in Writers, SignalSwap(w) PROVE WriteAnnounced'
  BY <1>3 DEF SignalSwap
<1>4. ASSUME NEW w \in Writers, SignalNotify(w) PROVE WriteAnnounced'
  BY <1>4 DEF SignalNotify
<1>5. CASE WaitSwap \/ WaitAwait \/ WaitAgain
  BY <1>5 DEF WaitSwap, WaitAwait, WaitAgain
<1>6. CASE OtherBranch \/ FallbackTick
  BY <1>6 DEF OtherBranch, FallbackTick
<1>7. CASE PollConsumes \/ PollRetryPending
  BY <1>7 DEF PollConsumes, PollRetryPending
<1>8. CASE UNCHANGED vars
  BY <1>8 DEF vars
<1> QED BY <1>1, <1>2, <1>3, <1>4, <1>5, <1>6, <1>7, <1>8 DEF Next

\* A raised flag reaches the loop: while the loop sleeps, or is about to, the
\* writer that raised it has not notified yet, or its permit is stored.
LEMMA FlagDeliveredStep ==
  TypeOK /\ FlagDelivered /\ [Next]_vars => FlagDelivered'
<1> SUFFICES ASSUME TypeOK, FlagDelivered, [Next]_vars PROVE FlagDelivered'
  OBVIOUS
<1> USE DEF TypeOK, FlagDelivered
<1>1. ASSUME NEW w \in Writers, Pwrite(w) \/ Fsync(w) PROVE FlagDelivered'
  BY <1>1 DEF Pwrite, Fsync
<1>2. ASSUME NEW w \in Writers, SignalSwap(w) PROVE FlagDelivered'
  BY <1>2 DEF SignalSwap
<1>3. ASSUME NEW w \in Writers, SignalNotify(w) PROVE FlagDelivered'
  BY <1>3 DEF SignalNotify
<1>4. CASE WaitSwap
  BY <1>4 DEF WaitSwap
<1>5. CASE WaitAwait
  BY <1>5 DEF WaitAwait
<1>6. CASE WaitAgain \/ OtherBranch \/ FallbackTick
  BY <1>6 DEF WaitAgain, OtherBranch, FallbackTick
<1>7. CASE PollConsumes \/ PollRetryPending
  BY <1>7 DEF PollConsumes, PollRetryPending
<1>8. CASE UNCHANGED vars
  BY <1>8 DEF vars
<1> QED BY <1>1, <1>2, <1>3, <1>4, <1>5, <1>6, <1>7, <1>8 DEF Next

\* The inductive invariant holds in every reachable state.
THEOREM WakeInvariant == Spec => []WakeInv
<1>1. Init => WriteAnnounced /\ FlagDelivered
  BY DEF Init, WriteAnnounced, FlagDelivered
<1>2. WriteAnnounced /\ FlagDelivered /\ TypeOK /\ [Next]_vars
        => WriteAnnounced' /\ FlagDelivered'
  BY WriteAnnouncedStep, FlagDeliveredStep
<1> QED BY <1>1, <1>2, WakeTypeOK, PTL DEF Spec, WakeInv

\* No lost wake-up: the loop never sleeps on an unpolled write unless a writer
\* is still on its way to wake it.
THEOREM WakeNeverLost == Spec => []NoLostWakeup
<1>1. WakeInv => NoLostWakeup
  <2> SUFFICES ASSUME WakeInv, loop = "waiting", polled < written
               PROVE  \E w \in Writers : wpc[w] # "idle"
    BY DEF NoLostWakeup
  <2>1. polled # written
    BY DEF WakeInv, TypeOK
  <2>2. pending \/ \E w \in Writers : wpc[w] = "signal"
    BY <2>1 DEF WakeInv, WriteAnnounced
  <2>3. CASE pending
    BY <2>3 DEF WakeInv, FlagDelivered
  <2> QED BY <2>2, <2>3
<1> QED BY <1>1, WakeInvariant, PTL
=============================================================================
