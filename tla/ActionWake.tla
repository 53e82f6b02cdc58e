----------------------------- MODULE ActionWake -----------------------------
(***************************************************************************)
(* How a write to an action sink wakes the runtime loop.                   *)
(*                                                                         *)
(* The mount wraps every *.act file in an ActionWakeFile                   *)
(* (appfs/cli/src/cmd/appfs/mount_runtime.rs): after the bytes are stored  *)
(* it signals the ActionWakeHandle (appfs/cli/src/cmd/appfs.rs), which is  *)
(* an atomic flag `pending` beside a tokio Notify.  The runtime loop is a  *)
(* select! over that handle, timers and the shutdown signal; whenever      *)
(* another branch wins, the future returned by wait() is dropped.          *)
(*                                                                         *)
(* tokio's Notify is external: notify_one wakes a registered waiter or     *)
(* stores one permit; a Notified future takes the permit or registers when *)
(* it is first polled, and hands a notification on when it is dropped.     *)
(***************************************************************************)
EXTENDS Naturals

CONSTANTS
    Writers,          \* open ActionWakeFiles
    MaxWrites,        \* bound: writes to the sinks
    MaxTransient,     \* bound: polls that end with RetryPending
    MaxTicks          \* bound: timer branches taken by the loop

ASSUME WakeAssumption ==
    MaxWrites \in Nat /\ MaxTransient \in Nat /\ MaxTicks \in Nat

VARIABLES
    fallback,   \* whether fallback_poll_ms is not 0; fixed at the start
    wpc,        \* writer: idle, about to signal, or about to notify
    dirty,      \* the writers whose ActionWakeFile.dirty is set
    pending,    \* ActionWakeState.pending
    permit,     \* the permit stored in the Notify
    loop,       \* the runtime loop: see LoopStates
    written,    \* writes stored in the sinks
    polled,     \* writes the last poll has seen in the sinks
    consumed,   \* writes whose requests the last poll consumed
    transients, ticks

vars == <<fallback, wpc, dirty, pending, permit, loop, written, polled, consumed, transients, ticks>>

WriterStates == {"idle", "signal", "notify"}
LoopStates == {"select", "checked", "waiting", "notified", "poll"}

Init ==
    /\ fallback \in BOOLEAN
    /\ wpc = [w \in Writers |-> "idle"]
    /\ dirty = {}
    /\ pending = FALSE /\ permit = FALSE
    /\ loop = "select"
    /\ written = 0 /\ polled = 0 /\ consumed = 0
    /\ transients = 0 /\ ticks = 0

-----------------------------------------------------------------------------
(* Writers.                                                                *)

\* Mutant: only fsync signals.
Pwrite_NoSignal(w) ==
    /\ wpc[w] = "idle"
    /\ written < MaxWrites
    /\ written' = written + 1
    /\ dirty' = dirty \union {w}
    /\ UNCHANGED <<fallback, wpc, pending, permit, loop, polled, consumed, transients, ticks>>

\* ActionWakeFile::pwrite and truncate: store, mark dirty, then signal.
Pwrite(w) ==
    /\ wpc[w] = "idle"
    /\ written < MaxWrites
    /\ written' = written + 1
    /\ dirty' = dirty \union {w}
    /\ wpc' = [wpc EXCEPT ![w] = "signal"]
    /\ UNCHANGED <<fallback, pending, permit, loop, polled, consumed, transients, ticks>>

\* ActionWakeFile::fsync: signals again if the file was written since.
Fsync(w) ==
    /\ wpc[w] = "idle"
    /\ w \in dirty
    /\ dirty' = dirty \ {w}
    /\ wpc' = [wpc EXCEPT ![w] = "signal"]
    /\ UNCHANGED <<fallback, pending, permit, loop, written, polled, consumed, transients, ticks>>

\* ActionWakeHandle::signal: swap the flag; only the first signaller notifies.
SignalSwap(w) ==
    /\ wpc[w] = "signal"
    /\ pending' = TRUE
    /\ wpc' = [wpc EXCEPT ![w] = IF pending THEN "idle" ELSE "notify"]
    /\ UNCHANGED <<fallback, dirty, permit, loop, written, polled, consumed, transients, ticks>>

\* Mutant: notify_waiters, which stores no permit.
SignalNotify_WaitersOnly(w) ==
    /\ wpc[w] = "notify"
    /\ wpc' = [wpc EXCEPT ![w] = "idle"]
    /\ loop' = IF loop = "waiting" THEN "notified" ELSE loop
    /\ UNCHANGED <<fallback, dirty, pending, permit, written, polled, consumed, transients, ticks>>

SignalNotify(w) ==
    /\ wpc[w] = "notify"
    /\ wpc' = [wpc EXCEPT ![w] = "idle"]
    /\ IF loop = "waiting"
         THEN loop' = "notified" /\ UNCHANGED permit
         ELSE permit' = TRUE /\ UNCHANGED loop
    /\ UNCHANGED <<fallback, dirty, pending, written, polled, consumed, transients, ticks>>

-----------------------------------------------------------------------------
(* The runtime loop.                                                       *)

\* ActionWakeHandle::wait: create the Notified future, then test the flag.
WaitSwap ==
    /\ loop = "select"
    /\ pending' = FALSE
    /\ loop' = IF pending THEN "poll" ELSE "checked"
    /\ UNCHANGED <<fallback, wpc, dirty, permit, written, polled, consumed, transients, ticks>>

\* notified.await: first poll of the future, and its completion.
WaitAwait ==
    /\ loop = "checked"
    /\ permit' = FALSE
    /\ loop' = IF permit THEN "notified" ELSE "waiting"
    /\ UNCHANGED <<fallback, wpc, dirty, pending, written, polled, consumed, transients, ticks>>

WaitAgain ==
    /\ loop = "notified"
    /\ loop' = "select"
    /\ UNCHANGED <<fallback, wpc, dirty, pending, permit, written, polled, consumed, transients, ticks>>

\* The wait() future is dropped; a notification it held goes back.
DropWait == permit' = (permit \/ loop = "notified")

\* Another branch of the select! wins: the stale-attach sweep or the inbound
\* poll, neither of which looks at the action sinks.
OtherBranch ==
    /\ loop \in {"select", "checked", "waiting", "notified"}
    /\ ticks < MaxTicks
    /\ ticks' = ticks + 1
    /\ DropWait
    /\ loop' = "select"
    /\ UNCHANGED <<fallback, wpc, dirty, pending, written, polled, consumed, transients>>

\* Mutant: the tick polls inbound events only.
FallbackTick_NoDrain ==
    /\ fallback
    /\ loop \in {"select", "checked", "waiting", "notified"}
    /\ DropWait
    /\ loop' = "select"
    /\ UNCHANGED <<fallback, wpc, dirty, pending, written, polled, consumed, transients, ticks>>

\* The fallback tick, when it is configured, polls everything.
FallbackTick ==
    /\ fallback
    /\ loop \in {"select", "checked", "waiting", "notified"}
    /\ DropWait
    /\ loop' = "poll"
    /\ UNCHANGED <<fallback, wpc, dirty, pending, written, polled, consumed, transients, ticks>>

\* poll_action_work_once drains the sinks, or leaves a request of it for a
\* retry after a transient connector failure.
PollConsumes ==
    /\ loop = "poll"
    /\ polled' = written /\ consumed' = written
    /\ loop' = "select"
    /\ UNCHANGED <<fallback, wpc, dirty, pending, permit, written, transients, ticks>>

PollRetryPending ==
    /\ loop = "poll"
    /\ consumed < written
    /\ transients < MaxTransient
    /\ transients' = transients + 1
    /\ polled' = written
    /\ loop' = "select"
    /\ UNCHANGED <<fallback, wpc, dirty, pending, permit, written, consumed, ticks>>

Signal(w) == SignalSwap(w) \/ SignalNotify(w)
Loop == WaitSwap \/ WaitAwait \/ WaitAgain \/ PollConsumes \/ PollRetryPending

Next ==
    \/ \E w \in Writers : Pwrite(w) \/ Fsync(w) \/ SignalSwap(w) \/ SignalNotify(w)
    \/ WaitSwap \/ WaitAwait \/ WaitAgain
    \/ OtherBranch \/ FallbackTick
    \/ PollConsumes \/ PollRetryPending

Spec == Init /\ [][Next]_vars

\* A writer that has stored its bytes finishes the call, the loop is scheduled,
\* and an enabled fallback timer fires again and again.
Fairness ==
    /\ \A w \in Writers : WF_vars(Signal(w))
    /\ WF_vars(Loop)
    /\ SF_vars(FallbackTick)
FairSpec == Spec /\ Fairness

-----------------------------------------------------------------------------
(* Properties.                                                             *)

TypeOK ==
    /\ fallback \in BOOLEAN
    /\ wpc \in [Writers -> WriterStates]
    /\ dirty \subseteq Writers
    /\ pending \in BOOLEAN /\ permit \in BOOLEAN
    /\ loop \in LoopStates
    /\ written \in Nat /\ polled \in Nat /\ consumed \in Nat
    /\ transients \in Nat /\ ticks \in Nat

\* No lost wake-up: the loop never sleeps on a write it has not polled unless a
\* writer is still on its way to wake it, in any interleaving of stores, flag
\* swaps, notifications and dropped wait() futures.
NoLostWakeup ==
    loop = "waiting" /\ polled < written => \E w \in Writers : wpc[w] # "idle"

\* The parts of the inductive invariant behind it: an unpolled write is still
\* announced by the flag or by its writer, and a raised flag reaches the loop.
WriteAnnounced ==
    polled # written => pending \/ loop = "poll" \/ \E w \in Writers : wpc[w] = "signal"
FlagDelivered ==
    /\ loop = "waiting" /\ pending => \E w \in Writers : wpc[w] = "notify"
    /\ loop = "checked" /\ pending => permit \/ \E w \in Writers : wpc[w] = "notify"
WakeInv == TypeOK /\ WriteAnnounced /\ FlagDelivered

\* Liveness: every write is seen by a poll, with or without fallback polling.
EveryWritePolled == \A n \in 1..MaxWrites : (written >= n) ~> (polled >= n)

\* Liveness: with fallback polling every write is consumed, a line left behind by a
\* transient connector failure too (core.rs: "will retry without advancing cursor").
\* Without it, that line waits for the next write.
EveryWriteConsumed ==
    \A n \in 1..MaxWrites : (fallback /\ written >= n) ~> (consumed >= n)
=============================================================================
