----------------------------- MODULE ActionSink -----------------------------
(***************************************************************************)
(* The action consumer of the AppFS runtime                                *)
(* (appfs/cli/src/cmd/appfs/action_consumer.rs).                           *)
(*                                                                         *)
(* Clients submit requests by appending JSON lines to *.act files, the     *)
(* action sinks.  A drain visits every sink in a fixed order, hands each   *)
(* committed line to a handler, and commits the cursors of all sinks once, *)
(* at its end: to the cursor file first, then to memory.  An error in any  *)
(* sink discards the progress made in all of them.                         *)
(*                                                                         *)
(* A sink is a sequence of symbols, each standing for a run of bytes:      *)
(*   "req"   a complete JSON object                                        *)
(*   "frag"  half of a JSON object, cut inside a string: an odd number of  *)
(*           unescaped quotes                                              *)
(*   "text"  characters without quotes that are not JSON by themselves     *)
(*   "bin"   bytes that are neither UTF-8 nor UTF-16                       *)
(*   "nl"    the line feed, "nul" a NUL byte at the start of a line        *)
(*   "esc"   (payloads only) the escaped newline that joins recovered lines*)
(***************************************************************************)
EXTENDS Naturals, Sequences

CONSTANTS
    Sinks,              \* the declared action sinks
    SinkOrder,          \* the order in which a drain visits them
    Chunks,             \* what one client write may append
    MaxLen,             \* bound: symbols per sink
    MaxFaults,          \* bound: handler errors, failed commits and crashes
    MaxRetries,         \* bound: RetryPending answers of the handler
    MaxTruncates,       \* bound: illegal truncations by clients
    ProbeWindow,        \* ACTION_CURSOR_PROBE_WINDOW, in symbols
    MaxRecoveryLines,   \* MAX_RECOVERY_LINES
    MaxRecoveryBytes,   \* MAX_RECOVERY_BYTES, in symbols
    FallbackPolling     \* whether the runtime polls on a timer (off by default)

Symbols == {"req", "frag", "text", "bin", "nl", "nul"}
PayloadSymbols == (Symbols \ {"bin", "nl"}) \union {"esc"}

ASSUME SinkOrderAssumption ==
    /\ SinkOrder \in Seq(Sinks)
    /\ Len(SinkOrder) > 0
    /\ \A s \in Sinks : \E i \in 1..Len(SinkOrder) : SinkOrder[i] = s
    /\ \A i, j \in 1..Len(SinkOrder) : SinkOrder[i] = SinkOrder[j] => i = j
ASSUME BoundsAssumption ==
    /\ MaxLen \in Nat /\ MaxFaults \in Nat
    /\ MaxRetries \in Nat /\ MaxTruncates \in Nat
    /\ ProbeWindow \in Nat \ {0}
    /\ MaxRecoveryLines \in Nat \ {0, 1} /\ MaxRecoveryBytes \in Nat \ {0}
    /\ FallbackPolling \in BOOLEAN
ASSUME ChunksAssumption ==
    /\ Chunks \subseteq Seq(Symbols) \ {<<>>}
    /\ \A c \in Chunks : \A i \in 2..Len(c) : c[i] = "nul" => c[i - 1] \in {"nl", "nul"}

VARIABLES
    bytes,       \* content of each sink
    cursorFile,  \* action cursors on disk
    cursors,     \* action_cursors in memory
    next,        \* next_action_cursors, the clone a drain works on
    dirty,       \* cursor_dirty
    pc,          \* what the consumer does: see States
    at,          \* index in SinkOrder of the sink being drained
    cursor,      \* the working cursor of process_action_sink
    snap,        \* the bytes it has read
    submitted,   \* history: valid requests handed to the handler
    done,        \* history: those the handler answered with Consumed
    lost,        \* the cursor file was removed by a failed commit
    forgotten,   \* history: a restart found it missing
    faults, retries, truncates

sinkVars == <<bytes, truncates>>
drainVars == <<next, dirty, at, cursor, snap>>
vars == <<bytes, truncates, cursorFile, cursors, next, dirty, pc, at, cursor, snap,
          submitted, done, lost, forgotten, faults, retries>>

fileVars == <<cursorFile, lost>>
States == {"down", "idle", "stat", "read", "line", "commit"}

\* ActionCursorState.  No probe is <<>>, no pending length is 0: neither is a
\* value the code can store, since a probe covers at least one byte and a file
\* with a pending line is not empty.
CursorState == [offset : Nat, probe : Seq(Symbols), pendingEof : Nat]
DefaultCursor == [offset |-> 0, probe |-> <<>>, pendingEof |-> 0]
NoCursors == [s \in Sinks |-> DefaultCursor]

\* A request as the connector sees it: its idempotency token is a hash of the
\* sink, the offset and the payload, so those three identify it.
Submission == [off : Nat, end : Nat, payload : Seq(PayloadSymbols)]

-----------------------------------------------------------------------------
(* Pure functions of shared.rs.                                            *)

Min2(a, b) == IF a <= b THEN a ELSE b

boundary_probe_from_bytes(b, offset) ==
    LET end == Min2(offset, Len(b))
    IN  SubSeq(b, IF end > ProbeWindow THEN end - ProbeWindow + 1 ELSE 1, end)

\* The first position p >= from with b[p+1] different from NUL.
SkipNul(b, from) ==
    CHOOSE p \in from..Len(b) :
        /\ \A i \in (from + 1)..p : b[i] = "nul"
        /\ p < Len(b) => b[p + 1] # "nul"

\* Whether a line feed lies at or after position p, and the end of that line.
HasLine(b, p) == \E i \in (p + 1)..Len(b) : b[i] = "nl"
LineEnd(b, p) ==
    CHOOSE e \in (p + 1)..Len(b) :
        b[e] = "nl" /\ \A i \in (p + 1)..(e - 1) : b[i] # "nl"
LineBody(b, p) == SubSeq(b, p + 1, LineEnd(b, p) - 1)

Undecodable(body) == \E i \in 1..Len(body) : body[i] = "bin"

\* serde_json::from_str succeeds: one object, or two halves of one joined
\* with nothing but text and escaped newlines between them.
IsJson(p) ==
    \/ p = <<"req">>
    \/ /\ Len(p) >= 2
       /\ p[1] = "frag" /\ p[Len(p)] = "frag"
       /\ \A i \in 2..(Len(p) - 1) : p[i] \in {"text", "esc"}

has_odd_unescaped_quotes(p) ==
    LET Frags[i \in 0..Len(p)] ==
            IF i = 0 THEN FALSE ELSE IF p[i] = "frag" THEN ~Frags[i - 1] ELSE Frags[i - 1]
    IN  Frags[Len(p)]

\* One more line joined by the loop of classify_multiline_json_payload.
MergeLine(b, m) ==
    LET p == SkipNul(b, m.pos)
        body == LineBody(b, p)
        alone == m.alone \/ IsJson(body)
        joined == m.merged \o <<"esc">> \o body
    IN  IF m.st # "loop" THEN m
        ELSE IF ~HasLine(b, p) THEN [m EXCEPT !.st = "eof"]
        ELSE IF Undecodable(body) THEN [m EXCEPT !.st = "break"]
        ELSE IF Len(joined) > MaxRecoveryBytes
          THEN [m EXCEPT !.st = "break", !.alone = alone]
        ELSE [st |-> IF IsJson(joined) THEN "recovered" ELSE "loop",
              pos |-> LineEnd(b, p), merged |-> joined, alone |-> alone]

\* The loop, after k joined lines.
MergeLoop(b, payload, lineEnd) ==
    LET Merge[k \in 1..MaxRecoveryLines] ==
            IF k = 1
              THEN [st |-> "loop", pos |-> lineEnd, merged |-> payload, alone |-> FALSE]
              ELSE MergeLine(b, Merge[k - 1])
    IN  Merge[MaxRecoveryLines]

\* Mutant: the joined lines after the first are not consumed.
classify_FirstLineOnly(b, payload, lineEnd) ==
    LET m == MergeLoop(b, payload, lineEnd)
    IN  IF m.st = "recovered" THEN [kind |-> "recovered", merged |-> m.merged, end |-> lineEnd]
        ELSE [kind |-> "none", merged |-> payload, end |-> lineEnd]

classify_multiline_json_payload(b, payload, lineEnd) ==
    LET m == MergeLoop(b, payload, lineEnd)
    IN  IF Len(payload) >= MaxRecoveryBytes
          THEN [kind |-> "none", merged |-> payload, end |-> lineEnd]
        ELSE IF m.st = "recovered"
          THEN [kind |-> "recovered", merged |-> m.merged, end |-> m.pos]
        ELSE IF m.st = "eof" /\ ~m.alone
          THEN [kind |-> "pending", merged |-> payload, end |-> lineEnd]
        ELSE [kind |-> "none", merged |-> payload, end |-> lineEnd]

-----------------------------------------------------------------------------
(* Clients.  A sink is append-only by contract; truncation is possible and *)
(* illegal.                                                                *)

\* A client appends one chunk.  A NUL byte only follows a line feed, where
\* PowerShell's `>>` leaves it.
Write(s, chunk) ==
    /\ Len(bytes[s]) + Len(chunk) <= MaxLen
    /\ chunk[1] = "nul" => \A i \in {Len(bytes[s])} \ {0} : bytes[s][i] \in {"nl", "nul"}
    /\ bytes' = [bytes EXCEPT ![s] = @ \o chunk]
    /\ UNCHANGED <<truncates, fileVars, forgotten, cursors, pc, submitted, done, faults,
                   retries, drainVars>>

\* A client opens the sink for truncation (`>`).
Truncate(s) ==
    /\ truncates < MaxTruncates
    /\ \E k \in 0..(Len(bytes[s]) - 1) : bytes' = [bytes EXCEPT ![s] = SubSeq(@, 1, k)]
    /\ truncates' = truncates + 1
    /\ UNCHANGED <<fileVars, forgotten, cursors, pc, submitted, done, faults, retries, drainVars>>

-----------------------------------------------------------------------------
(* The consumer.                                                           *)

Sink == SinkOrder[at]

\* drain_action_sinks_uncommitted: the drain works on a clone of the cursors.
BeginDrain ==
    /\ pc = "idle"
    /\ pc' = "stat"
    /\ at' = 1
    /\ next' = cursors
    /\ dirty' = FALSE
    /\ UNCHANGED <<sinkVars, fileVars, forgotten, cursors, cursor, snap, submitted, done,
                   faults, retries>>

\* Mutant: the cursor is kept under every sink's name.
EndSink_EverySink(c) ==
    /\ next' = [s \in Sinks |-> c] /\ dirty' = (dirty \/ next' # next)
    /\ at' = IF at = Len(SinkOrder) THEN at ELSE at + 1
    /\ pc' = IF at < Len(SinkOrder) THEN "stat" ELSE IF dirty' THEN "commit" ELSE "idle"
    /\ snap' = <<>> /\ cursor' = DefaultCursor

\* The end of process_action_sink with working cursor c: keep it if it changed,
\* go on with the next sink, or end the drain.
EndSink(c) ==
    LET changed == c # next[Sink]
        last == at = Len(SinkOrder)
    IN  /\ next' = [next EXCEPT ![Sink] = c]
        /\ dirty' = (dirty \/ changed)
        /\ at' = IF last THEN at ELSE at + 1
        /\ pc' = IF ~last THEN "stat" ELSE IF dirty \/ changed THEN "commit" ELSE "idle"
        /\ snap' = <<>>
        /\ cursor' = DefaultCursor

Truncated(c, len) == [offset |-> len, probe |-> <<>>, pendingEof |-> 0]

\* fs::metadata: nothing new, or an illegal truncation, or bytes to read.
Stat ==
    /\ pc = "stat"
    /\ LET c == next[Sink]
           len == Len(bytes[Sink])
       IN  \/ c.offset = len /\ EndSink(c)
           \/ /\ c.offset # len
              /\ cursor' = IF c.offset > len THEN Truncated(c, len) ELSE c
              /\ pc' = "read"
              /\ UNCHANGED <<next, dirty, at, snap>>
    /\ UNCHANGED <<sinkVars, fileVars, forgotten, cursors, submitted, done, faults, retries>>

\* The cursor after fs::read: truncated since the metadata call, or the bytes
\* before the offset are not the ones that were consumed.
CheckedCursor(c, b) ==
    IF c.offset > Len(b)
      THEN Truncated(c, Len(b))
    ELSE IF c.offset > 0 /\ c.probe # <<>> /\ boundary_probe_from_bytes(b, c.offset) # c.probe
      THEN [offset |-> Len(b), probe |-> boundary_probe_from_bytes(b, Len(b)), pendingEof |-> 0]
    ELSE c

Read ==
    /\ pc = "read"
    /\ snap' = bytes[Sink]
    /\ cursor' = CheckedCursor(cursor, bytes[Sink])
    /\ pc' = "line"
    /\ UNCHANGED <<sinkVars, fileVars, forgotten, cursors, next, dirty, at, submitted, done,
                   faults, retries>>

\* The sink is busy or unreadable: it is left alone until the next drain.
SinkUnreadable ==
    /\ pc \in {"stat", "read"}
    /\ faults < MaxFaults
    /\ faults' = faults + 1
    /\ EndSink(next[Sink])
    /\ UNCHANGED <<sinkVars, fileVars, forgotten, cursors, submitted, done, retries>>

\* The working cursor moved to position p, and the one after leading NULs.
MovedTo(p) ==
    [offset |-> p, probe |-> boundary_probe_from_bytes(snap, p), pendingEof |-> 0]
AfterNuls ==
    LET p == SkipNul(snap, cursor.offset)
    IN  IF p = cursor.offset THEN cursor ELSE MovedTo(p)

\* The line at the working cursor, and the payload read from it: its own body,
\* or several lines joined.
AtLine == pc = "line" /\ HasLine(snap, AfterNuls.offset)
Body == LineBody(snap, AfterNuls.offset)
Multiline ==
    LET body == Body
        end == LineEnd(snap, AfterNuls.offset)
    IN  IF ~IsJson(body) /\ has_odd_unescaped_quotes(body)
          THEN classify_multiline_json_payload(snap, body, end)
          ELSE [kind |-> "none", merged |-> body, end |-> end]

\* Mutant: without the length seen last, it waits in every drain.
Deferred_Always == Body # <<>> /\ ~Undecodable(Body) /\ Multiline.kind = "pending"

\* An unfinished multiline payload at the end of the file is given one more
\* drain to grow before it is taken as it is.
Deferred ==
    /\ Body # <<>> /\ ~Undecodable(Body)
    /\ Multiline.kind = "pending"
    /\ AfterNuls.pendingEof # Len(snap)

\* Mutant: the offset before the leading NULs.
Request_BeforeNuls ==
    [off |-> cursor.offset, end |-> Multiline.end, payload |-> Multiline.merged]

Request == [off |-> AfterNuls.offset, end |-> Multiline.end, payload |-> Multiline.merged]

\* No committed line is left in the bytes read.
SinkExhausted ==
    /\ pc = "line"
    /\ ~HasLine(snap, AfterNuls.offset)
    /\ EndSink(AfterNuls)
    /\ UNCHANGED <<sinkVars, fileVars, forgotten, cursors, submitted, done, faults, retries>>

DeferMultiline ==
    /\ AtLine /\ Deferred
    /\ EndSink([AfterNuls EXCEPT !.pendingEof = Len(snap)])
    /\ UNCHANGED <<sinkVars, fileVars, forgotten, cursors, submitted, done, faults, retries>>

\* A payload that could be decoded, that no drain waits for any more, and that is
\* not JSON: it goes to handle_invalid_action_payload, as undecodable bytes do.
InvalidPayload ==
    Body # <<>> /\ ~Undecodable(Body) /\ ~Deferred /\ ~IsJson(Multiline.merged)

\* A blank line, or one that is not a valid request: consumed without reaching
\* the connector.
SkipLine ==
    /\ AtLine /\ ~Deferred
    /\ \/ Body = <<>> /\ cursor' = MovedTo(LineEnd(snap, AfterNuls.offset))
       \/ Undecodable(Body) /\ cursor' = MovedTo(LineEnd(snap, AfterNuls.offset))
       \/ InvalidPayload /\ cursor' = MovedTo(Multiline.end)
    /\ UNCHANGED <<sinkVars, fileVars, forgotten, cursors, next, dirty, pc, at, snap,
                   submitted, done, faults, retries>>

AtRequest == AtLine /\ ~Undecodable(Body) /\ IsJson(Multiline.merged)

\* handle_action_invocation: Consumed, RetryPending or an error.
HandleConsumed ==
    /\ AtRequest
    /\ submitted' = [submitted EXCEPT ![Sink] = @ \union {Request}]
    /\ done' = [done EXCEPT ![Sink] = @ \union {Request}]
    /\ cursor' = MovedTo(Multiline.end)
    /\ UNCHANGED <<sinkVars, fileVars, forgotten, cursors, next, dirty, pc, at, snap,
                   faults, retries>>

\* Mutant: the cursor moves on although the line is to be retried.
HandleRetryPending_Advances ==
    /\ AtRequest
    /\ retries < MaxRetries
    /\ retries' = retries + 1
    /\ submitted' = [submitted EXCEPT ![Sink] = @ \union {Request}]
    /\ EndSink(MovedTo(Multiline.end))
    /\ UNCHANGED <<sinkVars, fileVars, forgotten, cursors, done, faults>>

HandleRetryPending ==
    /\ AtRequest
    /\ retries < MaxRetries
    /\ retries' = retries + 1
    /\ submitted' = [submitted EXCEPT ![Sink] = @ \union {Request}]
    /\ EndSink([AfterNuls EXCEPT !.pendingEof = 0])
    /\ UNCHANGED <<sinkVars, fileVars, forgotten, cursors, done, faults>>

\* handle_invalid_action_payload answers RetryPending.  The length seen at an
\* undecodable line is kept, the one seen at an invalid payload was reset.
HandleInvalidRetry ==
    /\ AtLine
    /\ retries < MaxRetries
    /\ retries' = retries + 1
    /\ \/ Undecodable(Body) /\ EndSink(AfterNuls)
       \/ InvalidPayload /\ EndSink([AfterNuls EXCEPT !.pendingEof = 0])
    /\ UNCHANGED <<sinkVars, fileVars, forgotten, cursors, submitted, done, faults>>

\* handle_action_invocation or handle_invalid_action_payload returns an error.
\* It leaves the drain at once: the progress of every sink is dropped.
Abort ==
    /\ pc' = "idle"
    /\ next' = cursors /\ dirty' = FALSE /\ at' = 1
    /\ cursor' = DefaultCursor /\ snap' = <<>>

\* Mutant: an error is logged, and the drain goes on with the next line.
HandleError_GoesOn ==
    /\ faults < MaxFaults
    /\ faults' = faults + 1
    /\ AtRequest
    /\ submitted' = [submitted EXCEPT ![Sink] = @ \union {Request}]
    /\ cursor' = MovedTo(Multiline.end)
    /\ UNCHANGED <<sinkVars, fileVars, forgotten, cursors, next, dirty, pc, at, snap,
                   done, retries>>

HandleError ==
    /\ faults < MaxFaults
    /\ faults' = faults + 1
    /\ \/ AtRequest /\ submitted' = [submitted EXCEPT ![Sink] = @ \union {Request}]
       \/ AtLine /\ (Undecodable(Body) \/ InvalidPayload) /\ UNCHANGED submitted
    /\ Abort
    /\ UNCHANGED <<sinkVars, fileVars, forgotten, cursors, done, retries>>

\* commit_action_cursors: the file first, then memory.
Commit ==
    /\ pc = "commit"
    /\ pc' = "idle"
    /\ cursorFile' = next /\ lost' = FALSE
    /\ cursors' = next
    /\ UNCHANGED <<sinkVars, drainVars, forgotten, submitted, done, faults, retries>>

\* Publishing the cursor file fails.  When the destination is in the way the
\* old file is removed before the second rename, and may be gone for good.
CommitError ==
    /\ pc = "commit"
    /\ faults < MaxFaults
    /\ faults' = faults + 1
    /\ \/ UNCHANGED fileVars
       \/ cursorFile' = NoCursors /\ lost' = TRUE
    /\ Abort
    /\ UNCHANGED <<sinkVars, cursors, forgotten, submitted, done, retries>>

\* The process dies, and is started again: load_action_cursors.
Crash ==
    /\ pc # "down"
    /\ faults < MaxFaults
    /\ faults' = faults + 1
    /\ pc' = "down"
    /\ cursors' = NoCursors
    /\ next' = NoCursors /\ dirty' = FALSE /\ at' = 1
    /\ cursor' = DefaultCursor /\ snap' = <<>>
    /\ UNCHANGED <<sinkVars, fileVars, forgotten, submitted, done, retries>>

Restart ==
    /\ pc = "down"
    /\ pc' = "idle"
    /\ cursors' = cursorFile
    /\ forgotten' = (forgotten \/ lost)
    /\ UNCHANGED <<sinkVars, fileVars, drainVars, submitted, done, faults, retries>>

Init ==
    /\ bytes = [s \in Sinks |-> <<>>]
    /\ cursorFile = NoCursors /\ cursors = NoCursors /\ next = NoCursors
    /\ dirty = FALSE
    /\ pc = "idle" /\ at = 1
    /\ cursor = DefaultCursor /\ snap = <<>>
    /\ submitted = [s \in Sinks |-> {}]
    /\ done = [s \in Sinks |-> {}]
    /\ lost = FALSE /\ forgotten = FALSE
    /\ faults = 0 /\ retries = 0 /\ truncates = 0

\* The steps of a drain that has begun, and the restart of the process.
DrainStep ==
    \/ Stat \/ Read \/ SinkExhausted \/ DeferMultiline \/ SkipLine
    \/ HandleConsumed \/ HandleRetryPending \/ HandleInvalidRetry \/ Commit \/ Restart

Next ==
    \/ \E s \in Sinks, chunk \in Chunks : Write(s, chunk)
    \/ \E s \in Sinks : Truncate(s)
    \/ BeginDrain \/ Stat \/ Read \/ SinkUnreadable
    \/ SinkExhausted \/ DeferMultiline \/ SkipLine
    \/ HandleConsumed \/ HandleRetryPending \/ HandleInvalidRetry \/ HandleError
    \/ Commit \/ CommitError \/ Crash \/ Restart

Spec == Init /\ [][Next]_vars

\* Every step of a drain ends, and a supervisor restarts the process.  That a
\* drain begins is only certain where the fallback timer runs: without it a drain
\* needs a client's write (ActionWake), and nothing is assumed of clients.
Fairness == WF_vars(DrainStep) /\ (FallbackPolling => WF_vars(BeginDrain))
FairSpec == Spec /\ Fairness

-----------------------------------------------------------------------------
(* Properties.                                                             *)

TypeOK ==
    /\ bytes \in [Sinks -> Seq(Symbols)]
    /\ cursorFile \in [Sinks -> CursorState]
    /\ cursors \in [Sinks -> CursorState]
    /\ next \in [Sinks -> CursorState]
    /\ dirty \in BOOLEAN
    /\ pc \in States
    /\ at \in 1..Len(SinkOrder)
    /\ cursor \in CursorState
    /\ snap \in Seq(Symbols)
    /\ submitted \in [Sinks -> SUBSET Submission]
    /\ done \in [Sinks -> SUBSET Submission]
    /\ lost \in BOOLEAN /\ forgotten \in BOOLEAN
    /\ faults \in 0..MaxFaults
    /\ retries \in 0..MaxRetries
    /\ truncates \in 0..MaxTruncates

AppendOnly == truncates = 0

\* A committed line of sink s that is one JSON object, starting at offset p.
RequestAt(s, p) ==
    /\ p + 2 <= Len(bytes[s])
    /\ bytes[s][p + 1] = "req" /\ bytes[s][p + 2] = "nl"
    /\ p = 0 \/ bytes[s][p] \in {"nl", "nul"}
RequestOf(p) == [off |-> p, end |-> p + 2, payload |-> <<"req">>]
DoneBelow(s, offset) ==
    \A p \in 0..MaxLen : RequestAt(s, p) /\ p + 2 <= offset => RequestOf(p) \in done[s]

\* At-least-once: no cursor, on disk or in memory, is past a committed request
\* that the handler has not consumed, whatever errors, failed commits and
\* crashes came between.  (action_consumer.rs: the cursor advances on Consumed
\* only, and a drain that fails commits nothing.)
NoRequestSkipped ==
    AppendOnly => \A s \in Sinks : /\ DoneBelow(s, cursorFile[s].offset)
                                   /\ DoneBelow(s, cursors[s].offset)

\* Head-of-line order: a request is handed to the handler only after every
\* earlier request of its sink was consumed, retries and replays included.
SubmittedInOrder ==
    AppendOnly => \A s \in Sinks : \A x \in submitted[s] : DoneBelow(s, x.off)

\* What a span of committed lines says when its lines are joined.
Joined(b, off, end) ==
    LET J[k \in 0..Len(b)] ==
            IF k <= off THEN <<>>
            ELSE IF b[k] = "nul" THEN J[k - 1]
            ELSE Append(J[k - 1], IF b[k] = "nl" THEN "esc" ELSE b[k])
    IN  J[end - 1]

\* Commit boundaries: every submitted payload is made of whole committed lines,
\* from the start of one to the line feed of one, even when the sink grows
\* while it is drained; a partial trailing line is never submitted.
SubmittedAreWholeLines ==
    AppendOnly => \A s \in Sinks : \A x \in submitted[s] :
        /\ x.end <= Len(bytes[s]) /\ bytes[s][x.end] = "nl"
        /\ x.off = 0 \/ bytes[s][x.off] \in {"nl", "nul"}
        /\ x.payload = Joined(bytes[s], x.off, x.end)

\* Stable idempotency key (action_consumer.rs:145): however often a span of a
\* sink is retried or replayed, and however much was appended in between, it is
\* read as the same request; two submissions never share a byte.  This needs the
\* cursor file: a restart that finds it missing may cut multiline payloads
\* differently.
SubmittedAreStable ==
    AppendOnly /\ ~forgotten => \A s \in Sinks : \A x, y \in submitted[s] :
        x = y \/ x.end <= y.off \/ y.end <= x.off

\* Liveness, where the fallback timer runs: once clients stop, the consumer
\* catches up: no committed line stays beyond its cursor, and none of the sinks is
\* stuck on a bad line, an unfinished multiline payload or a detected truncation.
\* (Without the timer a deferred multiline payload, action_consumer.rs:342, and a
\* line whose drain failed wait for the next write to any sink.)
CatchesUp ==
    FallbackPolling =>
        <>[](\A s \in Sinks : /\ cursors[s].offset <= Len(bytes[s])
                              /\ ~HasLine(bytes[s], cursors[s].offset))
=============================================================================
