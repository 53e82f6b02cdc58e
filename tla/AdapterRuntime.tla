--------------------------- MODULE AdapterRuntime ---------------------------
(***************************************************************************)
(* One app runtime of AppFS: AppfsAdapter in appfs/cli/src/cmd/appfs/      *)
(* core.rs, with its event stream and streaming jobs (events.rs).          *)
(*                                                                         *)
(* A poll advances every streaming job by one stage, then hands the new    *)
(* lines of the action sink to the connector, and commits the action       *)
(* cursor at its end.  What happens to a request is told to clients in an  *)
(* event stream: a log, one replay file per event, and a cursor file with  *)
(* the highest sequence number.  Each of those writes may fail, and the    *)
(* process may die between any two of them.                                *)
(*                                                                         *)
(* The sink is the number of request lines in it: what a line is, and how  *)
(* its cursor is kept, is module ActionSink; how a write raises `woken` is *)
(* module ActionWake.  The connector is external: it may answer anything.  *)
(***************************************************************************)
EXTENDS Naturals, Sequences

CONSTANTS
    FallbackPolling,   \* whether fallback_poll_ms is not 0
    InboundPolling,    \* whether the app has inbound_poll_ms > 0
    MaxLines,          \* bound: request lines written by clients
    MaxInbound,        \* bound: events that originate in the connector
    MaxSide,           \* bound: side events of one completed request
    MaxRetries,        \* bound: transient connector failures
    MaxFaults,         \* bound: failing file writes
    MaxCrashes         \* bound: crashes of the process

ASSUME AdapterAssumption ==
    /\ FallbackPolling \in BOOLEAN /\ InboundPolling \in BOOLEAN
    /\ MaxLines \in Nat /\ MaxInbound \in Nat /\ MaxSide \in Nat
    /\ MaxRetries \in Nat /\ MaxFaults \in Nat /\ MaxCrashes \in Nat

VARIABLES
    lines,       \* the lines in the action sink, in order: see Kinds
    woken,       \* the pending flag of the wake handle
    inbox,       \* events waiting in the connector
    \* the event stream
    log,         \* _stream/events.evt.jsonl
    replay,      \* _stream/from-seq/<seq>.evt.jsonl, at most one event per seq
    cursorFile,  \* max_seq in _stream/cursor.res.json
    maxSeq,      \* cursor.max_seq in memory
    nextSeq,     \* next_seq
    pub,         \* the step publish_event is at
    ev,          \* the event it publishes
    \* requests
    offset,      \* action cursor in memory, in lines
    offsetFile,  \* action cursor on disk
    at,          \* working cursor of a drain
    rid,         \* request ids given out
    jobs,        \* streaming_jobs
    jobsFile,    \* _stream/inflight.jobs.res.json
    taken,       \* drain_streaming_jobs: jobs it has still to look at
    kept,        \* drain_streaming_jobs: next_jobs
    outbox,      \* event types still to be emitted for the current request
    batch,       \* inbound events drained from the connector, to be emitted
    pc,          \* what the runtime does: see States
    mode,        \* which poll is running
    boot,        \* history: starts of the process
    arrived, retries, faults, crashes

streamVars == <<log, replay, cursorFile, maxSeq, nextSeq, pub, ev>>
diskVars == <<log, replay, cursorFile, offsetFile, jobsFile>>
requestVars == <<offset, offsetFile, at, rid, jobs, jobsFile, taken, kept, outbox>>
envVars == <<lines, woken, inbox>>
bounds == <<arrived, retries, faults, crashes>>
vars == <<lines, woken, inbox, log, replay, cursorFile, maxSeq, nextSeq, pub, ev,
          offset, offsetFile, at, rid, jobs, jobsFile, taken, kept, outbox, batch,
          pc, mode, boot, arrived, retries, faults, crashes>>

States == {"down", "idle", "jobs", "job", "savejobs", "inbound", "sink",
           "line", "enqueue", "commit"}
Modes == {"action", "full", "inbound"}
PubSteps == {"none", "append", "replay", "cursor"}
EventTypes == {"accepted", "progress", "completed", "failed", "side", "inbound"}
\* A request, or a line whose payload is refused at submit time.  The action's
\* execution mode is told to the connector and binds it to nothing: it may answer
\* any request as completed or as streaming, and the same one differently when it
\* is submitted again.
Kinds == {"request", "malformed"}
Terminal == {"completed", "failed"}

\* line 0 and req 0: an inbound event belongs to no request line.
Event == [seq : Nat, boot : Nat, req : Nat, line : Nat, type : EventTypes]
Job == [req : Nat, line : Nat, stage : 0..2]
NoEvent == [seq |-> 0, boot |-> 0, req |-> 0, line |-> 0, type |-> "inbound"]

Init ==
    /\ lines = <<>> /\ woken = FALSE /\ inbox = 0
    /\ log = <<>> /\ replay = {} /\ cursorFile = 0
    /\ maxSeq = 0 /\ nextSeq = 1
    /\ pub = "none" /\ ev = NoEvent
    /\ offset = 0 /\ offsetFile = 0 /\ at = 0 /\ rid = 0
    /\ jobs = <<>> /\ jobsFile = <<>> /\ taken = <<>> /\ kept = <<>>
    /\ outbox = <<>> /\ batch = 0
    /\ pc = "idle" /\ mode = "action"
    /\ boot = 1
    /\ arrived = 0 /\ retries = 0 /\ faults = 0 /\ crashes = 0

-----------------------------------------------------------------------------
(* Clients and the connector.                                              *)

ClientWrite ==
    /\ Len(lines) < MaxLines
    /\ \E kind \in Kinds : lines' = Append(lines, kind)
    /\ woken' = TRUE
    /\ UNCHANGED <<inbox, streamVars, requestVars, batch, pc, mode, boot, bounds>>

InboundArrives ==
    /\ arrived < MaxInbound
    /\ arrived' = arrived + 1
    /\ inbox' = inbox + 1
    /\ UNCHANGED <<lines, woken, streamVars, requestVars, batch, pc, mode, boot, retries,
                   faults, crashes>>

-----------------------------------------------------------------------------
(* The event stream: emit_event and publish_event.                         *)

\* Mutant: a number is used up only once its event is complete.
EmitEvent_Reuses(req, line, type) ==
    /\ ev' = [seq |-> maxSeq + 1, boot |-> boot, req |-> req, line |-> line, type |-> type]
    /\ nextSeq' = maxSeq + 2
    /\ pub' = "append"
    /\ UNCHANGED <<log, replay, cursorFile, maxSeq>>

\* emit_event takes the next sequence number, and publishes.
EmitEvent(req, line, type) ==
    /\ ev' = [seq |-> nextSeq, boot |-> boot, req |-> req, line |-> line, type |-> type]
    /\ nextSeq' = nextSeq + 1
    /\ pub' = "append"
    /\ UNCHANGED <<log, replay, cursorFile, maxSeq>>

PublishAppend ==
    /\ pub = "append"
    /\ log' = Append(log, ev)
    /\ pub' = "replay"
    /\ UNCHANGED <<envVars, replay, cursorFile, maxSeq, nextSeq, ev, requestVars,
                   batch, pc, mode, boot, bounds>>

\* fs::write replaces the file; the in-memory cursor moves before it is saved.
OtherReplays(seq) == {e \in replay : e.seq # seq}
PublishReplay ==
    /\ pub = "replay"
    /\ replay' = OtherReplays(ev.seq) \union {ev}
    /\ maxSeq' = ev.seq
    /\ pub' = "cursor"
    /\ UNCHANGED <<envVars, log, cursorFile, nextSeq, ev, requestVars,
                   batch, pc, mode, boot, bounds>>

PublishCursor ==
    /\ pub = "cursor"
    /\ cursorFile' = maxSeq
    /\ pub' = "none"
    /\ UNCHANGED <<envVars, log, replay, maxSeq, nextSeq, ev, requestVars,
                   batch, pc, mode, boot, bounds>>

\* An error leaves the poll through every `?` on its way: jobs not yet put back
\* in streaming_jobs, drained inbound events and the working cursor are dropped.
Abort ==
    /\ pc' = "idle"
    /\ taken' = <<>> /\ kept' = <<>> /\ outbox' = <<>> /\ batch' = 0
    /\ at' = offset
Fault ==
    /\ faults < MaxFaults
    /\ faults' = faults + 1
    /\ UNCHANGED <<arrived, retries, crashes>>

\* Mutant: a failed append is ignored.
PublishError_Ignored ==
    /\ pub = "append"
    /\ Fault
    /\ pub' = "replay"
    /\ UNCHANGED <<envVars, log, replay, cursorFile, maxSeq, nextSeq, ev, requestVars, batch,
                   pc, mode, boot>>

\* A failing write: nothing is appended; a replay file may be left empty; a
\* failed publish of the cursor file may leave it missing, which reads as 0.
PublishError ==
    /\ \/ pub = "append" /\ UNCHANGED <<replay, cursorFile>>
       \/ pub = "replay" /\ replay' \in {replay, OtherReplays(ev.seq)} /\ UNCHANGED cursorFile
       \/ pub = "cursor" /\ cursorFile' \in {cursorFile, 0} /\ UNCHANGED replay
    /\ Fault
    /\ pub' = "none"
    /\ Abort
    /\ UNCHANGED <<envVars, log, maxSeq, nextSeq, ev, offset, offsetFile, rid, jobs,
                   jobsFile, mode, boot>>

-----------------------------------------------------------------------------
(* Polls: poll_action_work_once, poll_once, poll_inbound_events_once.      *)

\* drain_connector_inbound_events: takes what the connector has; its failure is
\* ignored.
DrainInbound ==
    /\ pc' = "inbound"
    /\ \/ batch' = inbox /\ inbox' = 0
       \/ UNCHANGED <<batch, inbox>>

\* What follows drain_streaming_jobs: a full poll drains the inbound events first.
AfterJobs(m) ==
    IF m = "full" THEN DrainInbound ELSE pc' = "sink" /\ UNCHANGED <<batch, inbox>>

\* drain_streaming_jobs returns at once without jobs; else it takes them out of
\* streaming_jobs.
BeginPoll(m) ==
    /\ mode' = m
    /\ taken' = jobs /\ jobs' = <<>>
    /\ IF jobs = <<>> THEN AfterJobs(m) ELSE pc' = "jobs" /\ UNCHANGED <<batch, inbox>>
    /\ UNCHANGED <<lines, streamVars, offset, offsetFile, at, rid, jobsFile, kept, outbox,
                   boot, bounds>>

BeginActionPoll ==
    /\ pc = "idle" /\ woken
    /\ woken' = FALSE
    /\ BeginPoll("action")

BeginFullPoll ==
    /\ pc = "idle" /\ FallbackPolling
    /\ BeginPoll("full")
    /\ UNCHANGED woken

BeginInboundPoll ==
    /\ pc = "idle" /\ InboundPolling
    /\ mode' = "inbound"
    /\ DrainInbound
    /\ UNCHANGED <<lines, woken, streamVars, requestVars, boot, bounds>>

\* Mutant: the terminal stage comes before the progress stage.
StageType_Swapped == [i \in 0..2 |-> <<"accepted", "completed", "progress">>[i + 1]]

StageType == [i \in 0..2 |-> <<"accepted", "progress", "completed">>[i + 1]]

JobEmit ==
    /\ pc = "jobs" /\ taken # <<>>
    /\ pc' = "job"
    /\ EmitEvent(Head(taken).req, Head(taken).line, StageType[Head(taken).stage])
    /\ UNCHANGED <<envVars, requestVars, batch, mode, boot, bounds>>

\* Mutants: the job stays after its last stage; it is at a stage of its own then.
JobKept(job) ==
    /\ pc = "job" /\ pub = "none" /\ taken # <<>>
    /\ pc' = "jobs"
    /\ taken' = Tail(taken)
    /\ kept' = Append(kept, job)
    /\ UNCHANGED <<envVars, streamVars, offset, offsetFile, at, rid, jobs, jobsFile,
                   outbox, batch, mode, boot, bounds>>
JobEmitted_Kept == JobKept([Head(taken) EXCEPT !.stage = IF @ = 2 THEN 2 ELSE @ + 1])

JobEmitted ==
    /\ pc = "job" /\ pub = "none" /\ taken # <<>>
    /\ pc' = "jobs"
    /\ taken' = Tail(taken)
    /\ kept' = IF Head(taken).stage = 2
                 THEN kept
                 ELSE Append(kept, [Head(taken) EXCEPT !.stage = @ + 1])
    /\ UNCHANGED <<envVars, streamVars, offset, offsetFile, at, rid, jobs, jobsFile,
                   outbox, batch, mode, boot, bounds>>

\* Mutant: the jobs that go on are not put back.
JobsDone_Dropped ==
    /\ pc = "jobs" /\ taken = <<>>
    /\ kept' = <<>>
    /\ jobs' = <<>>
    /\ pc' = "savejobs"
    /\ UNCHANGED <<envVars, streamVars, offset, offsetFile, at, rid, jobsFile, taken,
                   outbox, batch, mode, boot, bounds>>

JobsDone ==
    /\ pc = "jobs" /\ taken = <<>>
    /\ kept' = <<>>
    /\ jobs' = kept
    /\ pc' = "savejobs"
    /\ UNCHANGED <<envVars, streamVars, offset, offsetFile, at, rid, jobsFile, taken,
                   outbox, batch, mode, boot, bounds>>

SaveJobs ==
    /\ pc = "savejobs"
    /\ jobsFile' = jobs
    /\ AfterJobs(mode)
    /\ UNCHANGED <<lines, woken, streamVars, offset, offsetFile, at, rid, jobs, taken,
                   kept, outbox, mode, boot, bounds>>

InboundEmit ==
    /\ pc = "inbound" /\ pub = "none" /\ batch > 0
    /\ batch' = batch - 1
    /\ EmitEvent(0, 0, "inbound")
    /\ UNCHANGED <<envVars, requestVars, pc, mode, boot, bounds>>

InboundDone ==
    /\ pc = "inbound" /\ pub = "none" /\ batch = 0
    /\ pc' = IF mode = "full" THEN "sink" ELSE "idle"
    /\ UNCHANGED <<envVars, streamVars, requestVars, batch, mode, boot, bounds>>

-----------------------------------------------------------------------------
(* process_action for the line after the working cursor.                   *)

AtLine(kind) == pc = "sink" /\ at < Len(lines) /\ \A i \in {at + 1} : lines[i] = kind
AtRequest == AtLine("request")

SubmitCompleted ==
    /\ AtRequest
    /\ rid' = rid + 1
    /\ \E k \in 0..MaxSide :
           outbox' = [i \in 1..(k + 1) |-> IF i = k + 1 THEN "completed" ELSE "side"]
    /\ pc' = "line"
    /\ UNCHANGED <<envVars, streamVars, offset, offsetFile, at, jobs, jobsFile, taken,
                   kept, batch, mode, boot, bounds>>

SubmitFailed ==
    /\ AtRequest
    /\ rid' = rid + 1
    /\ outbox' = <<"failed">>
    /\ pc' = "line"
    /\ UNCHANGED <<envVars, streamVars, offset, offsetFile, at, jobs, jobsFile, taken,
                   kept, batch, mode, boot, bounds>>

\* Mutant: a new job goes before the others.
SubmitStreaming_First ==
    /\ AtRequest
    /\ rid' = rid + 1
    /\ jobs' = <<[req |-> rid + 1, line |-> at + 1, stage |-> 0]>> \o jobs
    /\ pc' = "enqueue"
    /\ UNCHANGED <<envVars, streamVars, offset, offsetFile, at, jobsFile, taken, kept,
                   outbox, batch, mode, boot, bounds>>

SubmitStreaming ==
    /\ AtRequest
    /\ rid' = rid + 1
    /\ jobs' = Append(jobs, [req |-> rid + 1, line |-> at + 1, stage |-> 0])
    /\ pc' = "enqueue"
    /\ UNCHANGED <<envVars, streamVars, offset, offsetFile, at, jobsFile, taken, kept,
                   outbox, batch, mode, boot, bounds>>

\* A malformed payload is consumed without an event.
SubmitRejected ==
    /\ AtLine("malformed")
    /\ rid' = rid + 1
    /\ at' = at + 1
    /\ UNCHANGED <<envVars, streamVars, offset, offsetFile, jobs, jobsFile, taken, kept,
                   outbox, batch, pc, mode, boot, bounds>>

\* is_transient_connector_failure: the line stays, and with it the rest.
SinkDone == pc' = IF at = offset THEN "idle" ELSE "commit"
\* Mutant: the line is passed although it is to be retried.
SubmitTransient_Advances ==
    /\ AtRequest
    /\ retries < MaxRetries
    /\ retries' = retries + 1
    /\ rid' = rid + 1
    /\ at' = at + 1 /\ pc' = "commit"
    /\ UNCHANGED <<envVars, streamVars, offset, offsetFile, jobs, jobsFile, taken,
                   kept, outbox, batch, mode, boot, arrived, faults, crashes>>

SubmitTransient ==
    /\ AtRequest
    /\ retries < MaxRetries
    /\ retries' = retries + 1
    /\ rid' = rid + 1
    /\ SinkDone
    /\ UNCHANGED <<envVars, streamVars, offset, offsetFile, at, jobs, jobsFile, taken,
                   kept, outbox, batch, mode, boot, arrived, faults, crashes>>

LineEmit ==
    /\ pc = "line" /\ pub = "none" /\ outbox # <<>>
    /\ outbox' = Tail(outbox)
    /\ EmitEvent(rid, at + 1, Head(outbox))
    /\ UNCHANGED <<envVars, offset, offsetFile, at, rid, jobs, jobsFile, taken, kept,
                   batch, pc, mode, boot, bounds>>

LineDone ==
    /\ pc = "line" /\ pub = "none" /\ outbox = <<>>
    /\ at' = at + 1
    /\ pc' = "sink"
    /\ UNCHANGED <<envVars, streamVars, offset, offsetFile, rid, jobs, jobsFile, taken,
                   kept, outbox, batch, mode, boot, bounds>>

\* Mutant: the jobs are saved by the next poll only.
Enqueue_Unsaved ==
    /\ pc = "enqueue"
    /\ at' = at + 1
    /\ pc' = "sink"
    /\ UNCHANGED <<envVars, streamVars, offset, offsetFile, rid, jobs, jobsFile, taken, kept,
                   outbox, batch, mode, boot, bounds>>

\* enqueue_streaming_job saves the jobs before the line is consumed.
Enqueue ==
    /\ pc = "enqueue"
    /\ jobsFile' = jobs
    /\ at' = at + 1
    /\ pc' = "sink"
    /\ UNCHANGED <<envVars, streamVars, offset, offsetFile, rid, jobs, taken, kept,
                   outbox, batch, mode, boot, bounds>>

SinkEmpty ==
    /\ pc = "sink" /\ at = Len(lines)
    /\ SinkDone
    /\ UNCHANGED <<envVars, streamVars, requestVars, batch, mode, boot, bounds>>

Commit ==
    /\ pc = "commit"
    /\ offsetFile' = at
    /\ offset' = at
    /\ pc' = "idle"
    /\ UNCHANGED <<envVars, streamVars, at, rid, jobs, jobsFile, taken, kept, outbox,
                   batch, mode, boot, bounds>>

\* Saving the jobs or the action cursor fails; the file may be left missing.
SaveError ==
    /\ \/ /\ pc \in {"savejobs", "enqueue"}
          /\ jobsFile' \in {jobsFile, <<>>} /\ UNCHANGED offsetFile
       \/ /\ pc = "commit"
          /\ offsetFile' \in {offsetFile, 0} /\ UNCHANGED jobsFile
    /\ Fault
    /\ Abort
    /\ UNCHANGED <<envVars, streamVars, offset, rid, jobs, mode, boot>>

-----------------------------------------------------------------------------
(* Crash and restart.                                                      *)

Crash ==
    /\ pc # "down"
    /\ crashes < MaxCrashes
    /\ crashes' = crashes + 1
    /\ pc' = "down" /\ pub' = "none"
    /\ jobs' = <<>> /\ taken' = <<>> /\ kept' = <<>> /\ outbox' = <<>>
    /\ batch' = 0 /\ woken' = FALSE
    /\ at' = offset
    /\ UNCHANGED <<lines, inbox, diskVars, maxSeq, nextSeq, ev, offset, rid,
                   mode, boot, arrived, retries, faults>>

\* AppfsAdapter::new_with_mount_path: load the cursor, the jobs and the action
\* cursor.  Nothing polls before the first wake or tick.
Restart ==
    /\ pc = "down"
    /\ pc' = "idle"
    /\ boot' = boot + 1
    /\ maxSeq' = cursorFile
    /\ nextSeq' = cursorFile + 1
    /\ jobs' = jobsFile
    /\ offset' = offsetFile /\ at' = offsetFile
    /\ UNCHANGED <<envVars, diskVars, pub, ev, rid, taken, kept, outbox, batch, mode,
                   bounds>>

Publish == PublishAppend \/ PublishReplay \/ PublishCursor
Poll ==
    \/ JobEmit \/ JobEmitted \/ JobsDone \/ SaveJobs \/ InboundEmit \/ InboundDone
    \/ SubmitCompleted \/ SubmitFailed \/ SubmitStreaming \/ SubmitRejected
    \/ SubmitTransient \/ LineEmit \/ LineDone \/ Enqueue \/ SinkEmpty \/ Commit

Next ==
    \/ ClientWrite \/ InboundArrives
    \/ PublishAppend \/ PublishReplay \/ PublishCursor \/ PublishError
    \/ BeginActionPoll \/ BeginFullPoll \/ BeginInboundPoll
    \/ JobEmit \/ JobEmitted \/ JobsDone \/ SaveJobs \/ InboundEmit \/ InboundDone
    \/ SubmitCompleted \/ SubmitFailed \/ SubmitStreaming \/ SubmitRejected
    \/ SubmitTransient \/ LineEmit \/ LineDone \/ Enqueue \/ SinkEmpty \/ Commit
    \/ SaveError \/ Crash \/ Restart

Spec == Init /\ [][Next]_vars

\* The select! of the runtime loop picks among its ready branches at random, so
\* each branch that is ready again and again is taken; a poll that has begun goes
\* on; a dead process is restarted.  Nothing is assumed of clients.
Fairness ==
    /\ WF_vars(Publish) /\ WF_vars(Poll) /\ WF_vars(Restart)
    /\ SF_vars(BeginActionPoll) /\ SF_vars(BeginFullPoll)
FairSpec == Spec /\ Fairness

-----------------------------------------------------------------------------
(* Properties.                                                             *)

TypeOK ==
    /\ lines \in Seq(Kinds) /\ woken \in BOOLEAN /\ inbox \in Nat
    /\ log \in Seq(Event) /\ replay \subseteq Event
    /\ cursorFile \in Nat /\ maxSeq \in Nat /\ nextSeq \in Nat \ {0}
    /\ pub \in PubSteps /\ ev \in Event
    /\ offset \in Nat /\ offsetFile \in Nat /\ at \in Nat /\ rid \in Nat
    /\ jobs \in Seq(Job) /\ jobsFile \in Seq(Job) /\ taken \in Seq(Job) /\ kept \in Seq(Job)
    /\ outbox \in Seq(EventTypes) /\ batch \in Nat
    /\ pc \in States /\ mode \in Modes
    /\ boot \in Nat
    /\ arrived \in Nat /\ retries \in Nat /\ faults \in Nat /\ crashes \in Nat

InLog(seq) == \E i \in 1..Len(log) : log[i].seq = seq
InReplay(seq) == \E e \in replay : e.seq = seq

\* Stream surface atomicity (AR-016): whatever writes fail and wherever the
\* process dies, the cursor on disk never points at an event that is not in the
\* log and in its replay file.
CursorNotAhead == cursorFile # 0 => InLog(cursorFile) /\ InReplay(cursorFile)

\* Between two starts of the process, sequence numbers in the log go up, although
\* failed writes leave gaps.
SeqMonotonicPerBoot ==
    \A i, j \in 1..Len(log) : i < j /\ log[i].boot = log[j].boot => log[i].seq < log[j].seq

\* The parts of the inductive invariant behind the two: the cursor in memory is
\* between the one on disk and the next number, and names a complete event; the
\* event being published is newer than all of them, and is in the log before its
\* replay file is written; no event of this boot has a number still to be given.
CursorsOrdered == cursorFile <= maxSeq /\ maxSeq < nextSeq
MemoryNotAhead == maxSeq # 0 => InLog(maxSeq) /\ InReplay(maxSeq)
Publishing ==
    /\ pub # "none" => ev.seq < nextSeq /\ ev.boot = boot /\ pc # "down"
    /\ pub \in {"append", "replay"} => maxSeq < ev.seq
    /\ pub = "replay" => InLog(ev.seq)
SeqFresh ==
    \A i \in 1..Len(log) :
        /\ log[i].boot <= boot
        /\ log[i].boot = boot => log[i].seq < nextSeq
        /\ log[i].boot = boot /\ pub = "append" => log[i].seq < ev.seq
StreamInv ==
    /\ CursorNotAhead /\ SeqMonotonicPerBoot
    /\ CursorsOrdered /\ MemoryNotAhead /\ Publishing /\ SeqFresh

HasTerminal(l) == \E i \in 1..Len(log) : log[i].line = l /\ log[i].type \in Terminal
Resolved(l) == HasTerminal(l) \/ lines[l] = "malformed"
JobOf(s, l) == \E i \in 1..Len(s) : s[i].line = l

\* No request is lost by a crash, wherever it falls between the event writes, the
\* jobs file and the action cursor: a line the action cursor on disk has passed
\* was answered or is a job on disk.
NoRequestLost ==
    faults = 0 => \A l \in 1..offsetFile : Resolved(l) \/ JobOf(jobsFile, l)

StageOf == [t \in {"accepted", "progress", "completed"} |->
               CASE t = "accepted" -> 0 [] t = "progress" -> 1 [] t = "completed" -> 2]
StagesInOrder ==
    \A i, j \in 1..Len(log) :
        i < j /\ log[i].req = log[j].req /\ log[i].type \in DOMAIN StageOf
              /\ log[j].type \in DOMAIN StageOf
        => StageOf[log[i].type] <= StageOf[log[j].type]

\* Causal order within a request (AR-015): its events appear in the order
\* accepted, progress, completed when only writes fail or only crashes happen.
CausalOrder == faults = 0 \/ crashes = 0 => StagesInOrder

AtMostOneTerminal ==
    \A i, j \in 1..Len(log) :
        log[i].type \in Terminal /\ log[j].type \in Terminal /\ log[i].req = log[j].req => i = j

\* Without a crash no request gets two terminal events, although a line whose
\* poll failed is submitted again.
OneTerminalWithoutCrash == crashes = 0 => AtMostOneTerminal

\* Requests are accepted in the order of their lines (AR-015), job replays and
\* resubmitted lines included: when a line is first heard of by its acceptance,
\* only earlier lines have been accepted.  A line that was accepted or answered
\* before a crash and is submitted again may be accepted late.
HeardBefore(l, j) ==
    \E k \in 1..(j - 1) : log[k].line = l /\ log[k].type \in Terminal \union {"accepted"}
AcceptedInLineOrder ==
    faults = 0 =>
    \A i, j \in 1..Len(log) :
        /\ i < j /\ log[i].type = "accepted" /\ log[j].type = "accepted"
        /\ ~HeardBefore(log[j].line, j)
        => log[i].line < log[j].line

\* Liveness (ANR-002.1): after action.accepted the terminal event appears.
TerminalFollowsAccepted ==
    \A l \in 1..MaxLines :
        (\E i \in 1..Len(log) : log[i].line = l /\ log[i].type = "accepted") ~> HasTerminal(l)

\* Liveness: every committed line is answered or refused in the end, through
\* transient connector failures, crashes and job stages.
EveryLineAnswered == \A l \in 1..MaxLines : (l \in DOMAIN lines) ~> (l \in DOMAIN lines /\ Resolved(l))
=============================================================================
