------------------------ MODULE AdapterRuntimeProofs ------------------------
(***************************************************************************)
(* Proofs about module AdapterRuntime, for every number of lines, inbound  *)
(* events, failing writes and crashes: the event stream first, then what   *)
(* becomes of requests, from a line of the sink through the jobs to its    *)
(* events.                                                                 *)
(***************************************************************************)
EXTENDS AdapterRuntime, TLAPS

\* The part of the type invariant that the event stream rests on.
StreamType ==
    /\ log \in Seq(Event) /\ replay \subseteq Event
    /\ cursorFile \in Nat /\ maxSeq \in Nat /\ nextSeq \in Nat \ {0}
    /\ pub \in PubSteps /\ ev \in Event
    /\ boot \in Nat

\* The rest of it.
JobsType ==
    /\ jobs \in Seq(Job) /\ jobsFile \in Seq(Job)
    /\ taken \in Seq(Job) /\ kept \in Seq(Job)
    /\ outbox \in Seq(EventTypes)
ControlType ==
    /\ lines \in Seq(Kinds) /\ inbox \in Nat
    /\ offset \in Nat /\ offsetFile \in Nat /\ at \in Nat /\ rid \in Nat
    /\ batch \in Nat
    /\ pc \in States /\ mode \in Modes
    /\ arrived \in Nat /\ retries \in Nat /\ faults \in Nat /\ crashes \in Nat

\* Taking an event number keeps the stream's types.
LEMMA EmitType ==
    ASSUME StreamType, NEW req \in Nat, NEW line \in Nat, NEW type \in EventTypes,
           EmitEvent(req, line, type), UNCHANGED boot
    PROVE  StreamType'
BY DEF StreamType, EmitEvent, Event, PubSteps

\* The steps that leave the jobs and the events to be emitted alone.
QuietSteps ==
    \/ ClientWrite \/ InboundArrives
    \/ PublishAppend \/ PublishReplay \/ PublishCursor
    \/ BeginInboundPoll \/ JobEmit \/ InboundEmit \/ InboundDone
    \/ SubmitRejected \/ SubmitTransient \/ LineDone \/ SinkEmpty \/ Commit

\* drain_streaming_jobs, process_action and the rest keep the types of the jobs
\* and of the events still to be emitted.
LEMMA JobsTypeStep == ControlType /\ JobsType /\ [Next]_vars => JobsType'
<1> SUFFICES ASSUME ControlType, JobsType, [Next]_vars PROVE JobsType'
  OBVIOUS
<1>1. CASE QuietSteps \/ UNCHANGED vars
  <2>1. UNCHANGED <<jobs, jobsFile, taken, kept, outbox>>
    BY <1>1, Zenon DEF QuietSteps, vars, requestVars, ClientWrite, InboundArrives, PublishAppend,
       PublishReplay, PublishCursor, BeginInboundPoll, JobEmit, InboundEmit, InboundDone,
       SubmitRejected, SubmitTransient, LineDone, SinkEmpty, Commit
  <2> QED BY <2>1 DEF JobsType
<1>2. CASE PublishError
  BY <1>2 DEF JobsType, PublishError, Abort
<1>3. CASE BeginActionPoll \/ BeginFullPoll
  <2>1. taken' = jobs /\ jobs' = <<>> /\ UNCHANGED <<jobsFile, kept, outbox>>
    BY <1>3, Zenon DEF BeginActionPoll, BeginFullPoll, BeginPoll
  <2> QED BY <2>1 DEF JobsType
<1>4. CASE JobEmitted
  <2>1. Head(taken) \in Job /\ Tail(taken) \in Seq(Job)
    BY <1>4 DEF JobsType, JobEmitted
  <2>2. Head(taken).stage # 2 => [Head(taken) EXCEPT !.stage = @ + 1] \in Job
    BY <2>1 DEF Job
  <2> QED BY <1>4, <2>1, <2>2 DEF JobsType, JobEmitted
<1>5. CASE JobsDone \/ SaveJobs \/ Enqueue
  BY <1>5 DEF JobsType, JobsDone, SaveJobs, Enqueue
<1>6. CASE SubmitCompleted
  <2>1. PICK k \in 0..MaxSide :
            outbox' = [i \in 1..(k + 1) |-> IF i = k + 1 THEN "completed" ELSE "side"]
    BY <1>6 DEF SubmitCompleted
  <2>2. k + 1 \in Nat
    BY AdapterAssumption
  <2>3. outbox' \in Seq(EventTypes)
    BY <2>1, <2>2 DEF EventTypes
  <2> QED BY <1>6, <2>3 DEF JobsType, SubmitCompleted
<1>7. CASE SubmitFailed
  BY <1>7 DEF JobsType, SubmitFailed, EventTypes
<1>8. CASE SubmitStreaming
  <2>1. [req |-> rid + 1, line |-> at + 1, stage |-> 0] \in Job
    BY DEF ControlType, Job
  <2> QED BY <1>8, <2>1 DEF JobsType, SubmitStreaming
<1>9. CASE LineEmit
  BY <1>9 DEF JobsType, LineEmit
<1>10. CASE SaveError
  <2>1. jobsFile' = jobsFile \/ jobsFile' = <<>>
    BY <1>10 DEF SaveError
  <2>2. taken' = <<>> /\ kept' = <<>> /\ outbox' = <<>> /\ UNCHANGED jobs
    BY <1>10, Zenon DEF SaveError, Abort
  <2>3. <<>> \in Seq(Job) /\ <<>> \in Seq(EventTypes)
    OBVIOUS
  <2>4. jobsFile' \in Seq(Job)
    BY <2>1, <2>3, Zenon DEF JobsType
  <2> QED BY <2>2, <2>3, <2>4, Zenon DEF JobsType
<1>11. CASE Crash
  BY <1>11 DEF JobsType, Crash, diskVars
<1>12. CASE Restart
  BY <1>12 DEF JobsType, Restart, diskVars
<1> QED
  BY <1>1, <1>2, <1>3, <1>4, <1>5, <1>6, <1>7, <1>8, <1>9, <1>10, <1>11, <1>12
     DEF Next, QuietSteps

\* Counters, cursors and control states keep their types.
LEMMA ControlTypeStep == ControlType /\ JobsType /\ [Next]_vars => ControlType'
<1> SUFFICES ASSUME ControlType, [Next]_vars PROVE ControlType'
  OBVIOUS
<1> USE DEF ControlType, States, Modes
<1>1. CASE UNCHANGED vars
  BY <1>1 DEF vars
<1>2. CASE ClientWrite \/ InboundArrives
  <2>1. CASE ClientWrite
    <3>1. lines' \in Seq(Kinds)
      BY <2>1 DEF ClientWrite
    <3> QED BY <2>1, <3>1 DEF ClientWrite, requestVars, bounds
  <2>2. CASE InboundArrives
    BY <2>2 DEF InboundArrives, requestVars
  <2> QED BY <1>2, <2>1, <2>2
<1>3. CASE PublishAppend \/ PublishReplay \/ PublishCursor
  BY <1>3 DEF PublishAppend, PublishReplay, PublishCursor, envVars, requestVars, bounds
<1>4. CASE PublishError
  BY <1>4 DEF PublishError, Abort, Fault, envVars
<1>5. CASE BeginActionPoll \/ BeginFullPoll
  <2>1. PICK m \in Modes : BeginPoll(m)
    BY <1>5, Zenon DEF BeginActionPoll, BeginFullPoll, Modes
  <2>2. (pc' = "jobs" \/ pc' = "inbound" \/ pc' = "sink") /\ mode' = m
    BY <2>1 DEF BeginPoll, AfterJobs, DrainInbound
  <2>3. batch' \in Nat /\ inbox' \in Nat
    BY <2>1 DEF BeginPoll, AfterJobs, DrainInbound
  <2>4. UNCHANGED <<lines, offset, offsetFile, at, rid, arrived, retries, faults, crashes>>
    BY <2>1, Zenon DEF BeginPoll, bounds
  <2> QED BY <2>2, <2>3, <2>4
<1>6. CASE BeginInboundPoll
  BY <1>6 DEF BeginInboundPoll, DrainInbound, requestVars, bounds
<1>7. CASE JobEmit \/ JobEmitted \/ JobsDone
  <2>1. CASE JobEmit
    BY <2>1 DEF JobEmit, envVars, requestVars, bounds
  <2>2. CASE JobEmitted
    BY <2>2 DEF JobEmitted, envVars, requestVars, bounds
  <2>3. CASE JobsDone
    BY <2>3 DEF JobsDone, envVars, requestVars, bounds
  <2> QED BY <1>7, <2>1, <2>2, <2>3
<1>8. CASE SaveJobs
  BY <1>8 DEF SaveJobs, AfterJobs, DrainInbound, bounds
<1>9. CASE InboundEmit \/ InboundDone
  <2>1. CASE InboundEmit
    BY <2>1 DEF InboundEmit, envVars, requestVars, bounds
  <2>2. CASE InboundDone
    BY <2>2 DEF InboundDone, envVars, requestVars, bounds
  <2> QED BY <1>9, <2>1, <2>2
<1>10. CASE SubmitCompleted \/ SubmitFailed \/ SubmitStreaming \/ SubmitRejected
  <2>1. CASE SubmitCompleted \/ SubmitFailed
    <3>1. CASE SubmitCompleted
      BY <3>1 DEF SubmitCompleted, envVars, bounds
    <3>2. CASE SubmitFailed
      BY <3>2 DEF SubmitFailed, envVars, bounds
    <3> QED BY <2>1, <3>1, <3>2
  <2>2. CASE SubmitStreaming
    BY <2>2 DEF SubmitStreaming, envVars, bounds
  <2>3. CASE SubmitRejected
    BY <2>3 DEF SubmitRejected, envVars, bounds
  <2> QED BY <1>10, <2>1, <2>2, <2>3
<1>11. CASE SubmitTransient
  BY <1>11 DEF SubmitTransient, SinkDone, envVars
<1>12. CASE LineEmit \/ LineDone \/ Enqueue
  <2>1. CASE LineEmit
    BY <2>1 DEF LineEmit, envVars, bounds
  <2>2. CASE LineDone
    BY <2>2 DEF LineDone, envVars, bounds
  <2>3. CASE Enqueue
    BY <2>3 DEF Enqueue, envVars, bounds
  <2> QED BY <1>12, <2>1, <2>2, <2>3
<1>13. CASE SinkEmpty \/ Commit
  <2>1. CASE SinkEmpty
    BY <2>1 DEF SinkEmpty, SinkDone, envVars, requestVars, bounds
  <2>2. CASE Commit
    BY <2>2 DEF Commit, envVars, requestVars, bounds
  <2> QED BY <1>13, <2>1, <2>2
<1>14. CASE SaveError
  BY <1>14 DEF SaveError, Abort, Fault, envVars
<1>15. CASE Crash \/ Restart
  <2>1. CASE Crash
    BY <2>1 DEF Crash, diskVars, envVars, bounds
  <2>2. CASE Restart
    BY <2>2 DEF Restart, diskVars, envVars, bounds
  <2> QED BY <1>15, <2>1, <2>2
<1> QED
  BY <1>1, <1>2, <1>3, <1>4, <1>5, <1>6, <1>7, <1>8, <1>9, <1>10, <1>11, <1>12, <1>13,
     <1>14, <1>15 DEF Next

\* The steps that leave the event stream and the boot number alone, and do not
\* stop the process.
StreamQuietSteps ==
    \/ ClientWrite \/ InboundArrives
    \/ BeginActionPoll \/ BeginFullPoll \/ BeginInboundPoll
    \/ JobEmitted \/ JobsDone \/ SaveJobs \/ InboundDone
    \/ SubmitCompleted \/ SubmitFailed \/ SubmitStreaming \/ SubmitRejected \/ SubmitTransient
    \/ LineDone \/ Enqueue \/ SinkEmpty \/ Commit \/ SaveError

\* Those steps keep the stream, and the process up.
LEMMA StreamQuiet ==
    StreamQuietSteps => UNCHANGED <<streamVars, boot>> /\ (pc # "down" => pc' # "down")
<1> SUFFICES ASSUME StreamQuietSteps
             PROVE  UNCHANGED <<streamVars, boot>> /\ (pc # "down" => pc' # "down")
  OBVIOUS
<1>1. UNCHANGED <<streamVars, boot>>
  BY Zenon DEF StreamQuietSteps, ClientWrite, InboundArrives, BeginActionPoll, BeginFullPoll,
     BeginPoll, BeginInboundPoll, JobEmitted, JobsDone, SaveJobs, InboundDone, SubmitCompleted,
     SubmitFailed, SubmitStreaming, SubmitRejected, SubmitTransient, LineDone, Enqueue,
     SinkEmpty, Commit, SaveError
<1>2. ASSUME pc # "down" PROVE pc' # "down"
  <2>1. CASE ClientWrite \/ InboundArrives \/ SubmitRejected
    BY <1>2, <2>1 DEF ClientWrite, InboundArrives, SubmitRejected
  <2>2. CASE BeginActionPoll \/ BeginFullPoll \/ BeginInboundPoll \/ SaveJobs
    BY <2>2 DEF BeginActionPoll, BeginFullPoll, BeginPoll, BeginInboundPoll, SaveJobs,
       AfterJobs, DrainInbound
  <2>3. CASE JobEmitted \/ JobsDone \/ InboundDone \/ SubmitCompleted \/ SubmitFailed
             \/ SubmitStreaming \/ LineDone \/ Enqueue \/ Commit
    BY <2>3 DEF JobEmitted, JobsDone, InboundDone, SubmitCompleted, SubmitFailed,
       SubmitStreaming, LineDone, Enqueue, Commit
  <2>4. CASE SubmitTransient \/ SinkEmpty \/ SaveError
    BY <2>4 DEF SubmitTransient, SinkEmpty, SinkDone, SaveError, Abort
  <2> QED BY <2>1, <2>2, <2>3, <2>4 DEF StreamQuietSteps
<1> QED BY <1>1, <1>2

\* Every emit_event is for a well-typed request, line and event type.
LEMMA EmitSteps ==
    ASSUME JobsType, ControlType, JobEmit \/ InboundEmit \/ LineEmit
    PROVE  /\ \E req, line \in Nat, type \in EventTypes : EmitEvent(req, line, type)
           /\ UNCHANGED boot /\ pc' # "down"
<1>1. CASE JobEmit
  <2>1. Head(taken) \in Job
    BY <1>1 DEF JobEmit, JobsType
  <2>2. StageType[Head(taken).stage] \in EventTypes
    BY <2>1 DEF Job, StageType, EventTypes
  <2>3. Head(taken).req \in Nat /\ Head(taken).line \in Nat
    BY <2>1 DEF Job
  <2> QED BY <1>1, <2>2, <2>3 DEF JobEmit
<1>2. CASE InboundEmit
  <2>1. EmitEvent(0, 0, "inbound") /\ UNCHANGED boot /\ pc' # "down"
    BY <1>2 DEF InboundEmit
  <2> QED BY <2>1 DEF EventTypes
<1>3. CASE LineEmit
  <2>1. Head(outbox) \in EventTypes /\ rid \in Nat /\ at + 1 \in Nat
    BY <1>3 DEF LineEmit, JobsType, ControlType
  <2> QED BY <1>3, <2>1 DEF LineEmit
<1> QED BY <1>1, <1>2, <1>3

\* The event stream keeps its types.
LEMMA StreamTypeStep ==
    StreamType /\ JobsType /\ ControlType /\ [Next]_vars => StreamType'
<1> SUFFICES ASSUME StreamType, JobsType, ControlType, [Next]_vars PROVE StreamType'
  OBVIOUS
<1>1. CASE StreamQuietSteps \/ UNCHANGED vars
  <2>1. UNCHANGED <<streamVars, boot>>
    BY <1>1, StreamQuiet DEF vars, streamVars
  <2> QED BY <2>1 DEF StreamType, streamVars
<1>2. CASE JobEmit \/ InboundEmit \/ LineEmit
  <2>1. PICK req \in Nat, line \in Nat, type \in EventTypes : EmitEvent(req, line, type)
    BY <1>2, EmitSteps
  <2> QED BY <1>2, <2>1, EmitSteps, EmitType
<1>3. CASE PublishAppend
  BY <1>3 DEF StreamType, PublishAppend, PubSteps
<1>4. CASE PublishReplay
  <2>1. ev.seq \in Nat
    BY DEF StreamType, Event
  <2> QED BY <1>4, <2>1 DEF StreamType, PublishReplay, OtherReplays, PubSteps
<1>5. CASE PublishCursor
  BY <1>5 DEF StreamType, PublishCursor, PubSteps
<1>6. CASE PublishError
  BY <1>6 DEF StreamType, PublishError, OtherReplays, PubSteps
<1>7. CASE Crash
  BY <1>7 DEF StreamType, Crash, diskVars, PubSteps
<1>8. CASE Restart
  BY <1>8 DEF StreamType, Restart, diskVars
<1> QED
  BY <1>1, <1>2, <1>3, <1>4, <1>5, <1>6, <1>7, <1>8 DEF Next, StreamQuietSteps

-----------------------------------------------------------------------------

\* The events of the log have a number and a boot.
LEMMA LogTypes ==
    ASSUME StreamType, NEW i \in 1..Len(log)
    PROVE  log[i].seq \in Nat /\ log[i].boot \in Nat
<1>1. log[i] \in Event
  BY DEF StreamType
<1> QED BY <1>1 DEF Event

\* An event in the log stays there when another is appended.
LEMMA LogGrows ==
    ASSUME StreamType, log' = Append(log, ev), NEW seq, InLog(seq)
    PROVE  InLog(seq)'
BY DEF StreamType, InLog

\* emit_event keeps the invariant of the stream: its number is above every number
\* this boot has used.
LEMMA EmitInv ==
    ASSUME StreamType, StreamInv, NEW req \in Nat, NEW line \in Nat, NEW type \in EventTypes,
           EmitEvent(req, line, type), UNCHANGED boot, pc' # "down"
    PROVE  StreamInv'
<1>1. /\ ev'.seq = nextSeq /\ ev'.boot = boot /\ nextSeq' = nextSeq + 1 /\ pub' = "append"
      /\ UNCHANGED <<log, replay, cursorFile, maxSeq>>
  BY DEF EmitEvent
<1>2. CursorNotAhead' /\ MemoryNotAhead' /\ SeqMonotonicPerBoot'
  BY <1>1 DEF StreamInv, CursorNotAhead, MemoryNotAhead, SeqMonotonicPerBoot, InLog, InReplay
<1>3. CursorsOrdered' /\ Publishing'
  BY <1>1 DEF StreamInv, StreamType, CursorsOrdered, Publishing
<1>4. SeqFresh'
  <2> SUFFICES ASSUME NEW i \in 1..Len(log)
               PROVE  /\ log[i].boot <= boot
                      /\ log[i].boot = boot => log[i].seq < nextSeq + 1
                      /\ log[i].boot = boot => log[i].seq < nextSeq
    BY <1>1 DEF SeqFresh
  <2>1. log[i].seq \in Nat /\ nextSeq \in Nat
    BY LogTypes DEF StreamType
  <2>2. log[i].boot <= boot /\ (log[i].boot = boot => log[i].seq < nextSeq)
    BY DEF StreamInv, SeqFresh
  <2> QED BY <2>1, <2>2
<1> QED BY <1>2, <1>3, <1>4 DEF StreamInv

\* Every step keeps the invariant of the event stream.
LEMMA StreamInvStep ==
    StreamType /\ JobsType /\ ControlType /\ StreamInv /\ [Next]_vars => StreamInv'
<1> SUFFICES ASSUME StreamType, JobsType, ControlType, StreamInv, [Next]_vars
             PROVE  StreamInv'
  OBVIOUS
<1> USE DEF StreamInv
<1>1. CASE StreamQuietSteps \/ UNCHANGED vars
  <2>1. UNCHANGED <<streamVars, boot>> /\ (pc # "down" => pc' # "down")
    BY <1>1, StreamQuiet DEF vars, streamVars
  <2> QED BY <2>1 DEF streamVars, CursorNotAhead, SeqMonotonicPerBoot, CursorsOrdered,
             MemoryNotAhead, Publishing, SeqFresh, InLog, InReplay
<1>2. CASE JobEmit \/ InboundEmit \/ LineEmit
  <2>1. PICK req \in Nat, line \in Nat, type \in EventTypes : EmitEvent(req, line, type)
    BY <1>2, EmitSteps
  <2> QED BY <1>2, <2>1, EmitSteps, EmitInv
<1>3. CASE PublishAppend
  <2>1. /\ log' = Append(log, ev) /\ pub = "append" /\ pub' = "replay"
        /\ UNCHANGED <<replay, cursorFile, maxSeq, nextSeq, ev, boot, pc>>
    BY <1>3 DEF PublishAppend
  <2>2. /\ Len(log') = Len(log) + 1 /\ log'[Len(log) + 1] = ev
        /\ \A i \in 1..Len(log) : log'[i] = log[i]
        /\ Len(log) \in Nat
    BY <2>1 DEF StreamType
  <2>3. CursorNotAhead' /\ MemoryNotAhead'
    <3>1. \A seq : InReplay(seq) => InReplay(seq)'
      BY <2>1 DEF InReplay
    <3> QED BY <2>1, <3>1, LogGrows DEF CursorNotAhead, MemoryNotAhead
  <2>4. CursorsOrdered' /\ Publishing'
    <3>1. InLog(ev.seq)'
      BY <2>1, <2>2 DEF InLog
    <3> QED BY <2>1, <3>1 DEF CursorsOrdered, Publishing
  <2>5. SeqFresh'
    <3> SUFFICES ASSUME NEW i \in 1..(Len(log) + 1)
                 PROVE  log'[i].boot <= boot /\ (log'[i].boot = boot => log'[i].seq < nextSeq)
      BY <2>1, <2>2 DEF SeqFresh
    <3>1. CASE i = Len(log) + 1
      BY <2>1, <2>2, <3>1 DEF Publishing, StreamType
    <3>2. CASE i \in 1..Len(log)
      BY <2>2, <3>2 DEF SeqFresh
    <3> QED BY <2>2, <3>1, <3>2
  <2>6. SeqMonotonicPerBoot'
    <3> SUFFICES ASSUME NEW i \in 1..(Len(log) + 1), NEW j \in 1..(Len(log) + 1),
                        i < j, log'[i].boot = log'[j].boot
                 PROVE  log'[i].seq < log'[j].seq
      BY <2>2 DEF SeqMonotonicPerBoot
    <3>1. i \in 1..Len(log)
      BY <2>2
    <3>2. CASE j = Len(log) + 1
      BY <2>1, <2>2, <3>1, <3>2 DEF Publishing, SeqFresh
    <3>3. CASE j \in 1..Len(log)
      BY <2>2, <3>1, <3>3 DEF SeqMonotonicPerBoot
    <3> QED BY <2>2, <3>2, <3>3
  <2> QED BY <2>3, <2>4, <2>5, <2>6
<1>4. CASE PublishReplay
  <2>1. /\ pub = "replay" /\ pub' = "cursor" /\ maxSeq' = ev.seq
        /\ replay' = {e \in replay : e.seq # ev.seq} \union {ev}
        /\ UNCHANGED <<log, cursorFile, nextSeq, ev, boot, pc>>
    BY <1>4 DEF PublishReplay, OtherReplays
  <2>2. ev.seq \in Nat /\ maxSeq < ev.seq /\ ev.seq < nextSeq /\ InLog(ev.seq)
    BY <2>1 DEF Publishing, StreamType, Event
  <2>3. InReplay(ev.seq)' /\ \A seq : InReplay(seq) /\ seq # ev.seq => InReplay(seq)'
    BY <2>1 DEF InReplay
  <2>4. \A seq : InLog(seq)' <=> InLog(seq)
    BY <2>1 DEF InLog
  <2>5. cursorFile # ev.seq
    BY <2>2 DEF CursorsOrdered, StreamType
  <2>6. CursorNotAhead' /\ MemoryNotAhead'
    BY <2>1, <2>2, <2>3, <2>4, <2>5 DEF CursorNotAhead, MemoryNotAhead
  <2>7. CursorsOrdered' /\ Publishing'
    BY <2>1, <2>2 DEF CursorsOrdered, Publishing, StreamType
  <2>8. SeqFresh' /\ SeqMonotonicPerBoot'
    BY <2>1 DEF SeqFresh, SeqMonotonicPerBoot
  <2> QED BY <2>6, <2>7, <2>8
<1>5. CASE PublishCursor
  <2>1. /\ pub' = "none" /\ cursorFile' = maxSeq
        /\ UNCHANGED <<log, replay, maxSeq, nextSeq, ev, boot, pc>>
    BY <1>5 DEF PublishCursor
  <2> QED BY <2>1 DEF StreamType, CursorNotAhead, SeqMonotonicPerBoot, CursorsOrdered,
             MemoryNotAhead, Publishing, SeqFresh, InLog, InReplay
<1>6. CASE PublishError
  <2>1. /\ pub' = "none" /\ pc' # "down"
        /\ UNCHANGED <<log, maxSeq, nextSeq, ev, boot>>
    BY <1>6 DEF PublishError, Abort
  <2>2. /\ cursorFile' = cursorFile \/ cursorFile' = 0
        /\ \A seq : InReplay(seq) /\ seq <= maxSeq => InReplay(seq)'
    <3>1. CASE pub = "replay"
      <4>1. maxSeq < ev.seq /\ ev.seq \in Nat
        BY <3>1 DEF Publishing, StreamType, Event
      <4>2. UNCHANGED cursorFile /\ replay' \in {replay, OtherReplays(ev.seq)}
        BY <1>6, <3>1 DEF PublishError
      <4>3. \A e \in replay : e.seq <= maxSeq => e \in replay'
        BY <4>1, <4>2 DEF OtherReplays, StreamType, Event
      <4> QED BY <4>2, <4>3 DEF InReplay
    <3>2. CASE pub # "replay"
      <4>1. UNCHANGED replay /\ cursorFile' \in {cursorFile, 0}
        BY <1>6, <3>2 DEF PublishError
      <4> QED BY <4>1 DEF InReplay
    <3> QED BY <3>1, <3>2
  <2>3. \A seq : InLog(seq)' <=> InLog(seq)
    BY <2>1 DEF InLog
  <2>4. CursorNotAhead' /\ MemoryNotAhead'
    BY <2>1, <2>2, <2>3 DEF CursorNotAhead, MemoryNotAhead, CursorsOrdered, StreamType
  <2>5. CursorsOrdered' /\ Publishing'
    BY <2>1, <2>2 DEF CursorsOrdered, Publishing, StreamType
  <2>6. SeqFresh' /\ SeqMonotonicPerBoot'
    BY <2>1 DEF SeqFresh, SeqMonotonicPerBoot
  <2> QED BY <2>4, <2>5, <2>6
<1>7. CASE Crash
  <2>1. pub' = "none" /\ UNCHANGED <<log, replay, cursorFile, maxSeq, nextSeq, ev, boot>>
    BY <1>7 DEF Crash, diskVars
  <2> QED BY <2>1 DEF CursorNotAhead, SeqMonotonicPerBoot, CursorsOrdered,
             MemoryNotAhead, Publishing, SeqFresh, InLog, InReplay
<1>8. CASE Restart
  <2>1. /\ pc = "down" /\ boot' = boot + 1 /\ maxSeq' = cursorFile /\ nextSeq' = cursorFile + 1
        /\ UNCHANGED <<log, replay, cursorFile, pub, ev>>
    BY <1>8 DEF Restart, diskVars
  <2>2. pub = "none"
    BY <2>1 DEF Publishing
  <2>3. CursorNotAhead' /\ MemoryNotAhead'
    BY <2>1 DEF CursorNotAhead, MemoryNotAhead, InLog, InReplay
  <2>4. CursorsOrdered' /\ Publishing'
    BY <2>1, <2>2 DEF CursorsOrdered, Publishing, StreamType
  <2>5. SeqFresh'
    <3>1. ASSUME NEW i \in 1..Len(log)
          PROVE  log[i].boot <= boot + 1 /\ log[i].boot # boot + 1
      <4>1. log[i].boot \in Nat /\ boot \in Nat
        BY LogTypes DEF StreamType
      <4>2. log[i].boot <= boot
        BY DEF SeqFresh
      <4> QED BY <4>1, <4>2
    <3> QED BY <2>1, <3>1 DEF SeqFresh
  <2>6. SeqMonotonicPerBoot'
    BY <2>1 DEF SeqMonotonicPerBoot
  <2> QED BY <2>3, <2>4, <2>5, <2>6
<1> QED
  BY <1>1, <1>2, <1>3, <1>4, <1>5, <1>6, <1>7, <1>8 DEF Next, StreamQuietSteps

\* The flag of the wake handle stays a Boolean.
LEMMA WokenStep == woken \in BOOLEAN /\ [Next]_vars => woken' \in BOOLEAN
<1> SUFFICES ASSUME woken \in BOOLEAN, [Next]_vars PROVE woken' \in BOOLEAN
  OBVIOUS
<1>1. woken' = woken \/ woken' = TRUE \/ woken' = FALSE
  BY Zenon DEF Next, vars, envVars, ClientWrite, InboundArrives, PublishAppend, PublishReplay,
     PublishCursor, PublishError, BeginActionPoll, BeginFullPoll, BeginInboundPoll, JobEmit,
     JobEmitted, JobsDone, SaveJobs, InboundEmit, InboundDone, SubmitCompleted, SubmitFailed,
     SubmitStreaming, SubmitRejected, SubmitTransient, LineEmit, LineDone, Enqueue, SinkEmpty,
     Commit, SaveError, Crash, Restart
<1> QED BY <1>1, Zenon

\* The initial state.
LEMMA AdapterInit ==
    Init => StreamType /\ JobsType /\ ControlType /\ woken \in BOOLEAN /\ StreamInv
<1> SUFFICES ASSUME Init
             PROVE  StreamType /\ JobsType /\ ControlType /\ woken \in BOOLEAN /\ StreamInv
  OBVIOUS
<1>1. StreamType
  BY DEF Init, StreamType, PubSteps, Event, NoEvent, EventTypes
<1>2. JobsType
  BY DEF Init, JobsType
<1>3. ControlType
  BY DEF Init, ControlType, States, Modes
<1>4. woken \in BOOLEAN
  BY Zenon DEF Init
<1>5. StreamInv
  BY DEF Init, StreamInv, CursorNotAhead, SeqMonotonicPerBoot, CursorsOrdered, MemoryNotAhead,
     Publishing, SeqFresh
<1> QED BY <1>1, <1>2, <1>3, <1>4, <1>5

\* What is proved by induction over the steps of the runtime.
AdapterInv == StreamType /\ JobsType /\ ControlType /\ woken \in BOOLEAN /\ StreamInv

\* It holds in every reachable state.
LEMMA AdapterInvariant == Spec => []AdapterInv
<1>1. Init => AdapterInv
  BY AdapterInit DEF AdapterInv
<1>2. AdapterInv /\ [Next]_vars => AdapterInv'
  BY StreamTypeStep, JobsTypeStep, ControlTypeStep, WokenStep, StreamInvStep DEF AdapterInv
<1> QED BY <1>1, <1>2, PTL DEF Spec

\* Every variable of the runtime keeps its type, for all bounds.
THEOREM AdapterTypeOK == Spec => []TypeOK
<1>1. AdapterInv => TypeOK
  BY Zenon DEF AdapterInv, StreamType, JobsType, ControlType, TypeOK
<1> QED BY <1>1, AdapterInvariant, PTL

\* The cursor a client reads from disk never points past an event that is in the
\* log and in its replay file, for any number of failing writes and crashes
\* (publish_event writes the log, the replay file and the cursor in this order).
THEOREM StreamCursorNotAhead == Spec => []CursorNotAhead
<1>1. AdapterInv => CursorNotAhead
  BY DEF AdapterInv, StreamInv
<1> QED BY <1>1, AdapterInvariant, PTL

\* Between two starts of the process the log is strictly ordered by sequence
\* number, whatever writes fail.
THEOREM StreamMonotonicPerBoot == Spec => []SeqMonotonicPerBoot
<1>1. AdapterInv => SeqMonotonicPerBoot
  BY DEF AdapterInv, StreamInv
<1> QED BY <1>1, AdapterInvariant, PTL

-----------------------------------------------------------------------------
(* Requests: from a line of the sink to its events, through the jobs.      *)

JobsIn(s) == {s[i] : i \in 1..Len(s)}
LogSet == {log[i] : i \in 1..Len(log)}
Mem == JobsIn(jobs) \union JobsIn(taken) \union JobsIn(kept)
File == JobsIn(jobsFile)
Sorted(s) == \A i, j \in 1..Len(s) : i < j => s[i].req < s[j].req

\* Where the parts of a poll are, by the state it is in.
ControlInv ==
    /\ pc \notin {"jobs", "job"} => taken = <<>> /\ kept = <<>>
    /\ pc \in {"jobs", "job", "down"} => jobs = <<>>
    /\ pc = "job" => taken # <<>>
    /\ pc # "line" => outbox = <<>>
    /\ pub # "none" => pc \in {"job", "inbound", "line"}
    /\ pc = "down" => crashes > 0
    /\ offset <= at /\ at <= Len(lines) /\ offsetFile <= Len(lines)
    /\ pc \notin {"sink", "line", "enqueue", "commit"} => at = offset
    /\ pc \in {"line", "enqueue"} => at < Len(lines)

\* Request ids go up along the jobs, and the one of a line being answered is new to them.
IdInv ==
    /\ Sorted(jobs) /\ Sorted(taken) /\ Sorted(kept) /\ Sorted(jobsFile)
    /\ \A J \in JobsIn(kept) : J.stage >= 1 /\ \A K \in JobsIn(taken) : J.req < K.req
    /\ \A J \in Mem \union File :
          J.req <= rid /\ J.line <= Len(lines) /\ (pc = "line" => J.req < rid)
    /\ \A e \in LogSet : e.req <= rid /\ e.line <= Len(lines)

\* The event under way is that of the first job taken, of the line, or an inbound one; a
\* line has any number of side events and ends with a terminal one.
LineEvents ==
    /\ \A i \in 1..Len(outbox) : IF i = Len(outbox) THEN outbox[i] \in Terminal
                                 ELSE outbox[i] = "side"
    /\ pub = "append" => /\ ev.req = rid /\ ev.line = at + 1
                         /\ outbox # <<>> => ev.type = "side"
    /\ outbox = <<>> => /\ ev.req = rid /\ ev.line = at + 1 /\ ev.type \in Terminal
                        /\ pub # "append" => ev \in LogSet
    /\ outbox # <<>> \/ pub = "append" => \A e \in LogSet : e.req = rid => e.type = "side"
EventInv ==
    /\ pc = "job" => /\ ev.req = Head(taken).req /\ ev.line = Head(taken).line
                     /\ ev.type = StageType[Head(taken).stage]
                     /\ pub # "append" => ev \in LogSet
    /\ pc = "inbound" /\ pub = "append" => ev.req = 0 /\ ev.line = 0 /\ ev.type = "inbound"
    /\ pc = "line" => LineEvents

\* A job is at least at every stage that the log tells of its request; the jobs file may be
\* behind memory only within a poll.
Upto(J) == \A e \in LogSet : e.req = J.req /\ e.type \in DOMAIN StageOf => StageOf[e.type] <= J.stage
FileInv ==
    /\ \A J \in File : Upto(J)
    /\ JobsIn(taken) \subseteq File
    /\ pc \notin {"down", "jobs", "job", "savejobs", "enqueue"} => jobs = jobsFile
CausalInv ==
    /\ faults = 0 => FileInv
    /\ faults = 0 \/ crashes = 0 => StagesInOrder /\ \A J \in Mem : Upto(J)

\* No job is left of a request that has its terminal event, but the one just emitted.
NoTerminal(req) == \A e \in LogSet : e.req = req => e.type \notin Terminal
LastStage(J) == pc = "job" /\ pub # "append" /\ J = Head(taken) /\ J.stage = 2
TerminalInv ==
    crashes = 0 => AtMostOneTerminal /\ \A J \in Mem : NoTerminal(J.req) \/ LastStage(J)

\* A line behind the working cursor has its terminal event or a job in the file, and a job in
\* the file one in memory.
Answered(l) == \E e \in LogSet : e.line = l /\ e.type \in Terminal
HasJob(S, l) == \E J \in S : J.line = l
LostInv ==
    faults = 0 =>
    /\ offset = offsetFile
    /\ pc # "down" => \A J \in File : Answered(J.line) \/ HasJob(Mem, J.line)
    /\ pc = "enqueue" => HasJob(Mem, at + 1)
    /\ \A l \in 1..at : Answered(l) \/ lines[l] = "malformed" \/ HasJob(File, l)

\* The lines accepted and the lines heard of, accepted or answered, so far; the lines known,
\* which also have a job in S that is about to be accepted.  In a set of jobs the first one of
\* a line not heard of comes after all lines accepted before it; among the lines the cursor has
\* passed, and below a line known, all requests are known; a job past its first stage is
\* of an accepted line.
LinesOf(types) == {e.line : e \in {f \in LogSet : f.type \in types}}
Accepted == LinesOf({"accepted"})
Heard == LinesOf(Terminal \union {"accepted"})
Fresh(S) == {J \in S : J.stage = 0}
Known(H, S) == H \union {J.line : J \in Fresh(S)}
Earlier(S, J) == {K \in Fresh(S) : K.req < J.req}
InOrder(A, H, S) ==
    \A J \in Fresh(S) :
        \/ J.line \in H
        \/ HasJob(Earlier(S, J), J.line)
        \/ (\A a \in A : a < J.line) /\ (\A K \in Earlier(S, J) : K.line < J.line)
Closed(H, S, n, ls) ==
    /\ \A l \in 1..n : ls[l] = "request" => l \in Known(H, S)
    /\ \A k \in Known(H, S) : \A l \in 1..(k - 1) : ls[l] = "request" => l \in Known(H, S)
Told(A, S) == \A J \in S : J.stage # 0 => J.line \in A
Ordered(A, H, S, n, ls) == InOrder(A, H, S) /\ Closed(H, S, n, ls) /\ Told(A, S)
InLineOrder ==
    \A i, j \in 1..Len(log) :
        /\ i < j /\ log[i].type = "accepted" /\ log[j].type = "accepted"
        /\ ~HeardBefore(log[j].line, j)
        => log[i].line < log[j].line
OrderInv ==
    faults = 0 =>
    /\ Ordered(Accepted, Heard, File, at, lines)
    /\ pc # "down" => Ordered(Accepted, Heard, Mem, at, lines)
    /\ pc \in {"jobs", "job"} => \A J \in Fresh(File) : J \in JobsIn(taken) \/ J.line \in Heard
    /\ pc = "enqueue" => at + 1 \in Known(Heard, Mem)
    /\ InLineOrder

-----------------------------------------------------------------------------
(* Sequences of jobs and the log as sets.                                  *)

\* The jobs of a sequence are jobs, and an empty one has none.
LEMMA JobsInOps ==
    /\ JobsIn(<<>>) = {} /\ Sorted(<<>>)
    /\ \A s \in Seq(Job) : JobsIn(s) \subseteq Job
BY DEF JobsIn, Sorted

\* Taking the first job of a sequence.
LEMMA JobsInTail ==
    ASSUME NEW s \in Seq(Job), s # <<>>
    PROVE  /\ Head(s) \in Job /\ Tail(s) \in Seq(Job)
           /\ JobsIn(s) = {Head(s)} \union JobsIn(Tail(s))
           /\ Sorted(s) => Sorted(Tail(s)) /\ \A K \in JobsIn(Tail(s)) : Head(s).req < K.req
<1>1. /\ Head(s) = s[1] /\ Head(s) \in Job /\ Tail(s) \in Seq(Job) /\ Len(Tail(s)) = Len(s) - 1
      /\ \A i \in 1..(Len(s) - 1) : Tail(s)[i] = s[i + 1]
      /\ Len(s) \in Nat /\ Len(s) >= 1
  OBVIOUS
<1>2. ASSUME NEW J \in JobsIn(s) PROVE J \in {Head(s)} \union JobsIn(Tail(s))
  <2>1. PICK i \in 1..Len(s) : J = s[i]
    BY DEF JobsIn
  <2>2. CASE i = 1
    BY <1>1, <2>1, <2>2
  <2>3. CASE i # 1
    <3>1. i - 1 \in 1..(Len(s) - 1) /\ Tail(s)[i - 1] = s[i]
      BY <1>1, <2>3
    <3> QED BY <1>1, <2>1, <3>1 DEF JobsIn
  <2> QED BY <2>2, <2>3
<1>3. ASSUME NEW K \in JobsIn(Tail(s)) PROVE K \in JobsIn(s) /\ (Sorted(s) => Head(s).req < K.req)
  <2>1. PICK i \in 1..(Len(s) - 1) : K = s[i + 1]
    BY <1>1 DEF JobsIn
  <2> QED BY <1>1, <2>1 DEF JobsIn, Sorted
<1>4. Head(s) \in JobsIn(s)
  BY <1>1 DEF JobsIn
<1>5. Sorted(s) => Sorted(Tail(s))
  BY <1>1 DEF Sorted
<1> QED BY <1>1, <1>2, <1>3, <1>4, <1>5

\* A job is put at the end of a sequence.
LEMMA JobsInAppend ==
    ASSUME NEW s \in Seq(Job), NEW J \in Job
    PROVE  /\ Append(s, J) \in Seq(Job)
           /\ JobsIn(Append(s, J)) = JobsIn(s) \union {J}
           /\ Sorted(s) /\ (\A K \in JobsIn(s) : K.req < J.req) => Sorted(Append(s, J))
<1> DEFINE t == Append(s, J)
<1>1. /\ t \in Seq(Job) /\ Len(t) = Len(s) + 1 /\ t[Len(s) + 1] = J
      /\ \A i \in 1..Len(s) : t[i] = s[i]
      /\ Len(s) \in Nat
  OBVIOUS
<1> HIDE DEF t
<1>2. JobsIn(t) = JobsIn(s) \union {J}
  BY <1>1 DEF JobsIn
<1>3. Sorted(s) /\ (\A K \in JobsIn(s) : K.req < J.req) => Sorted(t)
  <2> SUFFICES ASSUME Sorted(s), \A K \in JobsIn(s) : K.req < J.req,
                      NEW i \in 1..(Len(s) + 1), NEW j \in 1..(Len(s) + 1), i < j
               PROVE  t[i].req < t[j].req
    BY <1>1 DEF Sorted
  <2>1. i \in 1..Len(s) /\ t[i] = s[i] /\ s[i] \in JobsIn(s)
    BY <1>1 DEF JobsIn
  <2>2. CASE j = Len(s) + 1
    BY <1>1, <2>1, <2>2
  <2>3. CASE j \in 1..Len(s)
    BY <1>1, <2>1, <2>3 DEF Sorted
  <2> QED BY <1>1, <2>2, <2>3
<1> QED BY <1>1, <1>2, <1>3 DEF t

\* A sequence sorted by request has one job for a request.
LEMMA SortedOnce ==
    ASSUME NEW s \in Seq(Job), Sorted(s), NEW J \in JobsIn(s), NEW K \in JobsIn(s), J.req = K.req
    PROVE  J = K
<1>1. PICK i \in 1..Len(s) : J = s[i]
  BY DEF JobsIn
<1>2. PICK j \in 1..Len(s) : K = s[j]
  BY DEF JobsIn
<1>3. s[i].req \in Nat /\ s[j].req \in Nat
  <2>1. s[i] \in Job /\ s[j] \in Job
    OBVIOUS
  <2> QED BY <2>1 DEF Job
<1>4. i = j
  BY <1>1, <1>2, <1>3 DEF Sorted
<1> QED BY <1>1, <1>2, <1>4

\* An event is put at the end of the log.
LEMMA LogSetAppend ==
    ASSUME StreamType, log' = Append(log, ev)
    PROVE  /\ LogSet' = LogSet \union {ev} /\ ev \in Event
           /\ Len(log') = Len(log) + 1 /\ log'[Len(log) + 1] = ev /\ Len(log) \in Nat
           /\ \A i \in 1..Len(log) : log'[i] = log[i]
<1>1. /\ ev \in Event /\ Len(log') = Len(log) + 1 /\ log'[Len(log) + 1] = ev /\ Len(log) \in Nat
      /\ \A i \in 1..Len(log) : log'[i] = log[i]
  BY DEF StreamType
<1> QED BY <1>1 DEF LogSet

\* Where the parts of a poll are.
LEMMA ControlStep == ControlType /\ JobsType /\ ControlInv /\ [Next]_vars => ControlInv'
<1> SUFFICES ASSUME ControlType, JobsType, ControlInv, [Next]_vars PROVE ControlInv'
  OBVIOUS
<1> USE DEF ControlInv, ControlType
<1>1. CASE UNCHANGED vars
  BY <1>1 DEF vars
<1>2. CASE ClientWrite
  <2>1. Len(lines') = Len(lines) + 1
    BY <1>2 DEF ClientWrite
  <2> QED BY <1>2, <2>1 DEF ClientWrite, streamVars, requestVars, bounds
<1>3. CASE InboundArrives
  BY <1>3 DEF InboundArrives, streamVars, requestVars
<1>4. CASE PublishAppend \/ PublishReplay \/ PublishCursor
  BY <1>4 DEF PublishAppend, PublishReplay, PublishCursor, envVars, requestVars, bounds
<1>5. CASE PublishError
  BY <1>5 DEF PublishError, Abort, Fault, envVars
<1>6. CASE BeginActionPoll \/ BeginFullPoll
  <2>1. PICK m : BeginPoll(m) /\ pc = "idle"
    BY <1>6 DEF BeginActionPoll, BeginFullPoll
  <2>2. /\ pc' = IF jobs = <<>> THEN IF m = "full" THEN "inbound" ELSE "sink" ELSE "jobs"
        /\ taken' = jobs /\ jobs' = <<>>
        /\ UNCHANGED <<lines, kept, outbox, pub, offset, offsetFile, at, crashes>>
    BY <2>1 DEF BeginPoll, AfterJobs, DrainInbound, streamVars, bounds
  <2> QED BY <2>1, <2>2
<1>7. CASE BeginInboundPoll
  BY <1>7 DEF BeginInboundPoll, DrainInbound, streamVars, requestVars, bounds
<1>8. CASE JobEmit
  BY <1>8 DEF JobEmit, EmitEvent, envVars, requestVars, bounds
<1>9. CASE JobEmitted \/ JobsDone
  BY <1>9 DEF JobEmitted, JobsDone, envVars, streamVars, bounds
<1>10. CASE SaveJobs
  BY <1>10 DEF SaveJobs, AfterJobs, DrainInbound, streamVars, bounds
<1>11. CASE InboundEmit \/ InboundDone
  BY <1>11 DEF InboundEmit, InboundDone, EmitEvent, envVars, streamVars, requestVars, bounds
<1>12. CASE SubmitCompleted \/ SubmitFailed
  BY <1>12 DEF SubmitCompleted, SubmitFailed, AtRequest, AtLine, envVars, streamVars, bounds
<1>13. CASE SubmitStreaming \/ SubmitRejected
  BY <1>13 DEF SubmitStreaming, SubmitRejected, AtRequest, AtLine, envVars, streamVars, bounds
<1>14. CASE SubmitTransient \/ SinkEmpty
  BY <1>14 DEF SubmitTransient, SinkEmpty, SinkDone, AtRequest, AtLine, envVars, streamVars, requestVars, bounds
<1>15. CASE LineEmit
  BY <1>15 DEF LineEmit, EmitEvent, envVars, bounds
<1>16. CASE LineDone \/ Enqueue
  BY <1>16 DEF LineDone, Enqueue, envVars, streamVars, bounds
<1>17. CASE Commit
  BY <1>17 DEF Commit, envVars, streamVars, bounds
<1>18. CASE SaveError
  <2>1. offsetFile' = offsetFile \/ offsetFile' = 0
    BY <1>18 DEF SaveError
  <2>2. /\ pc' = "idle" /\ taken' = <<>> /\ kept' = <<>> /\ outbox' = <<>> /\ at' = offset
        /\ UNCHANGED <<lines, pub, offset, jobs, crashes>> /\ pc \in {"savejobs", "enqueue", "commit"}
    BY <1>18 DEF SaveError, Abort, Fault, envVars, streamVars
  <2> QED BY <2>1, <2>2
<1>19. CASE Crash
  BY <1>19 DEF Crash, diskVars
<1>20. CASE Restart
  BY <1>20 DEF Restart, diskVars, envVars, bounds
<1> QED
  BY <1>1, <1>2, <1>3, <1>4, <1>5, <1>6, <1>7, <1>8, <1>9, <1>10, <1>11, <1>12, <1>13,
     <1>14, <1>15, <1>16, <1>17, <1>18, <1>19, <1>20 DEF Next

\* The elements of those sets.
LEMMA Elements ==
    ASSUME StreamType, JobsType
    PROVE  /\ \A J \in Mem \union File : J \in Job /\ J.req \in Nat /\ J.line \in Nat /\ J.stage \in 0..2
           /\ \A e \in LogSet : e \in Event /\ e.req \in Nat /\ e.line \in Nat /\ e.type \in EventTypes
<1>1. ASSUME NEW J \in Mem \union File PROVE J \in Job
  <2>1. \E s \in {jobs, taken, kept, jobsFile} : J \in JobsIn(s)
    BY DEF Mem, File
  <2> QED BY <2>1, JobsInOps DEF JobsType
<1>2. ASSUME NEW e \in LogSet PROVE e \in Event
  BY DEF LogSet, StreamType
<1> QED BY <1>1, <1>2 DEF Job, Event

\* Steps after which the jobs and the log are no more than before.
LEMMA IdLess ==
    ASSUME StreamType, JobsType, ControlType, IdInv,
           Mem' \subseteq Mem \union File, File' \subseteq Mem \union File, LogSet' = LogSet,
           Sorted(jobs)', Sorted(taken)', Sorted(kept)', Sorted(jobsFile)',
           kept' = <<>> \/ UNCHANGED <<kept, taken>>,
           rid' \in Nat, rid' >= rid, Len(lines') >= Len(lines),
           pc' = "line" => rid' > rid \/ (pc = "line" /\ rid' = rid)
    PROVE  IdInv'
<1>1. \A J \in Mem \union File : J.req \in Nat /\ J.line \in Nat
  BY Elements
<1>2. \A e \in LogSet : e.req \in Nat /\ e.line \in Nat
  BY Elements
<1>3. Len(lines) \in Nat /\ rid \in Nat
  BY DEF ControlType
<1>4. Len(lines') \in Nat
  BY <1>3
<1>5. \A J \in JobsIn(kept)' : J.stage >= 1 /\ \A K \in JobsIn(taken)' : J.req < K.req
  BY JobsInOps DEF IdInv
<1>6. \A J \in Mem' \union File' : J.req <= rid' /\ J.line <= Len(lines') /\ (pc' = "line" => J.req < rid')
  BY <1>1, <1>3 DEF IdInv
<1>7. \A e \in LogSet' : e.req <= rid' /\ e.line <= Len(lines')
  BY <1>2, <1>3 DEF IdInv
<1> QED BY <1>5, <1>6, <1>7 DEF IdInv

\* The steps that leave the log and all jobs where they are.
StillSteps ==
    \/ UNCHANGED vars \/ ClientWrite \/ InboundArrives \/ PublishReplay \/ PublishCursor
    \/ BeginInboundPoll \/ JobEmit \/ InboundEmit \/ InboundDone
    \/ SubmitCompleted \/ SubmitFailed \/ SubmitRejected \/ SubmitTransient
    \/ LineEmit \/ LineDone \/ SinkEmpty \/ Commit

\* What they leave alone.
LEMMA StillEffect ==
    StillSteps => /\ UNCHANGED <<log, jobs, taken, kept, jobsFile, faults, crashes>>
                  /\ LogSet' = LogSet /\ Mem' = Mem /\ File' = File
<1> SUFFICES ASSUME StillSteps
             PROVE  /\ UNCHANGED <<log, jobs, taken, kept, jobsFile, faults, crashes>>
                    /\ LogSet' = LogSet /\ Mem' = Mem /\ File' = File
  OBVIOUS
<1>1. UNCHANGED <<log, jobs, taken, kept, jobsFile, faults, crashes>>
  BY Zenon DEF StillSteps, vars, envVars, streamVars, requestVars, bounds, EmitEvent, ClientWrite,
     InboundArrives, PublishReplay, PublishCursor, BeginInboundPoll, JobEmit, InboundEmit,
     InboundDone, SubmitCompleted, SubmitFailed, SubmitRejected, SubmitTransient, LineEmit,
     LineDone, SinkEmpty, Commit
<1> QED BY <1>1 DEF LogSet, Mem, File, JobsIn

\* What they do to the request ids and the lines.
LEMMA StillIds ==
    ASSUME StillSteps, ControlType, ControlInv
    PROVE  /\ rid' \in Nat /\ rid' >= rid /\ Len(lines') >= Len(lines)
           /\ pc' = "line" => rid' > rid \/ (pc = "line" /\ rid' = rid)
<1> USE DEF ControlType
<1>1. CASE UNCHANGED vars \/ InboundArrives \/ PublishReplay \/ PublishCursor \/ Commit
  BY <1>1 DEF vars, InboundArrives, PublishReplay, PublishCursor, Commit, envVars, requestVars
<1>2. CASE ClientWrite
  <2>1. Len(lines') = Len(lines) + 1
    BY <1>2 DEF ClientWrite
  <2> QED BY <1>2, <2>1 DEF ClientWrite, requestVars
<1>3. CASE BeginInboundPoll \/ JobEmit \/ InboundEmit \/ InboundDone
  BY <1>3 DEF BeginInboundPoll, JobEmit, InboundEmit, InboundDone, DrainInbound, envVars, requestVars
<1>4. CASE SubmitCompleted \/ SubmitFailed \/ SubmitRejected \/ SubmitTransient
  BY <1>4 DEF SubmitCompleted, SubmitFailed, SubmitRejected, SubmitTransient, SinkDone, AtRequest, AtLine, envVars
<1>5. CASE LineEmit \/ LineDone \/ SinkEmpty
  BY <1>5 DEF LineEmit, LineDone, SinkEmpty, SinkDone, envVars, requestVars
<1> QED BY <1>1, <1>2, <1>3, <1>4, <1>5 DEF StillSteps

\* What the other steps do to the jobs.
LEMMA JobsEffect ==
    ASSUME ControlInv
    PROVE  /\ BeginActionPoll \/ BeginFullPoll =>
                 /\ pc = "idle" /\ pub = "none" /\ taken' = jobs /\ jobs' = <<>> /\ kept' = <<>>
                 /\ (IF jobs = <<>> THEN pc' \in {"inbound", "sink"} ELSE pc' = "jobs")
                 /\ UNCHANGED <<lines, log, pub, ev, offset, offsetFile, at, rid, jobsFile, kept,
                                outbox, faults, crashes>>
           /\ SaveJobs =>
                 /\ pc = "savejobs" /\ pc' \in {"inbound", "sink"} /\ jobsFile' = jobs
                 /\ pub = "none" /\ taken = <<>> /\ kept = <<>>
                 /\ UNCHANGED <<lines, log, pub, ev, offset, offsetFile, at, rid, jobs, taken,
                                kept, outbox, faults, crashes>>
           /\ PublishError =>
                 /\ pc' = "idle" /\ pub' = "none" /\ pub # "none" /\ taken' = <<>> /\ kept' = <<>>
                 /\ outbox' = <<>> /\ at' = offset /\ faults' = faults + 1
                 /\ UNCHANGED <<lines, log, ev, offset, offsetFile, rid, jobs, jobsFile, crashes>>
           /\ SaveError =>
                 /\ pc' = "idle" /\ pub = "none" /\ taken' = <<>> /\ kept' = <<>>
                 /\ outbox' = <<>> /\ at' = offset /\ faults' = faults + 1
                 /\ jobsFile' = jobsFile \/ jobsFile' = <<>>
                 /\ UNCHANGED <<lines, log, pub, ev, offset, rid, jobs, crashes>>
<1>1. ASSUME BeginActionPoll \/ BeginFullPoll
      PROVE  /\ pc = "idle" /\ pub = "none" /\ taken' = jobs /\ jobs' = <<>> /\ kept' = <<>>
             /\ (IF jobs = <<>> THEN pc' \in {"inbound", "sink"} ELSE pc' = "jobs")
             /\ UNCHANGED <<lines, log, pub, ev, offset, offsetFile, at, rid, jobsFile, kept,
                            outbox, faults, crashes>>
  <2>1. PICK m : BeginPoll(m) /\ pc = "idle"
    BY <1>1 DEF BeginActionPoll, BeginFullPoll
  <2> QED BY <2>1 DEF ControlInv, BeginPoll, AfterJobs, DrainInbound, streamVars, bounds
<1>2. ASSUME SaveJobs
      PROVE  /\ pc = "savejobs" /\ pc' \in {"inbound", "sink"} /\ jobsFile' = jobs
             /\ pub = "none" /\ taken = <<>> /\ kept = <<>>
             /\ UNCHANGED <<lines, log, pub, ev, offset, offsetFile, at, rid, jobs, taken,
                            kept, outbox, faults, crashes>>
  BY <1>2 DEF ControlInv, SaveJobs, AfterJobs, DrainInbound, streamVars, bounds
<1>3. ASSUME PublishError
      PROVE  /\ pc' = "idle" /\ pub' = "none" /\ pub # "none" /\ taken' = <<>> /\ kept' = <<>>
             /\ outbox' = <<>> /\ at' = offset /\ faults' = faults + 1
             /\ UNCHANGED <<lines, log, ev, offset, offsetFile, rid, jobs, jobsFile, crashes>>
  BY <1>3 DEF PublishError, Abort, Fault, envVars
<1>4. ASSUME SaveError
      PROVE  /\ pc' = "idle" /\ pub = "none" /\ taken' = <<>> /\ kept' = <<>>
             /\ outbox' = <<>> /\ at' = offset /\ faults' = faults + 1
             /\ jobsFile' = jobsFile \/ jobsFile' = <<>>
             /\ UNCHANGED <<lines, log, pub, ev, offset, rid, jobs, crashes>>
  BY <1>4 DEF SaveError, Abort, Fault, envVars, streamVars, ControlInv
<1> QED BY <1>1, <1>2, <1>3, <1>4

\* The job at the head moves on, or is dropped after its last stage.
LEMMA JobEmittedEffect ==
    ASSUME JobsType, ControlInv, JobEmitted
    PROVE  /\ pc = "job" /\ pub = "none" /\ taken # <<>> /\ pc' = "jobs" /\ taken' = Tail(taken)
           /\ Head(taken) \in Job /\ jobs = <<>>
           /\ JobsIn(taken) = {Head(taken)} \union JobsIn(taken')
           /\ \/ Head(taken).stage = 2 /\ kept' = kept /\ JobsIn(kept)' = JobsIn(kept)
              \/ \E K \in Job :
                    /\ K.req = Head(taken).req /\ K.line = Head(taken).line
                    /\ K.stage = Head(taken).stage + 1 /\ Head(taken).stage \in 0..1
                    /\ kept' = Append(kept, K) /\ JobsIn(kept)' = JobsIn(kept) \union {K}
           /\ UNCHANGED <<lines, log, pub, ev, offset, offsetFile, at, rid, jobs, jobsFile,
                          outbox, faults, crashes>>
<1>1. /\ pc = "job" /\ pub = "none" /\ taken # <<>> /\ pc' = "jobs" /\ taken' = Tail(taken)
      /\ jobs = <<>>
      /\ UNCHANGED <<lines, log, pub, ev, offset, offsetFile, at, rid, jobs, jobsFile,
                     outbox, faults, crashes>>
  BY DEF JobEmitted, ControlInv, envVars, streamVars, bounds
<1>2. Head(taken) \in Job /\ JobsIn(taken) = {Head(taken)} \union JobsIn(Tail(taken))
  BY <1>1, JobsInTail DEF JobsType
<1>3. CASE Head(taken).stage = 2
  <2>1. kept' = kept
    BY <1>3 DEF JobEmitted
  <2> QED BY <1>1, <1>2, <1>3, <2>1 DEF JobsIn
<1>4. CASE Head(taken).stage # 2
  <2> DEFINE K == [Head(taken) EXCEPT !.stage = @ + 1]
  <2>1. kept' = Append(kept, K)
    BY <1>4 DEF JobEmitted
  <2>2. /\ K \in Job /\ K.req = Head(taken).req /\ K.line = Head(taken).line
        /\ K.stage = Head(taken).stage + 1 /\ Head(taken).stage \in 0..1
    BY <1>2, <1>4 DEF Job
  <2> HIDE DEF K
  <2>3. JobsIn(kept') = JobsIn(kept) \union {K}
    BY <2>1, <2>2, JobsInAppend DEF JobsType
  <2> QED BY <1>1, <1>2, <2>1, <2>2, <2>3 DEF JobsIn
<1> QED BY <1>3, <1>4

\* process_action makes a job of a streaming line, with a new request id.
LEMMA SubmitEffect ==
    ASSUME JobsType, ControlType, ControlInv, SubmitStreaming
    PROVE  /\ pc = "sink" /\ pub = "none" /\ pc' = "enqueue" /\ rid' = rid + 1 /\ taken = <<>> /\ kept = <<>>
           /\ at < Len(lines) /\ lines[at + 1] = "request"
           /\ \E K \in Job : /\ K.req = rid + 1 /\ K.line = at + 1 /\ K.stage = 0
                             /\ jobs' = Append(jobs, K) /\ JobsIn(jobs)' = JobsIn(jobs) \union {K}
           /\ UNCHANGED <<lines, log, pub, ev, offset, offsetFile, at, jobsFile, taken, kept,
                          outbox, faults, crashes>>
<1> DEFINE K == [req |-> rid + 1, line |-> at + 1, stage |-> 0]
<1>1. K \in Job /\ K.req = rid + 1 /\ K.line = at + 1 /\ K.stage = 0
  BY DEF Job, ControlType
<1>2. jobs' = Append(jobs, K)
  BY DEF SubmitStreaming
<1> HIDE DEF K
<1>3. JobsIn(jobs') = JobsIn(jobs) \union {K}
  BY <1>1, <1>2, JobsInAppend DEF JobsType
<1>4. /\ pc = "sink" /\ pub = "none" /\ pc' = "enqueue" /\ rid' = rid + 1 /\ taken = <<>> /\ kept = <<>>
      /\ at < Len(lines) /\ lines[at + 1] = "request"
      /\ UNCHANGED <<lines, log, pub, ev, offset, offsetFile, at, jobsFile, taken, kept,
                     outbox, faults, crashes>>
  BY DEF SubmitStreaming, AtRequest, AtLine, ControlInv, envVars, streamVars, bounds
<1>5. JobsIn(jobs)' = JobsIn(jobs')
  BY DEF JobsIn
<1> QED BY <1>1, <1>2, <1>3, <1>4, <1>5

\* The types of the runtime, and the steps of its requests.
RequestTypes == StreamType /\ JobsType /\ ControlType

\* publish_event appends: what is known of the event then.
LEMMA AppendEffect ==
    ASSUME RequestTypes, ControlInv, EventInv, IdInv, PublishAppend
    PROVE  /\ pub = "append" /\ pub' = "replay" /\ log' = Append(log, ev)
           /\ LogSet' = LogSet \union {ev} /\ ev \in Event
           /\ Mem' = Mem /\ File' = File
           /\ pc \in {"job", "inbound", "line"}
           /\ ev.req <= rid /\ ev.line <= Len(lines)
           /\ pc = "inbound" => ev.type = "inbound"
           /\ pc = "line" => ev.req = rid /\ ev.type \in {"side", "completed", "failed"}
                             /\ \A J \in Mem \union File : J.req < ev.req
           /\ UNCHANGED <<lines, ev, offset, offsetFile, at, rid, jobs, jobsFile, taken, kept,
                          outbox, pc, faults, crashes>>
<1>1. /\ pub = "append" /\ pub' = "replay" /\ log' = Append(log, ev)
      /\ UNCHANGED <<lines, ev, offset, offsetFile, at, rid, jobs, jobsFile, taken, kept,
                     outbox, pc, faults, crashes>>
  BY DEF PublishAppend, envVars, requestVars, bounds
<1>2. LogSet' = LogSet \union {ev} /\ ev \in Event
  BY <1>1, LogSetAppend DEF RequestTypes
<1>3. Mem' = Mem /\ File' = File
  BY <1>1 DEF Mem, File, JobsIn
<1>4. pc \in {"job", "inbound", "line"}
  BY <1>1 DEF ControlInv
<1>5. rid \in Nat /\ Len(lines) \in Nat /\ at \in Nat
  BY DEF RequestTypes, ControlType
<1>6. CASE pc = "job"
  <2>1. Head(taken) \in Mem
    BY <1>6, JobsInTail DEF ControlInv, RequestTypes, JobsType, Mem
  <2> QED BY <1>1, <1>2, <1>3, <1>6, <2>1 DEF EventInv, IdInv
<1>7. CASE pc = "inbound"
  BY <1>1, <1>2, <1>3, <1>5, <1>7 DEF EventInv
<1>8. CASE pc = "line"
  <2>1. LineEvents /\ at < Len(lines)
    BY <1>8 DEF EventInv, ControlInv
  <2>2. /\ ev.req = rid /\ ev.line = at + 1 /\ ev.type \in {"side", "completed", "failed"}
    BY <1>1, <2>1 DEF LineEvents, Terminal
  <2> QED BY <1>1, <1>2, <1>3, <1>5, <1>8, <2>1, <2>2 DEF IdInv
<1> QED BY <1>4, <1>6, <1>7, <1>8

\* Request ids keep going up along the jobs.
LEMMA IdStep == RequestTypes /\ ControlInv /\ EventInv /\ IdInv /\ [Next]_vars => IdInv'
<1> SUFFICES ASSUME RequestTypes, ControlInv, EventInv, IdInv, [Next]_vars PROVE IdInv'
  OBVIOUS
<1>0. StreamType /\ JobsType /\ ControlType /\ rid \in Nat /\ Len(lines) \in Nat
  BY DEF RequestTypes, ControlType
<1>s. Sorted(jobs) /\ Sorted(taken) /\ Sorted(kept) /\ Sorted(jobsFile)
  BY DEF IdInv
<1>a. \A J \in Mem \union File : J.req \in Nat /\ J.line \in Nat /\ J.stage \in 0..2
  BY <1>0, Elements
<1>1. CASE StillSteps
  <2>1. /\ UNCHANGED <<log, jobs, taken, kept, jobsFile, faults, crashes>>
        /\ LogSet' = LogSet /\ Mem' = Mem /\ File' = File
    BY <1>1, StillEffect
  <2>2. /\ rid' \in Nat /\ rid' >= rid /\ Len(lines') >= Len(lines)
        /\ pc' = "line" => rid' > rid \/ (pc = "line" /\ rid' = rid)
    BY <1>0, <1>1, StillIds
  <2>3. Sorted(jobs)' /\ Sorted(taken)' /\ Sorted(kept)' /\ Sorted(jobsFile)'
    BY <1>s, <2>1 DEF Sorted
  <2> QED BY <1>0, <2>1, <2>2, <2>3, IdLess
<1>2. CASE PublishAppend
  <2>1. /\ LogSet' = LogSet \union {ev} /\ ev.req <= rid /\ ev.line <= Len(lines)
        /\ Mem' = Mem /\ File' = File
        /\ UNCHANGED <<lines, rid, jobs, jobsFile, taken, kept, pc>>
    BY <1>2, AppendEffect
  <2>2. \A e \in LogSet' : e.req <= rid' /\ e.line <= Len(lines')
    BY <2>1 DEF IdInv
  <2>3. Sorted(jobs)' /\ Sorted(taken)' /\ Sorted(kept)' /\ Sorted(jobsFile)'
    BY <1>s, <2>1 DEF Sorted
  <2>4. \A J \in JobsIn(kept)' : J.stage >= 1 /\ \A K \in JobsIn(taken)' : J.req < K.req
    BY <2>1 DEF IdInv, JobsIn
  <2>5. \A J \in Mem' \union File' : J.req <= rid' /\ J.line <= Len(lines') /\ (pc' = "line" => J.req < rid')
    BY <2>1 DEF IdInv
  <2> QED BY <2>2, <2>3, <2>4, <2>5 DEF IdInv
<1>3. CASE BeginActionPoll \/ BeginFullPoll \/ SaveJobs \/ JobsDone \/ PublishError \/ SaveError
           \/ Enqueue \/ Crash \/ Restart
  <2>1. \/ /\ taken' = jobs /\ jobs' = <<>> /\ kept' = <<>> /\ jobsFile' = jobsFile
        \/ /\ UNCHANGED <<jobs, taken, kept>> /\ jobsFile' = jobs
        \/ /\ jobs' = kept /\ kept' = <<>> /\ UNCHANGED <<taken, jobsFile>>
        \/ /\ jobs' \in {<<>>, jobs, jobsFile} /\ taken' = <<>> /\ kept' = <<>>
           /\ jobsFile' \in {jobsFile, <<>>}
    <3>1. CASE BeginActionPoll \/ BeginFullPoll \/ SaveJobs
      BY <3>1, JobsEffect
    <3>2. CASE PublishError \/ SaveError
      BY <3>2, JobsEffect
    <3>3. CASE JobsDone \/ Enqueue
      BY <3>3 DEF JobsDone, Enqueue, ControlInv
    <3>4. CASE Crash
      BY <3>4 DEF Crash, diskVars
    <3>5. CASE Restart
      BY <3>5 DEF Restart, diskVars, ControlInv
    <3> QED BY <1>3, <3>1, <3>2, <3>3, <3>4, <3>5
  <2>2. /\ UNCHANGED <<lines, log, rid>> /\ pc' # "line"
    <3>1. CASE BeginActionPoll \/ BeginFullPoll \/ SaveJobs
      BY <3>1, JobsEffect
    <3>2. CASE PublishError \/ SaveError
      BY <3>2, JobsEffect
    <3>3. CASE JobsDone \/ Enqueue
      BY <3>3 DEF JobsDone, Enqueue, envVars, streamVars
    <3>4. CASE Crash
      BY <3>4 DEF Crash, diskVars
    <3>5. CASE Restart
      BY <3>5 DEF Restart, diskVars, envVars
    <3> QED BY <1>3, <3>1, <3>2, <3>3, <3>4, <3>5
  <2>3. LogSet' = LogSet
    BY <2>2 DEF LogSet
  <2>4. /\ JobsIn(jobs)' \subseteq Mem \union File /\ JobsIn(taken)' \subseteq Mem \union File
        /\ JobsIn(kept)' \subseteq Mem \union File /\ JobsIn(jobsFile)' \subseteq Mem \union File
    <3>1. \A s : s \in {jobs, taken, kept, jobsFile, <<>>} => JobsIn(s) \subseteq Mem \union File
      BY JobsInOps DEF Mem, File
    <3>2. /\ JobsIn(jobs)' = JobsIn(jobs') /\ JobsIn(taken)' = JobsIn(taken')
          /\ JobsIn(kept)' = JobsIn(kept') /\ JobsIn(jobsFile)' = JobsIn(jobsFile')
      BY DEF JobsIn
    <3>3. /\ jobs' \in {jobs, taken, kept, jobsFile, <<>>}
          /\ taken' \in {jobs, taken, kept, jobsFile, <<>>}
          /\ kept' \in {jobs, taken, kept, jobsFile, <<>>}
          /\ jobsFile' \in {jobs, taken, kept, jobsFile, <<>>}
      BY <2>1
    <3> QED BY <3>1, <3>2, <3>3
  <2>5. Mem' \subseteq Mem \union File /\ File' \subseteq Mem \union File
    BY <2>4 DEF Mem, File
  <2>6. Sorted(jobs)' /\ Sorted(taken)' /\ Sorted(kept)' /\ Sorted(jobsFile)'
    <3>1. \A s : s \in {jobs, taken, kept, jobsFile, <<>>} => Sorted(s)
      BY <1>s, JobsInOps
    <3>2. /\ Sorted(jobs)' = Sorted(jobs') /\ Sorted(taken)' = Sorted(taken')
          /\ Sorted(kept)' = Sorted(kept') /\ Sorted(jobsFile)' = Sorted(jobsFile')
      BY DEF Sorted
    <3>3. /\ jobs' \in {jobs, taken, kept, jobsFile, <<>>}
          /\ taken' \in {jobs, taken, kept, jobsFile, <<>>}
          /\ kept' \in {jobs, taken, kept, jobsFile, <<>>}
          /\ jobsFile' \in {jobs, taken, kept, jobsFile, <<>>}
      BY <2>1
    <3> QED BY <3>1, <3>2, <3>3
  <2>7. kept' = <<>> \/ UNCHANGED <<kept, taken>>
    BY <2>1
  <2> QED BY <1>0, <2>2, <2>3, <2>5, <2>6, <2>7, IdLess
<1>4. CASE JobEmitted
  <2>1. /\ taken # <<>> /\ taken' = Tail(taken) /\ Head(taken) \in Job /\ pc' = "jobs"
        /\ JobsIn(taken) = {Head(taken)} \union JobsIn(taken')
        /\ \/ Head(taken).stage = 2 /\ kept' = kept /\ JobsIn(kept)' = JobsIn(kept)
           \/ \E K \in Job :
                 /\ K.req = Head(taken).req /\ K.line = Head(taken).line
                 /\ K.stage = Head(taken).stage + 1 /\ Head(taken).stage \in 0..1
                 /\ kept' = Append(kept, K) /\ JobsIn(kept)' = JobsIn(kept) \union {K}
        /\ UNCHANGED <<lines, log, rid, jobs, jobsFile>>
    BY <1>0, <1>4, JobEmittedEffect
  <2>2. /\ Sorted(Tail(taken)) /\ \A K \in JobsIn(Tail(taken)) : Head(taken).req < K.req
    BY <1>0, <1>s, <2>1, JobsInTail DEF JobsType
  <2>3. LogSet' = LogSet /\ File' = File /\ JobsIn(jobs)' = JobsIn(jobs) /\ JobsIn(taken)' = JobsIn(taken')
    BY <2>1 DEF LogSet, File, JobsIn
  <2>4. Head(taken) \in Mem /\ Head(taken) \in JobsIn(taken)
    BY <2>1 DEF Mem
  <2>5. Sorted(jobs)' /\ Sorted(taken)' /\ Sorted(jobsFile)'
    BY <1>s, <2>1, <2>2 DEF Sorted
  <2>6. CASE kept' = kept /\ JobsIn(kept)' = JobsIn(kept)
    <3>1. Sorted(kept)'
      BY <1>s, <2>6 DEF Sorted
    <3>2. Mem' \subseteq Mem
      BY <2>1, <2>3, <2>6 DEF Mem
    <3>3. \A J \in JobsIn(kept)' : J.stage >= 1 /\ \A K \in JobsIn(taken)' : J.req < K.req
      BY <2>1, <2>3, <2>6 DEF IdInv
    <3> QED BY <2>1, <2>3, <2>5, <3>1, <3>2, <3>3 DEF IdInv
  <2>7. CASE \E K \in Job :
                 /\ K.req = Head(taken).req /\ K.line = Head(taken).line
                 /\ K.stage = Head(taken).stage + 1 /\ Head(taken).stage \in 0..1
                 /\ kept' = Append(kept, K) /\ JobsIn(kept)' = JobsIn(kept) \union {K}
    <3>1. PICK K \in Job :
                 /\ K.req = Head(taken).req /\ K.line = Head(taken).line
                 /\ K.stage = Head(taken).stage + 1 /\ Head(taken).stage \in 0..1
                 /\ kept' = Append(kept, K) /\ JobsIn(kept)' = JobsIn(kept) \union {K}
      BY <2>7
    <3>2. \A J \in JobsIn(kept) : J.req < K.req
      BY <2>4, <3>1 DEF IdInv
    <3>3. Sorted(kept)'
      <4>1. Sorted(Append(kept, K))
        BY <1>0, <1>s, <3>2, JobsInAppend DEF JobsType
      <4> QED BY <3>1, <4>1 DEF Sorted
    <3>4. \A J \in Mem' : J \in Mem \/ J = K
      BY <2>1, <2>3, <3>1 DEF Mem
    <3>5. \A J \in JobsIn(kept)' : J.stage >= 1 /\ \A L \in JobsIn(taken)' : J.req < L.req
      <4>1. ASSUME NEW J \in JobsIn(kept), NEW L \in JobsIn(taken') PROVE J.stage >= 1 /\ J.req < L.req
        BY <2>1 DEF IdInv
      <4>2. \A L \in JobsIn(taken') : K.req < L.req
        BY <2>1, <2>2, <3>1
      <4>3. K.stage >= 1 /\ \A J \in JobsIn(kept) : J.stage >= 1
        BY <3>1 DEF IdInv
      <4> QED BY <2>3, <3>1, <4>1, <4>2, <4>3
    <3>6. K.req <= rid /\ K.line <= Len(lines)
      BY <2>4, <3>1 DEF IdInv
    <3> QED BY <2>1, <2>3, <2>5, <3>3, <3>4, <3>5, <3>6 DEF IdInv
  <2> QED BY <2>1, <2>6, <2>7
<1>5. CASE SubmitStreaming
  <2>1. /\ pc' = "enqueue" /\ rid' = rid + 1 /\ taken = <<>> /\ kept = <<>> /\ at < Len(lines)
        /\ \E K \in Job : /\ K.req = rid + 1 /\ K.line = at + 1 /\ K.stage = 0
                          /\ jobs' = Append(jobs, K) /\ JobsIn(jobs)' = JobsIn(jobs) \union {K}
        /\ UNCHANGED <<lines, log, jobsFile, taken, kept>>
    BY <1>0, <1>5, SubmitEffect
  <2>2. PICK K \in Job : /\ K.req = rid + 1 /\ K.line = at + 1 /\ K.stage = 0
                         /\ jobs' = Append(jobs, K) /\ JobsIn(jobs)' = JobsIn(jobs) \union {K}
    BY <2>1
  <2>3. LogSet' = LogSet /\ File' = File /\ JobsIn(taken)' = {} /\ JobsIn(kept)' = {}
    BY <2>1, JobsInOps DEF LogSet, File, JobsIn
  <2>4. Mem' \subseteq Mem \union {K}
    BY <2>2, <2>3 DEF Mem
  <2>5. Sorted(jobs)'
    <3>1. \A J \in JobsIn(jobs) : J.req < K.req
      BY <1>0, <1>a, <2>2 DEF IdInv, Mem
    <3>2. Sorted(Append(jobs, K))
      BY <1>0, <1>s, <3>1, JobsInAppend DEF JobsType
    <3> QED BY <2>2, <3>2 DEF Sorted
  <2>6. Sorted(taken)' /\ Sorted(kept)' /\ Sorted(jobsFile)'
    BY <1>s, <2>1 DEF Sorted
  <2>7. \A J \in Mem' \union File' : J.req <= rid' /\ J.line <= Len(lines')
    <3>1. at \in Nat /\ K.req <= rid + 1 /\ K.line <= Len(lines)
      BY <1>0, <2>1, <2>2 DEF ControlType
    <3>2. \A J \in Mem \union File : J.req <= rid + 1 /\ J.line <= Len(lines)
      BY <1>0, <1>a DEF IdInv
    <3> QED BY <2>1, <2>3, <2>4, <3>1, <3>2
  <2>8. \A e \in LogSet' : e.req <= rid' /\ e.line <= Len(lines')
    <3>1. \A e \in LogSet : e.req \in Nat
      BY <1>0, Elements
    <3> QED BY <1>0, <2>1, <2>3, <3>1 DEF IdInv
  <2> QED BY <2>1, <2>3, <2>5, <2>6, <2>7, <2>8 DEF IdInv
<1> QED BY <1>1, <1>2, <1>3, <1>4, <1>5 DEF Next, StillSteps

\* The steps after which no event is under way.
LEMMA NoEventAfter ==
    ASSUME pc' \notin {"job", "line"}, pc' = "inbound" => pub' # "append"
    PROVE  EventInv'
BY DEF EventInv

\* The event under way keeps belonging to its job or line.
LEMMA EventStep == RequestTypes /\ ControlInv /\ EventInv /\ IdInv /\ [Next]_vars => EventInv'
<1> SUFFICES ASSUME RequestTypes, ControlInv, EventInv, IdInv, [Next]_vars PROVE EventInv'
  OBVIOUS
<1>0. /\ StreamType /\ JobsType /\ ControlType /\ rid \in Nat /\ Len(lines) \in Nat /\ at \in Nat
      /\ outbox \in Seq(EventTypes) /\ Len(outbox) \in Nat
  BY DEF RequestTypes, ControlType, JobsType
<1>1. CASE UNCHANGED vars \/ InboundArrives
  <2>1. UNCHANGED <<lines, log, pub, ev, taken, outbox, rid, at, pc>>
    BY <1>1 DEF vars, InboundArrives, streamVars, requestVars
  <2> QED BY <2>1 DEF EventInv, LineEvents, LogSet
<1>2. CASE ClientWrite
  <2>1. /\ UNCHANGED <<log, pub, ev, taken, outbox, rid, at, pc>>
        /\ \A i \in 1..Len(lines) : lines'[i] = lines[i]
    BY <1>0, <1>2 DEF ClientWrite, streamVars, requestVars, ControlType
  <2>2. pc = "line" => lines'[at + 1] = lines[at + 1]
    BY <1>0, <2>1 DEF ControlInv
  <2>3. LogSet' = LogSet
    BY <2>1 DEF LogSet
  <2>4. pc = "line" => LineEvents'
    BY <2>1, <2>2, <2>3 DEF EventInv, LineEvents
  <2> QED BY <2>1, <2>3, <2>4 DEF EventInv
<1>3. CASE PublishAppend
  <2>1. /\ pub = "append" /\ pub' = "replay" /\ LogSet' = LogSet \union {ev}
        /\ UNCHANGED <<lines, ev, at, rid, taken, outbox, pc>>
    BY <1>3, AppendEffect
  <2>2. pc = "line" => LineEvents'
    BY <2>1 DEF EventInv, LineEvents
  <2> QED BY <2>1, <2>2 DEF EventInv
<1>4. CASE PublishReplay \/ PublishCursor
  <2>1. /\ pub # "append" /\ pub' # "append"
        /\ UNCHANGED <<lines, log, ev, at, rid, taken, outbox, pc>>
    BY <1>4 DEF PublishReplay, PublishCursor, envVars, requestVars
  <2>2. LogSet' = LogSet
    BY <2>1 DEF LogSet
  <2>3. pc = "line" => LineEvents'
    BY <2>1, <2>2 DEF EventInv, LineEvents
  <2> QED BY <2>1, <2>2, <2>3 DEF EventInv
<1>5. CASE PublishError \/ SaveError \/ SaveJobs \/ BeginActionPoll \/ BeginFullPoll
  BY <1>5, JobsEffect, NoEventAfter
<1>6. CASE BeginInboundPoll \/ JobsDone \/ InboundDone
  BY <1>6, NoEventAfter DEF BeginInboundPoll, DrainInbound, JobsDone, InboundDone, streamVars, ControlInv
<1>7. CASE JobEmitted \/ SubmitStreaming \/ LineDone \/ Enqueue \/ Commit \/ Crash \/ Restart
  BY <1>7, NoEventAfter DEF JobEmitted, SubmitStreaming, LineDone, Enqueue, Commit, Crash, Restart
<1>8. CASE SubmitRejected \/ SubmitTransient \/ SinkEmpty
  BY <1>8, NoEventAfter DEF SubmitRejected, SubmitTransient, SinkEmpty, SinkDone, AtRequest, AtLine
<1>9. CASE JobEmit
  <2>1. /\ pc' = "job" /\ pub' = "append" /\ ev'.req = Head(taken).req /\ ev'.line = Head(taken).line
        /\ ev'.type = StageType[Head(taken).stage] /\ UNCHANGED taken
    BY <1>9 DEF JobEmit, EmitEvent, requestVars
  <2>2. StageType' = StageType
    BY DEF StageType
  <2> QED BY <2>1, <2>2 DEF EventInv
<1>10. CASE InboundEmit
  <2>1. /\ pc' = "inbound" /\ ev'.req = 0 /\ ev'.line = 0 /\ ev'.type = "inbound"
    BY <1>10 DEF InboundEmit, EmitEvent
  <2> QED BY <2>1 DEF EventInv
<1>11. CASE SubmitCompleted \/ SubmitFailed
  <2>1. /\ pc' = "line" /\ rid' = rid + 1 /\ pub = "none"
        /\ UNCHANGED <<lines, log, pub, at>>
    BY <1>11 DEF SubmitCompleted, SubmitFailed, AtRequest, AtLine, ControlInv, envVars, streamVars
  <2>2. \A e \in LogSet' : e.req # rid'
    <3>1. \A e \in LogSet : e.req <= rid /\ e.req \in Nat
      BY <1>0, Elements DEF IdInv
    <3> QED BY <1>0, <2>1, <3>1 DEF LogSet
  <2>3. CASE SubmitCompleted
    <3>1. PICK k \in 0..MaxSide :
              outbox' = [i \in 1..(k + 1) |-> IF i = k + 1 THEN "completed" ELSE "side"]
      BY <2>3 DEF SubmitCompleted
    <3>2. k + 1 \in Nat /\ k + 1 >= 1
      BY AdapterAssumption
    <3>3. /\ Len(outbox') = k + 1 /\ outbox' # <<>>
          /\ \A i \in 1..(k + 1) : outbox'[i] = IF i = k + 1 THEN "completed" ELSE "side"
      BY <3>1, <3>2
    <3>4. LineEvents'
      BY <2>1, <2>2, <3>2, <3>3 DEF LineEvents, Terminal
    <3> QED BY <2>1, <3>4 DEF EventInv
  <2>4. CASE SubmitFailed
    <3>1. outbox' = <<"failed">>
      BY <2>4 DEF SubmitFailed
    <3>2. Len(outbox') = 1 /\ outbox' # <<>> /\ outbox'[1] = "failed"
      BY <3>1
    <3>3. LineEvents'
      BY <2>1, <2>2, <3>2 DEF LineEvents, Terminal
    <3> QED BY <2>1, <3>3 DEF EventInv
  <2> QED BY <1>11, <2>3, <2>4
<1>12. CASE LineEmit
  <2>1. /\ pc = "line" /\ pc' = "line" /\ pub' = "append" /\ outbox # <<>> /\ outbox' = Tail(outbox)
        /\ ev'.req = rid /\ ev'.line = at + 1 /\ ev'.type = Head(outbox)
        /\ UNCHANGED <<lines, log, rid, at>>
    BY <1>12 DEF LineEmit, EmitEvent, envVars
  <2> DEFINE n == Len(outbox)
  <2>2. /\ Len(outbox') = n - 1 /\ Head(outbox) = outbox[1] /\ n \in Nat /\ n >= 1
        /\ \A i \in 1..(n - 1) : outbox'[i] = outbox[i + 1]
    BY <1>0, <2>1
  <2>a. outbox' = <<>> <=> n = 1
    <3>1. outbox' \in Seq(EventTypes)
      BY <1>0, <2>1
    <3>2. outbox' = <<>> <=> Len(outbox') = 0
      BY <3>1
    <3> QED BY <2>2, <3>2
  <2>3. LineEvents /\ LogSet' = LogSet
    BY <2>1 DEF EventInv, LogSet
  <2>b. \A i \in 1..n : IF i = n THEN outbox[i] \in Terminal ELSE outbox[i] = "side"
    BY <2>1, <2>3 DEF LineEvents
  <2> HIDE DEF n
  <2>4. \A i \in 1..Len(outbox') : IF i = Len(outbox') THEN outbox'[i] \in Terminal
                                   ELSE outbox'[i] = "side"
    <3> SUFFICES ASSUME NEW i \in 1..(n - 1)
                 PROVE  IF i = n - 1 THEN outbox'[i] \in Terminal ELSE outbox'[i] = "side"
      BY <2>2
    <3>1. i + 1 \in 1..n /\ outbox'[i] = outbox[i + 1] /\ (i + 1 = n <=> i = n - 1)
      BY <2>2
    <3> QED BY <2>b, <3>1
  <2>5. IF outbox' = <<>> THEN ev'.type \in Terminal ELSE ev'.type = "side"
    <3>1. 1 \in 1..n
      BY <2>2
    <3> QED BY <2>1, <2>2, <2>a, <2>b, <3>1
  <2>7. \A e \in LogSet' : e.req = rid => e.type = "side"
    BY <2>1, <2>3 DEF LineEvents
  <2>8. LineEvents'
    BY <2>1, <2>4, <2>5, <2>7 DEF LineEvents
  <2> QED BY <2>1, <2>8 DEF EventInv
<1> QED
  BY <1>1, <1>2, <1>3, <1>4, <1>5, <1>6, <1>7, <1>8, <1>9, <1>10, <1>11, <1>12 DEF Next

\* Stages and the types of their events.
LEMMA Stages ==
    /\ DOMAIN StageOf = {"accepted", "progress", "completed"}
    /\ \A k \in 0..2 : /\ StageType[k] \in DOMAIN StageOf /\ StageOf[StageType[k]] = k
                       /\ StageType[k] \in Terminal <=> k = 2
                       /\ StageType[k] = "accepted" <=> k = 0
                       /\ StageType[k] # "failed"
    /\ StageOf["accepted"] = 0 /\ StageOf["progress"] = 1 /\ StageOf["completed"] = 2
BY DEF StageOf, StageType, Terminal

Busy == {"down", "jobs", "job", "savejobs", "enqueue"}

\* Steps after which the log is as before and the jobs are no more than before.
LEMMA CausalLess ==
    ASSUME CausalInv, log' = log,
           faults' = 0 => /\ faults = 0 /\ File' \subseteq Mem \union File
                          /\ JobsIn(taken)' \subseteq File' /\ (pc' \notin Busy => jobs' = jobsFile'),
           faults' = 0 \/ crashes' = 0 =>
               /\ faults = 0 \/ crashes = 0
               /\ Mem' \subseteq Mem \/ (faults = 0 /\ Mem' \subseteq Mem \union File)
    PROVE  CausalInv'
<1>1. LogSet' = LogSet /\ \A J : Upto(J)' <=> Upto(J)
  BY DEF LogSet, Upto, StageOf
<1>2. StagesInOrder' <=> StagesInOrder
  BY DEF StagesInOrder, StageOf
<1>3. faults' = 0 => FileInv'
  <2> SUFFICES ASSUME faults' = 0 PROVE FileInv'
    OBVIOUS
  <2>1. \A J \in Mem \union File : Upto(J)
    BY DEF CausalInv, FileInv
  <2>2. \A J \in File' : Upto(J)'
    BY <1>1, <2>1
  <2> QED BY <2>2 DEF FileInv, Busy
<1>4. faults' = 0 \/ crashes' = 0 => StagesInOrder' /\ \A J \in Mem' : Upto(J)'
  <2> SUFFICES ASSUME faults' = 0 \/ crashes' = 0 PROVE StagesInOrder' /\ \A J \in Mem' : Upto(J)'
    OBVIOUS
  <2>1. StagesInOrder /\ \A J \in Mem : Upto(J)
    BY DEF CausalInv
  <2>2. CASE Mem' \subseteq Mem
    BY <1>1, <1>2, <2>1, <2>2
  <2>3. CASE faults = 0 /\ Mem' \subseteq Mem \union File
    BY <1>1, <1>2, <2>1, <2>3 DEF CausalInv, FileInv
  <2> QED BY <2>2, <2>3
<1> QED BY <1>3, <1>4 DEF CausalInv

\* The states of a poll over those steps.
LEMMA StillBusy ==
    ASSUME StillSteps, ControlInv
    PROVE  /\ pc \in Busy => pc' \in Busy
           /\ pc = "job" => pc' = "job" /\ (pub # "append" => pub' # "append")
           /\ pc = "jobs" => pc' \in {"jobs", "job"} /\ (pc' = "job" => pub' = "append")
           /\ pc \notin {"jobs", "job"} => pc' \notin {"jobs", "job"}
           /\ pc # "enqueue" => pc' # "enqueue"
           /\ pc = "down" <=> pc' = "down"
<1> USE DEF Busy
<1>1. CASE UNCHANGED vars \/ InboundArrives \/ PublishReplay \/ PublishCursor \/ Commit \/ ClientWrite
  BY <1>1 DEF vars, InboundArrives, PublishReplay, PublishCursor, Commit, ClientWrite, streamVars
<1>2. CASE BeginInboundPoll \/ JobEmit \/ InboundEmit \/ InboundDone
  BY <1>2 DEF BeginInboundPoll, JobEmit, InboundEmit, InboundDone, DrainInbound, EmitEvent
<1>3. CASE SubmitCompleted \/ SubmitFailed \/ SubmitRejected \/ SubmitTransient
  BY <1>3 DEF SubmitCompleted, SubmitFailed, SubmitRejected, SubmitTransient, SinkDone, AtRequest, AtLine
<1>4. CASE LineEmit \/ LineDone \/ SinkEmpty
  BY <1>4 DEF LineEmit, LineDone, SinkEmpty, SinkDone
<1> QED BY <1>1, <1>2, <1>3, <1>4 DEF StillSteps

\* The first job taken is the only one in memory of its request.
LEMMA HeadOnly ==
    ASSUME RequestTypes, ControlInv, EventInv, IdInv, pc = "job"
    PROVE  /\ taken # <<>> /\ jobs = <<>> /\ Head(taken) \in Job /\ Head(taken) \in Mem
           /\ Head(taken).stage \in 0..2 /\ Head(taken).req \in Nat /\ Head(taken).line \in Nat
           /\ JobsIn(taken) = {Head(taken)} \union JobsIn(Tail(taken))
           /\ \A K \in JobsIn(Tail(taken)) : Head(taken).req < K.req
           /\ \A J \in JobsIn(kept) : J.req < Head(taken).req /\ J.stage >= 1
           /\ \A J \in Mem : J.req = Head(taken).req => J = Head(taken)
<1>1. taken # <<>> /\ jobs = <<>> /\ taken \in Seq(Job) /\ Sorted(taken) /\ StreamType /\ JobsType
  BY DEF ControlInv, JobsType, IdInv, RequestTypes
<1>2. /\ Head(taken) \in Job /\ JobsIn(taken) = {Head(taken)} \union JobsIn(Tail(taken))
      /\ \A K \in JobsIn(Tail(taken)) : Head(taken).req < K.req
  BY <1>1, JobsInTail
<1>3. Head(taken) \in Mem /\ Head(taken) \in JobsIn(taken)
  BY <1>2 DEF Mem
<1>4. \A J \in Mem \union File : J.req \in Nat /\ J.line \in Nat /\ J.stage \in 0..2
  BY <1>1, Elements
<1>5. \A J \in JobsIn(kept) : J.req < Head(taken).req /\ J.stage >= 1
  BY <1>3 DEF IdInv
<1>6. ASSUME NEW J \in Mem, J.req = Head(taken).req PROVE J = Head(taken)
  <2>1. J \in JobsIn(taken) \/ J \in JobsIn(kept)
    BY <1>1, JobsInOps DEF Mem
  <2>2. J \notin JobsIn(kept)
    BY <1>3, <1>4, <1>5, <1>6
  <2>3. J \notin JobsIn(Tail(taken))
    BY <1>2, <1>3, <1>4, <1>6
  <2> QED BY <1>2, <2>1, <2>2, <2>3
<1>7. Head(taken).stage \in 0..2 /\ Head(taken).req \in Nat /\ Head(taken).line \in Nat
  BY <1>3, <1>4
<1> QED BY <1>1, <1>2, <1>3, <1>5, <1>6, <1>7

\* An event is appended: it is not below what the log tells of its request, nor above what
\* the jobs of its request are at.
LEMMA CausalAppend ==
    ASSUME RequestTypes, ControlInv, EventInv, IdInv, CausalInv, PublishAppend
    PROVE  CausalInv'
<1>0. StreamType /\ JobsType
  BY DEF RequestTypes
<1>1. /\ pub = "append" /\ log' = Append(log, ev) /\ LogSet' = LogSet \union {ev} /\ ev \in Event
      /\ Mem' = Mem /\ File' = File /\ pc \in {"job", "inbound", "line"}
      /\ pc = "inbound" => ev.type = "inbound"
      /\ pc = "line" => ev.req = rid /\ ev.type \in {"side", "completed", "failed"}
                        /\ \A J \in Mem \union File : J.req < ev.req
      /\ UNCHANGED <<rid, jobs, jobsFile, taken, kept, outbox, pc, faults, crashes>>
  BY AppendEffect
<1>2. /\ Len(log') = Len(log) + 1 /\ log'[Len(log) + 1] = ev /\ Len(log) \in Nat
      /\ \A i \in 1..Len(log) : log'[i] = log[i]
  BY <1>0, <1>1, LogSetAppend
<1>3. \A J \in Mem \union File : J.req \in Nat /\ J.stage \in 0..2
  BY <1>0, Elements
<1>e. ev.req \in Nat
  BY <1>1 DEF Event
<1>4. pc = "job" => /\ Head(taken) \in Job /\ Head(taken) \in Mem /\ ev.req = Head(taken).req
                    /\ ev.type = StageType[Head(taken).stage] /\ Head(taken).stage \in 0..2
                    /\ \A J \in Mem : J.req = ev.req => J = Head(taken)
                    /\ JobsIn(taken) = {Head(taken)} \union JobsIn(Tail(taken))
  BY HeadOnly DEF EventInv
<1>5. ASSUME NEW J \in Mem, Upto(J), pc # "inbound" PROVE Upto(J)'
  <2> SUFFICES ASSUME NEW e \in LogSet', e.req = J.req, e.type \in DOMAIN StageOf
               PROVE  StageOf[e.type] <= J.stage
    BY DEF Upto, StageOf
  <2>1. CASE e \in LogSet
    BY <1>5, <2>1 DEF Upto
  <2>2. CASE e = ev /\ pc = "job"
    BY <1>3, <1>4, <2>2, Stages
  <2>3. CASE e = ev /\ pc = "line"
    BY <1>1, <1>3, <1>e, <2>3
  <2> QED BY <1>1, <1>5, <2>1, <2>2, <2>3
<1>6. ASSUME NEW J \in File, Upto(J), pc # "inbound", faults = 0 PROVE Upto(J)'
  <2> SUFFICES ASSUME NEW e \in LogSet', e.req = J.req, e.type \in DOMAIN StageOf
               PROVE  StageOf[e.type] <= J.stage
    BY DEF Upto, StageOf
  <2>1. CASE e \in LogSet
    BY <1>6, <2>1 DEF Upto
  <2>2. CASE e = ev /\ pc = "job"
    <3>1. Head(taken) \in File /\ Head(taken).req = J.req
      BY <1>4, <1>6, <2>2 DEF CausalInv, FileInv
    <3>2. J = Head(taken)
      BY <1>0, <1>3, <3>1, SortedOnce DEF File, IdInv, JobsType
    <3> QED BY <1>3, <1>4, <2>2, <3>2, Stages
  <2>3. CASE e = ev /\ pc = "line"
    BY <1>1, <1>3, <1>e, <2>3
  <2> QED BY <1>1, <1>6, <2>1, <2>2, <2>3
<1>7. ASSUME NEW J, Upto(J), pc = "inbound" PROVE Upto(J)'
  BY <1>1, <1>7, Stages DEF Upto, StageOf
<1>8. ASSUME faults = 0 PROVE FileInv'
  <2>1. \A J \in File' : Upto(J)'
    BY <1>1, <1>6, <1>7, <1>8 DEF CausalInv, FileInv
  <2>2. JobsIn(taken)' \subseteq File'
    BY <1>1, <1>8 DEF CausalInv, FileInv, JobsIn
  <2>3. pc' \notin Busy => jobs' = jobsFile'
    BY <1>1, <1>8 DEF CausalInv, FileInv, Busy
  <2> QED BY <2>1, <2>2, <2>3 DEF FileInv, Busy
<1>9. ASSUME faults = 0 \/ crashes = 0 PROVE StagesInOrder' /\ \A J \in Mem' : Upto(J)'
  <2>1. \A J \in Mem' : Upto(J)'
    BY <1>1, <1>5, <1>7, <1>9 DEF CausalInv
  <2>2. ASSUME NEW e \in LogSet, e.req = ev.req, e.type \in DOMAIN StageOf, ev.type \in DOMAIN StageOf
        PROVE  StageOf[e.type] <= StageOf[ev.type]
    <3>1. CASE pc = "job"
      <4>1. Upto(Head(taken))
        BY <1>4, <1>9, <3>1 DEF CausalInv
      <4> QED BY <1>4, <2>2, <3>1, <4>1, Stages DEF Upto
    <3>2. CASE pc = "line"
      <4>1. e.type = "side"
        BY <1>1, <2>2, <3>2 DEF EventInv, LineEvents
      <4> QED BY <2>2, <4>1, Stages
    <3>3. CASE pc = "inbound"
      BY <1>1, <2>2, <3>3, Stages
    <3> QED BY <1>1, <3>1, <3>2, <3>3
  <2>3. StagesInOrder'
    <3> SUFFICES ASSUME NEW i \in 1..(Len(log) + 1), NEW j \in 1..(Len(log) + 1), i < j,
                        log'[i].req = log'[j].req, log'[i].type \in DOMAIN StageOf,
                        log'[j].type \in DOMAIN StageOf
                 PROVE  StageOf[log'[i].type] <= StageOf[log'[j].type]
      BY <1>2 DEF StagesInOrder, StageOf
    <3>1. i \in 1..Len(log) /\ log'[i] = log[i] /\ log[i] \in LogSet
      BY <1>2 DEF LogSet
    <3>2. CASE j = Len(log) + 1
      BY <1>2, <2>2, <3>1, <3>2
    <3>3. CASE j \in 1..Len(log)
      BY <1>2, <1>9, <3>1, <3>3 DEF CausalInv, StagesInOrder
    <3> QED BY <1>2, <3>2, <3>3
  <2> QED BY <2>1, <2>3
<1> QED BY <1>1, <1>8, <1>9 DEF CausalInv

\* What the remaining steps do to the jobs.
LEMMA MoveEffect ==
    ASSUME ControlInv
    PROVE  /\ JobsDone => /\ pc = "jobs" /\ taken = <<>> /\ taken' = <<>> /\ jobs = <<>> /\ jobs' = kept
                          /\ kept' = <<>> /\ pc' = "savejobs"
                          /\ UNCHANGED <<lines, log, offset, offsetFile, at, jobsFile, faults, crashes>>
           /\ Enqueue => /\ pc = "enqueue" /\ pc' = "sink" /\ jobsFile' = jobs /\ at' = at + 1
                         /\ taken = <<>> /\ kept = <<>>
                         /\ UNCHANGED <<lines, log, offset, offsetFile, jobs, taken, kept, faults, crashes>>
           /\ Crash => /\ pc # "down" /\ pc' = "down" /\ jobs' = <<>> /\ taken' = <<>> /\ kept' = <<>>
                       /\ at' = offset /\ crashes' = crashes + 1
                       /\ UNCHANGED <<lines, log, offset, offsetFile, jobsFile, faults>>
           /\ Restart => /\ pc = "down" /\ pc' = "idle" /\ jobs' = jobsFile /\ taken' = <<>>
                         /\ kept' = <<>> /\ offset' = offsetFile /\ at' = offsetFile /\ crashes > 0
                         /\ UNCHANGED <<lines, log, offsetFile, jobsFile, faults, crashes>>
<1>1. JobsDone => /\ pc = "jobs" /\ taken = <<>> /\ taken' = <<>> /\ jobs = <<>> /\ jobs' = kept
                  /\ kept' = <<>> /\ pc' = "savejobs"
                  /\ UNCHANGED <<lines, log, offset, offsetFile, at, jobsFile, faults, crashes>>
  BY DEF JobsDone, ControlInv, envVars, streamVars, bounds
<1>2. Enqueue => /\ pc = "enqueue" /\ pc' = "sink" /\ jobsFile' = jobs /\ at' = at + 1
                 /\ taken = <<>> /\ kept = <<>>
                 /\ UNCHANGED <<lines, log, offset, offsetFile, jobs, taken, kept, faults, crashes>>
  BY DEF Enqueue, ControlInv, envVars, streamVars, bounds
<1>3. Crash => /\ pc # "down" /\ pc' = "down" /\ jobs' = <<>> /\ taken' = <<>> /\ kept' = <<>>
               /\ at' = offset /\ crashes' = crashes + 1
               /\ UNCHANGED <<lines, log, offset, offsetFile, jobsFile, faults>>
  BY DEF Crash, diskVars
<1>4. Restart => /\ pc = "down" /\ pc' = "idle" /\ jobs' = jobsFile /\ taken' = <<>>
                 /\ kept' = <<>> /\ offset' = offsetFile /\ at' = offsetFile /\ crashes > 0
                 /\ UNCHANGED <<lines, log, offsetFile, jobsFile, faults, crashes>>
  BY DEF Restart, ControlInv, diskVars, envVars, bounds
<1> QED BY <1>1, <1>2, <1>3, <1>4

\* The sets of jobs after a step, from the sequences after it.
LEMMA SetsAfter ==
    /\ Mem' = JobsIn(jobs') \union JobsIn(taken') \union JobsIn(kept')
    /\ File' = JobsIn(jobsFile') /\ JobsIn(taken)' = JobsIn(taken')
    /\ JobsIn(kept)' = JobsIn(kept') /\ JobsIn(jobs)' = JobsIn(jobs')
BY DEF Mem, File, JobsIn

\* A job keeps being at the stage its log tells, or a later one.
LEMMA CausalStep ==
    RequestTypes /\ ControlInv /\ EventInv /\ IdInv /\ CausalInv /\ [Next]_vars => CausalInv'
<1> SUFFICES ASSUME RequestTypes, ControlInv, EventInv, IdInv, CausalInv, [Next]_vars PROVE CausalInv'
  OBVIOUS
<1>0. StreamType /\ JobsType /\ ControlType /\ faults \in Nat /\ crashes \in Nat
  BY DEF RequestTypes, ControlType
<1>f. faults = 0 => JobsIn(taken) \subseteq File /\ (pc \notin Busy => jobs = jobsFile)
  BY DEF CausalInv, FileInv, Busy
<1>1. CASE StillSteps
  <2>1. /\ UNCHANGED <<log, jobs, taken, kept, jobsFile, faults, crashes>>
        /\ Mem' = Mem /\ File' = File
    BY <1>1, StillEffect
  <2>2. pc' \notin Busy => pc \notin Busy
    BY <1>1, StillBusy
  <2>3. JobsIn(taken)' = JobsIn(taken)
    BY <2>1 DEF JobsIn
  <2> QED BY <1>f, <2>1, <2>2, <2>3, CausalLess
<1>2. CASE PublishAppend
  BY <1>2, CausalAppend
<1>3. CASE BeginActionPoll \/ BeginFullPoll
  <2>1. /\ pc = "idle" /\ taken' = jobs /\ jobs' = <<>> /\ kept' = <<>>
        /\ (IF jobs = <<>> THEN pc' \in {"inbound", "sink"} ELSE pc' = "jobs")
        /\ UNCHANGED <<log, jobsFile, faults, crashes>>
    BY <1>3, JobsEffect
  <2>2. Mem' = JobsIn(jobs) /\ File' = File /\ JobsIn(taken)' = JobsIn(jobs)
    BY <2>1, SetsAfter, JobsInOps DEF File
  <2>3. faults = 0 => jobs = jobsFile
    BY <1>f, <2>1 DEF Busy
  <2>4. Mem' \subseteq Mem /\ (faults = 0 => JobsIn(taken)' \subseteq File')
    BY <2>2, <2>3 DEF Mem, File
  <2>5. faults' = 0 /\ pc' \notin Busy => jobs' = jobsFile'
    BY <2>1, <2>3 DEF Busy
  <2> QED BY <2>1, <2>2, <2>4, <2>5, CausalLess
<1>4. CASE SaveJobs \/ Enqueue
  <2>1. /\ jobsFile' = jobs /\ taken' = <<>> /\ UNCHANGED <<log, jobs, taken, kept, faults, crashes>>
    BY <1>4, JobsEffect, MoveEffect
  <2>2. Mem' = Mem /\ File' \subseteq Mem /\ JobsIn(taken)' = {}
    BY <2>1, SetsAfter, JobsInOps DEF Mem
  <2> QED BY <2>1, <2>2, CausalLess
<1>5. CASE PublishError \/ SaveError
  <2>1. /\ taken' = <<>> /\ kept' = <<>> /\ faults' = faults + 1 /\ UNCHANGED <<log, jobs, crashes>>
    BY <1>5, JobsEffect
  <2>2. Mem' \subseteq Mem /\ faults' # 0
    BY <1>0, <2>1, SetsAfter, JobsInOps DEF Mem
  <2> QED BY <2>1, <2>2, CausalLess
<1>6. CASE JobEmitted
  <2>1. /\ pc' = "jobs" /\ taken # <<>> /\ Head(taken) \in Job
        /\ JobsIn(taken) = {Head(taken)} \union JobsIn(taken')
        /\ \/ Head(taken).stage = 2 /\ kept' = kept /\ JobsIn(kept)' = JobsIn(kept)
           \/ \E K \in Job :
                 /\ K.req = Head(taken).req /\ K.line = Head(taken).line
                 /\ K.stage = Head(taken).stage + 1 /\ Head(taken).stage \in 0..1
                 /\ kept' = Append(kept, K) /\ JobsIn(kept)' = JobsIn(kept) \union {K}
        /\ UNCHANGED <<log, jobs, jobsFile, faults, crashes>>
    BY <1>0, <1>6, JobEmittedEffect
  <2>2. File' = File /\ JobsIn(taken)' = JobsIn(taken') /\ JobsIn(jobs)' = JobsIn(jobs)
        /\ LogSet' = LogSet
    BY <2>1, SetsAfter DEF File, LogSet
  <2>3. CASE JobsIn(kept)' = JobsIn(kept)
    <3>1. Mem' \subseteq Mem
      BY <2>1, <2>2, <2>3 DEF Mem
    <3> QED BY <1>f, <2>1, <2>2, <3>1, CausalLess DEF Busy
  <2>4. CASE \E K \in Job :
                 /\ K.req = Head(taken).req /\ K.line = Head(taken).line
                 /\ K.stage = Head(taken).stage + 1 /\ Head(taken).stage \in 0..1
                 /\ kept' = Append(kept, K) /\ JobsIn(kept)' = JobsIn(kept) \union {K}
    <3>1. PICK K \in Job :
                 /\ K.req = Head(taken).req
                 /\ K.stage = Head(taken).stage + 1 /\ Head(taken).stage \in 0..1
                 /\ JobsIn(kept)' = JobsIn(kept) \union {K}
      BY <2>4
    <3>2. Mem' \subseteq Mem \union {K} /\ Head(taken) \in Mem
      BY <2>1, <2>2, <3>1 DEF Mem
    <3>3. \A J : Upto(J)' <=> Upto(J)
      BY <2>2 DEF Upto, StageOf
    <3>4. StagesInOrder' <=> StagesInOrder
      BY <2>1 DEF StagesInOrder, StageOf
    <3>5. Upto(Head(taken)) => Upto(K)
      <4> SUFFICES ASSUME Upto(Head(taken)), NEW e \in LogSet, e.req = K.req, e.type \in DOMAIN StageOf
                   PROVE  StageOf[e.type] <= K.stage
        BY DEF Upto
      <4>1. StageOf[e.type] <= Head(taken).stage
        BY <3>1 DEF Upto
      <4>2. StageOf[e.type] \in 0..2
        BY Stages
      <4> QED BY <3>1, <4>1, <4>2
    <3>6. faults = 0 => FileInv'
      <4>1. faults = 0 => \A J \in File' : Upto(J)'
        BY <2>2, <3>3 DEF CausalInv, FileInv
      <4>2. faults = 0 => JobsIn(taken)' \subseteq File'
        BY <1>f, <2>1, <2>2
      <4> QED BY <2>1, <4>1, <4>2 DEF FileInv
    <3>7. faults = 0 \/ crashes = 0 => StagesInOrder' /\ \A J \in Mem' : Upto(J)'
      BY <3>2, <3>3, <3>4, <3>5 DEF CausalInv
    <3> QED BY <2>1, <3>6, <3>7 DEF CausalInv
  <2> QED BY <2>1, <2>3, <2>4
<1>7. CASE JobsDone
  <2>1. /\ taken' = <<>> /\ jobs' = kept /\ kept' = <<>> /\ pc' = "savejobs"
        /\ UNCHANGED <<log, jobsFile, faults, crashes>>
    BY <1>7, MoveEffect
  <2>2. Mem' \subseteq Mem /\ File' = File /\ JobsIn(taken)' = {}
    BY <2>1, SetsAfter, JobsInOps DEF Mem, File
  <2> QED BY <2>1, <2>2, CausalLess DEF Busy
<1>8. CASE SubmitStreaming
  <2>1. /\ pc' = "enqueue" /\ taken = <<>> /\ rid' = rid + 1
        /\ \E K \in Job : /\ K.req = rid + 1 /\ K.line = at + 1 /\ K.stage = 0
                          /\ jobs' = Append(jobs, K) /\ JobsIn(jobs)' = JobsIn(jobs) \union {K}
        /\ UNCHANGED <<log, jobsFile, taken, kept, faults, crashes>>
    BY <1>0, <1>8, SubmitEffect
  <2>2. PICK K \in Job : K.req = rid + 1 /\ JobsIn(jobs)' = JobsIn(jobs) \union {K}
    BY <2>1
  <2>3. /\ LogSet' = LogSet /\ File' = File /\ JobsIn(taken)' = {} /\ Mem' \subseteq Mem \union {K}
    BY <2>1, <2>2, SetsAfter, JobsInOps DEF LogSet, File, Mem
  <2>4. \A J : Upto(J)' <=> Upto(J)
    BY <2>3 DEF Upto, StageOf
  <2>5. StagesInOrder' <=> StagesInOrder
    BY <2>1 DEF StagesInOrder, StageOf
  <2>6. Upto(K)
    <3>1. \A e \in LogSet : e.req \in Nat /\ e.req <= rid
      BY <1>0, Elements DEF IdInv
    <3> QED BY <1>0, <2>2, <3>1 DEF Upto, ControlType
  <2>7. faults = 0 => FileInv'
    <3>1. faults = 0 => \A J \in File' : Upto(J)'
      BY <2>3, <2>4 DEF CausalInv, FileInv
    <3> QED BY <2>1, <2>3, <3>1 DEF FileInv
  <2>8. faults = 0 \/ crashes = 0 => StagesInOrder' /\ \A J \in Mem' : Upto(J)'
    BY <2>3, <2>4, <2>5, <2>6 DEF CausalInv
  <2> QED BY <2>1, <2>7, <2>8 DEF CausalInv
<1>9. CASE Crash
  <2>1. /\ pc' = "down" /\ jobs' = <<>> /\ taken' = <<>> /\ kept' = <<>> /\ crashes' = crashes + 1
        /\ UNCHANGED <<log, jobsFile, faults>>
    BY <1>9, MoveEffect
  <2>2. Mem' \subseteq Mem /\ File' = File /\ JobsIn(taken)' = {} /\ crashes' # 0
    BY <1>0, <2>1, SetsAfter, JobsInOps DEF File
  <2> QED BY <2>1, <2>2, CausalLess DEF Busy
<1>10. CASE Restart
  <2>1. /\ pc' = "idle" /\ jobs' = jobsFile /\ taken' = <<>> /\ kept' = <<>> /\ crashes > 0
        /\ UNCHANGED <<log, jobsFile, faults, crashes>>
    BY <1>10, MoveEffect
  <2>2. Mem' = File /\ File' = File /\ JobsIn(taken)' = {}
    BY <2>1, SetsAfter, JobsInOps DEF File
  <2>3. faults' = 0 \/ crashes' = 0 => faults = 0
    BY <1>0, <2>1
  <2> QED BY <2>1, <2>2, <2>3, CausalLess
<1> QED
  BY <1>1, <1>2, <1>3, <1>4, <1>5, <1>6, <1>7, <1>8, <1>9, <1>10 DEF Next, StillSteps

\* Steps after which the log is as before and every job was there before.
LEMMA TerminalLess ==
    ASSUME TerminalInv, log' = log,
           crashes' = 0 => crashes = 0 /\ \A J \in Mem' : J \in Mem /\ (LastStage(J) => LastStage(J)')
    PROVE  TerminalInv'
<1>1. LogSet' = LogSet
  BY DEF LogSet
<1>2. \A r : NoTerminal(r)' <=> NoTerminal(r)
  BY <1>1 DEF NoTerminal
<1>3. AtMostOneTerminal' <=> AtMostOneTerminal
  BY DEF AtMostOneTerminal
<1> QED BY <1>2, <1>3 DEF TerminalInv

\* An event is appended: a terminal one is the first of its request.
LEMMA TerminalAppend ==
    ASSUME RequestTypes, ControlInv, EventInv, IdInv, TerminalInv, PublishAppend
    PROVE  TerminalInv'
<1> SUFFICES ASSUME crashes' = 0
             PROVE  AtMostOneTerminal' /\ \A J \in Mem' : NoTerminal(J.req)' \/ LastStage(J)'
  BY DEF TerminalInv
<1>0. StreamType /\ JobsType
  BY DEF RequestTypes
<1>1. /\ pub = "append" /\ pub' = "replay" /\ log' = Append(log, ev)
      /\ LogSet' = LogSet \union {ev} /\ ev \in Event
      /\ Mem' = Mem /\ pc \in {"job", "inbound", "line"}
      /\ pc = "inbound" => ev.type = "inbound"
      /\ pc = "line" => ev.req = rid /\ \A J \in Mem \union File : J.req < ev.req
      /\ UNCHANGED <<taken, pc, crashes>>
  BY AppendEffect
<1>2. /\ Len(log') = Len(log) + 1 /\ log'[Len(log) + 1] = ev /\ Len(log) \in Nat
      /\ \A i \in 1..Len(log) : log'[i] = log[i]
  BY <1>0, <1>1, LogSetAppend
<1>3. \A J \in Mem : J.req \in Nat
  BY <1>0, Elements
<1>4. pc = "job" => /\ Head(taken) \in Mem /\ Head(taken).stage \in 0..2
                    /\ ev.req = Head(taken).req /\ ev.type = StageType[Head(taken).stage]
                    /\ \A J \in Mem : J.req = ev.req => J = Head(taken)
  BY HeadOnly DEF EventInv
<1>5. AtMostOneTerminal /\ \A J \in Mem : NoTerminal(J.req)
  BY <1>1 DEF TerminalInv, LastStage
<1>6. ev.type \in Terminal => NoTerminal(ev.req)
  <2>1. CASE pc = "job"
    BY <1>4, <1>5, <2>1
  <2>2. CASE pc = "line"
    <3>1. \A e \in LogSet : e.req = rid => e.type = "side"
      BY <1>1, <2>2 DEF EventInv, LineEvents
    <3> QED BY <1>1, <2>2, <3>1 DEF NoTerminal, Terminal
  <2>3. CASE pc = "inbound"
    BY <1>1, <2>3 DEF Terminal
  <2> QED BY <1>1, <2>1, <2>2, <2>3
<1>7. AtMostOneTerminal'
  <2> SUFFICES ASSUME NEW i \in 1..(Len(log) + 1), NEW j \in 1..(Len(log) + 1),
                      log'[i].type \in Terminal, log'[j].type \in Terminal,
                      log'[i].req = log'[j].req
               PROVE  i = j
    BY <1>2 DEF AtMostOneTerminal
  <2>1. \A k \in 1..Len(log) : log'[k] = log[k] /\ log[k] \in LogSet
    BY <1>2 DEF LogSet
  <2>2. CASE i \in 1..Len(log) /\ j \in 1..Len(log)
    BY <1>5, <2>1, <2>2 DEF AtMostOneTerminal
  <2>3. CASE i = Len(log) + 1 /\ j \in 1..Len(log)
    BY <1>2, <1>6, <2>1, <2>3 DEF NoTerminal
  <2>4. CASE j = Len(log) + 1 /\ i \in 1..Len(log)
    BY <1>2, <1>6, <2>1, <2>4 DEF NoTerminal
  <2> QED BY <1>2, <2>2, <2>3, <2>4
<1>8. ASSUME NEW J \in Mem' PROVE NoTerminal(J.req)' \/ LastStage(J)'
  <2>1. J \in Mem /\ NoTerminal(J.req)
    BY <1>1, <1>5
  <2>2. CASE ev.req # J.req \/ ev.type \notin Terminal
    BY <1>1, <2>1, <2>2 DEF NoTerminal
  <2>3. CASE ev.req = J.req /\ ev.type \in Terminal
    <3>1. pc = "job"
      BY <1>1, <1>3, <2>1, <2>3 DEF Terminal
    <3>2. J = Head(taken) /\ Head(taken).stage = 2
      BY <1>4, <2>1, <2>3, <3>1, Stages
    <3> QED BY <1>1, <3>1, <3>2 DEF LastStage
  <2> QED BY <2>2, <2>3
<1> QED BY <1>7, <1>8

\* No job goes on after the terminal event of its request.
LEMMA TerminalStep ==
    RequestTypes /\ ControlInv /\ EventInv /\ IdInv /\ TerminalInv /\ [Next]_vars => TerminalInv'
<1> SUFFICES ASSUME RequestTypes, ControlInv, EventInv, IdInv, TerminalInv, [Next]_vars
             PROVE  TerminalInv'
  OBVIOUS
<1>0. StreamType /\ JobsType /\ ControlType /\ crashes \in Nat
  BY DEF RequestTypes, ControlType
<1>1. CASE StillSteps
  <2>1. UNCHANGED <<log, taken, crashes>> /\ Mem' = Mem
    BY <1>1, StillEffect
  <2>2. pc = "job" => pc' = "job" /\ (pub # "append" => pub' # "append")
    BY <1>1, StillBusy
  <2>3. \A J : LastStage(J) => LastStage(J)'
    BY <2>1, <2>2 DEF LastStage
  <2> QED BY <2>1, <2>3, TerminalLess
<1>2. CASE PublishAppend
  BY <1>2, TerminalAppend
<1>3. CASE BeginActionPoll \/ BeginFullPoll \/ SaveJobs \/ Enqueue \/ JobsDone
  <2>1. /\ pc # "job" /\ UNCHANGED <<log, crashes>>
        /\ \/ taken' = jobs /\ jobs' = <<>> /\ kept' = <<>>
           \/ UNCHANGED <<jobs, taken, kept>>
           \/ taken' = <<>> /\ jobs' = kept /\ kept' = <<>>
    BY <1>3, JobsEffect, MoveEffect
  <2>2. Mem' \subseteq Mem
    BY <2>1, SetsAfter, JobsInOps DEF Mem
  <2> QED BY <2>1, <2>2, TerminalLess DEF LastStage
<1>4. CASE PublishError \/ SaveError
  <2>1. taken' = <<>> /\ kept' = <<>> /\ UNCHANGED <<log, jobs, crashes>>
    BY <1>4, JobsEffect
  <2>2. Mem' = JobsIn(jobs)
    BY <2>1, SetsAfter, JobsInOps
  <2>3. pc = "job" => Mem' = {}
    BY <2>2, JobsInOps DEF ControlInv
  <2> QED BY <2>1, <2>2, <2>3, TerminalLess DEF LastStage, Mem
<1>5. CASE JobEmitted
  <2>1. /\ pc = "job" /\ pub = "none" /\ taken' = Tail(taken) /\ jobs = <<>>
        /\ \/ Head(taken).stage = 2 /\ kept' = kept /\ JobsIn(kept)' = JobsIn(kept)
           \/ \E K \in Job :
                 /\ K.req = Head(taken).req /\ K.line = Head(taken).line
                 /\ K.stage = Head(taken).stage + 1 /\ Head(taken).stage \in 0..1
                 /\ kept' = Append(kept, K) /\ JobsIn(kept)' = JobsIn(kept) \union {K}
        /\ UNCHANGED <<log, jobs, crashes>>
    BY <1>0, <1>5, JobEmittedEffect
  <2>2. /\ JobsIn(taken) = {Head(taken)} \union JobsIn(Tail(taken)) /\ Head(taken) \in Mem
        /\ \A K \in JobsIn(Tail(taken)) : Head(taken).req < K.req
        /\ \A J \in JobsIn(kept) : J.req < Head(taken).req
        /\ Head(taken).req \in Nat
    BY <2>1, HeadOnly
  <2>3. \A J \in JobsIn(Tail(taken)) \union JobsIn(kept) : J \in Mem /\ J # Head(taken)
    BY <2>2 DEF Mem
  <2>4. JobsIn(taken)' = JobsIn(Tail(taken)) /\ JobsIn(jobs)' = {} /\ LogSet' = LogSet
    BY <2>1, SetsAfter, JobsInOps DEF LogSet
  <2>5. CASE JobsIn(kept)' = JobsIn(kept)
    <3>1. Mem' = JobsIn(Tail(taken)) \union JobsIn(kept)
      BY <2>4, <2>5, SetsAfter
    <3> QED BY <2>1, <2>3, <3>1, TerminalLess DEF LastStage
  <2>6. CASE \E K \in Job :
                 /\ K.req = Head(taken).req /\ K.line = Head(taken).line
                 /\ K.stage = Head(taken).stage + 1 /\ Head(taken).stage \in 0..1
                 /\ kept' = Append(kept, K) /\ JobsIn(kept)' = JobsIn(kept) \union {K}
    <3>1. PICK K \in Job : /\ K.req = Head(taken).req /\ Head(taken).stage \in 0..1
                           /\ JobsIn(kept)' = JobsIn(kept) \union {K}
      BY <2>6
    <3>2. Mem' = JobsIn(Tail(taken)) \union JobsIn(kept) \union {K}
      BY <2>4, <3>1, SetsAfter
    <3>3. AtMostOneTerminal' <=> AtMostOneTerminal
      BY <2>1 DEF AtMostOneTerminal
    <3>4. \A r : NoTerminal(r)' <=> NoTerminal(r)
      BY <2>4 DEF NoTerminal
    <3>5. crashes = 0 => NoTerminal(K.req)
      BY <2>2, <3>1 DEF TerminalInv, LastStage
    <3>6. crashes = 0 => \A J \in Mem' : NoTerminal(J.req)
      BY <2>3, <3>2, <3>5 DEF TerminalInv, LastStage
    <3> QED BY <2>1, <3>3, <3>4, <3>6 DEF TerminalInv
  <2> QED BY <2>1, <2>5, <2>6
<1>6. CASE SubmitStreaming
  <2>1. /\ pc = "sink" /\ taken = <<>> /\ kept = <<>>
        /\ \E K \in Job : /\ K.req = rid + 1 /\ K.line = at + 1 /\ K.stage = 0
                          /\ jobs' = Append(jobs, K) /\ JobsIn(jobs)' = JobsIn(jobs) \union {K}
        /\ UNCHANGED <<log, taken, kept, crashes>>
    BY <1>0, <1>6, SubmitEffect
  <2>2. PICK K \in Job : K.req = rid + 1 /\ JobsIn(jobs)' = JobsIn(jobs) \union {K}
    BY <2>1
  <2>3. LogSet' = LogSet /\ Mem' \subseteq Mem \union {K}
    BY <2>1, <2>2, SetsAfter, JobsInOps DEF LogSet, Mem
  <2>4. NoTerminal(K.req)
    <3>1. \A e \in LogSet : e.req \in Nat /\ e.req <= rid
      BY <1>0, Elements DEF IdInv
    <3> QED BY <1>0, <2>2, <3>1 DEF NoTerminal, ControlType
  <2>5. AtMostOneTerminal' <=> AtMostOneTerminal
    BY <2>1 DEF AtMostOneTerminal
  <2>6. \A r : NoTerminal(r)' <=> NoTerminal(r)
    BY <2>3 DEF NoTerminal
  <2>7. crashes = 0 => \A J \in Mem' : NoTerminal(J.req)
    BY <2>1, <2>3, <2>4 DEF TerminalInv, LastStage
  <2> QED BY <2>1, <2>5, <2>6, <2>7 DEF TerminalInv
<1>7. CASE Crash \/ Restart
  <2>1. crashes' # 0
    BY <1>0, <1>7, MoveEffect
  <2> QED BY <2>1 DEF TerminalInv
<1> QED BY <1>1, <1>2, <1>3, <1>4, <1>5, <1>6, <1>7 DEF Next, StillSteps

\* The cursors and the lines over those steps: the working cursor passes a line that is
\* malformed or whose terminal event is in the log.
LEMMA StillCursor ==
    ASSUME StillSteps, ControlType, ControlInv, EventInv
    PROVE  /\ \A i \in 1..Len(lines) : lines'[i] = lines[i]
           /\ UNCHANGED <<offset, offsetFile>> \/ (offset' = at /\ offsetFile' = at)
           /\ \/ at' = at
              \/ at' = at + 1 /\ lines[at + 1] = "malformed"
              \/ at' = at + 1 /\ Answered(at + 1)
           /\ at' # at => at < Len(lines) /\ pc # "enqueue"
<1> USE DEF ControlType
<1>1. CASE UNCHANGED vars \/ InboundArrives \/ PublishReplay \/ PublishCursor
  BY <1>1 DEF vars, InboundArrives, PublishReplay, PublishCursor, envVars, requestVars
<1>2. CASE ClientWrite
  BY <1>2 DEF ClientWrite, requestVars
<1>3. CASE BeginInboundPoll \/ JobEmit \/ InboundEmit \/ InboundDone
  BY <1>3 DEF BeginInboundPoll, JobEmit, InboundEmit, InboundDone, envVars, requestVars
<1>4. CASE SubmitCompleted \/ SubmitFailed \/ SubmitTransient
  BY <1>4 DEF SubmitCompleted, SubmitFailed, SubmitTransient, envVars
<1>5. CASE SubmitRejected
  <2>1. /\ lines[at + 1] = "malformed" /\ at' = at + 1 /\ at < Len(lines) /\ pc = "sink"
        /\ UNCHANGED <<lines, offset, offsetFile>>
    BY <1>5 DEF SubmitRejected, AtRequest, AtLine, envVars
  <2> QED BY <2>1
<1>6. CASE LineEmit \/ SinkEmpty
  BY <1>6 DEF LineEmit, SinkEmpty, envVars, requestVars
<1>7. CASE Commit
  BY <1>7 DEF Commit, envVars
<1>8. CASE LineDone
  <2>1. /\ pc = "line" /\ pub = "none" /\ outbox = <<>> /\ at' = at + 1 /\ at < Len(lines)
        /\ UNCHANGED <<lines, offset, offsetFile>>
    BY <1>8 DEF LineDone, ControlInv, envVars
  <2>2. LineEvents
    BY <2>1 DEF EventInv
  <2>3. ev \in LogSet /\ ev.line = at + 1 /\ ev.type \in Terminal
    BY <2>1, <2>2 DEF LineEvents
  <2>4. Answered(at + 1)
    BY <2>3 DEF Answered
  <2> QED BY <2>1, <2>4
<1> QED BY <1>1, <1>2, <1>3, <1>4, <1>5, <1>6, <1>7, <1>8 DEF StillSteps

\* Steps that leave the jobs file alone.
LEMMA LostSame ==
    ASSUME LostInv, faults = 0, LogSet \subseteq LogSet', File' = File, offset' = offsetFile',
           \A i \in 1..at : lines'[i] = lines[i],
           pc' # "down" => \A J \in File : Answered(J.line)' \/ HasJob(Mem', J.line),
           pc' = "enqueue" => HasJob(Mem', at' + 1),
           \A l \in 1..at' : l \in 1..at \/ Answered(l)' \/ lines'[l] = "malformed"
    PROVE  LostInv'
<1>1. \A l : Answered(l) => Answered(l)'
  BY DEF Answered
<1>2. \A l \in 1..at' : Answered(l)' \/ lines'[l] = "malformed" \/ HasJob(File', l)
  BY <1>1 DEF LostInv
<1>3. \A S, l : HasJob(S, l)' <=> HasJob(S', l')
  BY DEF HasJob
<1>4. pc' # "down" => \A J \in File' : Answered(J.line)' \/ HasJob(Mem', J.line)
  OBVIOUS
<1> QED BY <1>2, <1>3, <1>4 DEF LostInv, HasJob

\* A line behind the cursor stays answered or a job.
LEMMA LostStep ==
    RequestTypes /\ ControlInv /\ EventInv /\ IdInv /\ LostInv /\ [Next]_vars => LostInv'
<1> SUFFICES ASSUME RequestTypes, ControlInv, EventInv, IdInv, LostInv, [Next]_vars, faults' = 0
             PROVE  LostInv'
  BY DEF LostInv
<1>0. /\ StreamType /\ JobsType /\ ControlType /\ faults \in Nat
      /\ offset \in Nat /\ at \in Nat /\ Len(lines) \in Nat /\ at <= Len(lines) /\ offset <= at
  BY DEF RequestTypes, ControlType, ControlInv
<1>1. CASE StillSteps
  <2>1. faults = 0 /\ LogSet' = LogSet /\ Mem' = Mem /\ File' = File
    BY <1>1, StillEffect
  <2>2. /\ \A i \in 1..Len(lines) : lines'[i] = lines[i]
        /\ UNCHANGED <<offset, offsetFile>> \/ (offset' = at /\ offsetFile' = at)
        /\ at' = at \/ (at' = at + 1 /\ (lines[at + 1] = "malformed" \/ Answered(at + 1)))
        /\ at' # at => at < Len(lines) /\ pc # "enqueue"
    BY <1>0, <1>1, StillCursor
  <2>3. pc' = "enqueue" => pc = "enqueue"
    BY <1>1, StillBusy
  <2>4. pc' # "down" => pc # "down"
    BY <1>1, StillBusy
  <2>5. offset' = offsetFile'
    BY <2>1, <2>2 DEF LostInv
  <2>6. \A l : Answered(l)' <=> Answered(l)
    BY <2>1 DEF Answered
  <2>7. \A l \in 1..at' : l \in 1..at \/ Answered(l)' \/ lines'[l] = "malformed"
    <3>1. CASE at' = at
      BY <3>1
    <3>2. CASE at' = at + 1 /\ Answered(at + 1)
      BY <1>0, <2>6, <3>2
    <3>3. CASE at' = at + 1 /\ lines[at + 1] = "malformed"
      <4>1. at + 1 \in 1..Len(lines) /\ lines'[at + 1] = "malformed"
        BY <1>0, <2>2, <3>3
      <4> QED BY <1>0, <3>3, <4>1
    <3> QED BY <2>2, <3>1, <3>2, <3>3
  <2>8. pc' # "down" => \A J \in File : Answered(J.line)' \/ HasJob(Mem', J.line)
    BY <2>1, <2>4, <2>6 DEF LostInv
  <2>9. pc' = "enqueue" => HasJob(Mem', at' + 1)
    BY <2>1, <2>2, <2>3 DEF LostInv
  <2> QED BY <1>0, <2>1, <2>2, <2>5, <2>7, <2>8, <2>9, LostSame
<1>2. CASE PublishAppend
  <2>1. /\ LogSet' = LogSet \union {ev} /\ Mem' = Mem /\ File' = File
        /\ UNCHANGED <<lines, offset, offsetFile, at, pc, faults>>
    BY <1>2, AppendEffect
  <2>2. \A l : Answered(l) => Answered(l)'
    BY <2>1 DEF Answered
  <2>3. pc' # "down" => \A J \in File : Answered(J.line)' \/ HasJob(Mem', J.line)
    BY <2>1, <2>2 DEF LostInv
  <2>4. offset' = offsetFile' /\ (pc' = "enqueue" => HasJob(Mem', at' + 1))
    BY <2>1 DEF LostInv
  <2> QED BY <2>1, <2>3, <2>4, LostSame
<1>3. CASE BeginActionPoll \/ BeginFullPoll \/ JobsDone
  <2>1. /\ pc # "down" /\ pc' \notin {"down", "enqueue"}
        /\ UNCHANGED <<lines, log, offset, offsetFile, at, jobsFile, faults>>
        /\ \/ taken' = jobs /\ jobs' = <<>> /\ kept' = <<>> /\ taken = <<>> /\ kept = <<>>
           \/ taken' = <<>> /\ jobs' = kept /\ kept' = <<>> /\ jobs = <<>> /\ taken = <<>>
    <3>1. CASE BeginActionPoll \/ BeginFullPoll
      BY <3>1, JobsEffect DEF ControlInv
    <3>2. CASE JobsDone
      BY <3>2, MoveEffect
    <3> QED BY <1>3, <3>1, <3>2
  <2>2. Mem' = Mem /\ File' = File /\ LogSet' = LogSet
    BY <2>1, SetsAfter, JobsInOps DEF Mem, File, LogSet
  <2>3. \A l : Answered(l)' <=> Answered(l)
    BY <2>2 DEF Answered
  <2>4. pc' # "down" => \A J \in File : Answered(J.line)' \/ HasJob(Mem', J.line)
    BY <2>1, <2>2, <2>3 DEF LostInv
  <2>5. offset' = offsetFile'
    BY <2>1 DEF LostInv
  <2> QED BY <2>1, <2>2, <2>4, <2>5, LostSame
<1>4. CASE SaveJobs \/ Enqueue
  <2>1. /\ pc # "down" /\ jobsFile' = jobs /\ taken = <<>> /\ kept = <<>>
        /\ pc' \notin {"down", "enqueue"}
        /\ at' = at \/ (pc = "enqueue" /\ at' = at + 1)
        /\ UNCHANGED <<lines, log, offset, offsetFile, jobs, taken, kept, faults>>
    BY <1>4, JobsEffect, MoveEffect
  <2>2. Mem' = Mem /\ File' = Mem /\ LogSet' = LogSet
    BY <2>1, SetsAfter, JobsInOps DEF Mem, LogSet
  <2>3. \A l : Answered(l)' <=> Answered(l)
    BY <2>2 DEF Answered
  <2>4. \A l : HasJob(File, l) => Answered(l) \/ HasJob(Mem, l)
    BY <2>1 DEF LostInv, HasJob
  <2>5. \A l \in 1..at : Answered(l)' \/ lines'[l] = "malformed" \/ HasJob(File', l)
    BY <2>1, <2>2, <2>3, <2>4 DEF LostInv
  <2>6. at' = at \/ HasJob(File', at + 1)
    BY <2>1, <2>2 DEF LostInv
  <2>7. \A l \in 1..at' : Answered(l)' \/ lines'[l] = "malformed" \/ HasJob(File', l)
    BY <1>0, <2>1, <2>5, <2>6
  <2>8. \A J \in File' : HasJob(Mem', J.line)
    BY <2>2 DEF HasJob
  <2>9. offset' = offsetFile'
    BY <2>1 DEF LostInv
  <2> QED BY <2>1, <2>7, <2>8, <2>9 DEF LostInv, HasJob
<1>5. CASE PublishError \/ SaveError
  <2>1. faults' = faults + 1
    BY <1>5, JobsEffect
  <2> QED BY <1>0, <2>1
<1>6. CASE JobEmitted
  <2>1. /\ pc = "job" /\ pub = "none" /\ pc' = "jobs"
        /\ JobsIn(taken) = {Head(taken)} \union JobsIn(taken')
        /\ \/ Head(taken).stage = 2 /\ kept' = kept /\ JobsIn(kept)' = JobsIn(kept)
           \/ \E K \in Job :
                 /\ K.req = Head(taken).req /\ K.line = Head(taken).line
                 /\ K.stage = Head(taken).stage + 1 /\ Head(taken).stage \in 0..1
                 /\ kept' = Append(kept, K) /\ JobsIn(kept)' = JobsIn(kept) \union {K}
        /\ UNCHANGED <<lines, log, offset, offsetFile, at, jobs, jobsFile, faults>>
    BY <1>0, <1>6, JobEmittedEffect
  <2>2. File' = File /\ LogSet' = LogSet
    BY <2>1, SetsAfter DEF File, LogSet
  <2>3. \A l : Answered(l)' <=> Answered(l)
    BY <2>2 DEF Answered
  <2>4. Head(taken).stage = 2 => Answered(Head(taken).line)
    BY <2>1, Stages DEF EventInv, Answered
  <2>5. Answered(Head(taken).line) \/ HasJob(Mem', Head(taken).line)
    BY <2>1, <2>4, SetsAfter DEF HasJob
  <2>6. \A J \in Mem : J = Head(taken) \/ J \in Mem'
    BY <2>1, SetsAfter DEF Mem
  <2>7. \A l : HasJob(Mem, l) => Answered(l) \/ HasJob(Mem', l)
    BY <2>5, <2>6 DEF HasJob
  <2>8. \A J \in File : Answered(J.line)' \/ HasJob(Mem', J.line)
    BY <2>1, <2>3, <2>7 DEF LostInv
  <2>9. offset' = offsetFile'
    BY <2>1 DEF LostInv
  <2> QED BY <2>1, <2>2, <2>8, <2>9, LostSame
<1>7. CASE SubmitStreaming
  <2>1. /\ pc = "sink" /\ pc' = "enqueue" /\ taken = <<>> /\ kept = <<>>
        /\ \E K \in Job : /\ K.req = rid + 1 /\ K.line = at + 1 /\ K.stage = 0
                          /\ jobs' = Append(jobs, K) /\ JobsIn(jobs)' = JobsIn(jobs) \union {K}
        /\ UNCHANGED <<lines, log, offset, offsetFile, at, jobsFile, taken, kept, faults>>
    BY <1>0, <1>7, SubmitEffect
  <2>2. File' = File /\ LogSet' = LogSet /\ Mem \subseteq Mem'
    BY <2>1, SetsAfter DEF File, LogSet, Mem
  <2>3. HasJob(Mem', at' + 1)
    BY <2>1, SetsAfter DEF HasJob
  <2>4. \A l : Answered(l)' <=> Answered(l)
    BY <2>2 DEF Answered
  <2>5. \A J \in File : Answered(J.line)' \/ HasJob(Mem', J.line)
    BY <2>1, <2>2, <2>4 DEF LostInv, HasJob
  <2>6. offset' = offsetFile'
    BY <2>1 DEF LostInv
  <2> QED BY <2>1, <2>2, <2>3, <2>5, <2>6, LostSame
<1>8. CASE Crash
  <2>1. pc' = "down" /\ at' = offset /\ UNCHANGED <<lines, log, offset, offsetFile, jobsFile, faults>>
    BY <1>8, MoveEffect
  <2>2. File' = File /\ LogSet' = LogSet
    BY <2>1, SetsAfter DEF File, LogSet
  <2>3. offset' = offsetFile' /\ \A l \in 1..at' : l \in 1..at
    BY <1>0, <2>1 DEF LostInv
  <2> QED BY <2>1, <2>2, <2>3, LostSame
<1>9. CASE Restart
  <2>1. /\ pc = "down" /\ pc' = "idle" /\ jobs' = jobsFile /\ taken' = <<>> /\ kept' = <<>>
        /\ offset' = offsetFile /\ at' = offsetFile
        /\ UNCHANGED <<lines, log, offsetFile, jobsFile, faults>>
    BY <1>9, MoveEffect
  <2>2. Mem' = File /\ File' = File /\ LogSet' = LogSet
    BY <2>1, SetsAfter, JobsInOps DEF File, LogSet
  <2>3. offsetFile = at
    BY <2>1 DEF LostInv, ControlInv
  <2>4. \A J \in File : HasJob(Mem', J.line)
    BY <2>2 DEF HasJob
  <2> QED BY <2>1, <2>2, <2>3, <2>4, LostSame
<1> QED BY <1>1, <1>2, <1>3, <1>4, <1>5, <1>6, <1>7, <1>8, <1>9 DEF Next, StillSteps

\* The order of lines in a set of jobs: over a move of the cursor, and when a job is accepted,
\* dropped or added.
LEMMA ClosedMoves ==
    ASSUME NEW A, NEW S, NEW n, NEW m, NEW ls, NEW ls2,
           Closed(A, S, n, ls), \A k \in Known(A, S) : k \in Nat /\ k <= Len(ls),
           Len(ls) \in Nat, \A i \in 1..Len(ls) : ls2[i] = ls[i],
           \A l \in 1..m : \/ l \in 1..n /\ l <= Len(ls)
                           \/ ls2[l] # "request" \/ l \in Known(A, S)
    PROVE  Closed(A, S, m, ls2)
<1>1. \A l \in 1..m : ls2[l] = "request" => l \in Known(A, S)
  <2> SUFFICES ASSUME NEW l \in 1..m, l \in 1..n, l <= Len(ls), ls2[l] = "request" PROVE l \in Known(A, S)
    OBVIOUS
  <2>1. ls2[l] = ls[l]
    OBVIOUS
  <2> QED BY <2>1 DEF Closed
<1>2. ASSUME NEW k \in Known(A, S), NEW l \in 1..(k - 1), ls2[l] = "request" PROVE l \in Known(A, S)
  <2>1. l \in 1..Len(ls)
    OBVIOUS
  <2> QED BY <1>2, <2>1 DEF Closed
<1> QED BY <1>1, <1>2 DEF Closed

\* The first fresh job of a set is accepted.
LEMMA OrderAccept ==
    ASSUME NEW A, NEW H, NEW S, NEW F \in Fresh(S), InOrder(A, H, S),
           \A J \in S : J.req \in Nat,
           \A J \in Fresh(S) : J.req < F.req => J.line \in H,
           \A J \in Fresh(S) : J.req = F.req => J = F
    PROVE  /\ InOrder(A \union {F.line}, H \union {F.line}, S)
           /\ Known(H \union {F.line}, S) = Known(H, S)
           /\ F.line \notin H => \A a \in A : a < F.line
<1>1. Known(H \union {F.line}, S) = Known(H, S)
  BY DEF Known
<1>2. F.line \notin H => \A a \in A : a < F.line
  <2>1. F.line \notin H => ~HasJob(Earlier(S, F), F.line)
    BY DEF HasJob, Earlier
  <2> QED BY <2>1 DEF InOrder
<1>3. ASSUME NEW J \in Fresh(S)
      PROVE  \/ J.line \in H \union {F.line}
             \/ HasJob(Earlier(S, J), J.line)
             \/ /\ \A a \in A \union {F.line} : a < J.line
                /\ \A K \in Earlier(S, J) : K.line < J.line
  <2> SUFFICES ASSUME J.line \notin H, J # F, ~HasJob(Earlier(S, J), J.line)
               PROVE  /\ \A a \in A \union {F.line} : a < J.line
                      /\ \A K \in Earlier(S, J) : K.line < J.line
    OBVIOUS
  <2>1. (\A a \in A : a < J.line) /\ \A K \in Earlier(S, J) : K.line < J.line
    BY DEF InOrder
  <2>2. J.req \in Nat /\ F.req \in Nat
    BY DEF Fresh
  <2>3. F.req < J.req
    BY <2>2
  <2>4. F \in Earlier(S, J)
    BY <2>3 DEF Earlier
  <2> QED BY <2>1, <2>4
<1> QED BY <1>1, <1>2, <1>3 DEF InOrder

\* The request after the cursor is answered.
LEMMA OrderAnswer ==
    ASSUME NEW A, NEW H, NEW S, NEW n \in Nat, NEW ls, Ordered(A, H, S, n, ls)
    PROVE  Ordered(A, H \union {n + 1}, S, n, ls)
<1> DEFINE G == H \union {n + 1}
<1>1. InOrder(A, G, S)
  BY DEF Ordered, InOrder
<1>2. Known(G, S) = Known(H, S) \union {n + 1}
  BY DEF Known
<1>3. \A l \in 1..n : ls[l] = "request" => l \in Known(G, S)
  BY <1>2 DEF Ordered, Closed
<1>4. ASSUME NEW k \in Known(G, S), NEW l \in 1..(k - 1), ls[l] = "request" PROVE l \in Known(G, S)
  <2>1. CASE k \in Known(H, S)
    BY <1>2, <1>4, <2>1 DEF Ordered, Closed
  <2>2. CASE k = n + 1
    BY <1>3, <1>4, <2>2
  <2> QED BY <1>2, <2>1, <2>2
<1> QED BY <1>1, <1>3, <1>4 DEF Ordered, Closed

\* Jobs of lines heard of leave a set.
LEMMA OrderDrop ==
    ASSUME NEW A, NEW H, NEW S, NEW T, InOrder(A, H, S), Fresh(T) \subseteq Fresh(S),
           \A J \in Fresh(S) : J \in Fresh(T) \/ J.line \in H
    PROVE  InOrder(A, H, T) /\ Known(H, T) = Known(H, S)
<1>1. Known(H, T) = Known(H, S)
  BY DEF Known
<1>2. ASSUME NEW J \in Fresh(T), J.line \notin H
      PROVE  \/ HasJob(Earlier(T, J), J.line)
             \/ (\A a \in A : a < J.line) /\ (\A K \in Earlier(T, J) : K.line < J.line)
  <2>1. J \in Fresh(S)
    OBVIOUS
  <2>2. CASE HasJob(Earlier(S, J), J.line)
    <3>1. PICK K \in Fresh(S) : K.req < J.req /\ K.line = J.line
      BY <2>2 DEF HasJob, Earlier
    <3>2. K \in Fresh(T)
      BY <1>2, <3>1
    <3> QED BY <3>1, <3>2 DEF HasJob, Earlier
  <2>3. CASE (\A a \in A : a < J.line) /\ (\A K \in Earlier(S, J) : K.line < J.line)
    BY <2>3 DEF Earlier
  <2> QED BY <1>2, <2>1, <2>2, <2>3 DEF InOrder
<1> QED BY <1>1, <1>2 DEF InOrder

\* A job of the line after the cursor enters a set.
LEMMA OrderAdd ==
    ASSUME NEW A, NEW H, NEW S, NEW K, NEW n \in Nat, NEW ls,
           Ordered(A, H, S, n, ls), A \subseteq H, K.stage = 0, K.line = n + 1, K.req \in Nat,
           \A J \in S : J.req \in Nat /\ J.req < K.req,
           \A k \in Known(H, S) : k \in Nat, ls[n + 1] = "request"
    PROVE  Ordered(A, H, S \union {K}, n, ls) /\ n + 1 \in Known(H, S \union {K})
<1> DEFINE T == S \union {K}
<1>0. InOrder(A, H, S) /\ Closed(H, S, n, ls) /\ Told(A, T)
  BY DEF Ordered, Told
<1>1. Fresh(T) = Fresh(S) \union {K} /\ Known(H, T) = Known(H, S) \union {n + 1}
  BY DEF Fresh, Known
<1>2. \A J \in Fresh(S) : Earlier(T, J) = Earlier(S, J)
  BY <1>1 DEF Earlier, Fresh
<1>3. Earlier(T, K) = Fresh(S)
  BY <1>1 DEF Earlier, Fresh
<1> HIDE DEF T
<1>4. ASSUME NEW J \in Fresh(S)
      PROVE  \/ J.line \in H
             \/ HasJob(Earlier(T, J), J.line)
             \/ (\A a \in A : a < J.line) /\ (\A L \in Earlier(T, J) : L.line < J.line)
  BY <1>0, <1>2 DEF InOrder
<1>5. \/ K.line \in H
      \/ HasJob(Earlier(T, K), K.line)
      \/ (\A a \in A : a < K.line) /\ (\A L \in Earlier(T, K) : L.line < K.line)
  <2>1. CASE n + 1 \in Known(H, S)
    BY <1>3, <2>1 DEF Known, HasJob
  <2>2. CASE n + 1 \notin Known(H, S)
    <3>1. ASSUME NEW k \in Known(H, S) PROVE k < n + 1
      <4>1. k \in Nat
        OBVIOUS
      <4>2. n + 1 \notin 1..(k - 1)
        BY <1>0, <2>2 DEF Closed
      <4> QED BY <2>2, <4>1, <4>2
    <3> QED BY <1>3, <3>1 DEF Known
  <2> QED BY <2>1, <2>2
<1>6. InOrder(A, H, T)
  BY <1>1, <1>4, <1>5 DEF InOrder
<1>7. ASSUME NEW k \in Known(H, T), NEW l \in 1..(k - 1), ls[l] = "request" PROVE l \in Known(H, T)
  <2>1. CASE k \in Known(H, S)
    BY <1>0, <1>1, <1>7, <2>1 DEF Closed
  <2>2. CASE k = n + 1
    BY <1>0, <1>1, <1>7, <2>2 DEF Closed
  <2> QED BY <1>1, <2>1, <2>2
<1>8. Closed(H, T, n, ls)
  <2>1. \A l \in 1..n : ls[l] = "request" => l \in Known(H, T)
    BY <1>0, <1>1 DEF Closed
  <2> QED BY <1>7, <2>1 DEF Closed
<1> QED BY <1>0, <1>1, <1>6, <1>8 DEF T, Ordered

\* The lines known are lines of the sink.
LEMMA KnownLines ==
    ASSUME RequestTypes, IdInv
    PROVE  /\ \A k \in Known(Heard, Mem) : k \in Nat /\ k <= Len(lines)
           /\ \A k \in Known(Heard, File) : k \in Nat /\ k <= Len(lines)
           /\ Accepted \subseteq Heard
<1>1. StreamType /\ JobsType
  BY DEF RequestTypes
<1>2. \A J \in Mem \union File : J.line \in Nat /\ J.line <= Len(lines)
  BY <1>1, Elements DEF IdInv
<1>3. \A e \in LogSet : e.line \in Nat /\ e.line <= Len(lines)
  BY <1>1, Elements DEF IdInv
<1>4. Accepted \subseteq Heard
  BY DEF Accepted, Heard, LinesOf
<1> QED BY <1>2, <1>3, <1>4 DEF Known, Heard, LinesOf, Fresh

\* Steps that leave the log alone.
LEMMA OrderSame ==
    ASSUME log' = log,
           Ordered(Accepted, Heard, File', at', lines'),
           pc' # "down" => Ordered(Accepted, Heard, Mem', at', lines'),
           pc' \in {"jobs", "job"} =>
               \A J \in Fresh(File') : J \in JobsIn(taken') \/ J.line \in Heard,
           pc' = "enqueue" => at' + 1 \in Known(Heard, Mem'),
           InLineOrder
    PROVE  OrderInv'
<1>1. LogSet' = LogSet /\ Accepted' = Accepted /\ Heard' = Heard
  BY DEF LogSet, Accepted, Heard, LinesOf, Terminal
<1>3. InLineOrder' <=> InLineOrder
  BY DEF InLineOrder, HeardBefore, Terminal
<1>5. Ordered(Accepted', Heard', File', at', lines')
  BY <1>1
<1>6. pc' # "down" => Ordered(Accepted', Heard', Mem', at', lines')
  BY <1>1
<1>7. pc' \in {"jobs", "job"} =>
          \A J \in Fresh(File') : J \in JobsIn(taken') \/ J.line \in Heard'
  BY <1>1
<1>8. pc' = "enqueue" => at' + 1 \in Known(Heard', Mem')
  BY <1>1
<1>9. JobsIn(taken)' = JobsIn(taken')
  BY SetsAfter
<1> QED
  BY <1>3, <1>5, <1>6, <1>7, <1>8, <1>9
     DEF OrderInv, Ordered, InOrder, Closed, Told, Known, Fresh, Earlier, HasJob

\* An event is appended: the acceptance of a line that was not heard of before comes after
\* all those of other lines, and what was known stays known.
LEMMA OrderAppend ==
    ASSUME RequestTypes, ControlInv, EventInv, IdInv, CausalInv, OrderInv, PublishAppend
    PROVE  OrderInv'
<1>1. /\ pub = "append" /\ log' = Append(log, ev) /\ LogSet' = LogSet \union {ev} /\ ev \in Event
      /\ Mem' = Mem /\ File' = File /\ pc \in {"job", "inbound", "line"}
      /\ pc = "inbound" => ev.type = "inbound"
      /\ pc = "line" => ev.type \in {"side", "completed", "failed"}
      /\ UNCHANGED <<lines, at, taken, pc, faults>>
  BY AppendEffect
<1>0. StreamType /\ JobsType /\ at \in Nat
  BY DEF RequestTypes, ControlType
<1>2. /\ Len(log') = Len(log) + 1 /\ log'[Len(log) + 1] = ev /\ Len(log) \in Nat
      /\ \A i \in 1..Len(log) : log'[i] = log[i]
  BY <1>0, <1>1, LogSetAppend
<1> SUFFICES ASSUME faults = 0
             PROVE  /\ Ordered(Accepted', Heard', File, at, lines)
                    /\ Ordered(Accepted', Heard', Mem, at, lines)
                    /\ pc = "job" => \A J \in Fresh(File) : J \in JobsIn(taken) \/ J.line \in Heard'
                    /\ InLineOrder'
  <2>1. JobsIn(taken)' = JobsIn(taken)
    BY <1>1 DEF JobsIn
  <2> QED BY <1>1, <2>1 DEF OrderInv, Ordered, InOrder, Closed, Told, Known, Fresh, Earlier, HasJob
<1>4. /\ Ordered(Accepted, Heard, File, at, lines) /\ Ordered(Accepted, Heard, Mem, at, lines)
      /\ pc = "job" => \A J \in Fresh(File) : J \in JobsIn(taken) \/ J.line \in Heard
      /\ InLineOrder
  BY <1>1 DEF OrderInv
<1>5. \A k \in 1..Len(log) : log'[k] = log[k] /\ log[k] \in LogSet
  BY <1>2 DEF LogSet
<1>a. Terminal' = Terminal
  BY DEF Terminal
<1>b. ASSUME NEW j \in 1..Len(log) PROVE HeardBefore(log[j].line, j)' <=> HeardBefore(log[j].line, j)
  <2>1. \A k \in 1..(j - 1) : k \in 1..Len(log)
    BY <1>2
  <2>2. log'[j] = log[j] /\ \A k \in 1..(j - 1) : log'[k] = log[k]
    BY <1>2, <2>1
  <2> QED BY <1>a, <2>2 DEF HeardBefore
<1>c. ASSUME NEW i \in 1..Len(log), NEW j \in 1..Len(log), i < j,
             log'[i].type = "accepted", log'[j].type = "accepted", ~HeardBefore(log[j].line, j)'
      PROVE  log'[i].line < log'[j].line
  <2>1. ~HeardBefore(log[j].line, j) /\ log'[i] = log[i] /\ log'[j] = log[j]
    BY <1>2, <1>b, <1>c
  <2> QED BY <1>4, <1>c, <2>1 DEF InLineOrder
<1>6. CASE ev.type # "accepted"
  <2>1. Accepted' = Accepted
    BY <1>1, <1>6 DEF Accepted, LinesOf
  <2>2. InLineOrder'
    <3> SUFFICES ASSUME NEW i \in 1..(Len(log) + 1), NEW j \in 1..(Len(log) + 1), i < j,
                        log'[i].type = "accepted", log'[j].type = "accepted",
                        ~HeardBefore(log[j].line, j)'
                 PROVE  log'[i].line < log'[j].line
      BY <1>2 DEF InLineOrder
    <3>1. i \in 1..Len(log) /\ j \in 1..Len(log)
      BY <1>2, <1>6
    <3> QED BY <1>c, <3>1
  <2>3. Heard' = Heard \/ (pc = "line" /\ Heard' = Heard \union {at + 1})
    <3>1. CASE ev.type \notin Terminal
      BY <1>1, <1>6, <1>a, <3>1 DEF Heard, LinesOf
    <3>2. CASE ev.type \in Terminal
      <4>1. Heard' = Heard \union {ev.line}
        BY <1>1, <1>a, <3>2 DEF Heard, LinesOf
      <4>2. CASE pc = "line"
        BY <1>1, <4>1, <4>2 DEF EventInv, LineEvents
      <4>3. CASE pc = "job"
        <5>1. /\ Head(taken) \in Mem /\ Head(taken).stage \in 0..2
              /\ Head(taken).line = ev.line /\ ev.type = StageType[Head(taken).stage]
          BY <4>3, HeadOnly DEF EventInv
        <5>2. Head(taken).stage # 0
          BY <1>6, <5>1, Stages
        <5>3. ev.line \in Accepted
          BY <1>4, <5>1, <5>2 DEF Ordered, Told
        <5> QED BY <4>1, <5>3, KnownLines
      <4>4. pc # "inbound"
        BY <1>1, <3>2 DEF Terminal
      <4> QED BY <1>1, <4>2, <4>3, <4>4
    <3> QED BY <3>1, <3>2
  <2>4. Ordered(Accepted', Heard', File, at, lines) /\ Ordered(Accepted', Heard', Mem, at, lines)
    BY <1>0, <1>4, <2>1, <2>3, OrderAnswer
  <2> QED BY <1>4, <2>2, <2>3, <2>4
<1>7. CASE ev.type = "accepted"
  <2> DEFINE H == Head(taken)
  <2>1. pc = "job"
    BY <1>1, <1>7
  <2>2. /\ H \in Mem /\ H.stage \in 0..2 /\ H.line = ev.line /\ ev.type = StageType[H.stage]
        /\ JobsIn(taken) = {H} \union JobsIn(Tail(taken)) /\ jobs = <<>>
        /\ \A K \in JobsIn(Tail(taken)) : H.req < K.req
        /\ \A J \in JobsIn(kept) : J.req < H.req /\ J.stage >= 1
        /\ \A J \in Mem : J.req = H.req => J = H
    BY <2>1, HeadOnly DEF EventInv
  <2>3. H.stage = 0 /\ H \in JobsIn(taken)
    BY <1>7, <2>2, Stages
  <2>4. H \in File
    BY <2>3 DEF CausalInv, FileInv
  <2> HIDE DEF H
  <2>5. Accepted' = Accepted \union {H.line} /\ Heard' = Heard \union {H.line}
    BY <1>1, <1>7, <1>a, <2>2 DEF Accepted, Heard, LinesOf
  <2>6. \A J \in Mem \union File : J.req \in Nat /\ J.stage \in 0..2
    BY <1>0, Elements
  <2>7. H \in Fresh(Mem) /\ H \in Fresh(File)
    BY <2>2, <2>3, <2>4 DEF Fresh
  <2>8. \A J \in JobsIn(taken) : ~(J.req < H.req)
    BY <2>2, <2>6 DEF Mem
  <2>9. ASSUME NEW J \in Fresh(Mem) PROVE ~(J.req < H.req) /\ (J.req = H.req => J = H)
    <3>1. J \in Mem /\ J.stage = 0
      BY DEF Fresh
    <3>2. J \in JobsIn(taken)
      BY <2>2, <3>1, JobsInOps DEF Mem
    <3> QED BY <2>2, <2>8, <3>1, <3>2
  <2>10. ASSUME NEW J \in Fresh(File)
         PROVE  (J.req < H.req => J.line \in Heard) /\ (J.req = H.req => J = H)
    <3>1. J \in File
      BY DEF Fresh
    <3>2. J.req = H.req => J = H
      BY <1>0, <2>4, <3>1, SortedOnce DEF File, IdInv, JobsType
    <3>3. J \in JobsIn(taken) \/ J.line \in Heard
      BY <1>4, <2>1
    <3> QED BY <2>8, <3>2, <3>3
  <2>a. InOrder(Accepted, Heard, Mem) /\ InOrder(Accepted, Heard, File)
    BY <1>4 DEF Ordered
  <2>11. /\ InOrder(Accepted', Heard', Mem) /\ Known(Heard', Mem) = Known(Heard, Mem)
         /\ H.line \notin Heard => \A a \in Accepted : a < H.line
    BY <2>a, <2>5, <2>6, <2>7, <2>9, OrderAccept
  <2>12. InOrder(Accepted', Heard', File) /\ Known(Heard', File) = Known(Heard, File)
    BY <2>a, <2>5, <2>6, <2>7, <2>10, OrderAccept
  <2>13. Ordered(Accepted', Heard', Mem, at, lines) /\ Ordered(Accepted', Heard', File, at, lines)
    BY <1>4, <2>5, <2>11, <2>12 DEF Ordered, Closed, Told
  <2>14. InLineOrder'
    <3> SUFFICES ASSUME NEW i \in 1..(Len(log) + 1), NEW j \in 1..(Len(log) + 1), i < j,
                        log'[i].type = "accepted", log'[j].type = "accepted",
                        ~HeardBefore(log[j].line, j)'
                 PROVE  log'[i].line < log'[j].line
      BY <1>2 DEF InLineOrder
    <3>1. i \in 1..Len(log) /\ log'[i] = log[i] /\ log[i].line \in Accepted
      <4>1. i \in 1..Len(log)
        BY <1>2
      <4> QED BY <1>5, <4>1 DEF Accepted, LinesOf
    <3>2. CASE j = Len(log) + 1
      <4>1. H.line \notin Heard
        <5>1. log'[j].line = H.line /\ j - 1 = Len(log)
          BY <1>2, <2>2, <3>2
        <5>2. \A k \in 1..Len(log) :
                 ~(log[k].line = H.line /\ log[k].type \in Terminal \union {"accepted"})
          BY <1>2, <1>a, <5>1 DEF HeardBefore
        <5> QED BY <5>2 DEF Heard, LinesOf, LogSet
      <4> QED BY <1>2, <2>2, <2>11, <3>1, <3>2, <4>1
    <3>3. CASE j \in 1..Len(log)
      BY <1>c, <3>1, <3>3
    <3> QED BY <1>2, <3>2, <3>3
  <2>15. \A J \in Fresh(File) : J \in JobsIn(taken) \/ J.line \in Heard'
    BY <1>4, <2>1, <2>5
  <2> QED BY <2>13, <2>14, <2>15
<1> QED BY <1>6, <1>7

\* The jobs stay in the order of their lines.
LEMMA OrderStep ==
    RequestTypes /\ ControlInv /\ EventInv /\ IdInv /\ CausalInv /\ LostInv /\ OrderInv /\ [Next]_vars
    => OrderInv'
<1> SUFFICES ASSUME RequestTypes, ControlInv, EventInv, IdInv, CausalInv, LostInv, OrderInv,
                    [Next]_vars, faults' = 0
             PROVE  OrderInv'
  BY DEF OrderInv
<1>0. /\ StreamType /\ JobsType /\ ControlType /\ faults \in Nat
      /\ offset \in Nat /\ at \in Nat /\ Len(lines) \in Nat /\ at <= Len(lines) /\ offset <= at
  BY DEF RequestTypes, ControlType, ControlInv
<1>a. /\ \A k \in Known(Heard, Mem) : k \in Nat /\ k <= Len(lines)
      /\ \A k \in Known(Heard, File) : k \in Nat /\ k <= Len(lines)
      /\ Accepted \subseteq Heard
  BY KnownLines
<1>b. faults = 0 =>
          /\ Ordered(Accepted, Heard, File, at, lines)
          /\ pc # "down" => Ordered(Accepted, Heard, Mem, at, lines)
          /\ pc \in {"jobs", "job"} => \A J \in Fresh(File) : J \in JobsIn(taken) \/ J.line \in Heard
          /\ pc = "enqueue" => at + 1 \in Known(Heard, Mem)
          /\ InLineOrder
  BY DEF OrderInv
<1>1. CASE StillSteps
  <2>1. faults = 0 /\ Mem' = Mem /\ File' = File /\ log' = log /\ taken' = taken
    BY <1>1, StillEffect
  <2>2. /\ \A i \in 1..Len(lines) : lines'[i] = lines[i]
        /\ \/ at' = at
           \/ at' = at + 1 /\ lines[at + 1] = "malformed"
           \/ at' = at + 1 /\ Answered(at + 1)
        /\ at' # at => at < Len(lines) /\ pc # "enqueue"
    BY <1>0, <1>1, StillCursor
  <2>3. /\ pc' = "enqueue" => pc = "enqueue" /\ at' = at
        /\ pc' # "down" => pc # "down"
        /\ pc' \in {"jobs", "job"} => pc \in {"jobs", "job"}
    BY <1>1, <2>2, StillBusy
  <2>4. at' = at \/ (at' = at + 1 /\ (lines'[at + 1] # "request" \/ at + 1 \in Heard))
    <3>1. at' # at => lines'[at + 1] = lines[at + 1]
      BY <1>0, <2>2
    <3>2. Answered(at + 1) => at + 1 \in Heard
      BY DEF Answered, Heard, LinesOf
    <3> QED BY <2>2, <3>1, <3>2
  <2>5. \A l \in 1..at' : (l \in 1..at /\ l <= Len(lines)) \/ lines'[l] # "request" \/ l \in Heard
    BY <1>0, <2>4
  <2>6. Ordered(Accepted, Heard, File, at', lines')
    <3>1. Closed(Heard, File, at', lines')
      BY <1>0, <1>a, <1>b, <2>1, <2>2, <2>5, ClosedMoves DEF Ordered, Known
    <3> QED BY <1>b, <2>1, <3>1 DEF Ordered
  <2>7. pc' # "down" => Ordered(Accepted, Heard, Mem, at', lines')
    <3>1. pc' # "down" => Closed(Heard, Mem, at', lines')
      BY <1>0, <1>a, <1>b, <2>1, <2>2, <2>3, <2>5, ClosedMoves DEF Ordered, Known
    <3> QED BY <1>b, <2>1, <2>3, <3>1 DEF Ordered
  <2> QED BY <1>b, <2>1, <2>3, <2>6, <2>7, OrderSame
<1>2. CASE PublishAppend
  BY <1>2, OrderAppend
<1>3. CASE BeginActionPoll \/ BeginFullPoll
  <2>1. /\ pc = "idle" /\ taken' = jobs /\ jobs' = <<>> /\ kept' = <<>> /\ taken = <<>> /\ kept = <<>>
        /\ pc' \in {"inbound", "sink", "jobs"}
        /\ UNCHANGED <<lines, log, at, jobsFile, faults>>
    BY <1>3, JobsEffect DEF ControlInv
  <2>2. Mem' = Mem /\ File' = File
    BY <2>1, SetsAfter, JobsInOps DEF Mem, File
  <2>3. Fresh(File') \subseteq JobsIn(taken')
    <3>1. jobs = jobsFile
      BY <2>1 DEF CausalInv, FileInv
    <3> QED BY <2>1, <2>2, <3>1 DEF File, Fresh
  <2> QED BY <1>b, <2>1, <2>2, <2>3, OrderSame
<1>4. CASE JobsDone
  <2>1. /\ pc = "jobs" /\ taken = <<>> /\ taken' = <<>> /\ jobs = <<>> /\ jobs' = kept
        /\ kept' = <<>> /\ pc' = "savejobs" /\ UNCHANGED <<lines, log, at, jobsFile, faults>>
    BY <1>4, MoveEffect
  <2>2. Mem' = Mem /\ File' = File
    BY <2>1, SetsAfter, JobsInOps DEF Mem, File
  <2> QED BY <1>b, <2>1, <2>2, OrderSame
<1>5. CASE SaveJobs \/ Enqueue
  <2>1. /\ pc # "down" /\ jobsFile' = jobs /\ taken = <<>> /\ kept = <<>>
        /\ pc' \in {"inbound", "sink"}
        /\ at' = at \/ (pc = "enqueue" /\ at' = at + 1)
        /\ UNCHANGED <<lines, log, jobs, taken, kept, faults>>
    BY <1>5, JobsEffect, MoveEffect
  <2>2. Mem' = Mem /\ File' = Mem
    BY <2>1, SetsAfter, JobsInOps DEF Mem
  <2>3. \A l \in 1..at' : (l \in 1..at /\ l <= Len(lines)) \/ l \in Known(Heard, Mem)
    BY <1>0, <1>b, <2>1
  <2>4. Ordered(Accepted, Heard, Mem, at', lines')
    <3>1. Closed(Heard, Mem, at', lines')
      BY <1>0, <1>a, <1>b, <2>1, <2>3, ClosedMoves DEF Ordered
    <3> QED BY <1>b, <2>1, <3>1 DEF Ordered
  <2> QED BY <1>b, <2>1, <2>2, <2>4, OrderSame
<1>6. CASE PublishError \/ SaveError
  <2>1. faults' = faults + 1
    BY <1>6, JobsEffect
  <2> QED BY <1>0, <2>1
<1>7. CASE JobEmitted
  <2> DEFINE H == Head(taken)
  <2>1. /\ pc = "job" /\ pub = "none" /\ pc' = "jobs" /\ jobs = <<>> /\ taken' = Tail(taken)
        /\ JobsIn(taken) = {H} \union JobsIn(taken')
        /\ \/ H.stage = 2 /\ kept' = kept /\ JobsIn(kept)' = JobsIn(kept)
           \/ \E K \in Job :
                 /\ K.req = H.req /\ K.line = H.line
                 /\ K.stage = H.stage + 1 /\ H.stage \in 0..1
                 /\ kept' = Append(kept, K) /\ JobsIn(kept)' = JobsIn(kept) \union {K}
        /\ UNCHANGED <<lines, log, at, jobs, jobsFile, faults>>
    BY <1>0, <1>7, JobEmittedEffect
  <2>2. /\ H \in Mem /\ H.stage \in 0..2 /\ H.line \in Accepted
    <3>1. H \in Mem /\ H.stage \in 0..2 /\ ev \in LogSet /\ ev.line = H.line /\ ev.type = StageType[H.stage]
      BY <2>1, HeadOnly DEF EventInv
    <3>2. H.stage = 0 => H.line \in Accepted
      BY <3>1, Stages DEF Accepted, LinesOf
    <3>3. H.stage # 0 => H.line \in Accepted
      BY <1>b, <2>1, <3>1 DEF Ordered, Told
    <3> QED BY <3>1, <3>2, <3>3
  <2> HIDE DEF H
  <2>3. File' = File /\ JobsIn(jobs') = {} /\ JobsIn(jobs) = {}
    BY <2>1, SetsAfter, JobsInOps DEF File
  <2>4. \A J \in Mem' : J \in Mem \/ (J.stage # 0 /\ J.line = H.line)
    BY <2>1, <2>3, SetsAfter DEF Mem
  <2>5. \A J \in Mem : J \in Mem' \/ J = H
    BY <2>1, <2>3, SetsAfter DEF Mem
  <2>6. Fresh(Mem') \subseteq Fresh(Mem) /\ \A J \in Fresh(Mem) : J \in Fresh(Mem') \/ J.line \in Heard
    BY <1>a, <2>2, <2>4, <2>5 DEF Fresh
  <2>7. InOrder(Accepted, Heard, Mem') /\ Known(Heard, Mem') = Known(Heard, Mem)
    BY <1>b, <2>1, <2>6, OrderDrop DEF Ordered
  <2>8. Ordered(Accepted, Heard, Mem', at', lines')
    <3>1. Closed(Heard, Mem', at', lines')
      BY <1>b, <2>1, <2>7 DEF Ordered, Closed
    <3>2. Told(Accepted, Mem')
      BY <1>b, <2>1, <2>2, <2>4 DEF Ordered, Told
    <3> QED BY <2>7, <3>1, <3>2 DEF Ordered
  <2>9. \A J \in Fresh(File') : J \in JobsIn(taken') \/ J.line \in Heard
    BY <1>a, <1>b, <2>1, <2>2, <2>3 DEF Fresh
  <2> QED BY <1>b, <2>1, <2>3, <2>8, <2>9, OrderSame
<1>8. CASE SubmitStreaming
  <2>1. /\ pc = "sink" /\ pc' = "enqueue" /\ taken = <<>> /\ kept = <<>> /\ lines[at + 1] = "request"
        /\ \E K \in Job : /\ K.req = rid + 1 /\ K.line = at + 1 /\ K.stage = 0
                          /\ jobs' = Append(jobs, K) /\ JobsIn(jobs)' = JobsIn(jobs) \union {K}
        /\ UNCHANGED <<lines, log, at, jobsFile, taken, kept, faults>>
    BY <1>0, <1>8, SubmitEffect
  <2>2. PICK K \in Job : /\ K.req = rid + 1 /\ K.line = at + 1 /\ K.stage = 0
                         /\ JobsIn(jobs)' = JobsIn(jobs) \union {K}
    BY <2>1
  <2>3. Mem' = Mem \union {K} /\ File' = File
    BY <2>1, <2>2, SetsAfter DEF Mem, File
  <2>4. K.req \in Nat /\ \A J \in Mem : J.req \in Nat /\ J.req < K.req
    <3>1. \A J \in Mem : J.req \in Nat /\ J.req <= rid
      BY <1>0, Elements DEF IdInv
    <3> QED BY <1>0, <2>2, <3>1 DEF ControlType
  <2>5. /\ Ordered(Accepted, Heard, Mem', at, lines)
        /\ at + 1 \in Known(Heard, Mem')
    BY <1>0, <1>a, <1>b, <2>1, <2>2, <2>3, <2>4, OrderAdd
  <2> QED BY <1>b, <2>1, <2>3, <2>5, OrderSame
<1>9. CASE Crash
  <2>1. /\ pc' = "down" /\ at' = offset /\ UNCHANGED <<lines, log, jobsFile, faults>>
    BY <1>9, MoveEffect
  <2>2. File' = File
    BY <2>1, SetsAfter DEF File
  <2>3. \A l \in 1..at' : l \in 1..at /\ l <= Len(lines)
    BY <1>0, <2>1
  <2>4. Ordered(Accepted, Heard, File, at', lines')
    <3>1. Closed(Heard, File, at', lines')
      BY <1>0, <1>a, <1>b, <2>1, <2>3, ClosedMoves DEF Ordered
    <3> QED BY <1>b, <2>1, <3>1 DEF Ordered
  <2> QED BY <1>b, <2>1, <2>2, <2>4, OrderSame
<1>10. CASE Restart
  <2>1. /\ pc = "down" /\ pc' = "idle" /\ jobs' = jobsFile /\ taken' = <<>> /\ kept' = <<>>
        /\ at' = offsetFile /\ UNCHANGED <<lines, log, offsetFile, jobsFile, faults>>
    BY <1>10, MoveEffect
  <2>2. Mem' = File /\ File' = File
    BY <2>1, SetsAfter, JobsInOps DEF File
  <2>3. offsetFile = at
    BY <2>1 DEF LostInv, ControlInv
  <2> QED BY <1>b, <2>1, <2>2, <2>3, OrderSame
<1> QED BY <1>1, <1>2, <1>3, <1>4, <1>5, <1>6, <1>7, <1>8, <1>9, <1>10 DEF Next, StillSteps

-----------------------------------------------------------------------------
(* The theorems about requests.                                            *)

RequestInv ==
    /\ ControlInv /\ IdInv /\ EventInv
    /\ CausalInv /\ TerminalInv /\ LostInv /\ OrderInv

\* The initial state has no request.
LEMMA RequestInit == Init => RequestInv
<1> SUFFICES ASSUME Init PROVE RequestInv
  OBVIOUS
<1>1. /\ lines = <<>> /\ log = <<>> /\ jobs = <<>> /\ jobsFile = <<>> /\ taken = <<>> /\ kept = <<>>
      /\ outbox = <<>> /\ pc = "idle" /\ pub = "none" /\ offset = 0 /\ offsetFile = 0 /\ at = 0 /\ rid = 0
      /\ Len(lines) = 0 /\ Len(log) = 0
  BY DEF Init
<1>2. Mem = {} /\ File = {} /\ LogSet = {} /\ JobsIn(taken) = {} /\ JobsIn(kept) = {}
  <2>1. LogSet = {}
    BY <1>1 DEF LogSet
  <2> QED BY <1>1, <2>1, JobsInOps DEF Mem, File
<1>3. ControlInv
  BY <1>1 DEF ControlInv
<1>4. IdInv
  BY <1>1, <1>2, JobsInOps DEF IdInv
<1>5. EventInv
  BY <1>1 DEF EventInv
<1>6. CausalInv
  BY <1>1, <1>2 DEF CausalInv, FileInv, StagesInOrder
<1>7. TerminalInv
  BY <1>1, <1>2 DEF TerminalInv, AtMostOneTerminal
<1>8. LostInv
  BY <1>1, <1>2 DEF LostInv
<1>9. OrderInv
  <2>1. Heard = {} /\ Fresh({}) = {}
    BY <1>2 DEF Heard, LinesOf, Fresh
  <2>2. Known(Heard, {}) = {}
    BY <2>1 DEF Known
  <2> QED BY <1>1, <1>2, <2>1, <2>2 DEF OrderInv, Ordered, InOrder, Closed, Told, InLineOrder
<1> QED BY <1>3, <1>4, <1>5, <1>6, <1>7, <1>8, <1>9 DEF RequestInv

\* It holds in every reachable state, with the types of the runtime.
LEMMA RequestInvariant == Spec => [](RequestTypes /\ RequestInv)
<1>1. Init => RequestInv
  BY RequestInit
<1>2. AdapterInv => RequestTypes
  BY DEF AdapterInv, RequestTypes
<1>3. RequestTypes /\ RequestInv /\ [Next]_vars => RequestInv'
  <2> SUFFICES ASSUME RequestTypes, RequestInv, [Next]_vars PROVE RequestInv'
    OBVIOUS
  <2>1. ControlInv'
    BY ControlStep DEF RequestInv, RequestTypes
  <2>2. IdInv' /\ EventInv' /\ CausalInv' /\ TerminalInv'
    BY IdStep, EventStep, CausalStep, TerminalStep DEF RequestInv
  <2>3. LostInv' /\ OrderInv'
    BY LostStep, OrderStep DEF RequestInv
  <2> QED BY <2>1, <2>2, <2>3 DEF RequestInv
<1> QED BY <1>1, <1>2, <1>3, AdapterInvariant, PTL DEF Spec

\* The stages of a request appear in the log in their order for any number of failing writes,
\* and for any number of crashes, though not for both: drain_streaming_jobs emits the event of
\* a stage before it saves the next one, so a restart repeats a stage and never skips one.
THEOREM StagesCausal == Spec => []CausalOrder
<1>1. RequestInv => CausalOrder
  BY DEF RequestInv, CausalInv, CausalOrder
<1> QED BY <1>1, RequestInvariant, PTL

\* A request gets no second terminal event without a crash, for any number of failing
\* writes: a line submitted again has a new request id.
THEOREM OneTerminal == Spec => []OneTerminalWithoutCrash
<1>1. RequestInv => OneTerminalWithoutCrash
  BY DEF RequestInv, TerminalInv, OneTerminalWithoutCrash
<1> QED BY <1>1, RequestInvariant, PTL

\* A crash loses no request, wherever it falls: a line the action cursor on disk has passed
\* is answered, malformed, or a job on disk, as enqueue_streaming_job saves the jobs before
\* the cursor moves.
THEOREM RequestsNotLost == Spec => []NoRequestLost
<1>1. RequestTypes /\ RequestInv => NoRequestLost
  <2> SUFFICES ASSUME RequestTypes, RequestInv, faults = 0, NEW l \in 1..offsetFile
               PROVE  Resolved(l) \/ JobOf(jobsFile, l)
    BY DEF NoRequestLost
  <2>1. offsetFile <= at /\ at \in Nat /\ offsetFile \in Nat
    BY DEF RequestInv, LostInv, ControlInv, RequestTypes, ControlType
  <2>2. Answered(l) \/ lines[l] = "malformed" \/ HasJob(File, l)
    BY <2>1 DEF RequestInv, LostInv
  <2>3. Answered(l) => HasTerminal(l)
    BY DEF Answered, HasTerminal, LogSet
  <2>4. HasJob(File, l) => JobOf(jobsFile, l)
    BY DEF HasJob, File, JobsIn, JobOf
  <2> QED BY <2>2, <2>3, <2>4 DEF Resolved
<1> QED BY <1>1, RequestInvariant, PTL

\* Requests are accepted in the order of their lines, over crashes, replayed jobs and
\* resubmitted lines, whatever the connector answers, as long as no write fails: only a line
\* that was accepted or answered before may be accepted after a later one.
THEOREM AcceptedInOrder == Spec => []AcceptedInLineOrder
<1>1. RequestInv => AcceptedInLineOrder
  BY DEF RequestInv, OrderInv, AcceptedInLineOrder, InLineOrder
<1> QED BY <1>1, RequestInvariant, PTL
=============================================================================
