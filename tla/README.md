# A TLA+ model of the AppFS runtime and its filesystem

AppFS shows applications to agents as a file tree. A client submits a request by
appending a JSON line to an `.act` file and learns what became of it from an event
stream, another set of files; it reads snapshots of the application's data as ordinary
files. This project models the runtime behind those files
(`src/appfs/cli/src/cmd/appfs/`) and the filesystem they live in
(`src/appfs/sdk/rust/src/filesystem/`): how a write wakes the runtime, how requests are
read, handed over and acknowledged, how events are published, how agents attach to
principals, how the registries survive a crash, how snapshots are fetched and published,
how a failing connector is spared, and how names and bytes are kept in the database,
alone and over a read-only base. TLC checks each part on small instances; TLAPS proves
the central invariants for every value of the constants.

## 1. Inventory

The repository has three large parts: `appfs` (the filesystem, its command line, the
AppFS runtime and SDKs), `appfs-agent` (a conversational agent that is a client of it)
and user interfaces (`dashboard`, `desktop`). Its own concurrent and crash-sensitive
logic is in the AppFS runtime and the filesystem, and those are modelled.

| Component | State | Operations | Modelled in |
|---|---|---|---|
| Action consumer (`action_consumer.rs`, line helpers of `shared.rs`) | sinks, cursors in memory and on disk, the cursor of the drain under way | drain, decode, merge of multiline JSON, hand over, commit, restart | `ActionSink` |
| Write wake and loop (`ActionWakeHandle`, `handle_serve` in `appfs.rs`; `ActionWakeFile` in `mount_runtime.rs`) | dirty files, pending flag, the permit of tokio's `Notify`, the branch of `select!` | pwrite, fsync, signal, wait, timer branches, poll | `ActionWake` |
| App runtime (`core.rs`, `events.rs`) | event log, replay files, stream cursor, streaming jobs and their file, action cursor | submit, publish, advance jobs, drain inbound events, commit, restart | `AdapterRuntime` |
| Control plane (`runtime_supervisor.rs`, `supervisor_control.rs`, `registry.rs`, `registry_manager.rs`) | principals with their leases and agent status, registry, status and view files, app runtimes and their registry | register, unregister, create, attach, update, detach, delete, sweep, restart | `Principals` |
| Registry files (`shared.rs`, `registry.rs`, start of `handle_serve`) | targets, temporary files, what was loaded | write, publish, remove and retry, promote, load, sync | `RegistryFiles` |
| Snapshot cache (`snapshot_cache.rs`, `journal.rs`, `recovery.rs`) and read-through of the mount (`mount_runtime.rs`) | snapshot files, temporary files, the journal file and two maps of it | refresh, fetch, publish, expand on a miss, placeholders, recover | `SnapshotCache` |
| Bridges (`bridge_resilience.rs`, `http_bridge_adapter.rs`, `grpc_bridge_adapter.rs`) | consecutive failures, end of the open circuit, attempts | check, send, retry, record | `BridgeCircuit` |
| Filesystem of the SDK (`agentfs.rs`) | inodes, directory entries, data rows, dentry caches, open files | the inode operations of a mount, the path operations of a program, bulk materialisation | `FileChunks`, `AgentFS`, `FileTree` |
| Copy-on-write overlay (`overlayfs.rs`, inode numbers of `hostfs_linux.rs`) | delta layer, whiteouts, origins, inode maps | lookup, listings, create, copy-up, unlink, rmdir, rename, link, write, mount | `OverlayFS`, `UnionTree` |
| Structure synchronisation (`tree_sync.rs`) | revisions, owned paths | sync, switch of scope | its bulk writes in `AgentFS`, its placeholders in `SnapshotCache`; the rest not |
| Paging (`paging.rs`), compose (`compose/`) | handles; connector processes | fetch, close; reconcile | not (section 8) |
| Mount drivers, sandbox, agent, user interfaces | | | not (section 8) |

How they interact. A write to an `.act` file under the mount goes through
`ActionWakeFile`, which signals the wake handle (`ActionWake`). The loop then polls
every runtime and the control plane. A poll reads the sinks (`ActionSink`), submits
requests to connectors through the bridges (`BridgeCircuit`), publishes events
(`AdapterRuntime`), refreshes snapshots (`SnapshotCache`) or changes the registries
(`Principals`), whose files are written by the steps of `RegistryFiles`. The runtime
reaches these files through the mount, like every client; the mount serves a request at
a time, expands a snapshot when a lookup misses it, and stores everything in the
database of `AgentFS`, directly or as the delta layer of `OverlayFS`. The structure
synchronisation writes to the same database beside the mount, with an `AgentFS` of its
own. The runtime is single-threaded between those steps; clients, the mount and crashes
are not. So the hard behaviour is: wake-ups racing the wait; clients writing while a
sink is read; several files, or several statements, that have to agree and are written
one after the other; errors that drop the progress of a whole drain; replays of requests
that already had their effect; two writers of one file; caches that outlive what they
cached. `PROJECT.json` lists these hazards at the lines where they bite, with the
properties that cover them.

What makes each part correct:

* action consumer: no request is skipped, requests of a sink are submitted in order, as
  whole lines and with an identity that survives a replay, and a sink catches up;
* wake: a write is never left to a sleeping loop;
* app runtime: the cursor never promises an event that is missing, a request is
  acknowledged only when answered or recorded, acceptance precedes progress and
  completion, and completion comes;
* control plane: one live lease per principal, taken over only on purpose, files that
  agree, principals with all their private apps;
* registry files: a crash loses at most the write it interrupted, and the next start
  succeeds;
* snapshots: a reader finds one fetched content or the placeholder, a leftover file is
  known to the journal, a refresh is answered;
* bridges: a connector that is down is asked a bounded number of times, then left alone
  for the cooldown and no longer;
* filesystem: names stand for inodes that exist, a file lives as long as it has a name,
  a read gives what was written and zeros elsewhere;
* overlay: the merged tree changes only as its clients ask, and the inode numbers the
  kernel keeps go on answering for the paths it holds them for.

## 2. Modules and the code

Each module's variables are named after the fields or files of the code, and
`PROJECT.json` maps every definition to its lines. `MC*` modules only give values to
constants. Definitions whose comment begins with "Mutant" are deliberately wrong forms
of the definition that follows; they are used by no specification.

**ActionSink.** A sink is a sequence of symbols that stand for runs of bytes (a JSON
object, half of one, text, undecodable bytes, a newline, a NUL byte). `BeginDrain`
copies the committed cursors; `Stat` and `Read` are separate steps, because a client
can append or truncate between the metadata call and the read; then each line is
skipped, deferred (`DeferMultiline`, the one-poll grace for an incomplete object at
the end of the file) or handed to the handler, which consumes it, answers
`RetryPending` or fails. A payload that is not a request goes to a handler as well, be it
undecodable or decoded and no JSON (`InvalidPayload`), and that handler may answer
`RetryPending` (`HandleInvalidRetry`) or fail too. `Commit` writes the cursors of all sinks to the file and then
replaces those in memory; `CommitError`, `HandleError` and `SinkUnreadable` are the
failures, `Crash` and `Restart` the end and the start of the process.
`classify_multiline_json_payload` and the boundary probe are modelled as functions.

**ActionWake.** The steps of a writer are the store, the flush that finds the file
dirty, the swap of the pending flag and the notification; those of the loop are the
swap, the creation of the waiting future, the wait and the poll. `OtherBranch` is
another branch of `select!`, which drops the waiting future. tokio's `Notify` (one
permit, given back by a dropped future) is external and modelled from its use.
Whether fallback polling is on is chosen in the initial state.

**AdapterRuntime.** `publish_event` is three steps (log, replay file, cursor), each of
which can fail. A poll advances the jobs, saves them, then handles lines:
`SubmitCompleted`, `SubmitFailed`, `SubmitStreaming`, `SubmitRejected` and
`SubmitTransient` are the outcomes of `process_action`, and `Commit` ends the drain. The
connector may give any of them to any request, whatever its execution mode, and another
one when the same line is submitted again. So a line that was completed before a crash may
be accepted as a stream after it, when a later line has been accepted already:
`AcceptedInLineOrder` is about lines first heard of by their acceptance.
Inbound polls publish events of the connector. After a crash the files remain and
`Restart` rebuilds memory from them. Here a sink is just its lines: their bytes are
the business of `ActionSink`, the wake-up that of `ActionWake`.

**Principals.** A request is handled in the order a drain gives it (by sink, then by
position), and its writes are steps: registry, status, view, private apps, app
registry, event. Each can fail and the process can die between any two; the commit of
the whole drain comes last, so an error or a crash replays it. Leases age by ticks up
to `StaleAfter`; the sweep removes the stale ones.

**RegistryFiles.** Takes the single write steps of `Principals` apart: create the
temporary file, fill it, rename it, or remove the target and rename again, give up. After
the registry of the principals comes the status view (`ViewWritten`, `ViewError`), and only
then does memory take the new registry over: a view that fails leaves disk ahead. A sweep
(`Sweep`) is the other way round: it changes memory and then writes, so a failure leaves
memory ahead (`MemoryFirst`). The app registry, too, is written after memory has changed.
The other half is the start: read the app registry, promote temporary files, load the principals,
write the registry back.

**SnapshotCache.** Two writers, the adapter and the mount, share the snapshot files, one
temporary file per resource and the journal file, of which each has a map in memory that
it saves whole. The adapter's expansion is one action per file request (`OpenTemp`,
`WriteTemp`, `MarkPublishing`, `RemoveStale`, `PublishTemp`, `ClearEntry`); a request of
the mount is one action with its whole expansion, since the mount serves one at a time,
and its commits are kept in order so that a crash leaves a prefix of them. A lookup
happens inside the adapter's requests too: when the mount expands on a miss, the rename
that publishes a snapshot first looks up the removed target, the mount expands it and
takes the temporary file, and the rename fails; the request is tried again and then finds
the snapshot. A retry that fails before it writes clears the entry of the temporary file
that the first try left (window "retry").

`recover_snapshot_expand_journal` is the adapter's start; `recover_incomplete_expands` is
the mount's, taken at the first lookup under the app that misses anything. Each names the
temporary file its own way in its entries (`d.by`, `adapter.by`: whose entries they are),
refuses to remove one that is named the other way, and clears all entries all the same: the
other's temporary file stays, unknown to the journal (window "foreign"). Placeholders
(`materialize_node`) and lookups also come before the adapter has loaded the journal, and a
placeholder looks its file up twice, so the second lookup may fail, or bring a snapshot that
the placeholder then truncates. A crash ends one configuration: after it the mount may
expand or not. Contents are numbered fetches; a write over longer bytes may leave a
mixture. Reading an open snapshot (`read_snapshot_bytes`) changes no file and is left out,
and so are the states cold, warming, hot and error with their prewarming, which are only
written and logged.

**BridgeCircuit.** One request at a time, its attempts and pauses, and the breaker
(`check_open`, `record_success`, `record_failure`). The clock is unbounded and so is the
sequence of requests: the module is proved about and has no run.

**FileChunks.** The bytes of a file: rows of at most `ChunkSize` bytes, missing or short
rows reading as zeros. `pread`, `pwrite` and `truncate` are translated row by row;
`Content` is the reference the reads are compared with.

**AgentFS.** The tables (`fs_inode`, `fs_dentry`, `fs_data`) and two actors: the mount,
with its inode operations and an open file, and an SDK program with path operations and
bulk plans, which has its own dentry cache. An operation that is a transaction is one
action; one that is a sequence of autocommitted statements has a step for each statement
that matters (`op` says where an actor is), so the other actor and a crash can come
between. The inode operations never check that the parent directory still has a name, and
the kernel's entries do not expire, so the mount is offered the slots of removed directories
too (`Slots`): a creation in one that the program has removed meanwhile succeeds, in a
directory nobody can reach (window "stale"). Of the SDK's own `read_file` only the effect on
its cache is modelled: unlike the handle's `pread`, which `ReadsWhole` is about, it skips
missing rows (`agentfs.rs:1760`). `FileTree` is what a filesystem promises, one atomic step per operation, and
`Implements` says that every statement is such a step or invisible.

**OverlayFS.** A request of the kernel is one action on the overlay's tables and maps;
its commits go to a log, and a crash leaves a proper prefix of them. The delta layer is
`AgentFS` with each operation one commit; the base is `HostFS`, whose inode numbers are
counted anew in each mount. `dcache` is the kernel's: entries have no timeout, so an inode
number is used until the kernel changes the entry itself. A directory may be made where the
base has a file that was removed. Below it the base does not answer "absent" but fails
(ENOTDIR), and with it the overlay's lookup, listing and removal (`Missed`, `ListingFails`);
a request that fails so after it has committed something enters the window "shadow".
`LookupAgrees` says that this is the only place where the absence of a name is an error, and
that what is there is found even so. `UnionTree` is the promise: the
base tree, changed as the clients ask; `Implements` is the refinement.

**Torn windows.** `AgentFS`, `OverlayFS` and `SnapshotCache` have a history variable
`torn`. The code leaves windows open in which its promises do not hold: a statement that
acts on what another actor has changed since it was read, a crash between two commits
that belong together, an inode number from an earlier mount. Entering one is a step of
the model, recorded under a name explained at the head of the module, and the properties
speak of states outside. In `AgentFS` and `OverlayFS` the constraint `Untorn` stops the
exploration after such a step, because nothing is promised beyond it (except "orphan", an
inode without a name, which harms nothing but `NoFileLeaks`). Each window is
entered in the runs, with one exception, so the list of windows is itself a result: outside
of them the promises hold. The exception is "shadow" of the overlay: a directory over a
base file and its failing lookups are reached, but a child in it, which a failing request
needs, can only be brought in by a rename, and that takes more requests than the bounds
have. Section 6 says which of them contradict a comment or a document.

## 3. Runs

| Run | Instance | Shows |
|---|---|---|
| `sink` | one sink, 6 symbols, 2 faults, 1 retry | `NoRequestSkipped`, `SubmittedInOrder`, `SubmittedAreWholeLines`, `SubmittedAreStable` |
| `sink_two` | two sinks, 2 symbols each, a truncation, a fault, fallback timer on, fairness | `NoRequestSkipped` when an error of one sink drops the progress of the other; `CatchesUp` |
| `wake` | two writers, 3 writes, a transient failure, fallback on or off | `NoLostWakeup`, `EveryWritePolled`, `EveryWriteConsumed` |
| `adapter_live` | two lines with any outcome, a retry, a crash, fallback timer on, fairness | `NoRequestLost`, `AcceptedInLineOrder`, `TerminalFollowsAccepted`, `EveryLineAnswered` |
| `adapter_faults` | one line with a side event, an inbound event, 2 failing writes, a crash | `CursorNotAhead`, `SeqMonotonicPerBoot`, `CausalOrder`, `OneTerminalWithoutCrash` |
| `leases` | a principal, two agents, 3 requests, a crash | `LeasesSound`, `RegistriesAgree`, `LiveLeaseKept` |
| `private_apps` | two principals, two private apps, a public one, a fault, a crash, fairness | `PrivateAppsMaterialized`, `StaleLeaseSwept` |
| `registry` | 3 writes or sweeps, 2 failures, 2 crashes | `PrincipalsRecovered`, `Startable`, `DriftExplained`: memory and disk differ only after a failed status view or a failed sweep |
| `agentfs` | chunks of 2 bytes, two names, 3 inodes, 5 operations of two actors, a crash | `TypeOK`, `NamesIntact`, `LinksSuffice`, `NothingPastEnd`, `ReadsWhole`, `NoFileLeaks`, and `Implements`: a filesystem as `FileTree` promises |
| `overlay` | a base of a directory, a file in it and a file beside it, 3 changing requests, 2 mounts, crashes | `TypeOK`, `KernelAgrees`, `LookupAgrees`, and `Implements`: a tree as `UnionTree` promises |
| `snapshot` | two resources, 4 configurations, 2 requests, 2 contents, 2 faults, a reload, a crash after which the mount expands or not, fallback timer on, fairness | `TypeOK`, `SnapshotsWhole`, `TempsJournaled`, `EveryRefreshAnswered` |
| `adapter_wake_only` | | violated: the first disagreement of section 6 |

Every property has a mutant, a plausible bug in the mapped code that TLC must find with
the same configuration.

Bounds. Every unbounded counter has a constant `Max...` in the guard of the action
that increments it. Six symbols hold two lines and a partial one, or an object spread
over three lines, at and beyond the limits of the recovery (3 lines, 5 symbols). Two
sinks are enough for the progress of one to be dropped by the other. Two writers are
enough for a swap that finds the flag set by someone else. One streaming job takes
three polls, so two lines let jobs at different stages overlap with new requests. Two
agents are enough for a conflict, a takeover and a replay against the other's lease;
three requests for create, attach, and what comes after. Two crashes are needed for a
leftover temporary file to meet a second interrupted write. Chunks of two bytes and
payloads of three make every write end inside a chunk and every truncation cut one or
spare one; two inodes beside the root are a directory with a file in it or two files that
replace each other; five operations create, link, rename and remove. In the overlay three
requests promote a directory, copy a file up and remove it, and two mounts meet origins
of an earlier session; the file beside the directory can be replaced by a directory. In
`snapshot` two requests meet in both resources or follow each other in one, and two faults
are a refresh that fails and a retry that fails before anything was written (window
"retry"). The configurations pair forced refreshes with refused stale answers and the
reverse. A recovery of the mount that removes the very file the adapter is writing takes
three failures: it is not reached in the run, and covered by the proofs.

Deadlock is checked except where all writes are used up and the loop sleeps
(`wake`, `adapter_wake_only`) and where the instance may end with the process down and
no write left or with a refused start (`registry`, `snapshot`).

Symmetry is not used: liveness is checked in several runs, and the names of the
filesystems differ by the base.

## 4. Fairness

Nothing is assumed of clients or of faults. Assumed are: a step that a poll or a
publication has begun goes on (the code has no unbounded wait there); a dead process
is restarted; a writer that has stored its bytes finishes its call; a timer that is
enabled fires again and again; and a branch of `select!` that is ready again and again
is taken, for tokio picks among ready branches at random (strong fairness of
`BeginActionPoll`, `BeginFullPoll`, `FallbackTick` and `Sweep`).

A drain is begun by the wake of a write or by the fallback timer, which is off by default.
The properties that need a later poll say so: `CatchesUp`, `EveryWriteConsumed` and
`EveryRefreshAnswered` have it on as a hypothesis, the fairness of `BeginDrain` in
`ActionSink` and of `handle_snapshot_refresh` is stated for that case only, and the run
`adapter_live` has it on. In `Principals` no drain is assumed to begin. Without the timer a deferred multiline payload (`action_consumer.rs:342`), a line
whose drain failed or was told to retry, and a refresh whose publication failed wait for
the next write to any sink; the run `adapter_wake_only` is about this.

In `SnapshotCache` the adapter's thread goes on (weak fairness of its start and of the
steps of an expansion) and, where the timer polls, serves its queue in turn (strong
fairness of `handle_snapshot_refresh` for each resource: a resource may be busy whenever the
thread turns to it). Lookups, requests and faults are not assumed. `EveryRefreshAnswered` leaves
out what the code does not answer: a journal that a crash has cut, and forced refreshes
below a mount that expands (section 6).

## 5. Proofs

The proofs assume only that the bounds are natural numbers (`MaxInode` at least 1, for
the root) and that the constants
have the shape their `ASSUME`s state, which TLC evaluates in every run. The theorems on
the bridges have the range of the options as a hypothesis (`BridgeRuntimeOptions`, what
`normalize` leaves).

* `ActionSinkProofs`, order: `ActionSinkTypeOK`, `RequestsNotSkipped` and `SubmittedInLineOrder`,
  for any sinks, writes, limits of the recovery and size of the probe. "No cursor has
  passed an unconsumed request" is not inductive: the boundary probe, the NULs and the
  lines that are joined all move a cursor. `OrderInv` says of every copy of every cursor
  (on disk, in memory, of the drain, and the working one, which belongs to the bytes read
  and not to the sink) that it is a `GoodCursor`: it stands at the start of a line,
  remembers the bytes before it, so that no append is taken for a truncation, and has left
  no request behind. Cursors stay good while a sink grows (`GoodGrows`); skipping NULs
  passes no request (`NulsGood`), passing a line only that one (`PassOK`); joined lines
  that parse hold no request of their own (`MultilineOK`). The last is about the loop of
  `classify_multiline_json_payload`, a recursive function: `MergeLoopOK` shows that a line
  keeps `Merged`, and takes the least number of lines at which it would fail (`LeastNat`).
  `NulsAtStart` (NULs only at the start of lines) needs the chunks of a write to be like
  that too, which `ChunksAssumption` states.
* `ActionSinkProofs`, identity: `SubmittedWhole` and `SubmittedStable`. `ReadAt(b, p)` is
  what `process_action_sink` reads at position p of the bytes b. The argument rests on two
  lemmas about it. `ReadSays`: what is read is whole lines, and its payload is what
  `Joined` finds in them, which adds up the loop of the recovery line by line. `ReadLocal`:
  a request is read from its own bytes; what is appended behind them neither changes it
  nor makes one appear that ends before. Hence
  `WholeInv`: a submission stays what is read at its offset. That submissions share no
  byte needs more (`StableInv`), since a drain that starts again after an error starts at
  the last committed cursor, on a longer sink, and might cut lines into requests
  differently. `SettledFrom` says what it meets from there to a submission made before:
  positions inside submissions, and positions that are `Dead`, where no growth of the sink
  makes a request appear. `DeadBefore` is the key: the lines behind such a position hold
  the first symbol of a request, and no request can be joined across that. `PassedTo` says the
  same of the drain under way, for the bytes it has read. The cursor a restart loads has to
  be the committed one (`FileAgrees`), which is why the property excepts a lost cursor
  file; and each sink is drained once, from its own committed cursor (`SinksToCome`), for
  which `SinkOrder` names no sink twice (the paths are collected from a directory).
* `ActionWakeProofs`: `WakeInvariant` and `WakeNeverLost`. "The loop does not sleep on
  an unpolled write" is not inductive: it has to be known where the announcement is.
  `WriteAnnounced` says an unpolled write is marked by the pending flag, by a writer
  about to signal, or by a poll under way; `FlagDelivered` says a loop that waits with
  the flag set has a permit or a writer about to give it one. `WakeInv` is their
  conjunction with the types.
* `AdapterRuntimeProofs`, the stream: `AdapterTypeOK`, `StreamCursorNotAhead`,
  `StreamMonotonicPerBoot`. The cursor file can only be shown not to be ahead with the
  invariant on memory (`MemoryNotAhead`: what memory counts is in the log and the
  replay files), on the event under way (`Publishing`: which of its files it has
  reached) and on numbering (`SeqFresh`: this process's events in the log are below
  the next number; events of earlier ones may not be). These make `StreamInv`. The
  steps that leave the stream alone are dealt with by one lemma (`StreamQuiet`), those
  that start an event by another (`EmitInv`).
* `AdapterRuntimeProofs`, the requests: `StagesCausal`, `OneTerminal`, `RequestsNotLost`
  and `AcceptedInOrder`. A request is at once a line, a job in memory, perhaps a job in
  the file, and events in the log, and each may be ahead of the others. `ControlInv` says
  what each state of a poll has under way, `IdInv` that request ids go up along the jobs
  and are new for a new line, `EventInv` whose event is being published. On these stand
  `CausalInv` (a job is at least at every stage the log tells of it; the file is behind
  memory only within a poll), `TerminalInv` (no job is left of a request that has its
  terminal event, but the one just emitted), `LostInv` (a line behind the working cursor
  has its terminal event or a job in the file) and `OrderInv` (of the lines `Known` from
  log and jobs, none is before one that is not). The last is the hardest: a crash
  replays jobs and lines, so the same line can have several jobs and `accepted` events, or
  be completed first and accepted later. The order is one of lines first heard of: `Heard`
  are the lines accepted or answered in the log, and a new job for one of those may be
  accepted out of order, any other may not.
* `PrincipalsProofs`, the leases: `PrincipalsTypeOK` and `LeasesAreSound`. A principal has
  at most one lease, and an agent status that says running is that of the lease's holder,
  in memory and in the registry file. For the induction the same holds of the candidate
  being written, of the status file, and of what is in flight (`Docs`, with `Control` for
  what the poll is doing). One lemma per operation on a record (`AttachOK`, `DetachOK`,
  `RefreshOK`, `SweptOK`, ...) says it preserves this; the step lemma only says which
  operation each action applies.
* `PrincipalsProofs`, the registries: `RegistriesAgreeBetweenPolls`, `LiveLeasesKept` (an
  action property) and `PrivateAppsArrive`. `AgreeInv` says which file may differ from
  memory in which state of the poll, `KeepInv` what the candidate about to be written may
  do to a live lease, `QueueInv` that a drain has each uncommitted request once. `AppsInv`
  says that a principal lacks private apps only while a request to create it is still to
  be handled again: it is this debt (`Owed`), and not the order of the writes, that makes
  the apps arrive. The assumption that "public", the mark of a public instance, is not the
  name of a principal is needed here.
* `RegistryFilesProofs`: `RegistryTypeOK` and `FailedWritesDrift`. Between two writes the
  file of the principals is what memory holds, or missing after a publication that gave up;
  it is ahead of memory only if the status view that followed it failed, and behind only if
  the write of a sweep failed. No other failure leaves the two apart. `RegistryInv` says
  what is behind this: the temporary file is the document under way, a start writes back
  what it loaded, no version is later than the last write begun (`Dated`), and from the load
  on the file stands to memory as the step of the write says (`Standing`). `Contents`
  collects what the provers need to know of file contents. `OneCrashRecovers` and
  `OneCrashStartable` add `CrashInv`: before the crash only the registry being replaced
  may be missing, while its successor is whole; after it a missing one has been left as a
  temporary file, until the start promotes that. Their hypothesis `Established` is a
  constant of the instance: a root that was started before.
* `SnapshotCacheProofs`: `SnapshotTypes`, `PublishedWhole` and `TempsRecovered`, for every
  set of resources, all configurations and any number of faults, crashes and reloads.
  `MountOK` says what a request of the mount may do to the files below the adapter, and
  `LeftOK` what a crash may leave of it; each expansion of the mount is shown to be such a
  step once, and used wherever the adapter's own requests look something up. Both say who
  has written the journal afterwards, since a recovery removes only the files of its own
  entries. `Inv` says that an expansion under way is named in the adapter's map (`Local`),
  that outside the window "temp" no file is mixed and the open file is still the empty
  temporary one (`Whole`), and that outside the others every temporary file is in the
  journal and in the map (`Journaled`). Before the adapter has loaded the journal its map
  is empty; then the file names them, and the mount has not loaded it either (`Named`),
  or its recovery would have been a "foreign" one.
* `AgentFSProofs`: `AgentFSTypes`, `NamesKept`, `LinksCover` and `FilesReclaimed`, for any
  names, paths, plans and sizes and any number of operations, inodes and crashes. The
  argument is about values and not about states: for tables `d`, the operation `o` whose
  statement runs and the operation `q` of the other actor, `Whole(d, o, q)` says that every
  name stands for an inode in a directory, that a directory has at most one name and is
  empty without one (`Intact`), that the statements still to come find what they rely on
  (`OpOK`: a kind that does not change, no name left where an inode is about to go, an
  inode in the making that nobody has named), and that for each file links, names and
  statements in flight balance (`Due`). `Settled` is the same with an exact balance, and
  says who will delete a file without a name. There is one lemma per statement
  (`WholeAddName`, `WholeDropCount`, `WholePurge`, ...); `WholeSym` lets each serve both
  actors, `Turn` turns them into steps. What is stored does not matter to any of it (`Alike`), and a
  plan only adds what is balanced by itself (`Extends`, by induction on its entries in
  `BulkResultOK`). Rename needs the argument in two halves (`WholeReplaced`, `WholeMoved`):
  what it replaces may be another name of what it moves. The SDK program must not find an
  inode that the mount is still making (`Hidden`), in the directory or in its cache.
* `AgentFSProofs`, the bytes: `NothingBeyond` and `ReadsBack`, for every chunk size. The
  invariant `BytesInv` has two parts: every row holds at most a chunk of bytes (`Stored`),
  in every state; and outside the windows every row of an inode ends within its size
  (`Fits`). Each operator on rows gets a lemma that it preserves both: `WriteRows`,
  `PathRows`, `BulkRows`, and `CutRows`, which needs the size the truncation has read to be
  the size of the file. They rest on the arithmetic of chunks (`DivMod`, `MulMono`,
  `TouchedChunks`, `LastChunk`). `Stored` is all that `ReadsBack` needs: `ReadRowIs` says
  what the read of one row contributes, `PreadHolds` adds the rows up, by induction on the
  number of rows read, and `PreadIs` compares the sum with the file. So reads are right
  even where a stale truncation has left bytes past the end.
* `AgentFSProofs`, the refinement: `FilesystemRefined` is `Spec => Implements`, so the
  database with its statements, caches and crashes is a tree of names and byte sequences
  until a window "stale" or "count" is entered; a name put into a removed directory is one. It stands on the names and the bytes: only where
  every name has an inode and no row passes the end is what a file says (`Says`) a function
  of its own row set. Three things are missing from those invariants, and `HeldInv` adds
  them: what the mount holds open or truncates is not a directory, so that a write never
  shows in one; what `mkdir` or `mknod` is still making is empty when it gets its name;
  and inode numbers stay below `MaxInode`, the objects of the tree. The bytes come first:
  a write by handle, a write by path and a plan each leave what `FileTree` calls `Written`
  or `Contents`, and a truncation `Resized` (`ContentWrites`, `ContentFresh`,
  `ContentBulk`, `ContentCut`), rows that are missing or short included. Then each kind of
  change to the tables is a step of the tree (`TreeCreate`, `TreeLink`, `TreeRemove`,
  `TreeRename`, `TreeChange`, `TreeMaterialize`, and `TreeStutter` for the statements that
  move counts or delete what has no name), provided that all other inodes stay as they
  were (`Others`). `StepMakes`, `StepAdds`, `StepDrops`, `StepMoves`, `StepWrites` and
  `StepBulk` say which statement is which. `Confined` records besides which inode a
  statement may have changed: it is what keeps `Held` for the operation of the mount that
  goes on meanwhile. A plan is one step of the tree, by induction on its entries
  (`SaidPlan`).
* `BridgeCircuitProofs`: `BridgeLoadBounded`, `BridgeCooldownEnds` and
  `BridgeSendsNothingWhileOpen`, for every number of retries, threshold and cooldown.
  `BridgeInv` says that a request under way has found the circuit closed, and that the
  requests since the last answer or opening are the recorded failures and the one under
  way; that makes the bound on the load inductive.

The inductive invariants imply the properties the runs check; being proved, they are not
in the configurations, nor are the type invariants of `ActionSink`, `ActionWake`,
`AdapterRuntime`, `Principals` and `RegistryFiles`. (They were model-checked on the same
instances before they were proved.)

Induction over data is done by the least counterexample, since the induction rules of the
library cannot be instantiated by the provers: `LeastNat`, from the well-foundedness of
the natural numbers, and for a recursive function its existence, in the same way.

Only model-checked: liveness (fairness and `ENABLED` are outside the prover's reach); and
all of `OverlayFS`, its refinement included: a request is a sequence of commits on two
layers and three maps, and its invariants, which would need a lemma for each commit of
each request, have not been attempted.

## 6. Where the documents and the code disagree

1. *A terminal event eventually follows acceptance*
   (`docs/v1/APPFS-adapter-requirements-v0.1.md:227`). A streaming job advances one stage
   per poll, and with fallback polling off, the default, nothing polls after the wake-up
   of the write that started it. Run `adapter_wake_only`.

The others were met while modelling and are not the subject of a run:

2. *`seq` is monotonically increasing per app stream* (`docs/v1/APPFS-v0.1.md:231`). A
   crash after the event log and before the stream cursor gives the number again. Within
   one life of the process it holds, and is proved.
3. *Registry files are promoted before loading* (comment at `appfs.rs:758`). The app
   registry was read before, at line 738.
4. *Deleting a principal deletes its view*
   (`docs/APPFS-multi-agent-identity-and-app-visibility-v0-design.md:788`). Not when the
   process dies after the registry write: the replayed request finds no principal.
5. *Promotion ensures that readdir checks the delta layer* (comment at
   `overlayfs.rs:388`). `readdir_plus` names a promoted directory by the base inode of its
   origin and so gives the kernel a second inode for it, of the base (window "listing").
6. `SPEC.md` of the filesystem gives the root one link, the code two; its rule on sizes
   does not hold of sparse files; its rule that every inode has a name does not hold after
   `rmdir`, which leaves the directory's inode behind (`agentfs.rs:4195`).
7. The mount truncates the journal before it writes it (`mount_runtime.rs:1033`); a crash
   in between leaves a file that the adapter refuses at its start (`journal.rs:70`).
8. Below a mount that expands on a miss, a forced refresh never succeeds in publishing and
   is tried at every later poll; and when a lookup misses while the adapter has the temporary file
   open, the two contents may mix in the published file (window "temp").
9. An expansion that is retried and then fails before it writes clears its journal entry
   (`snapshot_cache.rs:516`, `:546`, `:590`), although the temporary file of the first try
   is still there (`:800`); no later start removes it (window "retry").
10. A recovery does not remove the temporary files of the other writer and still clears
    their entries: the mount writes `/<app>/_stream/...` (`mount_runtime.rs:583`), which the
    adapter refuses (`recovery.rs:42`), and refuses what the adapter writes
    (`mount_runtime.rs:452`). Such files stay (window "foreign").
11. A failed write of the principals leaves memory and registry apart when it is the status
    view that fails, which comes after the rename (`registry.rs:331`,
    `runtime_supervisor.rs:875`), or when it is that of a sweep, which changes memory first
    (`runtime_supervisor.rs:122`); the comment at `runtime_supervisor.rs:22` says the two are
    kept in sync.
12. In a directory made over a removed base file lookups and listings fail with ENOTDIR
    (`overlayfs.rs:703`, `hostfs_linux.rs:360`), so the directory can be neither read nor
    removed through the overlay.
13. A file with a hole is read without it by the SDK's `read_file` (`agentfs.rs:1760`),
    with zeros by a handle.

Further ones are noted under "hazards": a failed sweep is not written again; with the
fallback timer off, a request left by a transient failure waits for the next write; a failed
publication skips a page.

Conditions in the properties that come from such behaviour: `PrincipalsRecovered` and
`Startable` speak of one crash of a runtime whose writes succeed, since a temporary
file of an earlier crash can be promoted by a later one, and of a root that was started
before (`Established`), since a torn temporary file of the very first write is promoted
and refused. `NoRequestLost` and `RegistriesAgree` speak of behaviours without failing
writes; `PrivateAppsMaterialized` of failing writes or crashes, not both.

## 7. Plan

Done: the core, in the order action consumer, wake, app runtime, control plane, registry
files; then the filesystem with its abstract tree, the overlay with its union, the
snapshot cache with journal, recovery and read-through, the bridges; and the proofs above.

Left:

1. `Paging`: handles, pages lost by a failed publication, reopened handles.
2. `TreeSync`: revisions, owned paths, the switch of a scope, on top of the bulk writes
   that `AgentFS` has.
3. The compose supervisor: connectors that start, fail and are reconciled.
4. An abstract request queue implemented by `ActionSink` and by `AdapterRuntime`;
   `RegistryFiles` as an implementation of the single write step of `Principals`.
5. Proofs: the invariants of `OverlayFS` and its refinement of `UnionTree`.

## 8. Not modelled

* Paging, the revisions and scopes of the structure synchronisation and the compose
  supervisor: candidates of the plan.
* Parsing and validation of requests and configuration (`action_dispatcher.rs`,
  `runtime_config.rs`, `runtime_manifest.rs`): their outcomes are inputs of the models.
* Connectors and the encoding of HTTP and gRPC: a connector may answer anything.
* In the filesystems: timestamps, owners, permissions and other attributes, `forget`, the
  operations of the host on the base. In the snapshot cache: the window in which a
  repeated miss is called coalesced and the states of a snapshot with their prewarming,
  which only change log lines, and the reload of the manifest by the mount beyond its
  effect on the journal map.
* The mount drivers and the vendored FUSE and NFS code: protocol translation; the
  kernel's side of it is modelled where the overlay depends on it.
* The sandbox (system-call interception), the agent (`appfs-agent`: conversation loop,
  tools, plugins, command line), the dashboard and the desktop application. They are
  clients of the files modelled here and make up most of the repository's lines, so the
  models stand for a small share of those and for most of the runtime's and the
  filesystem's state.
* Torn appends of the event log, the control plane's own event stream and the
  connector's credentials.
