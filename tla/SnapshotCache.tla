--------------------------- MODULE SnapshotCache ---------------------------
(***************************************************************************)
(* Materialisation of snapshot resources                                   *)
(* (appfs/cli/src/cmd/appfs/snapshot_cache.rs, journal.rs, recovery.rs and *)
(* mount_runtime.rs).                                                      *)
(*                                                                         *)
(* Two writers expand a snapshot: the adapter, asked by a refresh request, *)
(* and the mount, when a lookup misses the file.  They share the temporary *)
(* file of the resource and the journal file, and each keeps the journal   *)
(* in a map of its own that it saves whole.  Each names the temporary file *)
(* in its entries its own way, and removes only what is named its way when *)
(* it recovers: the other's entries go, their files stay.  The adapter     *)
(* works through the mount: each of its file operations is a request of    *)
(* its own, and the mount serves one request at a time, a lookup with its  *)
(* whole expansion included.  An action is one request; its commits are    *)
(* kept in a log, and a crash leaves a prefix of them.                     *)
(*                                                                         *)
(* A successful fetch yields a new content, numbered; past MaxFetches the  *)
(* last one again.  `torn` records the windows the code leaves open:       *)
(*   "journal" a save of the mount leaves out an entry of the adapter;     *)
(*   "temp"    a lookup publishes the temporary file that the adapter has  *)
(*             open for writing;                                           *)
(*   "crash"   a crash cuts a journal save of the mount, which leaves the  *)
(*             file empty;                                                 *)
(*   "retry"   an expansion that is tried again after its publication      *)
(*             failed fails before it writes: its entry is cleared, the    *)
(*             temporary file of the first try stays;                      *)
(*   "foreign" a recovery clears an entry of the other writer, whose       *)
(*             temporary file stays.                                       *)
(***************************************************************************)
EXTENDS Integers, Sequences, FiniteSets

CONSTANTS
    Resources,      \* snapshot resources of the app
    Modes,          \* configurations: [through, force, stale : BOOLEAN]
    MaxRequests,    \* bound: refresh requests
    MaxFetches,     \* bound: contents
    MaxFaults,      \* bound: expansions that fail or time out
    MaxReloads,     \* bound: changes of the app registry
    MaxCrashes,     \* bound: crashes
    FallbackPolling \* whether the runtime polls on a timer (off by default)

NoResource == "none"

ASSUME ResourcesAssumption == NoResource \notin Resources
ASSUME BoundsAssumption ==
    /\ MaxRequests \in Nat /\ MaxFetches \in Nat \ {0} /\ MaxFaults \in Nat
    /\ MaxReloads \in Nat /\ MaxCrashes \in Nat /\ FallbackPolling \in BOOLEAN

\* What a file holds: nothing at all, no bytes, bytes of two contents, or a content.
Absent == 0
Empty == -1
Mixed == -2
Contents == 1..MaxFetches

VARIABLES
    mode,       \* through: the mount expands on a miss; force: a refresh always expands;
                \* stale: on_timeout is return_stale
    s,          \* the files and the mount's memory
    adapter,    \* the adapter: where it is, its expansion, its journal map
    pending,    \* refresh requests not yet answered
    torn,       \* the windows entered
    count       \* the bounded things so far

vars == <<mode, s, adapter, pending, torn, count>>

-----------------------------------------------------------------------------
(* Files.                                                                  *)

\* A write from the start of a file: the old bytes stay if they are more.
Over(old, new) == IF old \in {Absent, Empty, new} THEN {new} ELSE {new, Mixed}

\* Steps on the files: the journal emptied before it is written, or saved with the entries of
\* one writer; a temporary file; its publication.
CutJournal(d) == [d EXCEPT !.cut = TRUE]
Saved(d, journal, by) == [d EXCEPT !.cut = FALSE, !.journal = journal, !.by = by]
Temp(d, r, f) == [d EXCEPT !.temp[r] = f]
Target(d, r, f) == [d EXCEPT !.target[r] = f]
Published(d, r, f) == Target(Temp(d, r, Absent), r, f)
Cleaned(d, rs) == [d EXCEPT !.temp = [r \in Resources |-> IF r \in rs THEN Absent ELSE @[r]]]

-----------------------------------------------------------------------------
(* The mount.  A step of it yields the state after it, whether it failed,  *)
(* and the files a crash inside it may leave.                              *)

Result(x, err, left) == [s |-> x, err |-> err, left |-> left]
MountSaved(d, journal) == Saved(d, journal, "mount")

\* is_valid_temp_artifact, resolve_snapshot_expand_cleanup_target: whose entries a recovery
\* of `side` takes the temporary files of.
Removable(journal, by, side) == IF by = side THEN journal ELSE {}

\* recover_incomplete_expands, on a journal that is not empty.
recover_incomplete_expands(x) ==
    LET mine == Removable(x.d.journal, x.d.by, "mount")
    IN  Result([x EXCEPT !.d = MountSaved(Cleaned(@, mine), {}), !.mj = {}, !.loaded = TRUE,
                         !.fd = IF @ = "temp" /\ x.open \in mine THEN "gone" ELSE @],
               FALSE, {Cleaned(x.d, mine), CutJournal(Cleaned(x.d, mine))})

runtime_loaded(x) ==
    IF x.loaded THEN Result(x, FALSE, {})
    ELSE IF x.d.cut THEN Result(x, TRUE, {})
    ELSE IF x.d.journal = {} THEN Result([x EXCEPT !.loaded = TRUE, !.mj = {}], FALSE, {})
    ELSE recover_incomplete_expands(x)

\* The entry is in the map and in the file: what the fetch comes to is not a content.
Abandoned(x, r) == Result([x EXCEPT !.d = MountSaved(@, x.mj \union {r}), !.mj = @ \union {r}],
                          TRUE, {CutJournal(x.d)})
Dropped(x, r) == Result([x EXCEPT !.d = MountSaved(@, x.mj \ {r}), !.mj = @ \ {r}], TRUE,
                        {CutJournal(x.d), MountSaved(x.d, x.mj \union {r})})

\* Mutant: the temporary file is not truncated before it is written.
Expanded_KeepsTail(x, r, f) ==
    LET g == IF x.d.temp[r] \in Contents \ {f} THEN Mixed ELSE f
    IN  Result([x EXCEPT !.d = MountSaved(Published(@, r, g), x.mj \ {r}), !.mj = @ \ {r}],
               FALSE, {})

\* materialize_snapshot_file, between the two saves of the entry and its removal.  The target
\* is absent: the lookup that missed it is still being served.
Expanded(x, r, f) ==
    LET d == MountSaved(x.d, x.mj \union {r})
    IN  Result([x EXCEPT !.d = MountSaved(Published(d, r, f), x.mj \ {r}), !.mj = @ \ {r},
                         !.fd = IF @ = "temp" /\ x.open = r THEN "target" ELSE @],
               FALSE,
               {CutJournal(x.d), d, Temp(d, r, Empty), Temp(d, r, f), CutJournal(Temp(d, r, f)),
                Published(d, r, f), CutJournal(Published(d, r, f))})

Fetch(x) == [x EXCEPT !.next = IF @ < MaxFetches THEN @ + 1 ELSE @]

\* ensure_snapshot_materialized; `out` is what the fetch comes to: a content, no bytes, an
\* error (the entry stays), or a timeout or a content that is too large.
ensure_snapshot_materialized(x, r, out) ==
    CASE out = "error" -> Abandoned(x, r)
      [] out = "drop" -> Dropped(x, r)
      [] out = "empty" -> Expanded(x, r, Empty)
      [] OTHER -> Expanded(Fetch(x), r, x.next)

\* A lookup of a snapshot resource, by a client or by an operation of the adapter.
Misses(r) == mode.through /\ s.d.target[r] = Absent
Ensured(load, r, out) ==
    IF load.err THEN load
    ELSE LET e == ensure_snapshot_materialized(load.s, r, out)
         IN  Result(e.s, e.err, load.left \union e.left
                                \union (IF load.left = {} THEN {} ELSE {load.s.d}))
LookedUp(r, out) ==
    IF Misses(r) THEN Ensured(runtime_loaded(s), r, out) ELSE Result(s, FALSE, {})

\* What a lookup may come to: "ok" if there is nothing to expand.
Faults == {"error", "drop", "empty"}
Outcomes(r) == IF Misses(r) /\ count.faults < MaxFaults THEN Faults \union {"ok"} ELSE {"ok"}

-----------------------------------------------------------------------------
(* The end of a request: all of its commits are made, or a crash leaves    *)
(* some of them.                                                           *)

\* The adapter before it has loaded the journal; the mount may be serving already.
Off == [pc |-> "down", r |-> NoResource, v |-> Absent, journal |-> {}, by |-> "adapter",
        todo |-> {}]
Left(d, next) == [d |-> d, mj |-> {}, loaded |-> FALSE, open |-> NoResource, fd |-> "none",
                  next |-> next]

Tears(journal, d) == IF journal \subseteq d.journal \/ d.cut THEN {} ELSE {"journal"}
\* The mount loads a journal of the adapter's, and some entry has its temporary file.
Foreign(loads) ==
    IF loads /\ ~s.loaded /\ s.d.by = "adapter" /\ \E r \in s.d.journal : s.d.temp[r] # Absent
      THEN {"foreign"} ELSE {}
Counted(out) == [count EXCEPT !.faults = IF out \in Faults THEN @ + 1 ELSE @]

\* The process dies, and leaves the files d.  It may come back with the mount expanding or not.
Dies(d) ==
    /\ count.crashes < MaxCrashes
    /\ s' = Left(d, s.next)
    /\ adapter' = Off
    /\ torn' = torn \union Tears(adapter.journal, d) \union Foreign(d.by = "mount")
                    \union (IF d.cut THEN {"crash"} ELSE {})
    /\ count' = [count EXCEPT !.crashes = @ + 1]
    /\ mode' \in {m \in Modes : m.force = mode.force /\ m.stale = mode.stale}
    /\ UNCHANGED pending

\* A request ends with x; a crash inside it leaves one of the files in `left`.
DoneTearing(x, left, a, answered, out, tears) ==
    \/ /\ s' = x
       /\ adapter' = a
       /\ pending' = pending \ answered
       /\ torn' = torn \union Tears(a.journal, x.d) \union Foreign(x.loaded) \union tears
                       \union (IF x.fd = "target" THEN {"temp"} ELSE {})
       /\ count' = Counted(out)
       /\ UNCHANGED mode
    \/ \E d \in left : Dies(d)
Done(x, left, a, answered, out) == DoneTearing(x, left, a, answered, out, {})

-----------------------------------------------------------------------------
(* The adapter.                                                            *)

Idle == [adapter EXCEPT !.pc = "idle", !.r = NoResource, !.v = Absent]
At(pc) == [adapter EXCEPT !.pc = pc]

\* save_snapshot_expand_journal of the adapter: one rename.
Save(x, journal) == [x EXCEPT !.d = Saved(@, journal, "adapter")]
\* Mutant: no entry is made.
With_Nothing(r) == adapter.journal

With(r) == adapter.journal \union {r}
Without(r) == adapter.journal \ {r}

\* Mutant: a refresh that finds the snapshot there is not answered.
handle_snapshot_refresh_Silent(r) ==
    /\ adapter.pc = "idle" /\ r \in pending
    /\ \E out \in Outcomes(r) : \E l \in {LookedUp(r, out)} :
          IF l.s.d.target[r] # Absent /\ ~mode.force
            THEN Done(l.s, l.left, adapter, {}, out)
            ELSE Done(Save(l.s, With(r)), l.left \union {l.s.d},
                      [adapter EXCEPT !.pc = "fetch", !.r = r, !.journal = With(r)],
                      {}, out)

\* handle_snapshot_refresh, up to the journal entry of expand_snapshot_cache_read_through.
handle_snapshot_refresh(r) ==
    /\ adapter.pc = "idle" /\ r \in pending
    /\ \E out \in Outcomes(r) : \E l \in {LookedUp(r, out)} :
          IF l.s.d.target[r] # Absent /\ ~mode.force
            THEN Done(l.s, l.left, adapter, {r}, out)
            ELSE Done(Save(l.s, With(r)), l.left \union {l.s.d},
                      [adapter EXCEPT !.pc = "fetch", !.r = r, !.journal = With(r)],
                      {}, out)

\* clear_snapshot_expand_journal_entry and the terminal event.
Ended(x, left, out) ==
    DoneTearing(Save(x, Without(adapter.r)), left, [Idle EXCEPT !.journal = Without(adapter.r)],
                {adapter.r}, out,
                IF x.d.temp[adapter.r] = Absent THEN {} ELSE {"retry"})

\* The expansion times out: the old snapshot is looked for if it is allowed to do.
ExpandTimeout ==
    /\ adapter.pc = "fetch" /\ count.faults < MaxFaults
    /\ IF ~mode.stale THEN Ended(s, {}, "drop")
       ELSE \E out \in Outcomes(adapter.r) : \E l \in {LookedUp(adapter.r, out)} :
               Ended(l.s, l.left \union {l.s.d}, IF out = "ok" THEN "drop" ELSE out)

\* The connector fails, has nothing, or has too much.
ExpandFails ==
    /\ adapter.pc = "fetch" /\ count.faults < MaxFaults
    /\ Ended(s, {}, "drop")

fetch_snapshot_jsonl_from_upstream ==
    /\ adapter.pc = "fetch"
    /\ Done(Fetch(s), {}, [At("open") EXCEPT !.v = s.next], {}, "ok")

\* materialize_snapshot_file, request by request.
OpenTemp ==
    /\ adapter.pc = "open"
    /\ Done([s EXCEPT !.d = Temp(@, adapter.r, Empty), !.open = adapter.r, !.fd = "temp"], {},
            At("write"), {}, "ok")

\* The bytes go where the open file has gone since.
Written(r, v) ==
    CASE s.fd = "temp" -> {Temp(s.d, r, f) : f \in Over(s.d.temp[r], v)}
      [] s.fd = "target" -> {Target(s.d, r, f) : f \in Over(s.d.target[r], v)}
      [] OTHER -> {s.d}
WriteTemp ==
    /\ adapter.pc = "write"
    /\ \E d \in Written(adapter.r, adapter.v) :
          Done([s EXCEPT !.d = d, !.open = NoResource, !.fd = "none"], {}, At("mark"), {}, "ok")

MarkPublishing ==
    /\ adapter.pc = "mark"
    /\ Done(Save(s, With(adapter.r)), {}, [At("remove") EXCEPT !.journal = With(adapter.r)],
            {}, "ok")

RemoveStale ==
    /\ adapter.pc = "remove"
    /\ \E out \in Outcomes(adapter.r) : \E l \in {LookedUp(adapter.r, out)} :
          Done([l.s EXCEPT !.d = Target(@, adapter.r, Absent)], l.left \union {l.s.d},
               At("rename"), {}, out)

\* The rename of the temporary file looks the target up first, and fails if that fails or if
\* the temporary file is gone by then.  The request is then tried again later.
PublishTemp ==
    /\ adapter.pc = "rename"
    /\ \E out \in Outcomes(adapter.r) : \E l \in {LookedUp(adapter.r, out)} :
          IF l.err \/ l.s.d.temp[adapter.r] = Absent
            THEN Done(l.s, l.left, Idle, {}, out)
            ELSE Done([l.s EXCEPT !.d = Published(@, adapter.r, @.temp[adapter.r])],
                      l.left \union {l.s.d}, At("clear"), {}, out)

ClearEntry == adapter.pc = "clear" /\ Ended(s, {}, "ok")

\* Structure synchronisation, at work or before the journal is loaded: a placeholder for a
\* resource that has no file.  When the lookup fails, the write of the placeholder looks the
\* file up again: that fails too, or it brings a snapshot, which the write empties.
materialize_node(r) ==
    /\ adapter.pc \in {"down", "idle"} /\ s.d.target[r] = Absent
    /\ \E out \in Outcomes(r) : \E l \in {LookedUp(r, out)} :
          \/ /\ Misses(r)
             /\ Done(l.s, l.left, adapter, {}, out)
          \/ /\ l.err /\ l.s.loaded
             /\ \E e \in {Expanded(Fetch(l.s), r, l.s.next)} :
                   Done([e.s EXCEPT !.d = Target(@, r, Empty)],
                        l.left \union e.left \union {l.s.d, e.s.d}, adapter, {}, out)
          \/ /\ ~Misses(r)
             /\ Done([s EXCEPT !.d = Target(@, r, Empty)], {}, adapter, {}, out)

\* Start: the journal is loaded, every resource looked up, and what was cut short cleaned up.
Start ==
    /\ adapter.pc = "down" /\ ~s.d.cut
    /\ adapter' = [Off EXCEPT !.pc = "init", !.journal = s.d.journal, !.by = s.d.by,
                              !.todo = Resources]
    /\ UNCHANGED <<mode, s, pending, torn, count>>

initialize_snapshot_states(r) ==
    /\ adapter.pc = "init" /\ r \in adapter.todo
    /\ \E out \in Outcomes(r) : \E l \in {LookedUp(r, out)} :
          Done(l.s, l.left, [adapter EXCEPT !.todo = @ \ {r}], {}, out)

\* Mutant: the journal is emptied, the temporary files stay.
Recovered_KeepsTemp(x) == Save(x, {})

Mine == Removable(adapter.journal, adapter.by, "adapter")
Recovered(x) ==
    IF adapter.journal = {} THEN x ELSE Save([x EXCEPT !.d = Cleaned(@, Mine)], {})
recover_snapshot_expand_journal ==
    /\ adapter.pc = "init" /\ adapter.todo = {}
    /\ DoneTearing(Recovered(s), {Cleaned(s.d, Mine)},
               [Idle EXCEPT !.journal = {}, !.by = "adapter"], {}, "ok",
               IF \E r \in adapter.journal \ Mine : s.d.temp[r] # Absent THEN {"foreign"} ELSE {})

-----------------------------------------------------------------------------
(* Everyone else.                                                          *)

Request(r) ==
    /\ count.requests < MaxRequests /\ r \notin pending
    /\ pending' = pending \union {r}
    /\ count' = [count EXCEPT !.requests = @ + 1]
    /\ UNCHANGED <<mode, s, adapter, torn>>

\* A client looks a resource up.
lookup(r) ==
    /\ Misses(r)
    /\ \E out \in Outcomes(r) : \E l \in {LookedUp(r, out)} :
          Done(l.s, l.left, adapter, {}, out)

\* Any other lookup under the app that misses loads the journal as well.
maybe_snapshot_resource_from_fs_path ==
    /\ mode.through /\ ~s.loaded
    /\ \E l \in {runtime_loaded(s)} : Done(l.s, l.left, adapter, {}, "ok")

\* refresh_registry_snapshot: the app registry changed, and the runtimes are forgotten.
refresh_registry_snapshot ==
    /\ mode.through /\ s.loaded /\ count.reloads < MaxReloads
    /\ s' = [s EXCEPT !.loaded = FALSE, !.mj = {}]
    /\ count' = [count EXCEPT !.reloads = @ + 1]
    /\ UNCHANGED <<mode, adapter, pending, torn>>

Crash == Dies(s.d)

Init ==
    /\ mode \in Modes
    /\ s = Left([target |-> [r \in Resources |-> Absent], temp |-> [r \in Resources |-> Absent],
                 journal |-> {}, by |-> "adapter", cut |-> FALSE], 1)
    /\ adapter = Off
    /\ pending = {} /\ torn = {}
    /\ count = [requests |-> 0, faults |-> 0, reloads |-> 0, crashes |-> 0]

Expansion ==
    \/ ExpandTimeout \/ ExpandFails \/ fetch_snapshot_jsonl_from_upstream
    \/ OpenTemp \/ WriteTemp \/ MarkPublishing \/ RemoveStale \/ PublishTemp \/ ClearEntry
Adapter ==
    \/ Start \/ recover_snapshot_expand_journal \/ Expansion
    \/ \E r \in Resources : initialize_snapshot_states(r) \/ handle_snapshot_refresh(r)
Next ==
    \/ Adapter
    \/ \E r \in Resources : materialize_node(r) \/ Request(r) \/ lookup(r)
    \/ maybe_snapshot_resource_from_fs_path \/ refresh_registry_snapshot \/ Crash

Spec == Init /\ [][Next]_vars

\* The adapter's thread goes on; its queue is polled again, and served in turn, if the fallback
\* timer is on.
FairSpec ==
    /\ Spec
    /\ WF_vars(Start \/ recover_snapshot_expand_journal \/ Expansion
               \/ \E r \in Resources : initialize_snapshot_states(r))
    /\ FallbackPolling => \A r \in Resources : SF_vars(handle_snapshot_refresh(r))

-----------------------------------------------------------------------------
(* Properties.                                                             *)

Files == {Absent, Empty, Mixed} \union Contents

\* The files, the maps and the adapter have their shape.
TypeOK ==
    /\ mode \in Modes
    /\ s.d.target \in [Resources -> Files] /\ s.d.temp \in [Resources -> Files]
    /\ s.d.journal \subseteq Resources /\ s.mj \subseteq Resources
    /\ {s.d.by, adapter.by} \subseteq {"adapter", "mount"}
    /\ s.fd = "none" <=> adapter.pc # "write"
    /\ adapter.r \in Resources <=> adapter.pc \notin {"down", "init", "idle"}
    /\ adapter.pc \notin {"down", "init", "idle"} => adapter.r \in adapter.journal
    /\ pending \subseteq Resources
    /\ torn \subseteq {"journal", "temp", "crash", "retry", "foreign"}

\* What readers find under the name of a snapshot is a content that one fetch returned, or
\* the empty placeholder: never a mixture of two, whoever published it.
SnapshotsWhole == "temp" \notin torn => \A r \in Resources : s.d.target[r] # Mixed

\* A temporary file is named in the journal on disk, also after a recovery by either writer, so
\* that the one that wrote the entry can remove it.
TempsJournaled ==
    torn \subseteq {"temp"} => \A r \in Resources : s.d.temp[r] # Absent => r \in s.d.journal

\* With the fallback timer on, every refresh request is answered, through failed publications,
\* restarts and lookups that expand the same snapshot, unless each refresh is forced to expand
\* below the mount.  Without it a request whose publication failed waits for another write.
EveryRefreshAnswered ==
    FallbackPolling =>
        \A r \in Resources :
            r \in pending ~> r \notin pending \/ s.d.cut \/ (mode.through /\ mode.force)
=============================================================================
