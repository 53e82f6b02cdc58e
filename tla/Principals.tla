----------------------------- MODULE Principals -----------------------------
(***************************************************************************)
(* The control plane of the AppFS runtime: AppfsRuntimeSupervisor in       *)
(* appfs/cli/src/cmd/appfs/runtime_supervisor.rs with its request sinks    *)
(* (supervisor_control.rs) and its registries (registry.rs,                *)
(* registry_manager.rs).                                                   *)
(*                                                                         *)
(* Agents attach to principals: an attach is a lease that heartbeats keep  *)
(* alive and a periodic sweep removes once it is stale.  The supervisor    *)
(* keeps the principals in memory and in two files, the registry and the   *)
(* status view, one view file per principal, and a registry of the app     *)
(* runtimes, which for a principal are its private app instances.  Every   *)
(* file write may fail, and the process may die between any two of them.   *)
(*                                                                         *)
(* The requests of a drain are handled one by one and committed together,  *)
(* after the last: an error or a crash replays them all.  Time passes      *)
(* while the supervisor is idle or down.                                   *)
(***************************************************************************)
EXTENDS Naturals, Sequences, FiniteSets

CONSTANTS
    PrincipalIds, AttachIds,
    NoAttach,         \* stands for a status without active_attach_id
    PublicApps,       \* apps registered by name
    PrivateApps,      \* app policies with visibility private
    Known,            \* principals registered by earlier runs of the process
    Requests,         \* what clients may append to the control sinks
    StaleAfter,       \* PRINCIPAL_ATTACH_STALE_AFTER_SECS, in ticks
    MaxRequests,      \* bound: requests written by clients
    MaxFaults,        \* bound: failing writes and failing app builds
    MaxCrashes        \* bound: crashes of the process

Kinds == {"register", "unregister", "create", "attach", "update", "detach", "delete"}

\* A request: `who` is the principal or, to register and unregister, the app;
\* `flag` is takeover (attach), force (delete) or a status patch (update, which
\* is otherwise a heartbeat).
Request == [kind : Kinds, who : PrincipalIds \union PublicApps, attach : AttachIds, flag : BOOLEAN]

ASSUME PrincipalsAssumption ==
    /\ Requests \subseteq Request
    /\ \A r \in Requests : r.who \in PublicApps <=> r.kind \in {"register", "unregister"}
    /\ Known \subseteq PrincipalIds
    /\ PrincipalIds \intersect PublicApps = {}
    /\ NoAttach \notin AttachIds
    /\ "public" \notin PrincipalIds     \* the mark of a public instance is no principal
    /\ StaleAfter \in Nat /\ MaxRequests \in Nat /\ MaxFaults \in Nat /\ MaxCrashes \in Nat

VARIABLES
    sinks,         \* the requests in the control sinks, in the order written
    committed,     \* the positions of `sinks` that are committed
    mem,           \* principal_registry
    registryFile,  \* principals.registry.json
    statusFile,    \* status.res.json
    views,         \* principals with a principals/<id>.res.json
    runtimes,      \* runtimes in memory
    appsFile,      \* apps.registry.json
    queue,         \* the invocations of the running drain, as positions of `sinks`
    at,            \* the one being handled
    cand,          \* the registry about to be written
    pc,            \* what the supervisor does: see States
    task,          \* why it writes: a request, a sweep or the start
    faults, crashes

vars == <<sinks, committed, mem, registryFile, statusFile, views, runtimes, appsFile,
          queue, at, cand, pc, task, faults, crashes>>
clientVars == <<sinks, committed>>
files == <<registryFile, statusFile, views, appsFile>>

States == {"down", "idle", "handle", "registry", "status", "view", "materialize",
           "apps", "emit", "tail"}
Tasks == {"none", "request", "cleanup", "sweep", "start"}

AgentStates == {"none", "unknown", "running", "stopped"}
Lease == [attach : AttachIds, age : 0..(StaleAfter + 1)]
Status == [state : AgentStates, attach : AttachIds \union {NoAttach}]
NoStatus == [state |-> "none", attach |-> NoAttach]
Record == [st : {"absent", "present"}, leases : SUBSET Lease, status : Status]
NoRecord == [st |-> "absent", leases |-> {}, status |-> NoStatus]
NewRecord == [NoRecord EXCEPT !.st = "present"]
Doc == [PrincipalIds -> Record]
NoDoc == [p \in PrincipalIds |-> NoRecord]
KnownDoc == [p \in PrincipalIds |-> IF p \in Known THEN NewRecord ELSE NoRecord]

\* instance_id: of a public app, or of a private app for a principal.
PublicInstance(app) == <<app, "public">>
Instances == (PublicApps \X {"public"}) \union (PrivateApps \X PrincipalIds)
InstancesOf(p) == PrivateApps \X {p}

Init ==
    /\ sinks = <<>> /\ committed = {}
    /\ mem = KnownDoc /\ registryFile = KnownDoc /\ statusFile = KnownDoc /\ views = Known
    /\ runtimes = PrivateApps \X Known /\ appsFile = PrivateApps \X Known
    /\ queue = <<>> /\ at = 1 /\ cand = NoDoc
    /\ pc = "idle" /\ task = "none"
    /\ faults = 0 /\ crashes = 0

-----------------------------------------------------------------------------
(* Leases and presence (registry.rs).                                      *)

is_principal_attach_stale(l) == l.age > StaleAfter
Live(rec) == {l \in rec.leases : ~is_principal_attach_stale(l)}
Online(rec) == Live(rec) # {}
NewLease(a) == [attach |-> a, age |-> 0]
Held(rec, a) == \E l \in rec.leases : l.attach = a
Others(rec, a) == {l \in rec.leases : l.attach # a}
\* The lease with this attach_id, seen now.
Seen(rec, a) == IF Held(rec, a) THEN Others(rec, a) \union {NewLease(a)} ELSE rec.leases

Older(doc) ==
    [p \in PrincipalIds |->
        [doc[p] EXCEPT !.leases = {[l EXCEPT !.age = IF @ <= StaleAfter THEN @ + 1 ELSE @] : l \in @}]]

-----------------------------------------------------------------------------
(* Clients, and time.                                                      *)

ClientRequest(r) ==
    /\ Len(sinks) < MaxRequests
    /\ sinks' = Append(sinks, r)
    /\ UNCHANGED <<committed, mem, files, runtimes, queue, at, cand, pc, task, faults, crashes>>

Tick ==
    /\ pc \in {"idle", "down"}
    /\ mem' = Older(mem) /\ registryFile' = Older(registryFile) /\ statusFile' = Older(statusFile)
    /\ UNCHANGED <<clientVars, views, runtimes, appsFile, queue, at, cand, pc, task,
                   faults, crashes>>

-----------------------------------------------------------------------------
(* A drain of the control sinks.                                           *)

\* control_action_order: sink by sink, whatever the order of the writes.
ControlActionOrder ==
    <<"register", "unregister", "create", "attach", "update", "detach", "delete">>
Pending == {i \in 1..Len(sinks) : i \notin committed}
Before(i, j) ==
    \E m, n \in 1..Len(ControlActionOrder) :
        /\ ControlActionOrder[m] = sinks[i].kind /\ ControlActionOrder[n] = sinks[j].kind
        /\ m < n \/ (m = n /\ i < j)

\* A poll, woken or not by a request: its drain may find nothing.
BeginDrain ==
    /\ pc = "idle"
    /\ queue' \in [1..Cardinality(Pending) -> Pending]
    /\ \A i, j \in DOMAIN queue' : i < j => Before(queue'[i], queue'[j])
    /\ at' = 1
    /\ pc' = "handle"
    /\ UNCHANGED <<clientVars, mem, files, runtimes, cand, task, faults, crashes>>

Req == sinks[queue[at]]
P == Req.who
Rec == mem[P]
Handling(kind) == pc = "handle" /\ at \in DOMAIN queue /\ Req.kind = kind

\* The request is answered with action.failed and changes nothing.
Refuse == pc' = "emit" /\ UNCHANGED <<cand, runtimes>>
\* The registry with the new record is about to be written.
Replace(rec) ==
    /\ cand' = [mem EXCEPT ![P] = rec]
    /\ pc' = "registry"
    /\ UNCHANGED runtimes
HandlerFrame ==
    /\ task' = "request"
    /\ UNCHANGED <<clientVars, mem, files, queue, at, faults, crashes>>

\* handle_register_app and handle_unregister_app.
RegisterApp ==
    /\ Handling("register")
    /\ \/ PublicInstance(P) \in runtimes /\ Refuse
       \/ PublicInstance(P) \notin runtimes /\ Refuse      \* the runtime cannot be built
       \/ /\ PublicInstance(P) \notin runtimes
          /\ runtimes' = runtimes \union {PublicInstance(P)}
          /\ pc' = "apps" /\ UNCHANGED cand
    /\ HandlerFrame

UnregisterApp ==
    /\ Handling("unregister")
    /\ \/ PublicInstance(P) \notin runtimes /\ Refuse
       \/ /\ PublicInstance(P) \in runtimes
          /\ runtimes' = runtimes \ {PublicInstance(P)}
          /\ pc' = "apps" /\ UNCHANGED cand
    /\ HandlerFrame

\* Mutant: an existing principal is answered at once.
CreatePrincipal_Returns ==
    /\ Handling("create")
    /\ \/ Rec.st = "present" /\ Refuse
       \/ Rec.st = "absent" /\ Replace(NewRecord)
    /\ HandlerFrame

\* handle_create_principal: an existing principal is left as it is, but its view
\* and its private apps are made again.
CreatePrincipal ==
    /\ Handling("create")
    /\ \/ Rec.st = "present" /\ cand' = mem /\ pc' = "view" /\ UNCHANGED runtimes
       \/ Rec.st = "absent" /\ Replace(NewRecord)
    /\ HandlerFrame

\* Mutant: a live lease is no conflict.
Conflict_Never == FALSE

\* A takeover, or an attach beside stale leases, clears them and the status.
Taken(rec) ==
    IF rec.status.state = "none" THEN NoStatus ELSE [state |-> "unknown", attach |-> NoAttach]
Conflict == Online(Rec) /\ ~Req.flag

handle_attach_principal ==
    IF Held(Rec, Req.attach)
      THEN [Rec EXCEPT !.leases = Seen(Rec, Req.attach)]
    ELSE IF Req.flag \/ Rec.leases # {}
      THEN [Rec EXCEPT !.leases = {NewLease(Req.attach)}, !.status = Taken(Rec)]
    ELSE [Rec EXCEPT !.leases = @ \union {NewLease(Req.attach)}]

AttachPrincipal ==
    /\ Handling("attach")
    /\ \/ Rec.st = "absent" /\ Refuse
       \/ Rec.st = "present" /\ ~Held(Rec, Req.attach) /\ Conflict /\ Refuse
       \/ /\ Rec.st = "present" /\ (Held(Rec, Req.attach) \/ ~Conflict)
          /\ Replace(handle_attach_principal)
    /\ HandlerFrame

\* The status patch of handle_update_principal (here to running, the state that
\* matters) is for the lease holder only: current_active_attach is the first of
\* the leases.  A heartbeat refreshes a lease that is still there.
current_active_attach(rec) ==
    IF rec.leases = {} THEN NoAttach ELSE (CHOOSE l \in rec.leases : TRUE).attach
Heartbeat == Req.kind = "update" /\ ~Req.flag
UpdatePrincipal ==
    /\ Handling("update")
    /\ \/ Rec.st = "absent" /\ Refuse
       \/ /\ Rec.st = "present" /\ Req.flag
          /\ \/ current_active_attach(Rec) # Req.attach /\ Refuse
             \/ /\ current_active_attach(Rec) = Req.attach
                /\ Replace([Rec EXCEPT !.leases = Seen(Rec, Req.attach),
                                       !.status = [state |-> "running", attach |-> Req.attach]])
       \/ /\ Rec.st = "present" /\ ~Req.flag
          /\ Replace([Rec EXCEPT !.leases = Seen(Rec, Req.attach)])
    /\ HandlerFrame

\* handle_detach_principal: the status stops with its lease.
Stopped(rec) == IF rec.status.state = "none" THEN NoStatus ELSE [rec.status EXCEPT !.state = "stopped"]
handle_detach_principal ==
    LET left == Others(Rec, Req.attach)
    IN  [Rec EXCEPT !.leases = left,
                    !.status = IF left # Rec.leases /\ (left = {} \/ @.attach = Req.attach)
                                 THEN Stopped(Rec) ELSE @]

DetachPrincipal ==
    /\ Handling("detach")
    /\ \/ Rec.st = "absent" /\ Refuse
       \/ Rec.st = "present" /\ Replace(handle_detach_principal)
    /\ HandlerFrame

DeletePrincipal ==
    /\ Handling("delete")
    /\ \/ Rec.st = "absent" /\ Refuse
       \/ Rec.st = "present" /\ Online(Rec) /\ ~Req.flag /\ Refuse
       \/ Rec.st = "present" /\ (Req.flag \/ ~Online(Rec)) /\ Replace(NoRecord)
    /\ HandlerFrame

-----------------------------------------------------------------------------
(* What a request, a sweep or the start writes, in this order.             *)

WriteFrame == UNCHANGED <<clientVars, queue, at, faults, crashes>>

\* write_principal_registry: the registry, then the status view; only then does
\* replace_principal_registry change memory.
WriteRegistry ==
    /\ pc = "registry"
    /\ registryFile' = cand
    /\ pc' = "status"
    /\ UNCHANGED <<mem, statusFile, views, appsFile, runtimes, cand, task>>
    /\ WriteFrame

\* A deleted principal's private apps leave the runtimes with it.
Deleting == task \in {"request", "cleanup"} /\ Req.kind = "delete"
WriteStatus ==
    /\ pc = "status"
    /\ statusFile' = cand
    /\ mem' = cand
    /\ \/ /\ task = "start"
          /\ pc' = "idle" /\ task' = "none" /\ UNCHANGED runtimes
       \/ /\ task = "sweep" \/ (task = "request" /\ ~Deleting)
          /\ pc' = "view" /\ UNCHANGED <<task, runtimes>>
       \/ /\ task = "request" /\ Deleting
          /\ runtimes' = runtimes \ InstancesOf(P)
          /\ task' = IF runtimes' = runtimes THEN "request" ELSE "cleanup"
          /\ pc' = "view"
    /\ UNCHANGED <<registryFile, views, appsFile, cand>>
    /\ WriteFrame

NextRequest == at' = at + 1 /\ pc' = "handle" /\ task' = "none" /\ cand' = NoDoc

\* write_principal_record_view and delete_principal_record_view.
WriteView ==
    /\ pc = "view"
    /\ \/ /\ task = "sweep"
          /\ views' = views \union {p \in PrincipalIds : mem[p].st = "present"}
          /\ pc' = "idle" /\ task' = "none" /\ cand' = NoDoc /\ UNCHANGED at
       \/ /\ Deleting
          /\ views' = views \ {P}
          /\ pc' = IF task = "cleanup" THEN "apps" ELSE "emit"
          /\ UNCHANGED <<cand, task>>
          /\ UNCHANGED at
       \/ /\ task = "request" /\ ~Deleting /\ ~Heartbeat
          /\ views' = views \union {P}
          /\ pc' = IF Req.kind \in {"create", "attach"} THEN "materialize" ELSE "emit"
          /\ UNCHANGED <<cand, task, at>>
       \/ /\ task = "request" /\ Heartbeat          \* answered by no event
          /\ views' = views \union {P}
          /\ NextRequest
    /\ UNCHANGED <<clientVars, mem, registryFile, statusFile, appsFile, runtimes, queue,
                   faults, crashes>>

\* materialize_private_apps_for_principal
Materialize ==
    /\ pc = "materialize"
    /\ runtimes' = runtimes \union InstancesOf(P)
    /\ pc' = IF InstancesOf(P) \subseteq runtimes THEN "emit" ELSE "apps"
    /\ UNCHANGED <<mem, files, cand, task>>
    /\ WriteFrame

\* sync_registry_to_disk
WriteApps ==
    /\ pc = "apps"
    /\ appsFile' = runtimes
    /\ pc' = "emit"
    /\ UNCHANGED <<mem, registryFile, statusFile, views, runtimes, cand, task>>
    /\ WriteFrame

\* The answer in the control stream; then the next request.
Emit ==
    /\ pc = "emit"
    /\ NextRequest
    /\ UNCHANGED <<clientVars, mem, files, runtimes, queue, faults, crashes>>

\* commit_pending_invocations, after the last one.
Commit ==
    /\ pc = "handle" /\ at \notin DOMAIN queue
    /\ committed' = committed \union {queue[i] : i \in DOMAIN queue}
    /\ queue' = <<>> /\ at' = 1
    /\ pc' = "tail"
    /\ UNCHANGED <<sinks, mem, files, runtimes, cand, task, faults, crashes>>

\* The end of poll_once: after the apps were polled, sync_runtime_registry_to_disk.
PollTail ==
    /\ pc = "tail"
    /\ appsFile' = runtimes
    /\ pc' = "idle"
    /\ UNCHANGED <<mem, registryFile, statusFile, views, runtimes, cand, task>>
    /\ WriteFrame

\* Mutants: the status of a swept lease stays; the lease stays.
Swept_KeepsStatus(rec) == [rec EXCEPT !.leases = Live(rec)]
Swept_KeepsLease(rec) == [rec EXCEPT !.status = NoStatus]

\* sweep_stale_attaches_once changes memory first, and then writes it.
Swept(rec) ==
    LET left == Live(rec)
    IN  IF left = rec.leases
          THEN rec
          ELSE [rec EXCEPT !.leases = left, !.status = IF left = {} THEN NoStatus ELSE @]
Sweep ==
    /\ pc = "idle"
    /\ \E p \in PrincipalIds : Live(mem[p]) # mem[p].leases
    /\ mem' = [p \in PrincipalIds |-> Swept(mem[p])]
    /\ cand' = mem'
    /\ pc' = "registry" /\ task' = "sweep"
    /\ UNCHANGED <<files, runtimes>>
    /\ WriteFrame

-----------------------------------------------------------------------------
(* Failures.                                                               *)

\* An error leaves the poll; what was not committed is drained again.
Abort ==
    /\ pc' = "idle" /\ task' = "none"
    /\ queue' = <<>> /\ at' = 1 /\ cand' = NoDoc
    /\ faults < MaxFaults
    /\ faults' = faults + 1
    /\ UNCHANGED <<clientVars, mem, crashes>>

\* A write fails.  Publishing a JSON file may leave it missing, which reads as
\* empty.  An error at the start ends the process, and is like a crash.
WriteError ==
    /\ task # "start"
    /\ \/ /\ pc = "registry"
          /\ registryFile' \in {registryFile, NoDoc} /\ UNCHANGED <<statusFile, views, appsFile>>
       \/ /\ pc = "status"
          /\ statusFile' \in {statusFile, NoDoc} /\ UNCHANGED <<registryFile, views, appsFile>>
       \/ /\ pc = "view" /\ task = "request" /\ ~Deleting
          /\ views' \in {views, views \ {P}} /\ UNCHANGED <<registryFile, statusFile, appsFile>>
       \/ /\ pc = "view" /\ (task = "sweep" \/ Deleting)
          /\ UNCHANGED files
       \/ /\ pc \in {"apps", "tail"}
          /\ appsFile' \in {appsFile, {}} /\ UNCHANGED <<registryFile, statusFile, views>>
       \/ /\ pc = "emit" \/ (pc = "handle" /\ at \notin DOMAIN queue)
          /\ UNCHANGED files
    /\ UNCHANGED runtimes
    /\ Abort

\* A private app cannot be built: the ones before it stay.  Or a built app's
\* sinks cannot be prepared.
BuildError ==
    /\ \/ /\ pc = "materialize"
          /\ \E s \in SUBSET InstancesOf(P) :
                 ~(InstancesOf(P) \subseteq runtimes \union s) /\ runtimes' = runtimes \union s
       \/ Handling("register") /\ PublicInstance(P) \notin runtimes /\ UNCHANGED runtimes
    /\ UNCHANGED files
    /\ Abort

Crash ==
    /\ pc # "down"
    /\ crashes < MaxCrashes
    /\ crashes' = crashes + 1
    /\ pc' = "down" /\ task' = "none"
    /\ mem' = NoDoc /\ runtimes' = {} /\ queue' = <<>> /\ at' = 1 /\ cand' = NoDoc
    /\ UNCHANGED <<clientVars, files, faults>>

\* Mutant: the files are not written again.
Restart_NoRefresh ==
    /\ pc = "down"
    /\ mem' = registryFile /\ UNCHANGED cand
    /\ runtimes' = appsFile
    /\ pc' = "idle" /\ UNCHANGED task
    /\ UNCHANGED <<clientVars, files, queue, at, faults, crashes>>

\* The supervisor loads both registries, writes the apps as it found them, and then
\* the principals' files (refresh_principal_status).
Restart ==
    /\ pc = "down"
    /\ mem' = registryFile /\ cand' = registryFile
    /\ runtimes' = appsFile
    /\ pc' = "registry" /\ task' = "start"
    /\ UNCHANGED <<clientVars, files, queue, at, faults, crashes>>

Handler ==
    \/ RegisterApp \/ UnregisterApp \/ CreatePrincipal \/ AttachPrincipal
    \/ UpdatePrincipal \/ DetachPrincipal \/ DeletePrincipal
Writes == WriteRegistry \/ WriteStatus \/ WriteView \/ Materialize \/ WriteApps \/ PollTail

Next ==
    \/ \E r \in Requests : ClientRequest(r)
    \/ Tick \/ BeginDrain
    \/ RegisterApp \/ UnregisterApp \/ CreatePrincipal \/ AttachPrincipal
    \/ UpdatePrincipal \/ DetachPrincipal \/ DeletePrincipal
    \/ WriteRegistry \/ WriteStatus \/ WriteView \/ Materialize \/ WriteApps
    \/ Emit \/ Commit \/ PollTail \/ Sweep
    \/ WriteError \/ BuildError \/ Crash \/ Restart

Spec == Init /\ [][Next]_vars

\* Time passes, the sweep timer fires and every step the supervisor has begun ends.
\* That a drain begins is not assumed: it takes a write (module ActionWake).
Fairness ==
    /\ WF_vars(Tick) /\ SF_vars(Sweep)
    /\ WF_vars(Handler \/ Writes \/ Emit \/ Commit \/ Restart)
FairSpec == Spec /\ Fairness

-----------------------------------------------------------------------------
(* Properties.                                                             *)

TypeOK ==
    /\ sinks \in Seq(Requests) /\ committed \subseteq Nat
    /\ mem \in Doc /\ registryFile \in Doc /\ statusFile \in Doc /\ cand \in Doc
    /\ views \subseteq PrincipalIds
    /\ runtimes \subseteq Instances /\ appsFile \subseteq Instances
    /\ queue \in Seq(Nat) /\ at \in Nat
    /\ pc \in States /\ task \in Tasks
    /\ faults \in Nat /\ crashes \in Nat

\* A principal has at most one lease: attaching beside stale leases replaces
\* them, and beside a live one needs a takeover, which replaces it.
SingleLease(doc) == \A p \in PrincipalIds : \A l, m \in doc[p].leases : l = m

\* An agent shown as running is the one that holds the lease; takeover, detach,
\* sweep and delete never leave the status of a former holder running.
RunningHolds(doc) ==
    \A p \in PrincipalIds : doc[p].status.state = "running" => Held(doc[p], doc[p].status.attach)

\* Both hold of the registry in memory and of the one on disk, whatever requests
\* are replayed, writes fail and crashes come between.
LeasesSound ==
    /\ SingleLease(mem) /\ RunningHolds(mem)
    /\ SingleLease(registryFile) /\ RunningHolds(registryFile)

\* Where the supervisor is between the steps of a request.
InFlight ==
    /\ queue \in Seq(1..Len(sinks))
    /\ pc \in {"idle", "down", "handle", "tail"} => task = "none"
    /\ pc = "materialize" => task = "request"
    /\ task \in {"request", "cleanup"} => at \in DOMAIN queue
    /\ pc \in {"registry", "status", "view", "materialize"} /\ task \in {"request", "cleanup"}
           => Req.kind \notin {"register", "unregister"}

\* Inductive: leases are sound in every copy of the registry, the candidate being
\* written and the status view too, whichever step of a request comes next.
LeaseInv ==
    /\ LeasesSound
    /\ SingleLease(cand) /\ RunningHolds(cand)
    /\ SingleLease(statusFile) /\ RunningHolds(statusFile)
    /\ InFlight

\* Between polls memory and files agree, wherever a crash fell: the registry, the
\* status view, and the runtimes with the app registry.
RegistriesAgree ==
    faults = 0 /\ pc = "idle" =>
        registryFile = mem /\ statusFile = mem /\ appsFile = runtimes

Settled == pc = "idle" /\ Pending = {}

\* Once every request is committed, each registered principal has all its private
\* app instances, although building them or a write had failed, or the process had
\* died, and the request was handled again.  (Not after both: a failed publish may
\* leave no app registry, and the process that starts next has then no instances.)
PrivateAppsMaterialized ==
    Settled /\ (faults = 0 \/ crashes = 0) =>
        \A p \in PrincipalIds : mem[p].st = "present" => InstancesOf(p) \subseteq runtimes

\* A live lease ends only by its own detach, a takeover, a forced delete or a
\* crash: never by another agent's attach, a sweep or a replayed request.
LiveLeaseKept ==
    [][ \A p \in PrincipalIds : \A l \in Live(mem[p]) :
            Held(mem'[p], l.attach)
            \/ Crash
            \/ /\ WriteStatus /\ task = "request" /\ P = p
               /\ \/ Req.kind = "detach" /\ Req.attach = l.attach
                  \/ Req.kind \in {"attach", "delete"} /\ Req.flag ]_vars

\* Liveness: the lease of an agent that died is swept.
StaleLeaseSwept ==
    \A p \in PrincipalIds, a \in AttachIds :
        (\E l \in mem[p].leases : l.attach = a /\ is_principal_attach_stale(l))
        ~> ~(\E l \in mem[p].leases : l.attach = a /\ is_principal_attach_stale(l))
=============================================================================
