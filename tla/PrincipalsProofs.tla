-------------------------- MODULE PrincipalsProofs --------------------------
(***************************************************************************)
(* Proofs about Principals, for any principals, agents and apps and any    *)
(* number of requests, failing writes and crashes: its types; that leases  *)
(* are sound in every copy of the principal registry; that memory and      *)
(* files agree between polls; that no live lease ends but by its own       *)
(* detach, a takeover, a forced delete or a crash; and that no principal   *)
(* is left without its private apps.                                       *)
(***************************************************************************)
EXTENDS Principals, FiniteSetTheorems, TLAPS

\* What one record satisfies: its type, one lease at most, and a running agent
\* that holds it.
RecordOK(rec) ==
    /\ rec \in Record
    /\ \A l, m \in rec.leases : l = m
    /\ rec.status.state = "running" => Held(rec, rec.status.attach)

DocOK(doc) ==
    /\ doc \in Doc
    /\ \A p \in PrincipalIds : RecordOK(doc[p])

Docs == DocOK(mem) /\ DocOK(registryFile) /\ DocOK(statusFile) /\ DocOK(cand)

Control ==
    /\ sinks \in Seq(Requests) /\ committed \subseteq Nat
    /\ views \subseteq PrincipalIds
    /\ runtimes \subseteq Instances /\ appsFile \subseteq Instances
    /\ at \in Nat
    /\ pc \in States /\ task \in Tasks
    /\ faults \in Nat /\ crashes \in Nat
    /\ InFlight

-----------------------------------------------------------------------------
(* Records.                                                                *)

\* The record without leases or status, and the one create_principal makes.
LEMMA EmptyRecords == RecordOK(NoRecord) /\ RecordOK(NewRecord)
<1>1. NoStatus \in Status
  BY DEF NoStatus, Status, AgentStates
<1>2. NoRecord \in Record /\ NewRecord \in Record
  BY <1>1 DEF NoRecord, NewRecord, Record
<1>3. NoRecord.leases = {} /\ NewRecord.leases = {}
  BY DEF NoRecord, NewRecord
<1>4. NoRecord.status.state = "none" /\ NewRecord.status.state = "none"
  BY DEF NoRecord, NewRecord, NoStatus
<1>. QED BY <1>2, <1>3, <1>4 DEF RecordOK

\* A registry without principals, and the one earlier runs left.
LEMMA EmptyDocs == DocOK(NoDoc) /\ DocOK(KnownDoc)
<1>. NoRecord \in Record /\ NewRecord \in Record
  BY EmptyRecords DEF RecordOK
<1>. QED BY EmptyRecords DEF DocOK, NoDoc, KnownDoc, Doc

\* One record of a registry is replaced.
LEMMA ReplaceOK ==
  ASSUME NEW doc, DocOK(doc), NEW p, NEW rec, RecordOK(rec)
  PROVE  DocOK([doc EXCEPT ![p] = rec])
BY DEF DocOK, Doc, RecordOK

\* A fresh lease is a lease that is not stale.
LEMMA NewLeaseType ==
  ASSUME NEW a \in AttachIds
  PROVE  NewLease(a) \in Lease /\ NewLease(a).attach = a
<1>. StaleAfter \in Nat
  BY PrincipalsAssumption
<1>. QED BY DEF NewLease, Lease

\* Refreshing a lease keeps its holder and adds none.
LEMMA SeenOK ==
  ASSUME NEW rec, RecordOK(rec), NEW a \in AttachIds
  PROVE  /\ Seen(rec, a) \in SUBSET Lease
         /\ \A l, m \in Seen(rec, a) : l = m
         /\ \A b : Held(rec, b) => \E l \in Seen(rec, a) : l.attach = b
<1>1. rec.leases \in SUBSET Lease
  BY DEF RecordOK, Record
<1>2. CASE ~Held(rec, a)
  BY <1>1, <1>2 DEF Seen, Held, RecordOK
<1>3. CASE Held(rec, a)
  <2>1. Others(rec, a) = {}
    BY <1>3 DEF Held, Others, RecordOK
  <2>2. Seen(rec, a) = {NewLease(a)}
    BY <1>3, <2>1 DEF Seen
  <2>3. \A b : Held(rec, b) => b = a
    BY <1>3 DEF Held, RecordOK
  <2>. QED BY <2>2, <2>3, NewLeaseType
<1>. QED BY <1>2, <1>3

\* A lease that is refreshed, with or without a status patch.
LEMMA RefreshOK ==
  ASSUME NEW rec, RecordOK(rec), NEW a \in AttachIds
  PROVE  /\ RecordOK([rec EXCEPT !.leases = Seen(rec, a)])
         /\ Held(rec, a) =>
              RecordOK([rec EXCEPT !.leases = Seen(rec, a),
                                   !.status = [state |-> "running", attach |-> a]])
<1>1. rec \in Record
  BY DEF RecordOK
<1>. DEFINE r == [rec EXCEPT !.leases = Seen(rec, a)]
            s == [rec EXCEPT !.leases = Seen(rec, a),
                             !.status = [state |-> "running", attach |-> a]]
<1>2. r \in Record /\ r.leases = Seen(rec, a) /\ r.status = rec.status
  BY <1>1, SeenOK DEF Record
<1>3. RecordOK(r)
  BY <1>2, SeenOK DEF RecordOK, Held
<1>4. [state |-> "running", attach |-> a] \in Status
  BY DEF Status, AgentStates
<1>5. s \in Record /\ s.leases = Seen(rec, a) /\ s.status.attach = a
  BY <1>1, <1>4, SeenOK DEF Record
<1>6. ASSUME Held(rec, a) PROVE RecordOK(s)
  BY <1>5, <1>6, SeenOK DEF RecordOK, Held
<1>. QED BY <1>3, <1>6

\* What handle_attach_principal makes of a sound record is sound: the other leases
\* go, and with them a running status.
LEMMA AttachOK ==
  ASSUME RecordOK(Rec), Req.attach \in AttachIds
  PROVE  RecordOK(handle_attach_principal)
<1>. DEFINE a == Req.attach
            taken == [Rec EXCEPT !.leases = {NewLease(a)}, !.status = Taken(Rec)]
            first == [Rec EXCEPT !.leases = Rec.leases \union {NewLease(a)}]
<1>1. Rec \in Record
  BY DEF RecordOK
<1>2. CASE Held(Rec, a)
  BY <1>2, RefreshOK DEF handle_attach_principal
<1>3. CASE ~Held(Rec, a) /\ (Req.flag \/ Rec.leases # {})
  <2>1. Taken(Rec) \in Status /\ Taken(Rec).state # "running"
    BY DEF Taken, NoStatus, Status, AgentStates
  <2>2. taken \in Record /\ taken.leases = {NewLease(a)} /\ taken.status = Taken(Rec)
    BY <1>1, <2>1, NewLeaseType DEF Record
  <2>3. RecordOK(taken)
    BY <2>1, <2>2 DEF RecordOK
  <2>. QED BY <1>3, <2>3 DEF handle_attach_principal
<1>4. CASE ~Held(Rec, a) /\ ~(Req.flag \/ Rec.leases # {})
  <2>1. Rec.leases = {} /\ Rec.status.state # "running"
    BY <1>4 DEF RecordOK, Held
  <2>2. first \in Record /\ first.leases = {NewLease(a)} /\ first.status = Rec.status
    BY <1>1, <2>1, NewLeaseType DEF Record
  <2>3. RecordOK(first)
    BY <2>1, <2>2 DEF RecordOK
  <2>. QED BY <1>4, <2>3 DEF handle_attach_principal
<1>. QED BY <1>2, <1>3, <1>4

\* Some leases of a sound record, with a status that is not running, or with all
\* of them and its own.
LEMMA FewerLeases ==
  ASSUME NEW rec, RecordOK(rec), NEW left \in SUBSET rec.leases,
         NEW st \in Status, st.state # "running" \/ (st = rec.status /\ left = rec.leases)
  PROVE  RecordOK([rec EXCEPT !.leases = left, !.status = st])
<1>. DEFINE r == [rec EXCEPT !.leases = left, !.status = st]
<1>1. rec \in Record
  BY DEF RecordOK
<1>2. r \in Record /\ r.leases = left /\ r.status = st
  BY <1>1 DEF Record
<1>3. \A l, m \in left : l = m
  BY DEF RecordOK
<1>4. st.state = "running" => Held(r, st.attach)
  BY <1>2 DEF RecordOK, Held
<1>. QED BY <1>2, <1>3, <1>4 DEF RecordOK

\* handle_detach_principal: a lease that leaves was the only one.
LEMMA DetachOK ==
  ASSUME RecordOK(Rec)
  PROVE  RecordOK(handle_detach_principal)
<1>. DEFINE left == Others(Rec, Req.attach)
            st == IF left # Rec.leases /\ (left = {} \/ Rec.status.attach = Req.attach)
                    THEN Stopped(Rec) ELSE Rec.status
<1>1. left \in SUBSET Rec.leases
  BY DEF Others
<1>2. Rec.status \in Status
  BY DEF RecordOK, Record
<1>3. Stopped(Rec) \in Status /\ Stopped(Rec).state # "running"
  BY <1>2 DEF Stopped, NoStatus, Status, AgentStates
<1>4. left # Rec.leases => left = {}
  BY DEF Others, RecordOK
<1>5. st \in Status /\ (st.state # "running" \/ (st = Rec.status /\ left = Rec.leases))
  BY <1>2, <1>3, <1>4
<1>6. RecordOK([Rec EXCEPT !.leases = left, !.status = st])
  BY <1>1, <1>5, FewerLeases
<1>. QED BY <1>6 DEF handle_detach_principal

\* The sweep: a stale lease that leaves was the only one, and its status goes too.
LEMMA SweptOK ==
  ASSUME NEW rec, RecordOK(rec)
  PROVE  RecordOK(Swept(rec))
<1>. DEFINE left == Live(rec)
            st == IF left = {} THEN NoStatus ELSE rec.status
<1>1. left \in SUBSET rec.leases
  BY DEF Live
<1>2. rec.status \in Status /\ NoStatus \in Status /\ NoStatus.state # "running"
  BY DEF RecordOK, Record, NoStatus, Status, AgentStates
<1>3. left # rec.leases => left = {}
  BY DEF Live, RecordOK
<1>4. CASE left = rec.leases
  BY <1>4 DEF Swept
<1>5. CASE left # rec.leases
  <2>1. st = NoStatus
    BY <1>3, <1>5
  <2>2. RecordOK([rec EXCEPT !.leases = left, !.status = st])
    BY <1>1, <1>2, <2>1, FewerLeases
  <2>. QED BY <1>5, <2>2 DEF Swept
<1>. QED BY <1>4, <1>5

\* Time passes.
LEMMA OlderOK ==
  ASSUME NEW doc, DocOK(doc)
  PROVE  DocOK(Older(doc))
<1>. DEFINE older(l) == [l EXCEPT !.age = IF l.age <= StaleAfter THEN l.age + 1 ELSE l.age]
            rec(p) == [doc[p] EXCEPT !.leases = {older(l) : l \in doc[p].leases}]
<1>1. StaleAfter \in Nat
  BY PrincipalsAssumption
<1>2. \A l \in Lease : older(l) \in Lease /\ older(l).attach = l.attach
  BY <1>1 DEF Lease
<1>3. ASSUME NEW p \in PrincipalIds PROVE RecordOK(rec(p))
  <2>1. RecordOK(doc[p]) /\ doc[p] \in Record /\ doc[p].leases \in SUBSET Lease
    BY DEF DocOK, RecordOK, Record
  <2>2. /\ rec(p) \in Record /\ rec(p).status = doc[p].status
        /\ rec(p).leases = {older(l) : l \in doc[p].leases}
    BY <1>2, <2>1 DEF Record
  <2>3. \A l, m \in rec(p).leases : l = m
    BY <2>1, <2>2 DEF RecordOK
  <2>4. ASSUME doc[p].status.state = "running"
        PROVE  Held(rec(p), doc[p].status.attach)
    <3>1. PICK l \in doc[p].leases : l.attach = doc[p].status.attach
      BY <2>1, <2>4 DEF RecordOK, Held
    <3>2. older(l) \in rec(p).leases /\ older(l).attach = doc[p].status.attach
      BY <1>2, <2>1, <2>2, <3>1
    <3>. HIDE DEF older, rec
    <3>. QED BY <3>2 DEF Held
  <2>. QED BY <2>2, <2>3, <2>4 DEF RecordOK
<1>4. Older(doc) = [p \in PrincipalIds |-> rec(p)]
  BY DEF Older
<1>. HIDE DEF rec
<1>5. \A p \in PrincipalIds : rec(p) \in Record
  BY <1>3 DEF RecordOK
<1>. QED BY <1>3, <1>4, <1>5 DEF DocOK, Doc

-----------------------------------------------------------------------------
(* The registry in its copies.                                             *)

\* The request being handled, and whom it is about.
LEMMA CurrentRequest ==
  ASSUME Control, at \in DOMAIN queue
  PROVE  /\ Req \in Requests /\ Req.attach \in AttachIds
         /\ IF Req.kind \in {"register", "unregister"} THEN P \in PublicApps
                                                      ELSE P \in PrincipalIds
<1>1. queue[at] \in 1..Len(sinks)
  BY DEF Control, InFlight
<1>2. Req \in Requests
  BY <1>1 DEF Control, Req
<1>3. Req \in Request
  BY <1>2, PrincipalsAssumption
<1>. QED BY <1>2, <1>3, PrincipalsAssumption DEF Request, P

\* A request handler leaves the registry alone but for the candidate, which is
\* sound.
LEMMA HandlerDocs ==
  ASSUME Control, Docs, Handler
  PROVE  Docs'
<1>1. UNCHANGED <<mem, registryFile, statusFile>>
  BY DEF Handler, RegisterApp, UnregisterApp, CreatePrincipal, AttachPrincipal,
         UpdatePrincipal, DetachPrincipal, DeletePrincipal, HandlerFrame, files
<1>2. DocOK(mem) /\ DocOK(cand)
  BY DEF Docs
<1>3. ASSUME NEW kind, Handling(kind), kind \notin {"register", "unregister"}
      PROVE  Req.attach \in AttachIds /\ P \in PrincipalIds /\ RecordOK(Rec)
  BY <1>2, <1>3, CurrentRequest DEF Handling, Rec, DocOK
<1>4. ASSUME NEW rec, RecordOK(rec), Replace(rec)
      PROVE  DocOK(cand')
  BY <1>2, <1>4, ReplaceOK DEF Replace
<1>5. ASSUME RegisterApp \/ UnregisterApp PROVE DocOK(cand')
  BY <1>2, <1>5 DEF RegisterApp, UnregisterApp, Refuse
<1>6. ASSUME CreatePrincipal PROVE DocOK(cand')
  BY <1>2, <1>4, <1>6, EmptyRecords DEF CreatePrincipal
<1>7. ASSUME AttachPrincipal PROVE DocOK(cand')
  <2>1. RecordOK(handle_attach_principal)
    BY <1>3, <1>7, AttachOK DEF AttachPrincipal
  <2>. QED BY <1>2, <1>4, <1>7, <2>1 DEF AttachPrincipal, Refuse
<1>8. ASSUME UpdatePrincipal PROVE DocOK(cand')
  <2>1. Req.attach \in AttachIds /\ RecordOK(Rec)
    BY <1>3, <1>8 DEF UpdatePrincipal
  <2>2. current_active_attach(Rec) = Req.attach => Held(Rec, Req.attach)
    <3>1. NoAttach # Req.attach
      BY <2>1, PrincipalsAssumption
    <3>. QED BY <3>1 DEF current_active_attach, Held
  <2>. QED BY <1>2, <1>4, <1>8, <2>1, <2>2, RefreshOK DEF UpdatePrincipal, Refuse
<1>9. ASSUME DetachPrincipal PROVE DocOK(cand')
  <2>1. RecordOK(handle_detach_principal)
    BY <1>3, <1>9, DetachOK DEF DetachPrincipal
  <2>. QED BY <1>2, <1>4, <1>9, <2>1 DEF DetachPrincipal, Refuse
<1>10. ASSUME DeletePrincipal PROVE DocOK(cand')
  BY <1>2, <1>4, <1>10, EmptyRecords DEF DeletePrincipal, Refuse
<1>11. DocOK(cand')
  BY <1>5, <1>6, <1>7, <1>8, <1>9, <1>10 DEF Handler
<1>. QED BY <1>1, <1>11 DEF Docs

\* Every step keeps every copy sound: a copy is replaced by another, by an empty
\* registry, or by what time or the sweep makes of the one in memory.
LEMMA DocsStep ==
  ASSUME Control, Docs, Next
  PROVE  Docs'
<1>1. DocOK(mem) /\ DocOK(registryFile) /\ DocOK(statusFile) /\ DocOK(cand)
  BY DEF Docs
<1>2. DocOK(NoDoc)
  BY EmptyDocs
<1>3. ASSUME NEW r \in Requests, ClientRequest(r) PROVE Docs'
  BY <1>1, <1>3 DEF ClientRequest, Docs, files
<1>4. CASE Tick
  BY <1>1, <1>4, OlderOK DEF Tick, Docs
<1>5. CASE BeginDrain
  BY <1>1, <1>5 DEF BeginDrain, Docs, files
<1>6. CASE Handler
  BY <1>6, HandlerDocs
<1>7. CASE WriteRegistry \/ WriteStatus \/ Materialize \/ WriteApps \/ PollTail
  BY <1>1, <1>7 DEF WriteRegistry, WriteStatus, Materialize, WriteApps, PollTail, Docs, files
<1>8. CASE WriteView
  BY <1>1, <1>2, <1>8 DEF WriteView, NextRequest, Docs
<1>9. CASE Emit \/ Commit
  BY <1>1, <1>2, <1>9 DEF Emit, Commit, NextRequest, Docs, files
<1>10. CASE Sweep
  <2>1. DocOK(mem')
    <3>1. \A p \in PrincipalIds : RecordOK(Swept(mem[p]))
      BY <1>1, SweptOK DEF DocOK
    <3>. QED BY <1>10, <3>1 DEF Sweep, DocOK, Doc, RecordOK
  <2>. QED BY <1>1, <1>10, <2>1 DEF Sweep, Docs, files
<1>11. CASE WriteError
  BY <1>1, <1>2, <1>11 DEF WriteError, Abort, Docs, files
<1>12. CASE BuildError
  BY <1>1, <1>2, <1>12 DEF BuildError, Abort, Docs, files
<1>13. CASE Crash
  BY <1>1, <1>2, <1>13 DEF Crash, Docs, files
<1>14. CASE Restart
  BY <1>1, <1>14 DEF Restart, Docs, files
<1>. QED BY <1>3, <1>4, <1>5, <1>6, <1>7, <1>8, <1>9, <1>10, <1>11, <1>12, <1>13, <1>14
         DEF Next, Handler

-----------------------------------------------------------------------------
(* Control.                                                                *)

\* What a principal's instances are, and a public app's.
LEMMA InstanceTypes ==
  /\ \A p \in PrincipalIds : InstancesOf(p) \subseteq Instances
  /\ \A x \in PublicApps : PublicInstance(x) \in Instances
  /\ PrivateApps \X Known \subseteq Instances
BY PrincipalsAssumption DEF InstancesOf, PublicInstance, Instances

\* A client's request leaves the ones before it, and the drain, as they are.
LEMMA ControlClient ==
  ASSUME Control, NEW r \in Requests, ClientRequest(r)
  PROVE  Control'
<1>1. sinks \in Seq(Requests) /\ queue \in Seq(1..Len(sinks))
  BY DEF Control, InFlight
<1>2. sinks' = Append(sinks, r) /\ queue' = queue /\ at' = at /\ pc' = pc /\ task' = task
  BY DEF ClientRequest
<1>3. sinks' \in Seq(Requests) /\ Len(sinks') = Len(sinks) + 1
  BY <1>1, <1>2
<1>4. queue' \in Seq(1..Len(sinks'))
  BY <1>1, <1>2, <1>3
<1>5. ASSUME at \in DOMAIN queue PROVE Req' = Req
  BY <1>1, <1>2, <1>5 DEF Req
<1>6. InFlight'
  BY <1>2, <1>4, <1>5 DEF Control, InFlight
<1>. QED BY <1>3, <1>6 DEF Control, ClientRequest, files

\* A drain is a sequence of positions in the sinks.
LEMMA ControlBegin ==
  ASSUME Control, BeginDrain
  PROVE  Control'
<1>1. sinks \in Seq(Requests)
  BY DEF Control
<1>2. Len(sinks) \in Nat
  BY <1>1
<1>3. IsFiniteSet(Pending)
  <2>1. IsFiniteSet(1..Len(sinks))
    BY <1>2, FS_Interval
  <2>. QED BY <2>1, FS_Subset DEF Pending
<1>4. Cardinality(Pending) \in Nat
  BY <1>3, FS_CardinalityType
<1>5. Pending \subseteq 1..Len(sinks)
  BY DEF Pending
<1>6. queue' \in Seq(1..Len(sinks))
  <2>1. queue' \in [1..Cardinality(Pending) -> Pending]
    BY DEF BeginDrain
  <2>2. ASSUME NEW n \in Nat, NEW S, NEW T, S \subseteq T, NEW q \in [1..n -> S]
        PROVE  q \in Seq(T)
    BY <2>2
  <2>. QED BY <1>4, <1>5, <2>1, <2>2
<1>7. task = "none"
  BY DEF Control, InFlight, BeginDrain
<1>8. InFlight'
  BY <1>6, <1>7 DEF InFlight, BeginDrain, clientVars
<1>. QED BY <1>8 DEF Control, BeginDrain, States, clientVars, files

\* A handler sets out to write, to sync the apps or to answer.
LEMMA ControlHandler ==
  ASSUME Control, Handler
  PROVE  Control'
<1>1. /\ task' = "request"
      /\ UNCHANGED <<sinks, committed, views, appsFile, queue, at, faults, crashes>>
  BY DEF Handler, RegisterApp, UnregisterApp, CreatePrincipal, AttachPrincipal,
         UpdatePrincipal, DetachPrincipal, DeletePrincipal, HandlerFrame, files, clientVars
<1>2. at \in DOMAIN queue
  BY DEF Handler, RegisterApp, UnregisterApp, CreatePrincipal, AttachPrincipal,
         UpdatePrincipal, DetachPrincipal, DeletePrincipal, Handling
<1>3. Req' = Req
  BY <1>1 DEF Req
<1>4. CASE RegisterApp \/ UnregisterApp
  <2>1. P \in PublicApps
    BY <1>2, <1>4, CurrentRequest DEF RegisterApp, UnregisterApp, Handling
  <2>2. pc' \in {"emit", "apps"} /\ runtimes' \subseteq Instances
    BY <1>4, <2>1, InstanceTypes DEF RegisterApp, UnregisterApp, Refuse, Control
  <2>3. InFlight'
    BY <1>1, <1>2, <2>2 DEF InFlight, Control
  <2>. QED BY <1>1, <2>2, <2>3 DEF Control, States, Tasks
<1>5. CASE CreatePrincipal \/ AttachPrincipal \/ UpdatePrincipal \/ DetachPrincipal
           \/ DeletePrincipal
  <2>1. Req.kind \notin {"register", "unregister"}
    BY <1>5 DEF CreatePrincipal, AttachPrincipal, UpdatePrincipal, DetachPrincipal,
                DeletePrincipal, Handling
  <2>2. pc' \in {"emit", "registry", "view"} /\ runtimes' = runtimes
    BY <1>5 DEF CreatePrincipal, AttachPrincipal, UpdatePrincipal, DetachPrincipal,
                DeletePrincipal, Refuse, Replace
  <2>3. InFlight'
    BY <1>1, <1>2, <1>3, <2>1, <2>2 DEF InFlight, Control
  <2>. QED BY <1>1, <2>2, <2>3 DEF Control, States, Tasks
<1>. QED BY <1>4, <1>5 DEF Handler

\* The writes of a request, of a sweep and of the start.
LEMMA ControlWrites ==
  ASSUME Control, WriteRegistry \/ WriteStatus \/ WriteView \/ Materialize \/ WriteApps
  PROVE  Control'
<1>1. UNCHANGED <<sinks, committed, queue, faults, crashes>>
  BY DEF WriteRegistry, WriteStatus, WriteView, Materialize, WriteApps, WriteFrame, clientVars
<1>2. CASE WriteRegistry
  <2>1. InFlight'
    BY <1>1, <1>2 DEF WriteRegistry, WriteFrame, InFlight, Control, Req
  <2>. QED BY <1>1, <1>2, <2>1 DEF WriteRegistry, WriteFrame, Control, States
<1>3. CASE WriteStatus
  <2>1. at' = at /\ Req' = Req /\ views' = views /\ appsFile' = appsFile
    BY <1>1, <1>3 DEF WriteStatus, WriteFrame, Req
  <2>2. CASE pc' = "idle" /\ task' = "none" /\ UNCHANGED runtimes
    BY <1>1, <2>1, <2>2 DEF InFlight, Control, States, Tasks
  <2>3. CASE pc' = "view" /\ task' \in {task, "cleanup"} /\ runtimes' \subseteq runtimes
             /\ pc = "status" /\ (task' = task \/ task = "request")
    <3>1. InFlight'
      BY <1>1, <2>1, <2>3 DEF InFlight, Control
    <3>. QED BY <1>1, <2>1, <2>3, <3>1 DEF Control, States, Tasks
  <2>. QED BY <1>3, <2>2, <2>3 DEF WriteStatus
<1>4. CASE WriteView
  <2>1. runtimes' = runtimes /\ appsFile' = appsFile /\ pc = "view"
    BY <1>4 DEF WriteView
  <2>2. CASE pc' \in {"idle", "handle"} /\ task' = "none" /\ at' \in {at, at + 1}
             /\ views' \subseteq PrincipalIds
    BY <1>1, <2>1, <2>2 DEF InFlight, Control, States, Tasks
  <2>3. CASE pc' \in {"apps", "emit", "materialize"} /\ task' = task /\ at' = at
             /\ task \in {"request", "cleanup"} /\ (pc' = "materialize" => task = "request")
             /\ views' \subseteq PrincipalIds
    <3>1. Req' = Req
      BY <1>1, <2>3 DEF Req
    <3>2. InFlight'
      BY <1>1, <2>1, <2>3, <3>1 DEF InFlight, Control
    <3>. QED BY <1>1, <2>1, <2>3, <3>2 DEF Control, States, Tasks
  <2>4. task \in {"request", "cleanup"} => P \in PrincipalIds
    BY <2>1, CurrentRequest DEF InFlight, Control
  <2>5. views \subseteq PrincipalIds
    BY DEF Control
  <2>. QED BY <1>4, <2>2, <2>3, <2>4, <2>5 DEF WriteView, NextRequest, Deleting
<1>5. CASE Materialize
  <2>1. task = "request" /\ at \in DOMAIN queue /\ Req.kind \notin {"register", "unregister"}
    BY <1>5 DEF Materialize, InFlight, Control
  <2>2. runtimes' \subseteq Instances
    BY <1>5, <2>1, CurrentRequest, InstanceTypes DEF Materialize, Control
  <2>3. InFlight'
    BY <1>1, <1>5, <2>1 DEF Materialize, WriteFrame, InFlight, Control
  <2>. QED BY <1>1, <1>5, <2>2, <2>3 DEF Materialize, WriteFrame, files, Control, States
<1>6. CASE WriteApps
  <2>1. InFlight'
    BY <1>1, <1>6 DEF WriteApps, WriteFrame, InFlight, Control
  <2>. QED BY <1>1, <1>6, <2>1 DEF WriteApps, WriteFrame, Control, States
<1>. QED BY <1>2, <1>3, <1>4, <1>5, <1>6

\* The steps that end a request or a poll, and failures: no request is in hand
\* afterwards.
LEMMA ControlEnds ==
  ASSUME Control,
         Tick \/ Emit \/ Commit \/ PollTail \/ Sweep \/ WriteError \/ BuildError
           \/ Crash \/ Restart
  PROVE  Control'
<1>1. sinks' = sinks
  BY DEF Tick, Emit, Commit, PollTail, Sweep, WriteError, BuildError, Crash, Restart,
         Abort, WriteFrame, clientVars
<1>2. <<>> \in Seq(1..Len(sinks))
  OBVIOUS
<1>3. CASE Tick
  BY <1>1, <1>3 DEF Tick, Control, InFlight, clientVars, Req
<1>4. CASE Emit
  BY <1>1, <1>4 DEF Emit, NextRequest, Control, InFlight, clientVars, files, States, Tasks
<1>5. CASE Commit
  <2>1. committed' \subseteq Nat
    <3>1. queue \in Seq(1..Len(sinks)) /\ committed \subseteq Nat
      BY DEF Control, InFlight
    <3>2. \A i \in DOMAIN queue : queue[i] \in Nat
      BY <3>1
    <3>. QED BY <1>5, <3>1, <3>2 DEF Commit
  <2>2. task = "none"
    BY <1>5 DEF Commit, Control, InFlight
  <2>3. InFlight'
    BY <1>1, <1>2, <1>5, <2>2 DEF Commit, InFlight
  <2>. QED BY <1>1, <1>5, <2>1, <2>3 DEF Commit, Control, files, States
<1>6. CASE PollTail
  BY <1>1, <1>6 DEF PollTail, WriteFrame, Control, InFlight, clientVars, States
<1>7. CASE Sweep
  BY <1>1, <1>7 DEF Sweep, WriteFrame, Control, InFlight, clientVars, files, States, Tasks
<1>8. ASSUME Abort, runtimes' \subseteq Instances, appsFile' \subseteq Instances,
             views' \subseteq PrincipalIds
      PROVE  Control'
  BY <1>1, <1>2, <1>8 DEF Abort, Control, InFlight, clientVars, States, Tasks
<1>9. CASE WriteError
  BY <1>8, <1>9 DEF WriteError, Control, files
<1>10. CASE BuildError
  <2>1. pc = "materialize" =>
          at \in DOMAIN queue /\ Req.kind \notin {"register", "unregister"}
    BY DEF Control, InFlight
  <2>2. pc = "materialize" => InstancesOf(P) \subseteq Instances
    BY <2>1, CurrentRequest, InstanceTypes
  <2>3. runtimes' \subseteq Instances
    BY <1>10, <2>2 DEF BuildError, Handling, Control
  <2>. QED BY <1>8, <1>10, <2>3 DEF BuildError, Control, files
<1>11. CASE Crash
  BY <1>1, <1>2, <1>11 DEF Crash, Control, InFlight, clientVars, files, States, Tasks
<1>12. CASE Restart
  BY <1>1, <1>12 DEF Restart, Control, InFlight, clientVars, files, States, Tasks
<1>. QED BY <1>3, <1>4, <1>5, <1>6, <1>7, <1>9, <1>10, <1>11, <1>12

-----------------------------------------------------------------------------

\* Init establishes both parts of the invariant.
LEMMA PrincipalsInit == Init => Control /\ Docs
<1>. SUFFICES ASSUME Init PROVE Control /\ Docs
  OBVIOUS
<1>1. <<>> \in Seq(Requests) /\ <<>> \in Seq(1..Len(sinks))
  OBVIOUS
<1>2. Docs
  BY EmptyDocs DEF Init, Docs
<1>3. InFlight
  BY <1>1 DEF Init, InFlight
<1>. QED BY <1>1, <1>2, <1>3, InstanceTypes, PrincipalsAssumption DEF Init, Control, States, Tasks

\* Every step preserves them.
LEMMA PrincipalsStep == Control /\ Docs /\ [Next]_vars => Control' /\ Docs'
<1>. SUFFICES ASSUME Control, Docs, [Next]_vars PROVE Control' /\ Docs'
  OBVIOUS
<1>1. CASE Next
  BY <1>1, DocsStep, ControlClient, ControlBegin, ControlHandler, ControlWrites, ControlEnds
     DEF Next, Handler
<1>2. CASE UNCHANGED vars
  BY <1>2 DEF vars, Control, Docs, InFlight, Req
<1>. QED BY <1>1, <1>2

\* Both parts of the invariant hold in every reachable state.
LEMMA PrincipalsInvariant == Spec => [](Control /\ Docs)
BY PrincipalsInit, PrincipalsStep, PTL DEF Spec

\* The types of the control plane's state, for all constants.
THEOREM PrincipalsTypeOK == Spec => []TypeOK
<1>1. Control /\ Docs => TypeOK
  <2>. SUFFICES ASSUME Control, Docs PROVE TypeOK
    OBVIOUS
  <2>1. queue \in Seq(Nat)
    <3>1. queue \in Seq(1..Len(sinks))
      BY DEF Control, InFlight
    <3>. QED BY <3>1
  <2>. QED BY <2>1 DEF TypeOK, Control, Docs, DocOK
<1>. QED BY <1>1, PrincipalsInvariant, PTL

\* handle_attach_principal, handle_update_principal, handle_detach_principal, the
\* sweep, deletion, failing writes, replays and restarts never leave a principal
\* with two leases or a running agent without one, in memory or on disk.
THEOREM LeasesAreSound == Spec => []LeasesSound
<1>1. Control /\ Docs => LeasesSound
  BY DEF Docs, DocOK, RecordOK, LeasesSound, SingleLease, RunningHolds
<1>. QED BY <1>1, PrincipalsInvariant, PTL

-----------------------------------------------------------------------------
(* The registries in memory and on disk.                                   *)

\* An absent principal has no leases.
AbsentEmpty(doc) == \A p \in PrincipalIds : doc[p].st = "absent" => doc[p].leases = {}
AbsentInv == AbsentEmpty(mem) /\ AbsentEmpty(registryFile) /\ AbsentEmpty(statusFile) /\ AbsentEmpty(cand)

\* Without failing writes the files differ from memory only within the writes of a request.
AgreeInv ==
    faults = 0 =>
    /\ pc \notin {"registry", "status", "down"} => registryFile = mem /\ statusFile = mem
    /\ pc = "status" => registryFile = cand
    /\ pc \notin {"apps", "down"} /\ ~(pc = "view" /\ task = "cleanup") => appsFile = runtimes

\* What the candidate about to be written does to live leases.
Excused(l) ==
    \/ Req.kind = "detach" /\ Req.attach = l.attach
    \/ Req.kind \in {"attach", "delete"} /\ Req.flag
KeepInv ==
    /\ pc = "down" => \A p \in PrincipalIds : mem[p].leases = {}
    /\ pc \in {"registry", "status"} /\ task \in {"start", "sweep"} => cand = mem
    /\ pc \in {"registry", "status"} /\ task = "request" =>
           \A p \in PrincipalIds : \A l \in Live(mem[p]) :
               Held(cand[p], l.attach) \/ (P = p /\ Excused(l))

\* The positions of a drain are distinct and not committed.
QueueInv ==
    /\ \A i, j \in DOMAIN queue : queue[i] = queue[j] => i = j
    /\ \A i \in DOMAIN queue : queue[i] \notin committed
    /\ at >= 1
    /\ pc \in {"idle", "down", "tail"} \/ task \in {"start", "sweep"} => queue = <<>> /\ at = 1
    /\ pc = "down" => crashes > 0
    /\ pc \in {"apps", "emit"} => task \in {"request", "cleanup"}
    /\ task = "cleanup" => Req.kind = "delete"

\* A principal lacks private apps only while a request to create it is to be handled again.
Owed(p) ==
    \E i \in Pending :
        /\ sinks[i].kind = "create" /\ sinks[i].who = p
        /\ \A k \in DOMAIN queue : k < at => queue[k] # i
Owing == {p \in PrincipalIds : Owed(p)}
HasApps(doc, apps, owed) ==
    \A p \in PrincipalIds : doc[p].st = "present" => InstancesOf(p) \subseteq apps \/ p \in owed
AppsInv ==
    faults = 0 \/ crashes = 0 =>
    /\ HasApps(mem, runtimes, Owing)
    /\ faults = 0 => HasApps(registryFile, appsFile, Owing)
    /\ pc \in {"registry", "status"} => HasApps(cand, runtimes, Owing)
    /\ pc \in {"registry", "status"} /\ Deleting => cand[P].st = "absent"
    /\ pc \in {"apps", "emit"} /\ task = "request" /\ Req.kind = "create" => InstancesOf(P) \subseteq runtimes


\* A request that changes a record: what the new one keeps of the old.
Kept(rec) ==
    /\ rec.st = "absent" => rec.leases = {}
    /\ rec.st = "present" => Rec.st = "present" \/ Req.kind = "create"
    /\ Req.kind = "delete" => rec.st = "absent"
    /\ \A l \in Live(Rec) : Held(rec, l.attach) \/ Excused(l)

\* handle_attach_principal drops a live lease of another agent only by a takeover.
LEMMA AttachKeeps ==
  ASSUME RecordOK(Rec), Rec.st = "present", Req.kind = "attach", Req.attach \in AttachIds,
         Held(Rec, Req.attach) \/ ~Conflict
  PROVE  Kept(handle_attach_principal)
<1>. DEFINE a == Req.attach
            taken == [Rec EXCEPT !.leases = {NewLease(a)}, !.status = Taken(Rec)]
            first == [Rec EXCEPT !.leases = Rec.leases \union {NewLease(a)}]
            seen == [Rec EXCEPT !.leases = Seen(Rec, a)]
<1>1. Rec \in Record
  BY DEF RecordOK
<1>2. CASE Held(Rec, a)
  <2>1. seen.st = "present" /\ seen.leases = Seen(Rec, a)
    BY <1>1 DEF Record
  <2>2. \A l \in Live(Rec) : Held(Rec, l.attach)
    BY DEF Live, Held
  <2>3. \A b : Held(Rec, b) => Held(seen, b)
    BY <2>1, SeenOK DEF Held
  <2>4. handle_attach_principal = seen
    BY <1>2 DEF handle_attach_principal
  <2>. QED BY <2>1, <2>2, <2>3, <2>4 DEF Kept
<1>3. CASE ~Held(Rec, a)
  <2>1. taken.st = "present" /\ first.st = "present"
    BY <1>1 DEF Record
  <2>2. handle_attach_principal \in {taken, first}
    BY <1>3 DEF handle_attach_principal
  <2>3. Req.flag \/ Live(Rec) = {}
    BY <1>3 DEF Conflict, Online
  <2>. QED BY <2>1, <2>2, <2>3 DEF Kept, Excused
<1>. QED BY <1>2, <1>3

\* A lease that is refreshed is kept.
LEMMA RefreshKeeps ==
  ASSUME RecordOK(Rec), Rec.st = "present", Req.kind = "update", Req.attach \in AttachIds
  PROVE  /\ Kept([Rec EXCEPT !.leases = Seen(Rec, Req.attach)])
         /\ Kept([Rec EXCEPT !.leases = Seen(Rec, Req.attach),
                             !.status = [state |-> "running", attach |-> Req.attach]])
<1>. DEFINE a == Req.attach
            r == [Rec EXCEPT !.leases = Seen(Rec, a)]
            s == [Rec EXCEPT !.leases = Seen(Rec, a), !.status = [state |-> "running", attach |-> a]]
<1>1. r.st = "present" /\ r.leases = Seen(Rec, a) /\ s.st = "present" /\ s.leases = Seen(Rec, a)
  BY DEF RecordOK, Record
<1>2. \A l \in Live(Rec) : Held(Rec, l.attach)
  BY DEF Live, Held
<1>3. \A b : Held(Rec, b) => Held(r, b) /\ Held(s, b)
  BY <1>1, SeenOK DEF Held
<1>. QED BY <1>1, <1>2, <1>3 DEF Kept

\* handle_detach_principal drops the lease it names.
LEMMA DetachKeeps ==
  ASSUME RecordOK(Rec), Rec.st = "present", Req.kind = "detach"
  PROVE  Kept(handle_detach_principal)
<1>1. handle_detach_principal.st = "present" /\ handle_detach_principal.leases = Others(Rec, Req.attach)
  BY DEF handle_detach_principal, RecordOK, Record
<1>2. ASSUME NEW l \in Live(Rec) PROVE Held(handle_detach_principal, l.attach) \/ Excused(l)
  BY <1>1 DEF Live, Others, Held, Excused
<1>. QED BY <1>1, <1>2 DEF Kept

\* What a request handler does.
LEMMA HandlerEffect ==
  ASSUME Control, Docs, AbsentInv, Handler
  PROVE  /\ pc = "handle" /\ at \in DOMAIN queue /\ task' = "request"
         /\ UNCHANGED <<sinks, committed, mem, registryFile, statusFile, appsFile, queue, at,
                        faults, crashes>>
         /\ \/ pc' = "emit" /\ cand' = cand /\ runtimes' = runtimes /\ Req.kind # "create"
            \/ /\ pc' = "apps" /\ cand' = cand /\ Req.kind \in {"register", "unregister"}
               /\ runtimes' = runtimes \union {PublicInstance(P)}
                  \/ runtimes' = runtimes \ {PublicInstance(P)}
            \/ pc' = "view" /\ cand' = mem /\ runtimes' = runtimes /\ Req.kind = "create"
            \/ /\ pc' = "registry" /\ runtimes' = runtimes /\ P \in PrincipalIds
               /\ \E rec : cand' = [mem EXCEPT ![P] = rec] /\ Kept(rec)
<1>1. /\ pc = "handle" /\ at \in DOMAIN queue /\ task' = "request"
      /\ UNCHANGED <<sinks, committed, mem, registryFile, statusFile, appsFile, queue, at,
                     faults, crashes>>
  BY DEF Handler, RegisterApp, UnregisterApp, CreatePrincipal, AttachPrincipal,
         UpdatePrincipal, DetachPrincipal, DeletePrincipal, HandlerFrame, Handling, files, clientVars
<1>2. DocOK(mem) /\ AbsentEmpty(mem)
  BY DEF Docs, AbsentInv
<1>3. ASSUME NEW kind, Handling(kind), kind \notin {"register", "unregister"}
      PROVE  /\ Req.kind = kind /\ Req.attach \in AttachIds /\ P \in PrincipalIds
             /\ RecordOK(Rec) /\ Rec = mem[P]
  BY <1>2, <1>3, CurrentRequest DEF Handling, Rec, DocOK
<1>4. CASE RegisterApp \/ UnregisterApp
  BY <1>1, <1>4 DEF RegisterApp, UnregisterApp, Refuse, Handling
<1>5. CASE CreatePrincipal
  <2>1. Req.kind = "create" /\ P \in PrincipalIds /\ Rec = mem[P]
    BY <1>3, <1>5 DEF CreatePrincipal
  <2>2. NewRecord.st = "present"
    BY DEF NewRecord, NoRecord
  <2>3. Rec.st = "absent" => Live(Rec) = {}
    BY <1>2, <2>1 DEF AbsentEmpty, Live
  <2>4. Rec.st = "absent" => Kept(NewRecord)
    BY <2>1, <2>2, <2>3 DEF Kept
  <2>. QED BY <1>1, <1>5, <2>1, <2>4 DEF CreatePrincipal, Replace
<1>6. CASE AttachPrincipal
  <2>1. Req.kind = "attach" /\ P \in PrincipalIds /\ RecordOK(Rec) /\ Req.attach \in AttachIds
    BY <1>3, <1>6 DEF AttachPrincipal
  <2>. QED BY <1>1, <1>6, <2>1, AttachKeeps DEF AttachPrincipal, Replace, Refuse
<1>7. CASE UpdatePrincipal
  <2>1. Req.kind = "update" /\ P \in PrincipalIds /\ RecordOK(Rec) /\ Req.attach \in AttachIds
    BY <1>3, <1>7 DEF UpdatePrincipal
  <2>. QED BY <1>1, <1>7, <2>1, RefreshKeeps DEF UpdatePrincipal, Replace, Refuse
<1>8. CASE DetachPrincipal
  <2>1. Req.kind = "detach" /\ P \in PrincipalIds /\ RecordOK(Rec)
    BY <1>3, <1>8 DEF DetachPrincipal
  <2>. QED BY <1>1, <1>8, <2>1, DetachKeeps DEF DetachPrincipal, Replace, Refuse
<1>9. CASE DeletePrincipal
  <2>1. Req.kind = "delete" /\ P \in PrincipalIds
    BY <1>3, <1>9 DEF DeletePrincipal
  <2>2. NoRecord.st = "absent" /\ NoRecord.leases = {}
    BY DEF NoRecord
  <2>3. Req.flag \/ ~Online(Rec) => Kept(NoRecord)
    BY <2>1, <2>2 DEF Kept, Online, Excused
  <2>. QED BY <1>1, <1>9, <2>1, <2>3 DEF DeletePrincipal, Replace, Refuse
<1>. QED BY <1>4, <1>5, <1>6, <1>7, <1>8, <1>9 DEF Handler

\* Time changes neither who is registered nor who holds a lease.
LEMMA OlderKeeps ==
  ASSUME NEW doc \in Doc, NEW p \in PrincipalIds
  PROVE  /\ Older(doc)[p].st = doc[p].st
         /\ doc[p].leases = {} => Older(doc)[p].leases = {}
         /\ \A l \in doc[p].leases : Held(Older(doc)[p], l.attach)
<1>. DEFINE older(l) == [l EXCEPT !.age = IF @ <= StaleAfter THEN @ + 1 ELSE @]
<1>1. doc[p] \in Record /\ doc[p].leases \in SUBSET Lease
  BY DEF Doc, Record
<1>2. Older(doc)[p] = [doc[p] EXCEPT !.leases = {older(l) : l \in doc[p].leases}]
  BY DEF Older
<1>3. \A l \in Lease : older(l).attach = l.attach
  BY DEF Lease
<1>. HIDE DEF older
<1>4. Older(doc)[p].st = doc[p].st /\ Older(doc)[p].leases = {older(l) : l \in doc[p].leases}
  BY <1>1, <1>2 DEF Record
<1>. QED BY <1>1, <1>3, <1>4 DEF Held

\* The sweep keeps who is registered and every live lease.
LEMMA SweptKeeps ==
  ASSUME NEW rec \in Record
  PROVE  /\ Swept(rec).st = rec.st
         /\ Swept(rec).leases \subseteq rec.leases
         /\ \A l \in Live(rec) : Held(Swept(rec), l.attach)
<1>1. Swept(rec).st = rec.st /\ Swept(rec).leases = Live(rec)
  BY DEF Swept, Record
<1>. QED BY <1>1 DEF Live, Held

\* No step gives an absent principal a lease.
LEMMA AbsentStep == Control /\ Docs /\ AbsentInv /\ [Next]_vars => AbsentInv'
<1>. SUFFICES ASSUME Control, Docs, AbsentInv, [Next]_vars PROVE AbsentInv'
  OBVIOUS
<1>1. AbsentEmpty(mem) /\ AbsentEmpty(registryFile) /\ AbsentEmpty(statusFile) /\ AbsentEmpty(cand)
  BY DEF AbsentInv
<1>2. AbsentEmpty(NoDoc)
  BY DEF AbsentEmpty, NoDoc, NoRecord
<1>3. mem \in Doc /\ registryFile \in Doc /\ statusFile \in Doc
  BY DEF Docs, DocOK
<1>4. CASE Tick
  <2>1. \A doc \in Doc : AbsentEmpty(doc) => AbsentEmpty(Older(doc))
    BY OlderKeeps DEF AbsentEmpty
  <2>. QED BY <1>1, <1>3, <1>4, <2>1 DEF Tick, AbsentInv, AbsentEmpty
<1>5. CASE Handler
  <2>1. /\ UNCHANGED <<mem, registryFile, statusFile>>
        /\ \/ cand' \in {cand, mem}
           \/ P \in PrincipalIds /\ \E rec : cand' = [mem EXCEPT ![P] = rec] /\ Kept(rec)
    BY <1>5, HandlerEffect
  <2>2. ASSUME NEW rec, Kept(rec), cand' = [mem EXCEPT ![P] = rec] PROVE AbsentEmpty(cand')
    BY <1>1, <1>3, <2>2 DEF Kept, AbsentEmpty, Doc
  <2>3. AbsentEmpty(cand')
    BY <1>1, <2>1, <2>2
  <2>. QED BY <1>1, <2>1, <2>3 DEF AbsentInv, AbsentEmpty
<1>6. CASE Sweep
  <2>1. mem' = [p \in PrincipalIds |-> Swept(mem[p])] /\ cand' = mem' /\ UNCHANGED <<registryFile, statusFile>>
    BY <1>6 DEF Sweep, files
  <2>2. \A p \in PrincipalIds : mem[p] \in Record
    BY <1>3 DEF Doc
  <2>3. \A p \in PrincipalIds : mem'[p].st = mem[p].st /\ mem'[p].leases \subseteq mem[p].leases
    BY <2>1, <2>2, SweptKeeps
  <2>4. AbsentEmpty(mem')
    BY <1>1, <2>3 DEF AbsentEmpty
  <2>. QED BY <1>1, <2>1, <2>4 DEF AbsentInv, AbsentEmpty
<1>7. CASE ~(Tick \/ Handler \/ Sweep)
  <2>1. /\ mem' \in {mem, cand, NoDoc, registryFile}
        /\ registryFile' \in {registryFile, cand, NoDoc}
        /\ statusFile' \in {statusFile, cand, NoDoc}
        /\ cand' \in {cand, NoDoc, registryFile}
    <3>1. CASE UNCHANGED vars \/ BeginDrain \/ \E r \in Requests : ClientRequest(r)
      BY <3>1 DEF vars, BeginDrain, ClientRequest, files
    <3>2. CASE WriteRegistry \/ WriteStatus \/ Materialize \/ WriteApps \/ PollTail
      BY <3>2 DEF WriteRegistry, WriteStatus, Materialize, WriteApps, PollTail, files
    <3>3. CASE WriteView \/ Emit \/ Commit
      BY <3>3 DEF WriteView, Emit, Commit, NextRequest, files
    <3>4. CASE WriteError
      BY <3>4 DEF WriteError, Abort, files
    <3>5. CASE BuildError \/ Crash \/ Restart
      BY <3>5 DEF BuildError, Abort, Crash, Restart, files
    <3>. QED BY <1>7, <3>1, <3>2, <3>3, <3>4, <3>5 DEF Next, Handler
  <2>2. AbsentEmpty(mem') /\ AbsentEmpty(registryFile') /\ AbsentEmpty(statusFile') /\ AbsentEmpty(cand')
    BY <1>1, <1>2, <2>1
  <2>. QED BY <2>2 DEF AbsentInv, AbsentEmpty
<1>. QED BY <1>4, <1>5, <1>6, <1>7

\* Without failing writes the files follow memory.
LEMMA AgreeStep == Control /\ Docs /\ AbsentInv /\ AgreeInv /\ [Next]_vars => AgreeInv'
<1>. SUFFICES ASSUME Control, Docs, AbsentInv, AgreeInv, [Next]_vars, faults' = 0 PROVE AgreeInv'
  BY DEF AgreeInv
<1>0. faults \in Nat /\ InFlight
  BY DEF Control
<1>1. CASE UNCHANGED vars \/ BeginDrain \/ \E r \in Requests : ClientRequest(r)
  BY <1>0, <1>1 DEF vars, BeginDrain, ClientRequest, files, AgreeInv, InFlight
<1>2. CASE Tick
  BY <1>2 DEF Tick, AgreeInv
<1>3. CASE Handler
  BY <1>3, HandlerEffect DEF AgreeInv
<1>4. CASE WriteRegistry \/ WriteApps \/ PollTail
  BY <1>4 DEF WriteRegistry, WriteApps, PollTail, WriteFrame, AgreeInv
<1>5. CASE WriteStatus
  <2>1. faults = 0 /\ pc = "status" /\ UNCHANGED <<registryFile, appsFile>> /\ statusFile' = cand /\ mem' = cand
    BY <1>5 DEF WriteStatus, WriteFrame
  <2>2. registryFile = cand /\ appsFile = runtimes
    BY <2>1 DEF AgreeInv
  <2>3. /\ pc' \in {"idle", "view"}
        /\ ~(pc' = "view" /\ task' = "cleanup") => runtimes' = runtimes
    BY <1>5 DEF WriteStatus, Deleting
  <2>. QED BY <2>1, <2>2, <2>3 DEF AgreeInv
<1>6. CASE WriteView
  <2>1. /\ faults = 0 /\ pc = "view" /\ UNCHANGED <<mem, registryFile, statusFile, appsFile, runtimes>>
        /\ pc' \in {"idle", "apps", "emit", "materialize", "handle"}
        /\ task = "cleanup" => pc' = "apps"
    BY <1>6 DEF WriteView, NextRequest, Deleting
  <2>. QED BY <2>1 DEF AgreeInv
<1>7. CASE Materialize
  BY <1>0, <1>7 DEF Materialize, WriteFrame, files, AgreeInv, InFlight
<1>8. CASE Emit \/ Commit
  BY <1>8 DEF Emit, Commit, NextRequest, files, AgreeInv
<1>9. CASE Sweep
  BY <1>9 DEF Sweep, WriteFrame, files, AgreeInv
<1>10. CASE WriteError \/ BuildError
  <2>1. faults' = faults + 1
    BY <1>10 DEF WriteError, BuildError, Abort
  <2>. QED BY <1>0, <2>1
<1>11. CASE Crash \/ Restart
  BY <1>11 DEF Crash, Restart, files, AgreeInv
<1>. QED BY <1>1, <1>2, <1>3, <1>4, <1>5, <1>6, <1>7, <1>8, <1>9, <1>10, <1>11 DEF Next, Handler

\* A drain takes pending positions, each once.
LEMMA DrainDistinct ==
  ASSUME Control, BeginDrain
  PROVE  /\ \A i, j \in DOMAIN queue' : queue'[i] = queue'[j] => i = j
         /\ \A i \in DOMAIN queue' : queue'[i] \notin committed
<1>0. queue' \in [1..Cardinality(Pending) -> Pending] /\ DOMAIN queue' = 1..Cardinality(Pending)
  BY DEF BeginDrain
<1>1. \A i \in DOMAIN queue' : queue'[i] \in Pending
  BY <1>0
<1>2. \A k \in Pending : k \in Nat /\ k \notin committed
  BY DEF Pending
<1>3. ASSUME NEW k \in Nat PROVE ~Before(k, k)
  <2>1. \A m, n \in 1..Len(ControlActionOrder) : ControlActionOrder[m] = ControlActionOrder[n] => m = n
    BY DEF ControlActionOrder
  <2>2. 1..Len(ControlActionOrder) \subseteq Int
    BY DEF ControlActionOrder
  <2>. QED BY <2>1, <2>2 DEF Before
<1>4. \A i, j \in DOMAIN queue' : i < j => Before(queue'[i], queue'[j])
  BY DEF BeginDrain
<1>5. ASSUME NEW i \in DOMAIN queue', NEW j \in DOMAIN queue', queue'[i] = queue'[j] PROVE i = j
  <2>1. i \in Int /\ j \in Int
    BY <1>0
  <2>2. queue'[i] \in Nat
    BY <1>1, <1>2
  <2>3. ~(i < j) /\ ~(j < i)
    BY <1>3, <1>4, <1>5, <2>2
  <2>. QED BY <2>1, <2>3
<1>. QED BY <1>1, <1>2, <1>5

\* The drain and the request in hand.
LEMMA QueueStep == Control /\ Docs /\ AbsentInv /\ QueueInv /\ [Next]_vars => QueueInv'
<1>. SUFFICES ASSUME Control, Docs, AbsentInv, QueueInv, [Next]_vars PROVE QueueInv'
  OBVIOUS
<1>0. InFlight /\ at \in Nat /\ crashes \in Nat /\ sinks \in Seq(Requests) /\ queue \in Seq(1..Len(sinks))
  BY DEF Control, InFlight
<1>1. CASE UNCHANGED vars
  BY <1>1 DEF vars, QueueInv, Req
<1>2. ASSUME NEW r \in Requests, ClientRequest(r) PROVE QueueInv'
  <2>1. /\ sinks' = Append(sinks, r) /\ UNCHANGED <<committed, queue, at, pc, task, crashes>>
    BY <1>2 DEF ClientRequest
  <2>2. at \in DOMAIN queue => Req' = Req
    BY <1>0, <2>1 DEF Req
  <2>. QED BY <1>0, <2>1, <2>2 DEF QueueInv, InFlight
<1>3. CASE Tick
  BY <1>3 DEF Tick, clientVars, QueueInv, Req
<1>4. CASE BeginDrain
  <2>1. UNCHANGED <<committed, task>> /\ at' = 1 /\ pc' = "handle" /\ task = "none"
    BY <1>0, <1>4 DEF BeginDrain, clientVars, InFlight
  <2>. QED BY <1>4, <2>1, DrainDistinct DEF QueueInv
<1>5. CASE Handler
  <2>1. /\ task' = "request" /\ pc' \in {"emit", "apps", "view", "registry"}
        /\ UNCHANGED <<committed, queue, at>>
    BY <1>5, HandlerEffect
  <2>. QED BY <2>1 DEF QueueInv
<1>6. CASE WriteRegistry \/ Materialize \/ WriteApps
  BY <1>0, <1>6 DEF WriteRegistry, Materialize, WriteApps, WriteFrame, clientVars, QueueInv, InFlight, Req
<1>7. CASE WriteStatus
  <2>1. /\ UNCHANGED <<sinks, committed, queue, at>> /\ pc = "status" /\ pc' \in {"idle", "view"}
        /\ task' = "cleanup" => Req.kind = "delete"
        /\ pc' = "idle" => task = "start"
        /\ task' \in {"start", "sweep"} => task' = task
    BY <1>7 DEF WriteStatus, WriteFrame, clientVars, Deleting, QueueInv
  <2>2. Req' = Req
    BY <2>1 DEF Req
  <2>3. pc' = "idle" \/ task' \in {"start", "sweep"} => queue = <<>> /\ at = 1
    BY <2>1 DEF QueueInv
  <2>. QED BY <2>1, <2>2, <2>3 DEF QueueInv
<1>8. CASE WriteView
  <2>1. /\ UNCHANGED <<sinks, committed, queue>> /\ at' \in {at, at + 1} /\ pc = "view"
        /\ pc' \in {"idle", "apps", "emit", "materialize", "handle"}
        /\ pc' = "idle" => task = "sweep" /\ at' = at /\ task' = "none"
        /\ pc' = "handle" => task' = "none"
        /\ pc' \in {"apps", "emit", "materialize"} =>
             task' = task /\ at' = at /\ task \in {"request", "cleanup"}
    BY <1>8 DEF WriteView, NextRequest, Deleting, clientVars
  <2>2. at' = at => Req' = Req
    BY <2>1 DEF Req
  <2>. QED BY <1>0, <2>1, <2>2 DEF QueueInv
<1>9. CASE Emit
  BY <1>0, <1>9 DEF Emit, NextRequest, clientVars, QueueInv
<1>10. CASE Commit
  BY <1>0, <1>10 DEF Commit, QueueInv, InFlight
<1>11. CASE PollTail
  BY <1>0, <1>11 DEF PollTail, WriteFrame, clientVars, QueueInv, InFlight
<1>12. CASE Sweep
  BY <1>0, <1>12 DEF Sweep, WriteFrame, clientVars, QueueInv, InFlight
<1>13. CASE WriteError \/ BuildError
  BY <1>0, <1>13 DEF WriteError, BuildError, Abort, clientVars, QueueInv
<1>14. CASE Crash \/ Restart
  BY <1>0, <1>14 DEF Crash, Restart, clientVars, QueueInv, InFlight
<1>. QED BY <1>1, <1>2, <1>3, <1>4, <1>5, <1>6, <1>7, <1>8, <1>9, <1>10, <1>11, <1>12, <1>13, <1>14
         DEF Next, Handler

\* What is about to be written keeps the live leases, but for the one request that may end one.
LEMMA KeepStep == Control /\ Docs /\ AbsentInv /\ KeepInv /\ [Next]_vars => KeepInv'
<1>. SUFFICES ASSUME Control, Docs, AbsentInv, KeepInv, [Next]_vars PROVE KeepInv'
  OBVIOUS
<1>0. InFlight /\ sinks \in Seq(Requests) /\ queue \in Seq(1..Len(sinks)) /\ mem \in Doc
  BY DEF Control, InFlight, Docs, DocOK
<1>1. ASSUME pc' \notin {"registry", "status", "down"} PROVE KeepInv'
  BY <1>1 DEF KeepInv
<1>2. ASSUME UNCHANGED <<mem, cand, task>>, at \in DOMAIN queue => Req' = Req,
             (pc = "registry" /\ pc' = "status") \/ pc' = pc
      PROVE  KeepInv'
  <2>1. pc' = "down" => \A p \in PrincipalIds : mem'[p].leases = {}
    BY <1>2 DEF KeepInv
  <2>2. pc' \in {"registry", "status"} /\ task' \in {"start", "sweep"} => cand' = mem'
    BY <1>2 DEF KeepInv
  <2>3. ASSUME pc' \in {"registry", "status"}, task' = "request"
        PROVE  \A p \in PrincipalIds : \A l \in Live(mem'[p]) :
                   Held(cand'[p], l.attach) \/ (P' = p /\ Excused(l)')
    <3>1. Req' = Req
      BY <1>0, <1>2, <2>3 DEF InFlight
    <3>2. P' = P /\ \A l : Excused(l)' <=> Excused(l)
      BY <3>1 DEF P, Excused
    <3>3. \A p \in PrincipalIds : \A l \in Live(mem[p]) :
              Held(cand[p], l.attach) \/ (P = p /\ Excused(l))
      BY <1>2, <2>3 DEF KeepInv
    <3>. QED BY <1>2, <3>2, <3>3
  <2>. QED BY <2>1, <2>2, <2>3 DEF KeepInv
<1>3. CASE UNCHANGED vars \/ WriteRegistry
  BY <1>2, <1>3 DEF vars, WriteRegistry, WriteFrame, clientVars, Req
<1>4. ASSUME NEW r \in Requests, ClientRequest(r) PROVE KeepInv'
  <2>1. at \in DOMAIN queue => Req' = Req
    BY <1>0, <1>4 DEF ClientRequest, Req
  <2>. QED BY <1>2, <1>4, <2>1 DEF ClientRequest
<1>5. CASE Tick
  <2>1. pc' \in {"idle", "down"} /\ mem' = Older(mem) /\ pc' = pc
    BY <1>5 DEF Tick
  <2>2. pc = "down" => \A p \in PrincipalIds : mem[p].leases = {}
    BY DEF KeepInv
  <2>. QED BY <1>0, <2>1, <2>2, OlderKeeps DEF KeepInv
<1>6. CASE Handler
  <2>1. /\ task' = "request" /\ UNCHANGED <<sinks, mem, queue, at>>
        /\ \/ pc' \in {"emit", "apps", "view"}
           \/ pc' = "registry" /\ \E rec : cand' = [mem EXCEPT ![P] = rec] /\ Kept(rec)
    BY <1>6, HandlerEffect
  <2>2. Req' = Req
    BY <2>1 DEF Req
  <2>3. P' = P /\ \A l : Excused(l)' <=> Excused(l)
    BY <2>2 DEF P, Excused
  <2>4. ASSUME NEW rec, cand' = [mem EXCEPT ![P] = rec], Kept(rec),
               NEW p \in PrincipalIds, NEW l \in Live(mem[p])
        PROVE  Held(cand'[p], l.attach) \/ (P = p /\ Excused(l))
    <3>1. CASE p = P
      <4>1. cand'[p] = rec
        BY <1>0, <2>4, <3>1 DEF Doc
      <4>2. l \in Live(Rec)
        BY <3>1 DEF Rec
      <4>. QED BY <2>4, <3>1, <4>1, <4>2 DEF Kept
    <3>2. CASE p # P
      <4>1. cand'[p] = mem[p]
        BY <1>0, <2>4, <3>2 DEF Doc
      <4>. QED BY <4>1 DEF Live, Held
    <3>. QED BY <3>1, <3>2
  <2>5. pc' = "registry" =>
          \A p \in PrincipalIds : \A l \in Live(mem'[p]) :
              Held(cand'[p], l.attach) \/ (P' = p /\ Excused(l)')
    BY <2>1, <2>3, <2>4
  <2>. QED BY <1>1, <2>1, <2>5 DEF KeepInv
<1>7. CASE Sweep \/ Restart
  BY <1>7 DEF Sweep, Restart, KeepInv
<1>8. CASE Crash
  <2>1. mem' = NoDoc /\ pc' = "down"
    BY <1>8 DEF Crash
  <2>2. \A p \in PrincipalIds : NoDoc[p].leases = {}
    BY DEF NoDoc, NoRecord
  <2>. QED BY <2>1, <2>2 DEF KeepInv
<1>9. CASE WriteStatus \/ WriteView \/ Materialize \/ WriteApps \/ PollTail
  <2>1. pc' \in {"idle", "view", "apps", "emit", "materialize", "handle"}
    BY <1>9 DEF WriteStatus, WriteView, Materialize, WriteApps, PollTail, NextRequest
  <2>. QED BY <1>1, <2>1
<1>10. CASE BeginDrain \/ Emit \/ Commit \/ WriteError \/ BuildError
  <2>1. pc' \in {"idle", "handle", "tail"}
    BY <1>10 DEF BeginDrain, Emit, Commit, NextRequest, WriteError, BuildError, Abort
  <2>. QED BY <1>1, <2>1
<1>. QED BY <1>3, <1>4, <1>5, <1>6, <1>7, <1>8, <1>9, <1>10 DEF Next, Handler

\* No step but the ones LiveLeaseKept names ends a live lease.
LEMMA LeaseStep ==
  ASSUME Control, Docs, AbsentInv, KeepInv, [Next]_vars,
         NEW p \in PrincipalIds, NEW l \in Live(mem[p])
  PROVE  \/ Held(mem'[p], l.attach)
         \/ Crash
         \/ /\ WriteStatus /\ task = "request" /\ P = p
            /\ \/ Req.kind = "detach" /\ Req.attach = l.attach
               \/ Req.kind \in {"attach", "delete"} /\ Req.flag
<1>0. InFlight /\ mem \in Doc /\ mem[p] \in Record /\ l \in mem[p].leases /\ task \in Tasks
  BY DEF Control, Docs, DocOK, Doc, Live
<1>1. CASE mem' = mem
  BY <1>0, <1>1 DEF Held
<1>2. CASE Tick
  BY <1>0, <1>2, OlderKeeps DEF Tick
<1>3. CASE Sweep
  BY <1>0, <1>3, SweptKeeps DEF Sweep
<1>4. CASE Restart
  BY <1>0, <1>4 DEF Restart, KeepInv
<1>5. CASE WriteStatus
  <2>1. mem' = cand /\ pc = "status" /\ task \in {"start", "sweep", "request"}
    BY <1>5 DEF WriteStatus
  <2>2. CASE task = "request"
    <3>1. Held(cand[p], l.attach) \/ (P = p /\ Excused(l))
      BY <2>1, <2>2 DEF KeepInv
    <3>. QED BY <1>5, <2>1, <2>2, <3>1 DEF Excused
  <2>3. CASE task # "request"
    BY <1>0, <2>1, <2>3 DEF KeepInv, Held
  <2>. QED BY <2>2, <2>3
<1>6. CASE Handler
  BY <1>1, <1>6, HandlerEffect
<1>7. ASSUME NEW r \in Requests, ClientRequest(r) PROVE mem' = mem
  BY <1>7 DEF ClientRequest
<1>8. CASE \/ UNCHANGED vars \/ BeginDrain \/ WriteRegistry \/ WriteView \/ Materialize \/ WriteApps
           \/ PollTail \/ Emit \/ Commit \/ WriteError \/ BuildError
  <2>1. mem' = mem
    BY <1>8 DEF vars, BeginDrain, WriteRegistry, WriteView, Materialize, WriteApps, PollTail, Emit,
                Commit, WriteError, BuildError, Abort
  <2>. QED BY <1>1, <2>1
<1>. QED BY <1>1, <1>2, <1>3, <1>4, <1>5, <1>6, <1>7, <1>8 DEF Next, Handler

-----------------------------------------------------------------------------
(* Private apps.                                                           *)

\* A request to create a principal stays owed while the drain goes on or starts again.
LEMMA OwedStays ==
  ASSUME Control, committed' = committed,
         sinks' = sinks \/ \E r \in Requests : sinks' = Append(sinks, r),
         \A k \in DOMAIN queue' : k < at' => k \in DOMAIN queue /\ k < at /\ queue'[k] = queue[k]
  PROVE  Owing \subseteq Owing'
<1>1. sinks \in Seq(Requests)
  BY DEF Control
<1>2. ASSUME NEW i \in Pending PROVE i \in Pending' /\ sinks'[i] = sinks[i]
  BY <1>1 DEF Pending
<1>3. ASSUME NEW p \in PrincipalIds, Owed(p) PROVE Owed(p)'
  <2>1. PICK i \in Pending : /\ sinks[i].kind = "create" /\ sinks[i].who = p
                             /\ \A k \in DOMAIN queue : k < at => queue[k] # i
    BY <1>3 DEF Owed
  <2>2. i \in Pending' /\ sinks'[i] = sinks[i]
    BY <1>2
  <2>3. \A k \in DOMAIN queue' : k < at' => queue'[k] # i
    BY <2>1
  <2>. QED BY <2>1, <2>2, <2>3 DEF Owed
<1>. QED BY <1>3 DEF Owing

\* The request in hand is owed until the next one is taken.
LEMMA OwedCurrent ==
  ASSUME Control, QueueInv, at \in DOMAIN queue, Req.kind = "create"
  PROVE  P \in Owing
<1>1. queue[at] \in 1..Len(sinks) /\ queue[at] \notin committed
  BY DEF Control, InFlight, QueueInv
<1>2. queue[at] \in Pending
  BY <1>1 DEF Pending
<1>3. ASSUME NEW k \in DOMAIN queue, k < at PROVE queue[k] # queue[at]
  <2>1. k \in Nat /\ at \in Nat /\ k # at
    BY <1>3 DEF Control, InFlight
  <2>. QED BY <2>1 DEF QueueInv
<1>4. P \in PrincipalIds
  BY CurrentRequest
<1>. QED BY <1>2, <1>3, <1>4 DEF Owed, Owing, Req, P

\* The next request is taken: only the one in hand is no longer owed.
LEMMA OwedNext ==
  ASSUME Control, at \in DOMAIN queue, at' = at + 1, UNCHANGED <<sinks, committed, queue>>,
         NEW p \in Owing, ~(Req.kind = "create" /\ P = p)
  PROVE  p \in Owing'
<1>1. PICK i \in Pending : /\ sinks[i].kind = "create" /\ sinks[i].who = p
                           /\ \A k \in DOMAIN queue : k < at => queue[k] # i
  BY DEF Owing, Owed
<1>2. queue[at] # i
  BY <1>1 DEF Req, P
<1>3. \A k \in DOMAIN queue : k \in Nat
  BY DEF Control, InFlight
<1>4. \A k \in DOMAIN queue' : k < at' => queue'[k] # i
  BY <1>1, <1>2, <1>3 DEF Control
<1>5. Pending' = Pending
  BY DEF Pending
<1>6. Owed(p)'
  BY <1>1, <1>4, <1>5 DEF Owed
<1>. QED BY <1>6 DEF Owing

\* What is owed is not committed.
LEMMA OwedCommit ==
  ASSUME Control, QueueInv, Commit
  PROVE  Owing \subseteq Owing'
<1>1. /\ at \notin DOMAIN queue /\ queue' = <<>> /\ sinks' = sinks
      /\ committed' = committed \union {queue[i] : i \in DOMAIN queue}
  BY DEF Commit
<1>2. \A k \in DOMAIN queue : k < at
  BY <1>1 DEF Control, InFlight, QueueInv
<1>3. ASSUME NEW p \in PrincipalIds, Owed(p) PROVE Owed(p)'
  <2>1. PICK i \in Pending : /\ sinks[i].kind = "create" /\ sinks[i].who = p
                             /\ \A k \in DOMAIN queue : k < at => queue[k] # i
    BY <1>3 DEF Owed
  <2>2. i \in Pending'
    BY <1>1, <1>2, <2>1 DEF Pending
  <2>. QED BY <1>1, <2>1, <2>2 DEF Owed
<1>. QED BY <1>3 DEF Owing

\* More instances, more owed, or the same principals: the rest follows.
LEMMA MoreApps ==
  ASSUME NEW doc, NEW apps, NEW owed, HasApps(doc, apps, owed),
         NEW d, NEW a, NEW o, apps \subseteq a, owed \subseteq o,
         \A p \in PrincipalIds : d[p].st = "present" => doc[p].st = "present"
  PROVE  HasApps(d, a, o)
BY DEF HasApps

\* Public apps are no private instances, and principals share none.
LEMMA InstancesApart ==
  /\ \A p \in PrincipalIds : \A app : PublicInstance(app) \notin InstancesOf(p)
  /\ \A p, q \in PrincipalIds : p # q => InstancesOf(p) \intersect InstancesOf(q) = {}
BY PrincipalsAssumption DEF PublicInstance, InstancesOf

\* The parts of AppsInv, while not both a write has failed and the process has died.
LEMMA AppsParts ==
  ASSUME AppsInv, faults = 0 \/ crashes = 0
  PROVE  /\ HasApps(mem, runtimes, Owing)
         /\ faults = 0 => HasApps(registryFile, appsFile, Owing)
         /\ pc \in {"registry", "status"} => HasApps(cand, runtimes, Owing)
         /\ pc \in {"registry", "status"} /\ Deleting => cand[P].st = "absent"
         /\ pc \in {"apps", "emit"} /\ task = "request" /\ Req.kind = "create" => InstancesOf(P) \subseteq runtimes
BY DEF AppsInv

\* A request handler.
LEMMA AppsHandler ==
  ASSUME Control, Docs, AbsentInv, QueueInv, AppsInv, Handler
  PROVE  AppsInv'
<1>. SUFFICES ASSUME faults' = 0 \/ crashes' = 0 PROVE AppsInv'
  BY DEF AppsInv
<1>1. /\ pc = "handle" /\ at \in DOMAIN queue /\ task' = "request"
      /\ UNCHANGED <<sinks, committed, mem, registryFile, appsFile, queue, at, faults, crashes>>
      /\ \/ pc' = "emit" /\ runtimes' = runtimes /\ Req.kind # "create"
         \/ /\ pc' = "apps" /\ Req.kind \in {"register", "unregister"}
            /\ runtimes' = runtimes \union {PublicInstance(P)}
               \/ runtimes' = runtimes \ {PublicInstance(P)}
         \/ pc' = "view" /\ runtimes' = runtimes
         \/ /\ pc' = "registry" /\ runtimes' = runtimes /\ P \in PrincipalIds
            /\ \E rec : cand' = [mem EXCEPT ![P] = rec] /\ Kept(rec)
  BY HandlerEffect
<1>2. Req' = Req /\ P' = P
  BY <1>1 DEF Req, P
<1>3. HasApps(mem, runtimes, Owing) /\ (faults = 0 => HasApps(registryFile, appsFile, Owing))
  BY <1>1, AppsParts
<1>4. Owing' = Owing
  BY <1>1 DEF Owing, Owed, Pending
<1>5. HasApps(mem, runtimes', Owing)
  BY <1>1, <1>3, InstancesApart DEF HasApps
<1>6. ASSUME NEW rec, pc' = "registry", cand' = [mem EXCEPT ![P] = rec], Kept(rec), P \in PrincipalIds
      PROVE  HasApps(cand', runtimes', Owing) /\ (Req.kind = "delete" => cand'[P].st = "absent")
  <2>1. cand'[P] = rec /\ \A p \in PrincipalIds : p # P => cand'[p] = mem[p]
    BY <1>6 DEF Docs, DocOK, Doc
  <2>2. rec.st = "present" => mem[P].st = "present" \/ P \in Owing
    BY <1>1, <1>6, OwedCurrent DEF Kept, Rec
  <2>3. ASSUME NEW p \in PrincipalIds, cand'[p].st = "present"
        PROVE  InstancesOf(p) \subseteq runtimes' \/ p \in Owing
    BY <1>5, <1>6, <2>1, <2>2, <2>3 DEF HasApps
  <2>. QED BY <1>6, <2>1, <2>3 DEF HasApps, Kept
<1>7. pc' \in {"registry", "status"} =>
        HasApps(cand', runtimes', Owing) /\ (Req.kind = "delete" => cand'[P].st = "absent")
  BY <1>1, <1>6
<1>8. pc' \in {"apps", "emit"} => Req.kind # "create"
  BY <1>1
<1>. QED BY <1>1, <1>2, <1>3, <1>4, <1>5, <1>7, <1>8 DEF AppsInv, Deleting

\* The registry of the principals is written; a deleted principal's apps leave.
LEMMA AppsWrites ==
  ASSUME Control, AgreeInv, AppsInv, WriteRegistry \/ WriteStatus
  PROVE  AppsInv'
<1>. SUFFICES ASSUME faults' = 0 \/ crashes' = 0 PROVE AppsInv'
  BY DEF AppsInv
<1>1. /\ pc \in {"registry", "status"} /\ UNCHANGED <<sinks, committed, queue, at, faults, crashes, appsFile, cand>>
  BY DEF WriteRegistry, WriteStatus, WriteFrame, clientVars
<1>2. Req' = Req /\ P' = P
  BY <1>1 DEF Req, P
<1>3. Owing' = Owing
  BY <1>1 DEF Owing, Owed, Pending
<1>4. /\ HasApps(mem, runtimes, Owing) /\ (faults = 0 => HasApps(registryFile, appsFile, Owing))
      /\ HasApps(cand, runtimes, Owing) /\ (Deleting => cand[P].st = "absent")
  BY <1>1, AppsParts
<1>5. CASE WriteRegistry
  <2>1. registryFile' = cand /\ pc' = "status" /\ pc = "registry" /\ UNCHANGED <<mem, runtimes, task>>
    BY <1>5 DEF WriteRegistry
  <2>2. faults = 0 => appsFile = runtimes
    BY <2>1 DEF AgreeInv
  <2>. QED BY <1>1, <1>2, <1>3, <1>4, <2>1, <2>2 DEF AppsInv, Deleting
<1>6. CASE WriteStatus
  <2>1. /\ mem' = cand /\ registryFile' = registryFile /\ pc' \in {"idle", "view"}
        /\ runtimes' = runtimes \/ (task = "request" /\ Deleting /\ runtimes' = runtimes \ InstancesOf(P))
    BY <1>6 DEF WriteStatus
  <2>2. CASE runtimes' = runtimes
    BY <1>1, <1>3, <1>4, <2>1, <2>2 DEF AppsInv
  <2>3. CASE task = "request" /\ Deleting /\ runtimes' = runtimes \ InstancesOf(P)
    <3>1. P \in PrincipalIds
      BY <1>1, <2>3, CurrentRequest DEF Control, InFlight
    <3>2. \A p \in PrincipalIds : cand[p].st = "present" => p # P
      BY <1>4, <2>3
    <3>3. \A p \in PrincipalIds : p # P => InstancesOf(p) \intersect InstancesOf(P) = {}
      BY <3>1, InstancesApart
    <3>4. HasApps(cand, runtimes', Owing)
      BY <1>4, <2>3, <3>2, <3>3 DEF HasApps
    <3>. QED BY <1>1, <1>3, <1>4, <2>1, <3>4 DEF AppsInv
  <2>. QED BY <2>1, <2>2, <2>3
<1>. QED BY <1>5, <1>6

\* The private apps are built and their registry is written.
LEMMA AppsBuilds ==
  ASSUME Control, AgreeInv, AppsInv, Materialize \/ WriteApps \/ PollTail
  PROVE  AppsInv'
<1>. SUFFICES ASSUME faults' = 0 \/ crashes' = 0 PROVE AppsInv'
  BY DEF AppsInv
<1>1. UNCHANGED <<sinks, committed, queue, at, faults, crashes, mem, registryFile, task>>
  BY DEF Materialize, WriteApps, PollTail, WriteFrame, clientVars, files
<1>2. Req' = Req /\ P' = P
  BY <1>1 DEF Req, P
<1>3. Owing' = Owing
  BY <1>1 DEF Owing, Owed, Pending
<1>4. HasApps(mem, runtimes, Owing) /\ (faults = 0 => HasApps(registryFile, appsFile, Owing))
  BY <1>1, AppsParts
<1>5. CASE Materialize
  <2>1. runtimes' = runtimes \union InstancesOf(P) /\ appsFile' = appsFile /\ pc' \in {"apps", "emit"}
    BY <1>5 DEF Materialize, files
  <2>2. HasApps(mem, runtimes', Owing)
    BY <1>4, <2>1 DEF HasApps
  <2>. QED BY <1>1, <1>2, <1>3, <1>4, <2>1, <2>2 DEF AppsInv
<1>6. CASE WriteApps \/ PollTail
  <2>1. /\ pc \in {"apps", "tail"} /\ appsFile' = runtimes /\ runtimes' = runtimes
        /\ pc' \in {"emit", "idle"} /\ (pc' = "emit" => pc = "apps")
    BY <1>6 DEF WriteApps, PollTail
  <2>2. faults = 0 => registryFile = mem
    BY <2>1 DEF AgreeInv
  <2>3. pc = "apps" /\ task = "request" /\ Req.kind = "create" => InstancesOf(P) \subseteq runtimes
    BY <1>1, AppsParts
  <2>. QED BY <1>1, <1>2, <1>3, <1>4, <2>1, <2>2, <2>3 DEF AppsInv
<1>. QED BY <1>5, <1>6

\* A request is answered, or needs no answer, and the next is taken.
LEMMA AppsAnswer ==
  ASSUME Control, AgreeInv, QueueInv, AppsInv, WriteView \/ Emit
  PROVE  AppsInv'
<1>. SUFFICES ASSUME faults' = 0 \/ crashes' = 0 PROVE AppsInv'
  BY DEF AppsInv
<1>1. UNCHANGED <<sinks, committed, queue, faults, crashes, mem, registryFile, appsFile, runtimes>>
  BY DEF WriteView, Emit, clientVars, files
<1>2. HasApps(mem, runtimes, Owing) /\ (faults = 0 => HasApps(registryFile, appsFile, Owing))
  BY <1>1, AppsParts
<1>3. CASE WriteView
  <2>1. /\ pc = "view" /\ pc' \notin {"registry", "status"}
        /\ \/ at' = at
           \/ at' = at + 1 /\ task = "request" /\ Heartbeat
        /\ pc' \in {"apps", "emit"} /\ task' = "request" => at' = at /\ Req.kind # "create"
    BY <1>3 DEF WriteView, NextRequest, Deleting
  <2>2. Owing \subseteq Owing'
    <3>1. CASE at' = at
      BY <1>1, <3>1 DEF Owing, Owed, Pending
    <3>2. CASE at' = at + 1 /\ task = "request" /\ Heartbeat
      <4>1. at \in DOMAIN queue /\ Req.kind # "create"
        BY <3>2 DEF Control, InFlight, Heartbeat
      <4>. QED BY <1>1, <3>2, <4>1, OwedNext
    <3>. QED BY <2>1, <3>1, <3>2
  <2>3. HasApps(mem, runtimes, Owing') /\ (faults = 0 => HasApps(registryFile, appsFile, Owing'))
    BY <1>2, <2>2 DEF HasApps
  <2>4. at' = at => Req' = Req
    BY <1>1 DEF Req
  <2>. QED BY <1>1, <2>1, <2>3, <2>4 DEF AppsInv
<1>4. CASE Emit
  <2>1. pc = "emit" /\ pc' = "handle" /\ at' = at + 1
    BY <1>4 DEF Emit, NextRequest
  <2>2. task \in {"request", "cleanup"} /\ at \in DOMAIN queue /\ (Req.kind = "create" => task = "request")
    BY <2>1 DEF QueueInv, Control, InFlight
  <2>3. Req.kind = "create" => InstancesOf(P) \subseteq runtimes
    BY <1>1, <2>1, <2>2, AppsParts
  <2>4. ASSUME NEW p \in PrincipalIds, mem[p].st = "present"
        PROVE  InstancesOf(p) \subseteq runtimes \/ p \in Owing'
    BY <1>1, <1>2, <2>1, <2>2, <2>3, <2>4, OwedNext DEF HasApps
  <2>5. HasApps(mem, runtimes, Owing')
    BY <2>4 DEF HasApps
  <2>6. faults = 0 => registryFile = mem /\ appsFile = runtimes
    BY <2>1 DEF AgreeInv
  <2>. QED BY <1>1, <2>1, <2>5, <2>6 DEF AppsInv
<1>. QED BY <1>3, <1>4

\* Clients, time, the sweep, the start and the end of a drain.
LEMMA AppsPolls ==
  ASSUME Control, Control', Docs, QueueInv, AppsInv,
         UNCHANGED vars \/ (\E r \in Requests : ClientRequest(r)) \/ Tick \/ BeginDrain \/ Commit \/ Sweep
  PROVE  AppsInv'
<1>. SUFFICES ASSUME faults' = 0 \/ crashes' = 0 PROVE AppsInv'
  BY DEF AppsInv
<1>0. /\ mem \in Doc /\ registryFile \in Doc /\ queue' \in Seq(1..Len(sinks')) /\ InFlight
      /\ sinks \in Seq(Requests) /\ queue \in Seq(1..Len(sinks))
  BY DEF Docs, DocOK, Control, InFlight
<1>1. UNCHANGED <<faults, crashes, appsFile, runtimes>>
  BY DEF vars, ClientRequest, Tick, BeginDrain, Commit, Sweep, WriteFrame, files
<1>2. HasApps(mem, runtimes, Owing) /\ (faults = 0 => HasApps(registryFile, appsFile, Owing))
  BY <1>1, AppsParts
<1>3. Owing \subseteq Owing'
  <2>1. CASE Commit
    BY <2>1, OwedCommit
  <2>2. CASE UNCHANGED vars \/ (\E r \in Requests : ClientRequest(r)) \/ Tick \/ BeginDrain \/ Sweep
    <3>1. /\ committed' = committed /\ (sinks' = sinks \/ \E r \in Requests : sinks' = Append(sinks, r))
          /\ (queue' = queue /\ at' = at) \/ at' = 1
      BY <2>2 DEF vars, ClientRequest, Tick, BeginDrain, Sweep, WriteFrame, clientVars
    <3>2. \A k \in DOMAIN queue' : k < at' => k \in DOMAIN queue /\ k < at /\ queue'[k] = queue[k]
      BY <1>0, <3>1
    <3>. QED BY <3>1, <3>2, OwedStays
  <2>. QED BY <2>1, <2>2
<1>4. /\ \A p \in PrincipalIds : mem'[p].st = mem[p].st
      /\ \A p \in PrincipalIds : registryFile'[p].st = registryFile[p].st
  <2>1. CASE Tick
    BY <1>0, <2>1, OlderKeeps DEF Tick
  <2>2. CASE Sweep
    BY <1>0, <2>2, SweptKeeps DEF Sweep, files, Doc
  <2>3. CASE ~(Tick \/ Sweep)
    BY <2>3 DEF vars, ClientRequest, BeginDrain, Commit, files
  <2>. QED BY <2>1, <2>2, <2>3
<1>5. HasApps(mem', runtimes', Owing') /\ (faults' = 0 => HasApps(registryFile', appsFile', Owing'))
  BY <1>1, <1>2, <1>3, <1>4 DEF HasApps
<1>6. CASE Sweep
  <2>1. cand' = mem' /\ task' = "sweep" /\ pc' = "registry"
    BY <1>6 DEF Sweep
  <2>. QED BY <1>5, <2>1 DEF AppsInv, Deleting
<1>7. CASE Tick \/ BeginDrain \/ Commit
  <2>1. pc' \in {"idle", "down", "handle", "tail"}
    BY <1>7 DEF Tick, BeginDrain, Commit
  <2>. QED BY <1>5, <2>1 DEF AppsInv
<1>8. CASE UNCHANGED vars \/ \E r \in Requests : ClientRequest(r)
  <2>1. UNCHANGED <<cand, pc, task>>
    BY <1>8 DEF vars, ClientRequest
  <2>2. at \in DOMAIN queue => Req' = Req
    <3>1. queue' = queue /\ at' = at /\ (sinks' = sinks \/ \E r \in Requests : sinks' = Append(sinks, r))
      BY <1>8 DEF vars, ClientRequest
    <3>2. \A i \in 1..Len(sinks) : sinks'[i] = sinks[i]
      <4>1. \A r \in Requests, i \in 1..Len(sinks) : Append(sinks, r)[i] = sinks[i]
        BY <1>0
      <4>. QED BY <3>1, <4>1
    <3>3. at \in DOMAIN queue => queue[at] \in 1..Len(sinks)
      BY <1>0
    <3>. QED BY <3>1, <3>2, <3>3 DEF Req
  <2>3. task \in {"request", "cleanup"} => Req' = Req /\ P' = P
    BY <1>0, <2>2 DEF InFlight, P
  <2>4. /\ pc \in {"registry", "status"} => HasApps(cand, runtimes, Owing)
        /\ pc \in {"registry", "status"} /\ Deleting => cand[P].st = "absent"
        /\ pc \in {"apps", "emit"} /\ task = "request" /\ Req.kind = "create" => InstancesOf(P) \subseteq runtimes
    BY <1>1, AppsParts
  <2>5. pc' \in {"registry", "status"} => HasApps(cand', runtimes', Owing')
    BY <1>1, <1>3, <2>1, <2>4 DEF HasApps
  <2>. QED BY <1>1, <1>5, <2>1, <2>3, <2>4, <2>5 DEF AppsInv, Deleting
<1>. QED BY <1>6, <1>7, <1>8

\* Failing writes and builds, crashes and restarts.
LEMMA AppsFails ==
  ASSUME Control, QueueInv, AppsInv, WriteError \/ BuildError \/ Crash \/ Restart
  PROVE  AppsInv'
<1>. SUFFICES ASSUME faults' = 0 \/ crashes' = 0 PROVE AppsInv'
  BY DEF AppsInv
<1>0. faults \in Nat /\ crashes \in Nat
  BY DEF Control
<1>1. faults = 0 \/ crashes = 0
  BY <1>0 DEF WriteError, BuildError, Abort, Crash, Restart
<1>2. HasApps(mem, runtimes, Owing) /\ (faults = 0 => HasApps(registryFile, appsFile, Owing))
  BY <1>1, AppsParts
<1>3. Owing \subseteq Owing'
  <2>1. UNCHANGED <<sinks, committed>> /\ ((queue' = queue /\ at' = at) \/ queue' = <<>>)
    BY DEF WriteError, BuildError, Abort, Crash, Restart, clientVars
  <2>2. \A k \in DOMAIN queue' : k < at' => k \in DOMAIN queue /\ k < at /\ queue'[k] = queue[k]
    BY <2>1
  <2>. QED BY <2>1, <2>2, OwedStays
<1>4. CASE WriteError \/ BuildError
  <2>1. mem' = mem /\ runtimes \subseteq runtimes' /\ pc' = "idle" /\ faults' # 0
    BY <1>0, <1>4 DEF WriteError, BuildError, Abort
  <2>2. HasApps(mem', runtimes', Owing')
    BY <1>2, <1>3, <2>1 DEF HasApps
  <2>. QED BY <2>1, <2>2 DEF AppsInv
<1>5. CASE Crash
  <2>1. mem' = NoDoc /\ pc' = "down" /\ UNCHANGED <<registryFile, appsFile, faults>>
    BY <1>5 DEF Crash, files
  <2>2. HasApps(NoDoc, runtimes', Owing')
    BY DEF HasApps, NoDoc, NoRecord
  <2>3. faults = 0 => HasApps(registryFile, appsFile, Owing')
    BY <1>2, <1>3 DEF HasApps
  <2>. QED BY <2>1, <2>2, <2>3 DEF AppsInv
<1>6. CASE Restart
  <2>1. /\ pc = "down" /\ mem' = registryFile /\ cand' = registryFile /\ runtimes' = appsFile /\ task' = "start"
        /\ pc' = "registry" /\ UNCHANGED <<registryFile, appsFile, faults, crashes>>
    BY <1>6 DEF Restart, files
  <2>2. faults = 0
    BY <1>0, <1>1, <2>1 DEF QueueInv
  <2>3. HasApps(registryFile, appsFile, Owing')
    BY <1>2, <1>3, <2>2 DEF HasApps
  <2>. QED BY <2>1, <2>3 DEF AppsInv, Deleting
<1>. QED BY <1>4, <1>5, <1>6

\* Every step keeps AppsInv.
LEMMA AppsStep ==
  Control /\ Control' /\ Docs /\ AbsentInv /\ AgreeInv /\ QueueInv /\ AppsInv /\ [Next]_vars => AppsInv'
BY AppsHandler, AppsWrites, AppsBuilds, AppsAnswer, AppsPolls, AppsFails DEF Next, Handler

-----------------------------------------------------------------------------
(* The combined invariant and what follows.                                *)

RegistryInv == AbsentInv /\ AgreeInv /\ KeepInv /\ QueueInv /\ AppsInv

\* Init establishes it.
LEMMA RegistryInit == Init => RegistryInv
<1>. SUFFICES ASSUME Init PROVE RegistryInv
  OBVIOUS
<1>1. AbsentEmpty(KnownDoc) /\ AbsentEmpty(NoDoc)
  BY DEF AbsentEmpty, KnownDoc, NoDoc, NewRecord, NoRecord
<1>2. AbsentInv
  BY <1>1 DEF Init, AbsentInv
<1>3. AgreeInv /\ KeepInv /\ QueueInv
  BY DEF Init, AgreeInv, KeepInv, QueueInv
<1>4. \A p \in PrincipalIds : KnownDoc[p].st = "present" => p \in Known
  BY DEF KnownDoc, NoRecord
<1>5. HasApps(KnownDoc, PrivateApps \X Known, Owing)
  BY <1>4 DEF HasApps, InstancesOf
<1>6. AppsInv
  BY <1>5 DEF Init, AppsInv
<1>. QED BY <1>2, <1>3, <1>6 DEF RegistryInv

\* It holds in every reachable state.
LEMMA RegistryInvariant == Spec => []RegistryInv
<1>1. Control /\ Control' /\ Docs /\ RegistryInv /\ [Next]_vars => RegistryInv'
  BY AbsentStep, AgreeStep, KeepStep, QueueStep, AppsStep DEF RegistryInv
<1>. QED BY <1>1, RegistryInit, PrincipalsInvariant, PTL DEF Spec

\* poll_once, the writes of a request, the sweep and the start leave both registries
\* on disk as they are in memory, wherever the process died in between.
THEOREM RegistriesAgreeBetweenPolls == Spec => []RegistriesAgree
<1>1. RegistryInv => RegistriesAgree
  BY DEF RegistryInv, AgreeInv, RegistriesAgree
<1>. QED BY <1>1, RegistryInvariant, PTL

\* handle_attach_principal, handle_delete_principal, the sweep and replayed requests
\* end no live lease that is not theirs to end.
THEOREM LiveLeasesKept == Spec => LiveLeaseKept
<1>1. Control /\ Docs /\ RegistryInv /\ [Next]_vars =>
        [ \A p \in PrincipalIds : \A l \in Live(mem[p]) :
            Held(mem'[p], l.attach)
            \/ Crash
            \/ /\ WriteStatus /\ task = "request" /\ P = p
               /\ \/ Req.kind = "detach" /\ Req.attach = l.attach
                  \/ Req.kind \in {"attach", "delete"} /\ Req.flag ]_vars
  BY LeaseStep DEF RegistryInv
<1>. QED BY <1>1, PrincipalsInvariant, RegistryInvariant, PTL DEF Spec, LiveLeaseKept

\* materialize_private_apps_for_principal: a request to create a principal that
\* failed or was cut short is handled again until the principal has its apps.
THEOREM PrivateAppsArrive == Spec => []PrivateAppsMaterialized
<1>1. RegistryInv => PrivateAppsMaterialized
  BY DEF RegistryInv, AppsInv, HasApps, Owing, Owed, Settled, PrivateAppsMaterialized
<1>. QED BY <1>1, RegistryInvariant, PTL
=============================================================================
