---------------------------- MODULE RegistryFiles ----------------------------
(***************************************************************************)
(* How the supervisor's JSON registries reach the disk and come back:      *)
(* write_pretty_json_file and publish_temp_file (shared.rs),               *)
(* recover_tmp_registry_files (registry.rs) and the order in which a       *)
(* managed start reads, recovers and rewrites them (appfs.rs).             *)
(*                                                                         *)
(* A registry is written to a temporary file of its own, which is renamed  *)
(* over the target.  Where the rename meets a conflict the target is       *)
(* removed first, so a crash may leave only the temporary file.  Principals *)
(* takes each of these writes as one step; here they are taken apart.      *)
(***************************************************************************)
EXTENDS Naturals

CONSTANTS
    Established,   \* a process runs and its registries exist; else the first start
    MaxWrites,     \* bound: registries written, after the start
    MaxFaults,     \* bound: writes that fail
    MaxCrashes     \* bound: crashes

ASSUME RegistryFilesAssumption ==
    /\ Established \in BOOLEAN
    /\ MaxWrites \in Nat /\ MaxFaults \in Nat /\ MaxCrashes \in Nat

Files == {"apps", "principals"}
Versions == 0..MaxWrites            \* of a registry; 0 is the empty one
Content == [st : {"missing", "torn", "whole"}, val : Versions]
Whole(v) == [st |-> "whole", val |-> v]
Torn == [st |-> "torn", val |-> 0]      \* parsed by no reader
Missing == [st |-> "missing", val |-> 0] \* read as empty

VARIABLES
    target,     \* the registries
    left,       \* temporary files that earlier writes left behind
    tmp,        \* the temporary file of the write under way
    mem,        \* the registries in memory
    file, doc,  \* what is being written
    pc, starting,
    writes, faults, crashes,
    owed,       \* history: the versions a later start may find
    ahead       \* history: which of memory and disk a failed write left ahead, of the principals

vars == <<target, left, tmp, mem, file, doc, pc, starting, writes, faults, crashes, owed, ahead>>
States == {"idle", "create", "fill", "rename", "remove", "again", "view",
           "down", "recover", "load", "sync", "refused"}

Init ==
    /\ target = [f \in Files |-> IF Established THEN Whole(0) ELSE Missing]
    /\ left = [f \in Files |-> {}]
    /\ tmp = Missing
    /\ mem = [f \in Files |-> 0]
    /\ file = "apps" /\ doc = 0
    /\ pc = IF Established THEN "idle" ELSE "down"
    /\ starting = FALSE
    /\ writes = 0 /\ faults = 0 /\ crashes = 0
    /\ owed = [f \in Files |-> {0}]
    /\ ahead = "none"

-----------------------------------------------------------------------------
(* Writing.                                                                *)

\* A registry is given a new version, in memory before the write or after it.
BeginWrite(f, first) ==
    /\ pc = "idle"
    /\ writes < MaxWrites
    /\ writes' = writes + 1
    /\ file' = f /\ doc' = writes'
    /\ mem' = IF first THEN [mem EXCEPT ![f] = writes'] ELSE mem
    /\ owed' = [owed EXCEPT ![f] = @ \union {writes'}]
    /\ pc' = "create"
    /\ UNCHANGED <<target, left, tmp, starting, faults, crashes, ahead>>

\* A control request: the apps are changed in memory first, the principals are cloned,
\* changed and taken over once they are written.  The sweep removes stale leases from
\* the principals in memory and then persists them.
Begin(f) == BeginWrite(f, f = "apps")
Sweep == BeginWrite("principals", TRUE)

WriteFrame == UNCHANGED <<mem, file, doc, starting, writes, faults, crashes, owed, ahead>>

\* Mutants: the target is removed before its successor is written; the target is
\* written in place.
CreateTmp_RemovesTarget ==
    /\ pc = "create"
    /\ target' = [target EXCEPT ![file] = Missing]
    /\ tmp' = Torn
    /\ pc' = "fill"
    /\ UNCHANGED left /\ WriteFrame
FillTmp_InPlace ==
    /\ pc = "fill"
    /\ target' = [target EXCEPT ![file] = Whole(doc)]
    /\ tmp' = Whole(doc)
    /\ pc' = "rename"
    /\ UNCHANGED left /\ WriteFrame

CreateTmp ==
    /\ pc = "create"
    /\ tmp' = Torn
    /\ pc' = "fill"
    /\ UNCHANGED <<target, left>> /\ WriteFrame

FillTmp ==
    /\ pc = "fill"
    /\ tmp' = Whole(doc)
    /\ pc' = "rename"
    /\ UNCHANGED <<target, left>> /\ WriteFrame

\* The file is in place.  After the apps the caller goes on, at a start to the principals;
\* after the principals write_principal_registry writes the status view.
Published ==
    /\ target' = [target EXCEPT ![file] = tmp]
    /\ tmp' = Missing
    /\ UNCHANGED <<left, mem, starting, writes, faults, crashes, ahead>>
    /\ \/ /\ starting /\ file = "apps"
          /\ file' = "principals" /\ doc' = mem["principals"]
          /\ pc' = "create"
          /\ UNCHANGED owed
       \/ /\ starting /\ file = "principals"
          /\ pc' = "view"
          /\ owed' = [f \in Files |-> IF mem[f] \in owed[f] THEN {mem[f]} ELSE owed[f]]
          /\ UNCHANGED <<file, doc>>
       \/ /\ ~starting
          /\ owed' = [owed EXCEPT ![file] = {doc}]
          /\ pc' = IF file = "apps" THEN "idle" ELSE "view"
          /\ UNCHANGED <<file, doc>>

\* fs::rename succeeds, or meets a destination conflict.
Rename == pc \in {"rename", "again"} /\ Published
Conflict ==
    /\ pc = "rename"
    /\ target[file] # Missing
    /\ pc' = "remove"
    /\ UNCHANGED <<target, left, tmp>> /\ WriteFrame
RemoveTarget ==
    /\ pc = "remove"
    /\ target' = [target EXCEPT ![file] = Missing]
    /\ pc' = "again"
    /\ UNCHANGED <<left, tmp>> /\ WriteFrame

\* write_principal_status_view: only then does replace_principal_registry take the
\* principals over, or the start end.
ViewWritten ==
    /\ pc = "view"
    /\ mem' = [mem EXCEPT !["principals"] = doc]
    /\ ahead' = "none"
    /\ pc' = "idle" /\ starting' = FALSE
    /\ UNCHANGED <<target, left, tmp, file, doc, writes, faults, crashes, owed>>

-----------------------------------------------------------------------------
(* Failures.                                                               *)

\* The write returns an error: at the start, that ends the process.
Failed ==
    /\ faults < MaxFaults
    /\ faults' = faults + 1
    /\ tmp' = Missing
    /\ pc' = IF starting THEN "down" ELSE "idle"
    /\ UNCHANGED <<target, mem, file, doc, starting, writes, crashes, owed>>

\* The principals of memory were changed for the write under way (Sweep).
MemoryFirst == file = "principals" /\ ~starting /\ mem["principals"] = doc
NotWritten == Failed /\ ahead' = IF MemoryFirst THEN "memory" ELSE ahead

\* The temporary file cannot be written, and is not removed.
FillError ==
    /\ pc = "fill"
    /\ left' = [left EXCEPT ![file] = @ \union {tmp}]
    /\ NotWritten

\* Every attempt to rename failed: the temporary file is removed, if it can be.
RenameError ==
    /\ pc \in {"rename", "again"}
    /\ left' \in {left, [left EXCEPT ![file] = @ \union {tmp}]}
    /\ NotWritten

\* The status view cannot be written, the principals are: what was not in memory
\* before is not taken over.
ViewError ==
    /\ pc = "view"
    /\ ahead' = IF mem["principals"] = doc THEN "none" ELSE "disk"
    /\ UNCHANGED left
    /\ Failed

Crash ==
    /\ pc \notin {"down", "refused"}
    /\ crashes < MaxCrashes
    /\ crashes' = crashes + 1
    /\ left' = IF tmp = Missing THEN left ELSE [left EXCEPT ![file] = @ \union {tmp}]
    /\ tmp' = Missing
    /\ pc' = "down"
    /\ UNCHANGED <<target, mem, file, doc, starting, writes, faults, owed, ahead>>

-----------------------------------------------------------------------------
(* A managed start.                                                        *)

StartFrame == UNCHANGED <<tmp, writes, faults, crashes, owed>>

\* read_app_registry and read_principal_registry: a torn file ends the start.
Load(f, next) ==
    \/ target[f].st = "torn" /\ pc' = "refused" /\ UNCHANGED mem
    \/ target[f].st # "torn" /\ pc' = next /\ mem' = [mem EXCEPT ![f] = target[f].val]

\* The apps are read first of all.
StartReadApps ==
    /\ pc = "down"
    /\ Load("apps", "recover")
    /\ starting' = TRUE
    /\ file' = "apps" /\ doc' = 0
    /\ UNCHANGED <<target, left, ahead>> /\ StartFrame

\* Mutant: temporary files are left where they are.
RecoverTmp_Nothing ==
    /\ pc = "recover" /\ pc' = "load"
    /\ UNCHANGED <<target, left, mem, file, doc, starting, ahead>> /\ StartFrame

\* recover_tmp_registry_files: a missing registry is any temporary file's content.
Recoverable(f) == target[f] = Missing /\ left[f] # {}
RecoverTmp ==
    /\ pc = "recover"
    /\ \E a \in left["apps"] \union {Missing}, b \in left["principals"] \union {Missing} :
           LET found == [f \in Files |-> IF f = "apps" THEN a ELSE b]
           IN  /\ \A f \in Files : (found[f] # Missing) = Recoverable(f)
               /\ target' = [f \in Files |-> IF Recoverable(f) THEN found[f] ELSE target[f]]
               /\ left' = [f \in Files |-> left[f] \ {found[f]}]
    /\ pc' = "load"
    /\ UNCHANGED <<mem, file, doc, starting, ahead>> /\ StartFrame

StartLoadPrincipals ==
    /\ pc = "load"
    /\ Load("principals", "sync")
    /\ ahead' = "none"
    /\ UNCHANGED <<target, left, file, doc, starting>> /\ StartFrame

\* sync_registry_to_disk compares the runtimes with the registry on disk and skips
\* the write when they agree; then refresh_principal_status.
StartSync ==
    /\ pc = "sync"
    /\ \/ /\ target["apps"].st = "torn"
          /\ pc' = "refused" /\ UNCHANGED <<file, doc>>
       \/ /\ target["apps"] = Whole(mem["apps"])
          /\ file' = "principals" /\ doc' = mem["principals"] /\ pc' = "create"
       \/ /\ target["apps"].st # "torn" /\ target["apps"] # Whole(mem["apps"])
          /\ file' = "apps" /\ doc' = mem["apps"] /\ pc' = "create"
    /\ UNCHANGED <<target, left, mem, starting, ahead>> /\ StartFrame

Next ==
    \/ \E f \in Files : Begin(f)
    \/ Sweep
    \/ CreateTmp \/ FillTmp \/ Rename \/ Conflict \/ RemoveTarget \/ ViewWritten
    \/ FillError \/ RenameError \/ ViewError \/ Crash
    \/ StartReadApps \/ RecoverTmp \/ StartLoadPrincipals \/ StartSync

Spec == Init /\ [][Next]_vars

-----------------------------------------------------------------------------
(* Properties.                                                             *)

TypeOK ==
    /\ target \in [Files -> Content] /\ left \in [Files -> SUBSET Content]
    /\ tmp \in Content /\ mem \in [Files -> Versions]
    /\ file \in Files /\ doc \in Versions
    /\ pc \in States /\ starting \in BOOLEAN
    /\ writes \in 0..MaxWrites /\ faults \in 0..MaxFaults /\ crashes \in 0..MaxCrashes
    /\ owed \in [Files -> SUBSET Versions] /\ ahead \in {"none", "disk", "memory"}

\* After one crash of a runtime whose writes succeed, the principals are the last ones
\* published or those whose write the crash interrupted, wherever it fell, the time
\* without a target included.  (recover_tmp_registry_files promotes what is left.)
PrincipalsRecovered ==
    pc = "idle" /\ faults = 0 /\ crashes <= 1 => mem["principals"] \in owed["principals"]

\* One crash alone never leaves registries with which the runtime refuses to start:
\* a torn temporary file is not promoted while its target exists.
Startable == faults = 0 /\ crashes <= 1 => pc # "refused"

\* Between writes the principals on disk are those in memory, or none, with two
\* exceptions: the status view that follows a registry on disk could not be written,
\* and disk is ahead until the next write; or the write of a sweep failed, and memory is.
\* No other failure leaves on disk what memory did not take over
\* (replace_principal_registry, sweep_stale_attaches_once).
DiskAhead == \E v \in Versions : target["principals"] = Whole(v) /\ v > mem["principals"]
MemoryAhead == \E v \in Versions : target["principals"] = Whole(v) /\ v < mem["principals"]
Drift ==
    \/ target["principals"] = Missing
    \/ ahead = "none" /\ target["principals"] = Whole(mem["principals"])
    \/ ahead = "disk" /\ DiskAhead
    \/ ahead = "memory" /\ MemoryAhead
DriftExplained == pc = "idle" => Drift
=============================================================================
