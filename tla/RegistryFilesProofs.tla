------------------------- MODULE RegistryFilesProofs -------------------------
(* Proofs about RegistryFiles, for every bound and either kind of start. *)
EXTENDS RegistryFiles, TLAPS

\* Every registry and every temporary file is one that some write could leave.
Written == {Torn} \union {Whole(v) : v \in Versions}
Held == Written \union {Missing}

Writing == {"create", "fill", "rename", "remove", "again"}

\* Nothing is of a later version than the last write begun.
Dated ==
    /\ \A f \in Files : mem[f] <= writes /\ target[f].val <= writes
    /\ \A f \in Files : \A x \in left[f] : x.val <= writes
    /\ doc <= writes

\* How the file of the principals stands to memory: while a sweep is being written it is
\* behind, once it is published it is the document, and otherwise Drift tells.
Standing ==
    /\ pc \in {"idle", "sync"} => Drift
    /\ pc \in Writing /\ ~MemoryFirst => Drift
    /\ pc \in Writing /\ MemoryFirst => target["principals"] = Missing \/ MemoryAhead
    /\ pc = "view" => file = "principals" /\ target["principals"] = Whole(doc)

\* The inductive invariant: the temporary file is the document under way, a start writes
\* the principals it has loaded, any other write of the principals a version that is not
\* behind memory, and from the load on the file stands to memory as above.
RegistryInv ==
    /\ TypeOK
    /\ target \in [Files -> Held] /\ left \in [Files -> SUBSET Written]
    /\ Dated
    /\ pc = "fill" => tmp = Torn
    /\ pc \in {"rename", "remove", "again"} => tmp = Whole(doc)
    /\ pc \notin {"fill", "rename", "remove", "again"} => tmp = Missing
    /\ pc = "idle" => ~starting
    /\ pc \in {"recover", "load", "sync"} => starting
    /\ pc \in Writing \union {"view"} /\ file = "principals" =>
           IF starting THEN doc = mem["principals"] ELSE doc >= mem["principals"]
    /\ Standing

USE RegistryFilesAssumption

\* The contents are contents, and tell what they are.
LEMMA Contents ==
    /\ Torn \in Content /\ Missing \in Content
    /\ \A v \in Versions : Whole(v) \in Content /\ Whole(v).val = v
    /\ \A x \in Held : x.st # "torn" => x \in {Whole(x.val), Missing}
    /\ Missing.val = 0 /\ Torn.st = "torn"
    /\ Held \subseteq Content /\ 0 \in Versions
BY DEF Torn, Missing, Content, Whole, Versions, Held, Written

\* The invariant holds of a new root and of one that was started before.
LEMMA InitInv == Init => RegistryInv
<1> SUFFICES ASSUME Init PROVE RegistryInv
    OBVIOUS
<1>1. Whole(0) \in Held /\ Missing \in Held /\ {Whole(0), Missing} \subseteq Content
    BY Contents DEF Held, Written
<1>2. target \in [Files -> Held] /\ target \in [Files -> Content]
    BY <1>1 DEF Init
<1>3. left \in [Files -> SUBSET Written] /\ left \in [Files -> SUBSET Content]
    BY DEF Init
<1>4. TypeOK
    <2>1. mem \in [Files -> Versions] /\ owed \in [Files -> SUBSET Versions]
        BY Contents DEF Init
    <2>2. pc \in States /\ starting \in BOOLEAN /\ file \in Files /\ ahead = "none"
        BY DEF Init, States, Files
    <2>3. /\ writes \in 0..MaxWrites /\ faults \in 0..MaxFaults /\ crashes \in 0..MaxCrashes
          /\ doc \in Versions /\ tmp \in Content
        BY Contents DEF Init
    <2> QED BY <1>2, <1>3, <2>1, <2>2, <2>3 DEF TypeOK
<1>5. Dated
    BY Contents DEF Init, Dated, Files, Whole, Missing
<1>6. Standing
    BY Contents DEF Init, Standing, Drift, Writing, Files
<1> QED BY <1>2, <1>3, <1>4, <1>5, <1>6 DEF Init, RegistryInv, Writing

\* Every step of a write, a crash or a start keeps it.
LEMMA StepInv == RegistryInv /\ [Next]_vars => RegistryInv'
<1> SUFFICES ASSUME RegistryInv, [Next]_vars PROVE RegistryInv'
    OBVIOUS
<1> USE Contents DEF RegistryInv, TypeOK, Dated, Standing, Drift, DiskAhead, MemoryAhead,
                     MemoryFirst, Writing, Files, States
<1>1. ASSUME NEW f \in Files, NEW first \in BOOLEAN, BeginWrite(f, first),
             f = "apps" => first
      PROVE  RegistryInv'
    <2>1. /\ writes' = writes + 1 /\ writes' \in Versions /\ doc' = writes' /\ file' = f
          /\ mem' = IF first THEN [mem EXCEPT ![f] = writes'] ELSE mem
          /\ mem' \in [Files -> Versions]
          /\ pc = "idle" /\ pc' = "create" /\ ~starting /\ tmp = Missing
          /\ UNCHANGED <<target, left, tmp, starting, faults, crashes, ahead>>
        BY <1>1 DEF BeginWrite, Versions
    <2>2. owed' \in [Files -> SUBSET Versions]
        BY <1>1, <2>1 DEF BeginWrite
    <2>3. TypeOK'
        BY <2>1, <2>2 DEF Versions
    <2>4. Dated'
        BY <2>1 DEF Versions, Content
    <2>5. Standing'
        <3>1. Drift
            BY <2>1
        <3>2. CASE f = "principals" /\ first
            <4>1. mem'["principals"] = writes + 1 /\ target["principals"].val <= writes
                BY <2>1, <3>2
            <4>2. target["principals"] = Missing
                    \/ \E v \in Versions : target["principals"] = Whole(v) /\ v <= writes
                BY <3>1, <4>1
            <4> QED BY <2>1, <3>2, <4>1, <4>2 DEF Versions
        <3>3. CASE f = "principals" /\ ~first
            BY <2>1, <3>1, <3>3 DEF Versions
        <3>4. CASE f = "apps"
            BY <2>1, <3>1, <3>4
        <3> QED BY <3>2, <3>3, <3>4
    <2>6. pc' \in Writing \union {"view"} /\ file' = "principals" => doc' >= mem'["principals"]
        BY <2>1 DEF Versions
    <2> QED BY <2>1, <2>3, <2>4, <2>5, <2>6
<1>2. CASE CreateTmp
    BY <1>2 DEF CreateTmp, WriteFrame
<1>3. CASE FillTmp
    BY <1>3 DEF FillTmp, WriteFrame
<1>4. CASE Rename
    <2>1. tmp = Whole(doc) /\ tmp \in Held /\ tmp \in Content /\ tmp.val = doc /\ pc \in Writing
        BY <1>4 DEF Rename, Held, Written
    <2>2. target' \in [Files -> Held] /\ target' \in [Files -> Content] /\ target'[file] = tmp
          /\ \A f \in Files \ {file} : target'[f] = target[f]
        BY <1>4, <2>1 DEF Rename, Published
    <2>3. tmp' = Missing /\ UNCHANGED <<left, mem, starting, writes, faults, crashes, ahead>>
        BY <1>4 DEF Rename, Published
    <2>4. \A f \in Files : target'[f].val <= writes
        BY <2>1, <2>2
    <2>5. CASE starting /\ file = "apps"
        <3>1. file' = "principals" /\ doc' = mem["principals"] /\ pc' = "create" /\ owed' = owed
            BY <1>4, <2>5 DEF Rename, Published
        <3>2. Drift /\ target'["principals"] = target["principals"]
            BY <2>1, <2>2, <2>5
        <3> QED BY <2>2, <2>3, <2>4, <2>5, <3>1, <3>2 DEF Versions
    <2>6. CASE file = "principals"
        <3>1. pc' = "view" /\ UNCHANGED <<file, doc>> /\ owed' \in [Files -> SUBSET Versions]
            BY <1>4, <2>6 DEF Rename, Published
        <3> QED BY <2>1, <2>2, <2>3, <2>4, <2>6, <3>1
    <2>7. CASE ~starting /\ file = "apps"
        <3>1. pc' = "idle" /\ UNCHANGED <<file, doc>> /\ owed' \in [Files -> SUBSET Versions]
            BY <1>4, <2>7 DEF Rename, Published
        <3>2. Drift /\ target'["principals"] = target["principals"]
            BY <2>1, <2>2, <2>7
        <3> QED BY <2>2, <2>3, <2>4, <2>7, <3>1, <3>2
    <2> QED BY <2>5, <2>6, <2>7
<1>5. CASE Conflict
    BY <1>5 DEF Conflict, WriteFrame
<1>6. CASE RemoveTarget
    <2>1. target' \in [Files -> Held] /\ target' \in [Files -> Content]
          /\ \A f \in Files : target'[f] \in {target[f], Missing}
        BY <1>6 DEF RemoveTarget, Held
    <2>2. pc = "remove" /\ pc' = "again" /\ tmp' = tmp /\ left' = left /\ WriteFrame
        BY <1>6 DEF RemoveTarget
    <2>3. Dated'
        BY <2>1, <2>2 DEF WriteFrame
    <2>4. Standing'
        BY <2>1, <2>2 DEF WriteFrame
    <2> QED BY <2>1, <2>2, <2>3, <2>4 DEF WriteFrame
<1>7. ASSUME FillError \/ RenameError PROVE RegistryInv'
    <2>1. tmp \in Written /\ tmp.val <= writes /\ pc \in Writing
        BY <1>7 DEF FillError, RenameError, Written, Torn
    <2>2. left' \in [Files -> SUBSET Written] /\ left' \in [Files -> SUBSET Content]
          /\ \A f \in Files : left'[f] \subseteq left[f] \union {tmp}
        BY <1>7, <2>1 DEF FillError, RenameError, Held
    <2>3. /\ pc' = (IF starting THEN "down" ELSE "idle") /\ tmp' = Missing
          /\ ahead' = IF MemoryFirst THEN "memory" ELSE ahead
          /\ faults' \in 0..MaxFaults
          /\ UNCHANGED <<target, mem, file, doc, starting, writes, crashes, owed>>
        BY <1>7 DEF FillError, RenameError, NotWritten, Failed
    <2>4. Dated'
        BY <2>1, <2>2, <2>3
    <2>5. Standing'
        BY <2>1, <2>3
    <2> QED BY <2>2, <2>3, <2>4, <2>5
<1>8. CASE ViewWritten
    <2>1. /\ mem' \in [Files -> Versions] /\ mem'["principals"] = doc
          /\ \A f \in Files : mem'[f] <= writes
          /\ pc = "view" /\ pc' = "idle" /\ starting' = FALSE /\ ahead' = "none"
          /\ UNCHANGED <<target, left, tmp, file, doc, writes, faults, crashes, owed>>
        BY <1>8 DEF ViewWritten
    <2> QED BY <2>1
<1>15. CASE ViewError
    <2>1. /\ pc' = (IF starting THEN "down" ELSE "idle") /\ tmp' = Missing
          /\ ahead' = IF mem["principals"] = doc THEN "none" ELSE "disk"
          /\ faults' \in 0..MaxFaults /\ pc = "view"
          /\ UNCHANGED <<target, left, mem, file, doc, starting, writes, crashes, owed>>
        BY <1>15 DEF ViewError, Failed
    <2>2. ~starting => Drift'
        BY <2>1 DEF Versions
    <2> QED BY <2>1, <2>2
<1>9. CASE Crash
    <2>1. tmp = Missing \/ (tmp \in Written /\ tmp.val <= writes)
        BY DEF Written, Torn
    <2>2. /\ left' \in [Files -> SUBSET Written] /\ left' \in [Files -> SUBSET Content]
          /\ \A f \in Files : left'[f] \subseteq left[f] \union {tmp}
          /\ tmp = Missing => left' = left
        BY <1>9, <2>1 DEF Crash, Held
    <2>3. /\ pc' = "down" /\ tmp' = Missing /\ crashes' \in 0..MaxCrashes
          /\ UNCHANGED <<target, mem, file, doc, starting, writes, faults, owed, ahead>>
        BY <1>9 DEF Crash
    <2>4. Dated'
        <3>1. CASE tmp = Missing
            BY <2>2, <2>3, <3>1
        <3>2. CASE tmp.val <= writes
            BY <2>2, <2>3, <3>2
        <3> QED BY <2>1, <3>1, <3>2
    <2> QED BY <2>2, <2>3, <2>4
<1>10. CASE StartReadApps
    <2>1. mem' \in [Files -> Versions] /\ \A f \in Files : mem'[f] <= writes
        BY <1>10 DEF StartReadApps, Load, Content
    <2>2. /\ pc' \in {"refused", "recover"} /\ starting' = TRUE /\ file' = "apps" /\ doc' = 0
          /\ pc = "down" /\ UNCHANGED <<target, left, ahead, tmp, writes, faults, crashes, owed>>
        BY <1>10 DEF StartReadApps, Load, StartFrame
    <2> QED BY <2>1, <2>2
<1>11. CASE RecoverTmp
    <2>1. PICK a \in left["apps"] \union {Missing}, b \in left["principals"] \union {Missing} :
              LET found == [f \in Files |-> IF f = "apps" THEN a ELSE b]
              IN  /\ target' = [f \in Files |-> IF Recoverable(f) THEN found[f] ELSE target[f]]
                  /\ left' = [f \in Files |-> left[f] \ {found[f]}]
        BY <1>11 DEF RecoverTmp
    <2>2. a \in Held /\ b \in Held /\ a.val <= writes /\ b.val <= writes
        BY DEF Held
    <2>3. target' \in [Files -> Held] /\ \A f \in Files : target'[f].val <= writes
        BY <2>1, <2>2
    <2>4. left' \in [Files -> SUBSET Written] /\ left' \in [Files -> SUBSET Content]
          /\ \A f \in Files : left'[f] \subseteq left[f]
        BY <2>1 DEF Held
    <2>5. /\ pc = "recover" /\ pc' = "load"
          /\ UNCHANGED <<mem, file, doc, starting, ahead, tmp, writes, faults, crashes, owed>>
        BY <1>11 DEF RecoverTmp, StartFrame
    <2> QED BY <2>3, <2>4, <2>5
<1>12. CASE StartLoadPrincipals
    <2>1. /\ pc = "load" /\ ahead' = "none" /\ pc' \in {"refused", "sync"}
          /\ UNCHANGED <<target, left, file, doc, starting, tmp, writes, faults, crashes, owed>>
        BY <1>12 DEF StartLoadPrincipals, Load, StartFrame
    <2>2. mem' \in [Files -> Versions] /\ \A f \in Files : mem'[f] <= writes
        BY <1>12 DEF StartLoadPrincipals, Load, Content
    <2>3. pc' = "sync" => target["principals"] \in {Whole(mem'["principals"]), Missing}
        BY <1>12 DEF StartLoadPrincipals, Load
    <2> QED BY <2>1, <2>2, <2>3
<1>13. CASE StartSync
    <2>1. UNCHANGED <<target, left, mem, starting, ahead, tmp, writes, faults, crashes, owed>>
        BY <1>13 DEF StartSync, StartFrame
    <2>2. pc = "sync" /\ starting /\ Drift /\ tmp = Missing
        BY <1>13 DEF StartSync
    <2>3. CASE pc' = "refused" /\ UNCHANGED <<file, doc>>
        BY <2>1, <2>2, <2>3
    <2>4. CASE pc' = "create" /\ file' = "principals" /\ doc' = mem["principals"]
        BY <2>1, <2>2, <2>4 DEF Versions
    <2>5. CASE pc' = "create" /\ file' = "apps" /\ doc' = mem["apps"]
        BY <2>1, <2>2, <2>5
    <2> QED BY <1>13, <2>3, <2>4, <2>5 DEF StartSync
<1>14. CASE UNCHANGED vars
    BY <1>14 DEF vars
<1> QED
    BY <1>1, <1>2, <1>3, <1>4, <1>5, <1>6, <1>7, <1>8, <1>9, <1>10, <1>11, <1>12, <1>13, <1>14,
       <1>15
    DEF Next, Begin, Sweep

-----------------------------------------------------------------------------
(* One crash, no failing write.                                            *)

\* What a start needs to find of a registry: itself, or temporary files that are whole.
Restorable(f) ==
    \/ target[f].st = "whole"
    \/ left[f] # {} /\ \A x \in left[f] : x.st = "whole"

\* The principals on disk, and the temporary files that stand in for them, are owed.
PrincipalsOwed ==
    /\ target["principals"].st = "whole" => target["principals"].val \in owed["principals"]
    /\ target["principals"] = Missing =>
           \A x \in left["principals"] : x.val \in owed["principals"]

\* The inductive invariant of PrincipalsRecovered and Startable.  Before the crash only the
\* registry being replaced may be missing, while its successor is whole; after it a missing
\* one has been left as a temporary file, until the start promotes that.
CrashInv ==
    faults = 0 /\ crashes <= 1 =>
        /\ pc # "refused"
        /\ \A f \in Files : target[f].st # "torn"
        /\ crashes = 0 => /\ pc \in Writing \union {"idle", "view"} /\ ~starting
                          /\ \A f \in Files :
                                 /\ left[f] = {}
                                 /\ target[f].st = "whole" \/ (pc = "again" /\ file = f)
                          /\ pc \in Writing => doc \in owed[file]
        /\ pc = "view" => doc \in owed["principals"]
        /\ crashes = 0 \/ pc \in {"down", "recover", "load"} => PrincipalsOwed
        /\ pc \in {"down", "recover"} => \A f \in Files : Restorable(f)
        /\ pc \in {"load", "sync"} => target["principals"].st = "whole"
        /\ pc \in Writing \union {"idle", "sync"} => mem["principals"] \in owed["principals"]

\* A root that was started before has both registries whole.
LEMMA CrashInit == Established /\ Init => CrashInv
BY Contents DEF Init, CrashInv, Files, Writing, Restorable, PrincipalsOwed, Whole, Missing

\* A step in a history of failing writes or of two crashes has nothing to keep.
LEMMA CrashStep == RegistryInv /\ CrashInv /\ [Next]_vars => CrashInv'
<1> SUFFICES ASSUME RegistryInv, CrashInv, [Next]_vars, faults' = 0, crashes' <= 1
             PROVE  CrashInv'
    BY DEF CrashInv
<1> USE DEF RegistryInv, TypeOK, CrashInv, Files, States, Writing, Restorable, PrincipalsOwed
<1>0. /\ \A v \in Versions : Whole(v).st = "whole" /\ Whole(v).val = v
      /\ Missing.st = "missing" /\ Torn.st = "torn"
      /\ \A f \in Files : target[f].st \in {"torn", "whole"} \/ target[f] = Missing
    BY DEF Whole, Missing, Torn, Held, Written
<1>a. faults = 0 /\ crashes <= 1
    BY DEF Next, Begin, Sweep, BeginWrite, CreateTmp, FillTmp, Rename, Published, Conflict,
           RemoveTarget, ViewWritten, FillError, RenameError, ViewError, NotWritten, Failed,
           Crash, StartReadApps, RecoverTmp, StartLoadPrincipals, StartSync, WriteFrame, StartFrame, vars
<1> USE <1>0, <1>a
<1>1. ASSUME NEW f \in Files, NEW first \in BOOLEAN, BeginWrite(f, first) PROVE CrashInv'
    BY <1>1 DEF BeginWrite, Versions
<1>2. CASE CreateTmp
    BY <1>2 DEF CreateTmp, WriteFrame
<1>3. CASE FillTmp
    BY <1>3 DEF FillTmp, WriteFrame
<1>4. CASE Rename
    BY <1>4 DEF Rename, Published
<1>5. CASE Conflict
    BY <1>5 DEF Conflict, WriteFrame
<1>6. CASE RemoveTarget
    BY <1>6 DEF RemoveTarget, WriteFrame
<1>7. CASE FillError \/ RenameError \/ ViewError
    BY <1>7 DEF FillError, RenameError, ViewError, NotWritten, Failed
<1>8. CASE ViewWritten
    BY <1>8 DEF ViewWritten
<1>9. CASE Crash
    BY <1>9 DEF Crash
<1>10. CASE StartReadApps
    BY <1>10 DEF StartReadApps, Load, StartFrame
<1>11. CASE RecoverTmp
    <2>1. PICK a \in left["apps"] \union {Missing}, b \in left["principals"] \union {Missing} :
              LET found == [f \in Files |-> IF f = "apps" THEN a ELSE b]
              IN  /\ \A f \in Files : (found[f] # Missing) = Recoverable(f)
                  /\ target' = [f \in Files |-> IF Recoverable(f) THEN found[f] ELSE target[f]]
        BY <1>11 DEF RecoverTmp
    <2>2. /\ target'["apps"] = IF Recoverable("apps") THEN a ELSE target["apps"]
          /\ target'["principals"] = IF Recoverable("principals") THEN b ELSE target["principals"]
          /\ Recoverable("apps") => a \in left["apps"]
          /\ Recoverable("principals") => b \in left["principals"]
        BY <2>1
    <2>3. /\ target'["apps"].st = "whole" /\ target'["principals"].st = "whole"
          /\ target'["principals"].val \in owed["principals"]
        BY <1>11, <2>2 DEF RecoverTmp, Recoverable
    <2>4. pc' = "load" /\ crashes # 0 /\ UNCHANGED <<owed, crashes>>
        BY <1>11 DEF RecoverTmp, StartFrame
    <2> QED BY <2>3, <2>4
<1>12. CASE StartLoadPrincipals
    BY <1>12 DEF StartLoadPrincipals, Load, StartFrame
<1>13. CASE StartSync
    BY <1>13 DEF StartSync, StartFrame
<1>14. CASE UNCHANGED vars
    BY <1>14 DEF vars
<1> QED
    BY <1>1, <1>2, <1>3, <1>4, <1>5, <1>6, <1>7, <1>8, <1>9, <1>10, <1>11, <1>12, <1>13, <1>14
    DEF Next, Begin, Sweep

\* The types of the registries' state, for any number of writes, failures and crashes.
THEOREM RegistryTypeOK == Spec => []TypeOK
<1>1. RegistryInv => TypeOK
    BY DEF RegistryInv
<1> QED BY <1>1, InitInv, StepInv, PTL DEF Spec

\* replace_principal_registry and the sweep: between writes the principals on disk are those
\* in memory or none, unless a status view or a sweep could not be written; then the one
\* that the failed write leaves ahead is known, wherever the process died.
THEOREM FailedWritesDrift == Spec => []DriftExplained
<1>1. RegistryInv => DriftExplained
    BY DEF RegistryInv, Standing, DriftExplained
<1> QED BY <1>1, InitInv, StepInv, PTL DEF Spec

\* recover_tmp_registry_files: one crash of a runtime whose writes succeed, wherever it
\* falls, leaves the principals last published or those being published.
THEOREM OneCrashRecovers == Established => (Spec => []PrincipalsRecovered)
<1> SUFFICES ASSUME Established PROVE Spec => []PrincipalsRecovered
    OBVIOUS
<1>1. CrashInv => PrincipalsRecovered
    BY DEF CrashInv, PrincipalsRecovered
<1>2. Init => CrashInv
    BY CrashInit
<1> QED BY <1>1, <1>2, CrashStep, InitInv, StepInv, PTL DEF Spec

\* read_app_registry and read_principal_registry: after such a crash the start finds no
\* registry that it cannot parse.
THEOREM OneCrashStartable == Established => (Spec => []Startable)
<1> SUFFICES ASSUME Established PROVE Spec => []Startable
    OBVIOUS
<1>1. CrashInv => Startable
    BY DEF CrashInv, Startable
<1>2. Init => CrashInv
    BY CrashInit
<1> QED BY <1>1, <1>2, CrashStep, InitInv, StepInv, PTL DEF Spec
=============================================================================
