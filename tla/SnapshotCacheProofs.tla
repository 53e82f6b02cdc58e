------------------------ MODULE SnapshotCacheProofs ------------------------
(* Proofs about SnapshotCache, for every set of resources and every bound. *)
EXTENDS SnapshotCache, TLAPS

USE ResourcesAssumption, BoundsAssumption

\* Who writes a journal; the files; the files with the mount's memory; the adapter.
Writers == {"adapter", "mount"}
DType == [target : [Resources -> Files], temp : [Resources -> Files],
          journal : SUBSET Resources, by : Writers, cut : BOOLEAN]
SType == [d : DType, mj : SUBSET Resources, loaded : BOOLEAN,
          open : Resources \union {NoResource}, fd : {"none", "temp", "target", "gone"},
          next : Contents]
AType == [pc : {"down", "init", "idle", "fetch", "open", "write", "mark", "remove", "rename",
                "clear"},
          r : Resources \union {NoResource}, v : Files,
          journal : SUBSET Resources, by : Writers, todo : SUBSET Resources]

-----------------------------------------------------------------------------
(* What the steps on the files do.                                         *)

\* Emptying the journal file changes nothing else.
LEMMA CutOp ==
    ASSUME NEW d \in DType
    PROVE  /\ CutJournal(d) \in DType
           /\ CutJournal(d).cut = TRUE /\ CutJournal(d).target = d.target
           /\ CutJournal(d).temp = d.temp /\ CutJournal(d).journal = d.journal
           /\ CutJournal(d).by = d.by
BY DEF DType, CutJournal

\* A save of the journal replaces its entries, and whose they are.
LEMMA SavedOp ==
    ASSUME NEW d \in DType, NEW j \in SUBSET Resources, NEW by \in Writers
    PROVE  /\ Saved(d, j, by) \in DType
           /\ Saved(d, j, by).cut = FALSE /\ Saved(d, j, by).target = d.target
           /\ Saved(d, j, by).temp = d.temp /\ Saved(d, j, by).journal = j
           /\ Saved(d, j, by).by = by
BY DEF DType, Saved

\* So does one of the mount.
LEMMA MountSavedOp ==
    ASSUME NEW d \in DType, NEW j \in SUBSET Resources
    PROVE  /\ MountSaved(d, j) \in DType
           /\ MountSaved(d, j).cut = FALSE /\ MountSaved(d, j).target = d.target
           /\ MountSaved(d, j).temp = d.temp /\ MountSaved(d, j).journal = j
           /\ MountSaved(d, j).by = "mount"
BY SavedOp DEF MountSaved, Writers

\* A step on a temporary file changes that file only.
LEMMA TempOp ==
    ASSUME NEW d \in DType, NEW r \in Resources, NEW f \in Files
    PROVE  /\ Temp(d, r, f) \in DType
           /\ Temp(d, r, f).cut = d.cut /\ Temp(d, r, f).target = d.target
           /\ Temp(d, r, f).temp = [d.temp EXCEPT ![r] = f] /\ Temp(d, r, f).journal = d.journal
           /\ Temp(d, r, f).by = d.by
BY DEF DType, Temp

\* A step on a snapshot file changes that file only.
LEMMA TargetOp ==
    ASSUME NEW d \in DType, NEW r \in Resources, NEW f \in Files
    PROVE  /\ Target(d, r, f) \in DType
           /\ Target(d, r, f).cut = d.cut /\ Target(d, r, f).target = [d.target EXCEPT ![r] = f]
           /\ Target(d, r, f).temp = d.temp /\ Target(d, r, f).journal = d.journal
BY DEF DType, Target

\* A recovery removes the temporary files it is given.
LEMMA CleanedOp ==
    ASSUME NEW d \in DType, NEW j
    PROVE  /\ Cleaned(d, j) \in DType
           /\ Cleaned(d, j).cut = d.cut /\ Cleaned(d, j).target = d.target
           /\ Cleaned(d, j).temp = [q \in Resources |-> IF q \in j THEN Absent ELSE d.temp[q]]
           /\ Cleaned(d, j).journal = d.journal /\ Cleaned(d, j).by = d.by
BY DEF DType, Cleaned, Files

\* A publication moves the temporary file of a resource to its target.
LEMMA PublishedOp ==
    ASSUME NEW d \in DType, NEW r \in Resources, NEW f \in Files
    PROVE  /\ Published(d, r, f) \in DType
           /\ Published(d, r, f).cut = d.cut
           /\ Published(d, r, f).target = [d.target EXCEPT ![r] = f]
           /\ Published(d, r, f).temp = [d.temp EXCEPT ![r] = Absent]
           /\ Published(d, r, f).journal = d.journal /\ Published(d, r, f).by = d.by
BY DEF DType, Published, Temp, Target, Files

-----------------------------------------------------------------------------
(* What the mount does in a request.                                       *)

NoMix(d) == \A q \in Resources : d.target[q] # Mixed /\ d.temp[q] # Mixed

\* The mount goes from x to y: it mixes nothing, leaves no temporary file of its own, and a
\* file open for writing is as it was, published, or gone.  It changes files only when it has
\* loaded the journal, and then the files of its own entries are gone.
MountOK(x, y) ==
    /\ y \in SType /\ y.open = x.open
    /\ NoMix(x.d) => NoMix(y.d)
    /\ \A q \in Resources : y.d.temp[q] # Absent => x.d.temp[q] # Absent
    /\ x.fd = "none" <=> y.fd = "none"
    /\ y.fd = "temp" => /\ x.fd = "temp"
                        /\ x.open \in Resources => y.d.temp[x.open] = x.d.temp[x.open]
    /\ ~x.d.cut => ~y.d.cut
    /\ x.loaded => y.loaded
    /\ ~y.loaded => y.d = x.d
    /\ ~x.loaded /\ y.loaded =>
          \A q \in x.d.journal : y.d.temp[q] # Absent => x.d.by = "adapter"
    /\ (y.d.journal = x.d.journal /\ y.d.by = x.d.by) \/ y.d.by = "mount"

\* The files d are ones that a crash may leave on the way from x.
LeftOK(x, d) ==
    /\ d \in DType
    /\ NoMix(x.d) => NoMix(d)
    /\ \A q \in Resources : d.temp[q] # Absent => x.d.temp[q] # Absent \/ q \in d.journal
    /\ (d.journal = x.d.journal /\ d.by = x.d.by) \/ d.by = "mount"
    /\ ~x.loaded /\ d.journal # x.d.journal =>
          \A q \in x.d.journal : d.temp[q] # Absent => q \in d.journal \/ x.d.by = "adapter"

\* A request of the mount that changes nothing.
LEMMA MountStay == ASSUME NEW x \in SType PROVE MountOK(x, x) /\ LeftOK(x, x.d)
BY DEF MountOK, LeftOK, SType

\* Two steps of the mount, one after the other, are a step of it.
LEMMA MountTwice ==
    ASSUME NEW x \in SType, NEW y, NEW z, MountOK(x, y), MountOK(y, z)
    PROVE  MountOK(x, z)
<1>1. x.d.journal \subseteq Resources /\ x.loaded \in BOOLEAN /\ y.loaded \in BOOLEAN
    BY DEF SType, DType, MountOK
<1> QED BY <1>1 DEF MountOK

\* What a crash may leave after a step, it may leave from the state before.
LEMMA MountLeaves ==
    ASSUME NEW x \in SType, NEW y, MountOK(x, y)
    PROVE  LeftOK(x, y.d) /\ \A d : LeftOK(y, d) => LeftOK(x, d)
<1>1. /\ x.d.journal \subseteq Resources /\ x.loaded \in BOOLEAN /\ y.loaded \in BOOLEAN
      /\ y.d \in DType
    BY DEF SType, DType, MountOK
<1> QED BY <1>1 DEF MountOK, LeftOK

\* A crash may also cut the save of the journal that follows.
LEMMA CutLeaves == ASSUME NEW x, NEW d, LeftOK(x, d) PROVE LeftOK(x, CutJournal(d))
BY CutOp DEF LeftOK, NoMix

\* The markers of a file are apart from each other and from the contents.
LEMMA Constants ==
    /\ Absent \in Files /\ Empty \in Files /\ Mixed \in Files /\ Contents \subseteq Files
    /\ Absent # Mixed /\ Empty # Mixed /\ Absent # Empty
    /\ Mixed \notin Contents /\ Absent \notin Contents /\ Empty \notin Contents
    /\ 1 \in Contents
BY DEF Absent, Empty, Mixed, Files, Contents

\* The mount loads the journal and removes what it names (recover_incomplete_expands).
LEMMA LoadOK ==
    ASSUME NEW x \in SType
    PROVE  LET l == runtime_loaded(x)
           IN  /\ MountOK(x, l.s) /\ l.err \in BOOLEAN
               /\ ~l.err => l.s.loaded
               /\ \A d \in l.left : LeftOK(x, d)
<1> USE Constants
<1>1. CASE x.loaded \/ x.d.cut
    BY <1>1, MountStay DEF runtime_loaded, Result, SType
<1>2. CASE ~x.loaded /\ ~x.d.cut /\ x.d.journal = {}
    BY <1>2 DEF runtime_loaded, Result, SType, MountOK
<1>3. CASE ~x.loaded /\ ~x.d.cut /\ x.d.journal # {}
    <2> DEFINE mine == Removable(x.d.journal, x.d.by, "mount")
               c == Cleaned(x.d, mine)
               y == [x EXCEPT !.d = MountSaved(c, {}), !.mj = {}, !.loaded = TRUE,
                              !.fd = IF @ = "temp" /\ x.open \in mine THEN "gone" ELSE @]
    <2>1. runtime_loaded(x) = Result(y, FALSE, {c, CutJournal(c)})
        BY <1>3 DEF runtime_loaded, recover_incomplete_expands
    <2>2. x.d \in DType /\ x.d.by \in Writers /\ x.d.journal \subseteq Resources
        BY DEF SType, DType
    <2>0. \A q \in x.d.journal : q \in mine \/ x.d.by = "adapter"
        BY <2>2 DEF Removable, Writers
    <2>3. /\ c \in DType /\ c.cut = x.d.cut /\ c.target = x.d.target /\ c.journal = x.d.journal
          /\ c.by = x.d.by
          /\ c.temp = [q \in Resources |-> IF q \in mine THEN Absent ELSE x.d.temp[q]]
        BY <2>2, CleanedOp
    <2> HIDE DEF c, mine
    <2>4. /\ MountSaved(c, {}) \in DType /\ MountSaved(c, {}).cut = FALSE
          /\ MountSaved(c, {}).target = c.target /\ MountSaved(c, {}).temp = c.temp
          /\ MountSaved(c, {}).by = "mount"
        <3>1. {} \in SUBSET Resources
            OBVIOUS
        <3> QED BY <2>3, <3>1, MountSavedOp
    <2>a. CutJournal(c) \in DType /\ CutJournal(c).target = c.target /\ CutJournal(c).temp = c.temp
          /\ CutJournal(c).journal = c.journal /\ CutJournal(c).by = c.by
        BY <2>3, CutOp
    <2>b. /\ y \in SType /\ y.d = MountSaved(c, {}) /\ y.open = x.open /\ y.loaded
          /\ y.fd = IF x.fd = "temp" /\ x.open \in mine THEN "gone" ELSE x.fd
        BY <2>4 DEF SType
    <2> HIDE DEF y
    <2>5. MountOK(x, y)
        BY <1>3, <2>0, <2>b, <2>2, <2>3, <2>4 DEF MountOK, NoMix
    <2>6. LeftOK(x, c) /\ LeftOK(x, CutJournal(c))
        BY <2>3, <2>a DEF LeftOK, NoMix
    <2> QED BY <2>1, <2>b, <2>5, <2>6 DEF Result
<1> QED BY <1>1, <1>2, <1>3 DEF SType

\* The mount expands a snapshot and publishes it.
LEMMA ExpandedOK ==
    ASSUME NEW x \in SType, NEW r \in Resources, NEW f \in Files, f # Mixed,
           x.loaded
    PROVE  LET l == Expanded(x, r, f)
           IN  /\ MountOK(x, l.s) /\ l.err \in BOOLEAN
               /\ \A d \in l.left : LeftOK(x, d)
<1> USE Constants
<1> DEFINE d == MountSaved(x.d, x.mj \union {r})
           p == Published(d, r, f)
           y == [x EXCEPT !.d = MountSaved(p, x.mj \ {r}), !.mj = @ \ {r},
                          !.fd = IF @ = "temp" /\ x.open = r THEN "target" ELSE @]
<1>1. Expanded(x, r, f) = Result(y, FALSE, {CutJournal(x.d), d, Temp(d, r, Empty), Temp(d, r, f),
                                            CutJournal(Temp(d, r, f)), p, CutJournal(p)})
    BY DEF Expanded
<1>2. x.d \in DType /\ x.mj \union {r} \in SUBSET Resources /\ x.mj \ {r} \in SUBSET Resources
    BY DEF SType
<1>3. /\ d \in DType /\ d.cut = FALSE /\ d.target = x.d.target /\ d.temp = x.d.temp
      /\ d.journal = x.mj \union {r} /\ d.by = "mount"
    BY <1>2, MountSavedOp
<1> HIDE DEF d
<1>4. /\ p \in DType /\ p.cut = FALSE /\ p.journal = d.journal /\ p.by = "mount"
      /\ p.target = [d.target EXCEPT ![r] = f] /\ p.temp = [d.temp EXCEPT ![r] = Absent]
    BY <1>3, PublishedOp
<1> HIDE DEF p
<1>5. /\ MountSaved(p, x.mj \ {r}) \in DType /\ MountSaved(p, x.mj \ {r}).cut = FALSE
      /\ MountSaved(p, x.mj \ {r}).target = p.target /\ MountSaved(p, x.mj \ {r}).temp = p.temp
      /\ MountSaved(p, x.mj \ {r}).by = "mount"
    BY <1>2, <1>4, MountSavedOp
<1>a. /\ y \in SType /\ y.d = MountSaved(p, x.mj \ {r}) /\ y.open = x.open
      /\ y.loaded
      /\ y.fd = IF x.fd = "temp" /\ x.open = r THEN "target" ELSE x.fd
    BY <1>2, <1>5 DEF SType
<1> HIDE DEF y
<1>b. x.d.target \in [Resources -> Files] /\ x.d.temp \in [Resources -> Files]
    BY <1>2 DEF DType
<1>c. /\ \A q \in Resources : y.d.temp[q] = IF q = r THEN Absent ELSE x.d.temp[q]
      /\ \A q \in Resources : y.d.target[q] = IF q = r THEN f ELSE x.d.target[q]
      /\ ~y.d.cut /\ y.d.by = "mount"
    <2>1. y.d.temp = [x.d.temp EXCEPT ![r] = Absent] /\ y.d.target = [x.d.target EXCEPT ![r] = f]
        BY <1>a, <1>3, <1>4, <1>5
    <2> QED BY <1>a, <1>b, <1>5, <2>1
<1>d. x.open \in Resources \union {NoResource}
    BY DEF SType
<1>6. MountOK(x, y)
    BY <1>a, <1>c, <1>d DEF MountOK, NoMix
<1>7. LeftOK(x, d) /\ LeftOK(x, p)
    BY <1>b, <1>3, <1>4 DEF LeftOK, NoMix
<1>8. ASSUME NEW g \in Files, g # Mixed PROVE LeftOK(x, Temp(d, r, g))
    <2>1. /\ Temp(d, r, g) \in DType /\ Temp(d, r, g).target = d.target
          /\ Temp(d, r, g).temp = [d.temp EXCEPT ![r] = g] /\ Temp(d, r, g).journal = d.journal
          /\ Temp(d, r, g).by = d.by
        BY <1>3, TempOp
    <2> QED BY <1>b, <1>3, <1>8, <2>1 DEF LeftOK, NoMix
<1> QED BY <1>1, <1>6, <1>7, <1>8, MountStay, CutLeaves DEF Result

\* The mount gives up an expansion.
LEMMA FailedOK ==
    ASSUME NEW x \in SType, NEW r \in Resources, x.loaded,
           NEW l \in {Abandoned(x, r), Dropped(x, r)}
    PROVE  MountOK(x, l.s) /\ l.err \in BOOLEAN /\ \A d \in l.left : LeftOK(x, d)
<1>1. x.d \in DType /\ x.mj \union {r} \in SUBSET Resources /\ x.mj \ {r} \in SUBSET Resources
    BY DEF SType
<1>2. ASSUME NEW j \in SUBSET Resources
      PROVE  LeftOK(x, MountSaved(x.d, j)) /\ MountOK(x, [x EXCEPT !.d = MountSaved(x.d, j), !.mj = j])
    <2> DEFINE y == [x EXCEPT !.d = MountSaved(x.d, j), !.mj = j]
    <2>1. /\ MountSaved(x.d, j) \in DType /\ MountSaved(x.d, j).cut = FALSE
          /\ MountSaved(x.d, j).target = x.d.target /\ MountSaved(x.d, j).temp = x.d.temp
          /\ MountSaved(x.d, j).by = "mount"
        BY <1>1, MountSavedOp
    <2>2. y \in SType /\ y.d = MountSaved(x.d, j) /\ y.open = x.open /\ y.fd = x.fd
          /\ y.loaded
        BY <2>1 DEF SType
    <2> HIDE DEF y
    <2>3. LeftOK(x, MountSaved(x.d, j)) /\ MountOK(x, y)
        BY <2>1, <2>2 DEF MountOK, LeftOK, NoMix
    <2> QED BY <2>3 DEF y
<1>3. LeftOK(x, CutJournal(x.d))
    BY MountStay, CutLeaves
<1>4. CASE l = Abandoned(x, r)
    BY <1>1, <1>2, <1>3, <1>4 DEF Abandoned, Result
<1>5. CASE l = Dropped(x, r)
    BY <1>1, <1>2, <1>3, <1>5 DEF Dropped, Result
<1> QED BY <1>4, <1>5

\* A lookup, with the expansion it may cause.
LEMMA LookupOK ==
    ASSUME s \in SType, NEW r \in Resources, NEW out \in Outcomes(r)
    PROVE  LET l == LookedUp(r, out)
           IN  /\ MountOK(s, l.s) /\ l.err \in BOOLEAN
               /\ \A d \in l.left : LeftOK(s, d)
<1>1. CASE ~Misses(r)
    BY <1>1, MountStay DEF LookedUp, Result
<1>2. CASE Misses(r)
    <2> DEFINE m == runtime_loaded(s)
    <2>1. MountOK(s, m.s) /\ m.err \in BOOLEAN /\ (~m.err => m.s.loaded)
          /\ \A d \in m.left : LeftOK(s, d)
        BY LoadOK
    <2>2. LookedUp(r, out) = Ensured(m, r, out)
        BY <1>2 DEF LookedUp
    <2> HIDE DEF m
    <2>3. CASE m.err
        BY <2>1, <2>2, <2>3 DEF Ensured
    <2>4. CASE ~m.err
        <3> DEFINE e == ensure_snapshot_materialized(m.s, r, out)
        <3>1. m.s \in SType /\ m.s.loaded
            BY <2>1, <2>4 DEF MountOK
        <3>2. Fetch(m.s) \in SType /\ MountOK(m.s, Fetch(m.s)) /\ m.s.next \in Contents
              /\ Fetch(m.s).d = m.s.d /\ Fetch(m.s).loaded
            BY <3>1 DEF Fetch, SType, MountOK, Contents
        <3>3. MountOK(m.s, e.s) /\ e.err \in BOOLEAN /\ \A d \in e.left : LeftOK(m.s, d)
            <4>1. CASE out \in {"error", "drop"}
                BY <3>1, <4>1, FailedOK DEF ensure_snapshot_materialized
            <4>2. CASE out = "empty"
                BY <3>1, <4>2, ExpandedOK, Constants DEF ensure_snapshot_materialized
            <4>3. CASE out = "ok"
                <5> DEFINE w == Expanded(Fetch(m.s), r, m.s.next)
                <5>1. e = w
                    BY <4>3 DEF ensure_snapshot_materialized
                <5>2. /\ MountOK(Fetch(m.s), w.s) /\ w.err \in BOOLEAN
                      /\ \A d \in w.left : LeftOK(Fetch(m.s), d)
                    BY <3>2, ExpandedOK, Constants
                <5> HIDE DEF e, w
                <5> QED BY <3>1, <3>2, <5>1, <5>2, MountTwice, MountLeaves
            <4> QED BY <4>1, <4>2, <4>3 DEF Outcomes, Faults
        <3> HIDE DEF e
        <3>4. /\ LookedUp(r, out).s = e.s /\ LookedUp(r, out).err = e.err
              /\ LookedUp(r, out).left \subseteq m.left \union e.left \union {m.s.d}
            BY <2>2, <2>4 DEF Ensured, Result, e
        <3>5. MountOK(s, e.s) /\ LeftOK(s, m.s.d) /\ \A d \in e.left : LeftOK(s, d)
            BY <2>1, <3>3, MountTwice, MountLeaves
        <3> QED BY <2>1, <3>3, <3>4, <3>5
    <2> QED BY <2>1, <2>3, <2>4
<1> QED BY <1>1, <1>2

\* The adapter saves its map of the journal.
LEMMA SaveOp ==
    ASSUME NEW x \in SType, NEW j \in SUBSET Resources
    PROVE  /\ Save(x, j) \in SType
           /\ Save(x, j).fd = x.fd /\ Save(x, j).open = x.open /\ Save(x, j).d = Saved(x.d, j, "adapter")
           /\ Save(x, j).d.target = x.d.target /\ Save(x, j).d.temp = x.d.temp
           /\ ~Save(x, j).d.cut
<1>1. x.d \in DType
    BY DEF SType
<1>2. /\ Saved(x.d, j, "adapter") \in DType /\ Saved(x.d, j, "adapter").cut = FALSE
      /\ Saved(x.d, j, "adapter").target = x.d.target
      /\ Saved(x.d, j, "adapter").temp = x.d.temp
    BY <1>1 DEF Saved, DType, Writers
<1> QED BY <1>2 DEF Save, SType

-----------------------------------------------------------------------------
(* The invariant.                                                          *)

Windows == {"journal", "temp", "crash", "retry", "foreign"}
Shape ==
    /\ mode \in Modes /\ s \in SType /\ adapter \in AType
    /\ pending \subseteq Resources /\ torn \subseteq Windows

\* Between the first request of an expansion and its end the adapter has its resource, which
\* its journal map names; it has a file open only to write to it.
Local(x, a) ==
    /\ a.r \in Resources <=> a.pc \notin {"down", "init", "idle"}
    /\ a.pc \notin {"down", "init", "idle"} => a.r \in a.journal
    /\ x.fd = "none" <=> a.pc # "write"
    /\ a.pc \in {"open", "write"} => a.v \in Contents

\* Unless a lookup published the file that the adapter has open, no file is mixed, and the
\* open file is still the temporary file of the expansion, and empty.
Whole(x, a) ==
    /\ NoMix(x.d)
    /\ x.fd # "target"
    /\ x.fd = "temp" => x.open = a.r /\ x.d.temp[a.r] = Empty

\* Every temporary file is named in the adapter's map or, before the adapter has loaded the
\* journal, in the file: then the mount has not loaded it either.
Named(x, a) ==
    /\ ~x.d.cut
    /\ \A q \in Resources :
          x.d.temp[q] # Absent => IF a.pc = "down" THEN q \in x.d.journal /\ ~x.loaded
                                  ELSE q \in a.journal

\* Outside the other windows the file holds the adapter's entries as well.
Journaled(x, a) == a.journal \subseteq x.d.journal /\ Named(x, a)

Inv ==
    /\ Shape
    /\ Local(s, adapter)
    /\ "temp" \notin torn => Whole(s, adapter)
    /\ torn \subseteq {"temp"} => Journaled(s, adapter)

\* The process dies and leaves files that were on the way.
LEMMA DiesOK ==
    ASSUME Inv, NEW d, LeftOK(s, d), Dies(d)
    PROVE  Inv'
<1> USE Constants
<1>1. s \in SType /\ d \in DType /\ adapter \in AType /\ s.d.journal \subseteq Resources
    BY DEF Inv, Shape, LeftOK, SType, DType
<1>2. /\ s' \in SType /\ s'.d = d /\ s'.fd = "none" /\ adapter' \in AType /\ ~s'.loaded
      /\ adapter'.pc = "down" /\ adapter'.r = NoResource /\ adapter'.journal = {}
    BY <1>1 DEF Dies, Left, Off, SType, AType, Writers
<1>0. torn' = torn \union Tears(adapter.journal, d) \union Foreign(d.by = "mount")
                   \union (IF d.cut THEN {"crash"} ELSE {})
    BY DEF Dies
<1>3. Shape'
    <2>1. mode' \in Modes /\ pending' = pending
        BY DEF Dies
    <2> QED BY <1>0, <1>2, <2>1 DEF Inv, Shape, Windows, Tears, Foreign
<1>4. Local(s, adapter)'
    BY <1>2 DEF Local
<1>5. "temp" \notin torn' => Whole(s, adapter)'
    BY <1>0, <1>2 DEF Whole, Inv, LeftOK
<1>6. torn' \subseteq {"temp"} => Journaled(s, adapter)'
    <2> SUFFICES ASSUME torn' \subseteq {"temp"} PROVE Journaled(s, adapter)'
        OBVIOUS
    <2>1. torn \subseteq {"temp"} /\ ~d.cut /\ adapter.journal \subseteq d.journal
        BY <1>0 DEF Tears
    <2>2. ~(d.by = "mount" /\ ~s.loaded /\ s.d.by = "adapter"
            /\ \E r \in s.d.journal : s.d.temp[r] # Absent)
        BY <1>0 DEF Foreign
    <2>3. Named(s, adapter)
        BY <2>1 DEF Inv, Journaled, Named
    <2>4. ASSUME NEW q \in Resources, d.temp[q] # Absent PROVE q \in d.journal
        <3>1. CASE adapter.pc # "down"
            BY <2>1, <2>3, <2>4, <3>1 DEF LeftOK, Named
        <3>2. CASE adapter.pc = "down" /\ s.d.temp[q] # Absent
            <4>1. q \in s.d.journal /\ ~s.loaded
                BY <2>3, <3>2 DEF Named
            <4> QED BY <2>2, <2>4, <3>2, <4>1 DEF LeftOK
        <3> QED BY <2>4, <3>1, <3>2 DEF LeftOK
    <2> QED BY <1>2, <2>1, <2>4 DEF Journaled, Named
<1> QED BY <1>3, <1>4, <1>5, <1>6 DEF Inv

\* The end of a request: what its last state has to meet.
LEMMA DoneAny ==
    ASSUME Inv,
           NEW x \in SType, NEW a \in AType, NEW answered,
           NEW out, NEW left, NEW tears \in SUBSET Windows,
           DoneTearing(x, left, a, answered, out, tears),
           \A d \in left : LeftOK(s, d),
           Local(x, a),
           "temp" \notin torn /\ x.fd # "target" => Whole(x, a),
           torn \union tears \union Foreign(x.loaded) \subseteq {"temp"} => Named(x, a)
    PROVE  Inv'
<1>1. CASE \E d \in left : Dies(d)
    BY <1>1, DiesOK
<1>2. CASE ~\E d \in left : Dies(d)
    <2>1. /\ s' = x /\ adapter' = a /\ pending' = pending \ answered
          /\ torn' = torn \union Tears(a.journal, x.d) \union Foreign(x.loaded) \union tears
                          \union (IF x.fd = "target" THEN {"temp"} ELSE {})
          /\ mode' = mode
        BY <1>2 DEF DoneTearing
    <2>2. Shape'
        BY <2>1 DEF Inv, Shape, Windows, Tears, Foreign
    <2>3. "temp" \notin torn' => Whole(s, adapter)'
        BY <2>1
    <2>4. torn' \subseteq {"temp"} => Journaled(s, adapter)'
        <3> SUFFICES ASSUME torn' \subseteq {"temp"} PROVE Journaled(x, a)
            BY <2>1
        <3>1. torn \union tears \union Foreign(x.loaded) \subseteq {"temp"}
            BY <2>1
        <3>2. a.journal \subseteq x.d.journal \/ x.d.cut
            BY <2>1 DEF Tears
        <3> QED BY <3>1, <3>2 DEF Journaled, Named
    <2> QED BY <2>1, <2>2, <2>3, <2>4 DEF Inv
<1> QED BY <1>1, <1>2

\* The same for a request of the adapter, or one that it waits behind, when it is up.
LEMMA DoneOK ==
    ASSUME Inv,
           NEW x \in SType, NEW a \in AType, NEW answered,
           NEW out, NEW left, NEW tears \in SUBSET Windows,
           DoneTearing(x, left, a, answered, out, tears),
           \A d \in left : LeftOK(s, d),
           Local(x, a), a.pc # "down",
           "temp" \notin torn /\ x.fd # "target" => Whole(x, a),
           torn \union tears \subseteq {"temp"} =>
               ~x.d.cut /\ \A q \in Resources : x.d.temp[q] # Absent => q \in a.journal
    PROVE  Inv'
<1>1. torn \union tears \union Foreign(x.loaded) \subseteq {"temp"} => Named(x, a)
    BY DEF Named
<1> QED BY <1>1, DoneAny

\* What the invariant still says when the mount has served a lookup.
LEMMA AfterMount ==
    ASSUME Inv, NEW y, MountOK(s, y)
    PROVE  /\ y \in SType /\ Local(y, adapter)
           /\ "temp" \notin torn => NoMix(y.d)
           /\ "temp" \notin torn /\ y.fd # "target" => Whole(y, adapter)
           /\ torn \union Foreign(y.loaded) \subseteq {"temp"} => Named(y, adapter)
           /\ torn \subseteq {"temp"} /\ adapter.pc # "down" => Named(y, adapter)
<1>1. Local(y, adapter)
    BY DEF Inv, MountOK, Local
<1>2. y.fd = "temp" => s.fd = "temp" /\ adapter.r \in Resources
    BY DEF Inv, MountOK, Local
<1>3. "temp" \notin torn /\ y.fd # "target" => Whole(y, adapter)
    BY <1>2 DEF Inv, MountOK, Whole
<1>4. torn \subseteq {"temp"} /\ adapter.pc # "down" => Named(y, adapter)
    BY DEF Inv, MountOK, Journaled, Named
<1>5. torn \union Foreign(y.loaded) \subseteq {"temp"} => Named(y, adapter)
    <2> SUFFICES ASSUME torn \union Foreign(y.loaded) \subseteq {"temp"}, adapter.pc = "down"
                 PROVE  Named(y, adapter)
        BY <1>4
    <2>1. Named(s, adapter) /\ s.loaded \in BOOLEAN /\ y.loaded \in BOOLEAN
        BY DEF Inv, Shape, Journaled, SType, MountOK
    <2>2. ~(y.loaded /\ ~s.loaded /\ s.d.by = "adapter"
            /\ \E r \in s.d.journal : s.d.temp[r] # Absent)
        BY DEF Foreign
    <2> QED BY <2>1, <2>2 DEF MountOK, Named
<1> QED BY <1>1, <1>3, <1>4, <1>5 DEF Inv, MountOK, Whole

\* The same for a lookup that the adapter makes or waits behind.
LEMMA AfterLookup ==
    ASSUME Inv, adapter.pc # "down", NEW y, MountOK(s, y)
    PROVE  /\ y \in SType /\ Local(y, adapter)
           /\ "temp" \notin torn => NoMix(y.d)
           /\ "temp" \notin torn /\ y.fd # "target" => Whole(y, adapter)
           /\ torn \subseteq {"temp"} =>
                 ~y.d.cut /\ \A q \in Resources : y.d.temp[q] # Absent => q \in adapter.journal
BY AfterMount DEF Named

\* A request that only the mount serves keeps the invariant.
LEMMA MountStep ==
    ASSUME Inv, NEW y, MountOK(s, y), NEW left, \A d \in left : LeftOK(s, d), NEW out,
           Done(y, left, adapter, {}, out)
    PROVE  Inv'
<1>1. /\ y \in SType /\ Local(y, adapter)
      /\ "temp" \notin torn /\ y.fd # "target" => Whole(y, adapter)
      /\ torn \union Foreign(y.loaded) \subseteq {"temp"} => Named(y, adapter)
    BY AfterMount
<1>2. adapter \in AType /\ {} \in SUBSET Windows
    BY DEF Inv, Shape
<1>3. torn \union {} \union Foreign(y.loaded) \subseteq {"temp"} => Named(y, adapter)
    BY <1>1
<1>4. DoneTearing(y, left, adapter, {}, out, {})
    BY DEF Done
<1> QED BY <1>1, <1>2, <1>3, <1>4, DoneAny

\* A lookup of the adapter's own, when it has no file open.
LEMMA RefreshStep ==
    ASSUME Inv, NEW r \in Resources, handle_snapshot_refresh(r)
    PROVE  Inv'
<1>1. PICK out \in Outcomes(r) : \E l \in {LookedUp(r, out)} :
          IF l.s.d.target[r] # Absent /\ ~mode.force
            THEN Done(l.s, l.left, adapter, {r}, out)
            ELSE Done(Save(l.s, With(r)), l.left \union {l.s.d},
                      [adapter EXCEPT !.pc = "fetch", !.r = r, !.journal = With(r)], {}, out)
    BY DEF handle_snapshot_refresh
<1> DEFINE l == LookedUp(r, out)
           a == [adapter EXCEPT !.pc = "fetch", !.r = r, !.journal = With(r)]
           x == Save(l.s, With(r))
<1>2. s \in SType /\ adapter \in AType /\ adapter.pc = "idle" 
    BY DEF Inv, Shape, handle_snapshot_refresh
<1>3. MountOK(s, l.s) /\ \A d \in l.left : LeftOK(s, d)
    BY <1>2, LookupOK
<1>5. \/ Done(l.s, l.left, adapter, {r}, out)
      \/ Done(x, l.left \union {l.s.d}, a, {}, out)
    BY <1>1
<1> HIDE DEF l
<1>6. /\ l.s \in SType /\ Local(l.s, adapter)
      /\ "temp" \notin torn => NoMix(l.s.d)
      /\ "temp" \notin torn /\ l.s.fd # "target" => Whole(l.s, adapter)
      /\ torn \subseteq {"temp"} =>
            ~l.s.d.cut /\ \A q \in Resources : l.s.d.temp[q] # Absent => q \in adapter.journal
    BY <1>2, <1>3, AfterLookup
<1>7. CASE Done(l.s, l.left, adapter, {r}, out)
    BY <1>2, <1>3, <1>6, <1>7, DoneOK DEF Done
<1>8. CASE Done(x, l.left \union {l.s.d}, a, {}, out)
    <2>1. a \in AType /\ a.pc = "fetch" /\ a.r = r /\ a.journal = adapter.journal \union {r}
        BY <1>2 DEF AType, With
    <2>2. /\ x \in SType /\ x.fd = l.s.fd /\ x.open = l.s.open /\ x.d.target = l.s.d.target
          /\ x.d.temp = l.s.d.temp /\ ~x.d.cut
        BY <1>6, <2>1, SaveOp DEF With, AType
    <2> HIDE DEF a, x
    <2>3. Local(x, a)
        BY <1>2, <1>6, <2>1, <2>2 DEF Local
    <2>4. "temp" \notin torn /\ x.fd # "target" => Whole(x, a)
        BY <1>2, <1>6, <2>2 DEF Whole, NoMix, Local
    <2>5. torn \subseteq {"temp"} =>
              ~x.d.cut /\ \A q \in Resources : x.d.temp[q] # Absent => q \in a.journal
        BY <1>6, <2>1, <2>2
    <2>6. \A d \in l.left \union {l.s.d} : LeftOK(s, d)
        BY <1>2, <1>3, MountLeaves
    <2> QED BY <1>2, <1>8, <2>1, <2>2, <2>3, <2>4, <2>5, <2>6, DoneOK DEF Done
<1> QED BY <1>5, <1>7, <1>8

\* An expansion of the adapter ends and its entry is cleared.
LEMMA EndedStep ==
    ASSUME Inv, adapter.pc \in {"fetch", "clear"}, NEW y, MountOK(s, y), NEW left,
           NEW out, \A d \in left : LeftOK(s, d), Ended(y, left, out)
    PROVE  Inv'
<1> DEFINE a == [Idle EXCEPT !.journal = Without(adapter.r)]
           x == Save(y, Without(adapter.r))
           tears == IF y.d.temp[adapter.r] = Absent THEN {} ELSE {"retry"}
<1>1. adapter \in AType 
    BY DEF Inv, Shape
<1>2. /\ y \in SType /\ Local(y, adapter)
      /\ "temp" \notin torn => NoMix(y.d)
      /\ torn \subseteq {"temp"} =>
            ~y.d.cut /\ \A q \in Resources : y.d.temp[q] # Absent => q \in adapter.journal
    BY AfterLookup
<1>3. Without(adapter.r) \in SUBSET Resources
    BY <1>1 DEF Without, AType
<1>4. /\ a \in AType /\ a.pc = "idle" /\ a.r = NoResource
      /\ a.journal = adapter.journal \ {adapter.r}
    BY <1>1, <1>3, Constants DEF AType, Idle, Without
<1>5. /\ x \in SType /\ x.fd = y.fd /\ x.open = y.open /\ x.d.target = y.d.target
      /\ x.d.temp = y.d.temp /\ ~x.d.cut
    BY <1>2, <1>3, SaveOp
<1>7. tears \in SUBSET Windows /\ DoneTearing(x, left, a, {adapter.r}, out, tears)
    BY DEF Ended, Windows
<1>8. tears \subseteq {"temp"} => y.d.temp[adapter.r] = Absent
    OBVIOUS
<1> HIDE DEF a, x, tears
<1>9. x.fd = "none"
    BY <1>2, <1>5 DEF Local
<1>10. Local(x, a) /\ ("temp" \notin torn => Whole(x, a))
    BY <1>2, <1>4, <1>5, <1>9 DEF Local, Whole, NoMix
<1>11. torn \union tears \subseteq {"temp"} =>
           ~x.d.cut /\ \A q \in Resources : x.d.temp[q] # Absent => q \in a.journal
    BY <1>2, <1>4, <1>5, <1>8
<1> QED BY <1>4, <1>5, <1>7, <1>10, <1>11, DoneOK

\* A lookup inside a request of the adapter keeps what the mount may not change.
LEMMA LookupHere ==
    ASSUME Inv, NEW r \in Resources, NEW out \in Outcomes(r)
    PROVE  /\ MountOK(s, LookedUp(r, out).s)
           /\ \A d \in LookedUp(r, out).left \union {LookedUp(r, out).s.d} : LeftOK(s, d)
<1>1. s \in SType
    BY DEF Inv, Shape
<1>2. MountOK(s, LookedUp(r, out).s) /\ \A d \in LookedUp(r, out).left : LeftOK(s, d)
    BY <1>1, LookupOK
<1> QED BY <1>1, <1>2, MountLeaves

\* An expansion that times out keeps the invariant.
LEMMA ExpandTimeoutStep == Inv /\ ExpandTimeout => Inv'
<1> SUFFICES ASSUME Inv, ExpandTimeout PROVE Inv'
    OBVIOUS
<1>1. s \in SType /\ adapter.pc = "fetch" /\ adapter.r \in Resources
    BY DEF Inv, Shape, Local, ExpandTimeout
<1>2. CASE ~mode.stale
    <2>1. Ended(s, {}, "drop")
        BY <1>2 DEF ExpandTimeout
    <2> QED BY <1>1, <2>1, EndedStep, MountStay
<1>3. CASE mode.stale
    <2>1. PICK out \in Outcomes(adapter.r) : \E l \in {LookedUp(adapter.r, out)} :
              Ended(l.s, l.left \union {l.s.d}, IF out = "ok" THEN "drop" ELSE out)
        BY <1>3 DEF ExpandTimeout
    <2> DEFINE l == LookedUp(adapter.r, out)
    <2>2. MountOK(s, l.s) /\ \A d \in l.left \union {l.s.d} : LeftOK(s, d)
        BY <1>1, LookupHere
    <2>3. PICK o : Ended(l.s, l.left \union {l.s.d}, o)
        BY <2>1
    <2> HIDE DEF l
    <2> QED BY <1>1, <2>2, <2>3, EndedStep
<1> QED BY <1>2, <1>3

\* So does one that fails, and one that is done.
LEMMA EndSteps == Inv /\ (ExpandFails \/ ClearEntry) => Inv'
<1> SUFFICES ASSUME Inv, ExpandFails \/ ClearEntry PROVE Inv'
    OBVIOUS
<1>1. MountOK(s, s)
    BY MountStay DEF Inv, Shape
<1>2. PICK o : adapter.pc \in {"fetch", "clear"} /\ Ended(s, {}, o)
    BY DEF ExpandFails, ClearEntry
<1> QED BY <1>1, <1>2, EndedStep

\* So does the fetch from the connector.
LEMMA FetchStep == Inv /\ fetch_snapshot_jsonl_from_upstream => Inv'
<1> SUFFICES ASSUME Inv, fetch_snapshot_jsonl_from_upstream PROVE Inv'
    OBVIOUS
<1> DEFINE x == Fetch(s)
           a == [At("open") EXCEPT !.v = s.next]
<1>1. /\ s \in SType /\ adapter \in AType 
      /\ adapter.pc = "fetch" /\ Done(x, {}, a, {}, "ok")
    BY DEF Inv, Shape, fetch_snapshot_jsonl_from_upstream
<1>2. x \in SType /\ x.d = s.d /\ x.fd = s.fd /\ x.open = s.open
    BY <1>1 DEF Fetch, SType, Contents
<1>3. /\ a \in AType /\ a.pc = "open" /\ a.r = adapter.r /\ a.journal = adapter.journal
      /\ a.v \in Contents
    BY <1>1, Constants DEF At, AType, SType
<1> HIDE DEF x, a
<1>4. Local(x, a) /\ ("temp" \notin torn => Whole(x, a))
    BY <1>1, <1>2, <1>3 DEF Inv, Local, Whole
<1> QED BY <1>1, <1>2, <1>3, <1>4, DoneOK DEF Done, Inv, Journaled, Named

\* So does the creation of the temporary file.
LEMMA OpenTempStep == Inv /\ OpenTemp => Inv'
<1> SUFFICES ASSUME Inv, OpenTemp PROVE Inv'
    OBVIOUS
<1> DEFINE x == [s EXCEPT !.d = Temp(@, adapter.r, Empty), !.open = adapter.r, !.fd = "temp"]
           a == At("write")
<1>1. /\ s \in SType /\ adapter \in AType 
      /\ adapter.pc = "open" /\ Done(x, {}, a, {}, "ok")
    BY DEF Inv, Shape, OpenTemp
<1>2. adapter.r \in Resources /\ adapter.r \in adapter.journal /\ adapter.v \in Contents
    BY <1>1 DEF Inv, Local
<1>3. s.d \in DType /\ s.d.temp \in [Resources -> Files]
    BY <1>1 DEF SType, DType
<1>4. /\ Temp(s.d, adapter.r, Empty) \in DType
      /\ Temp(s.d, adapter.r, Empty).cut = s.d.cut
      /\ Temp(s.d, adapter.r, Empty).target = s.d.target
      /\ Temp(s.d, adapter.r, Empty).temp = [s.d.temp EXCEPT ![adapter.r] = Empty]
    BY <1>2, <1>3, TempOp, Constants
<1>5. /\ x \in SType /\ x.open = adapter.r /\ x.fd = "temp" /\ x.d.cut = s.d.cut
      /\ x.d.target = s.d.target /\ x.d.temp = [s.d.temp EXCEPT ![adapter.r] = Empty]
    BY <1>1, <1>2, <1>4 DEF SType
<1>6. /\ a \in AType /\ a.pc = "write" /\ a.r = adapter.r /\ a.journal = adapter.journal
      /\ a.v = adapter.v
    BY <1>1 DEF At, AType
<1> HIDE DEF x, a
<1>7. Local(x, a)
    BY <1>2, <1>5, <1>6 DEF Local
<1>8. "temp" \notin torn => Whole(x, a)
    BY <1>2, <1>3, <1>5, <1>6, Constants DEF Inv, Whole, NoMix
<1>9. torn \subseteq {"temp"} =>
          ~x.d.cut /\ \A q \in Resources : x.d.temp[q] # Absent => q \in a.journal
    BY <1>1, <1>2, <1>3, <1>5, <1>6 DEF Inv, Journaled, Named
<1>10. DoneTearing(x, {}, a, {}, "ok", {}) /\ adapter.pc # "down" /\ a.pc # "down"
    BY <1>1, <1>6 DEF Done
<1>11. /\ x \in SType /\ a \in AType  /\ {} \in SUBSET Windows
       /\ \A d \in {} : LeftOK(s, d)
       /\ "temp" \notin torn /\ x.fd # "target" => Whole(x, a)
       /\ torn \union {} \subseteq {"temp"} =>
             ~x.d.cut /\ \A q \in Resources : x.d.temp[q] # Absent => q \in a.journal
    BY <1>1, <1>5, <1>6, <1>8, <1>9
<1> QED BY <1>7, <1>10, <1>11, DoneOK

\* The bytes of a content, over a file that is empty, are that content.
LEMMA WrittenOK ==
    ASSUME Inv, adapter.pc = "write", NEW d \in Written(adapter.r, adapter.v)
    PROVE  /\ d \in DType /\ d.cut = s.d.cut
           /\ "temp" \notin torn => NoMix(d)
           /\ \A q \in Resources : d.temp[q] # Absent => s.d.temp[q] # Absent \/ q = adapter.r
<1> USE Constants
<1>1. s \in SType /\ adapter.r \in Resources /\ adapter.v \in Contents
    BY DEF Inv, Shape, Local
<1>2. s.d \in DType /\ s.d.temp \in [Resources -> Files] /\ s.d.target \in [Resources -> Files]
    BY <1>1 DEF SType, DType
<1>3. \A old : Over(old, adapter.v) \subseteq Files
    BY <1>1 DEF Over, Files
<1>4. CASE s.fd = "temp"
    <2>1. PICK f \in Over(s.d.temp[adapter.r], adapter.v) : d = Temp(s.d, adapter.r, f)
        BY <1>4 DEF Written
    <2>2. /\ d \in DType /\ d.cut = s.d.cut /\ d.target = s.d.target
          /\ d.temp = [s.d.temp EXCEPT ![adapter.r] = f]
        BY <1>1, <1>2, <1>3, <2>1, TempOp
    <2>3. "temp" \notin torn => f # Mixed
        BY <1>1, <1>4, <2>1 DEF Inv, Whole, Over
    <2> QED BY <1>1, <1>2, <2>2, <2>3 DEF Inv, Whole, NoMix
<1>5. CASE s.fd = "target"
    <2>1. PICK f \in Over(s.d.target[adapter.r], adapter.v) : d = Target(s.d, adapter.r, f)
        BY <1>5 DEF Written
    <2>a. f \in Files
        BY <1>3
    <2>2. /\ d \in DType /\ d.cut = s.d.cut /\ d.temp = s.d.temp
        BY <1>1, <1>2, <2>1, <2>a DEF DType, Target
    <2>3. "temp" \in torn
        BY <1>5 DEF Inv, Whole
    <2> QED BY <2>2, <2>3
<1>6. CASE s.fd \notin {"temp", "target"}
    BY <1>2, <1>6 DEF Written, Inv, Whole
<1> QED BY <1>4, <1>5, <1>6

\* So does the write to it, also when it was published or removed meanwhile.
LEMMA WriteTempStep == Inv /\ WriteTemp => Inv'
<1> SUFFICES ASSUME Inv, WriteTemp PROVE Inv'
    OBVIOUS
<1> DEFINE a == At("mark")
           x(d) == [s EXCEPT !.d = d, !.open = NoResource, !.fd = "none"]
<1>1. PICK d \in Written(adapter.r, adapter.v) : Done(x(d), {}, a, {}, "ok")
    BY DEF WriteTemp
<1>2. /\ s \in SType /\ adapter \in AType 
      /\ adapter.pc = "write" /\ adapter.r \in Resources /\ adapter.r \in adapter.journal
    BY DEF Inv, Shape, WriteTemp, Local
<1>3. /\ d \in DType /\ d.cut = s.d.cut
      /\ "temp" \notin torn => NoMix(d)
      /\ \A q \in Resources : d.temp[q] # Absent => s.d.temp[q] # Absent \/ q = adapter.r
    BY <1>2, WrittenOK
<1>4. x(d) \in SType /\ x(d).d = d /\ x(d).fd = "none"
    BY <1>2, <1>3 DEF SType
<1>5. a \in AType /\ a.pc = "mark" /\ a.r = adapter.r /\ a.journal = adapter.journal
    BY <1>2 DEF At, AType
<1> HIDE DEF x, a
<1>6. Local(x(d), a) /\ ("temp" \notin torn => Whole(x(d), a))
    BY <1>2, <1>3, <1>4, <1>5 DEF Local, Whole
<1>7. torn \subseteq {"temp"} =>
          ~x(d).d.cut /\ \A q \in Resources : x(d).d.temp[q] # Absent => q \in a.journal
    BY <1>2, <1>3, <1>4, <1>5 DEF Inv, Journaled, Named
<1> DEFINE xd == x(d)
<1>8. /\ xd \in SType /\ Done(xd, {}, a, {}, "ok") /\ Local(xd, a)
      /\ "temp" \notin torn => Whole(xd, a)
      /\ torn \subseteq {"temp"} =>
            ~xd.d.cut /\ \A q \in Resources : xd.d.temp[q] # Absent => q \in a.journal
    BY <1>1, <1>4, <1>6, <1>7
<1> HIDE DEF xd
<1> QED BY <1>2, <1>5, <1>8, DoneOK DEF Done

\* So does the entry that marks the publication.
LEMMA MarkStep == Inv /\ MarkPublishing => Inv'
<1> SUFFICES ASSUME Inv, MarkPublishing PROVE Inv'
    OBVIOUS
<1> DEFINE x == Save(s, With(adapter.r))
           a == [At("remove") EXCEPT !.journal = With(adapter.r)]
<1>1. /\ s \in SType /\ adapter \in AType 
      /\ adapter.pc = "mark" /\ Done(x, {}, a, {}, "ok")
      /\ adapter.r \in Resources /\ s.fd = "none"
    BY DEF Inv, Shape, MarkPublishing, Local
<1>2. With(adapter.r) \in SUBSET Resources
    BY <1>1 DEF With, AType
<1>3. x \in SType /\ x.fd = "none" /\ x.d.target = s.d.target /\ x.d.temp = s.d.temp /\ ~x.d.cut
    BY <1>1, <1>2, SaveOp
<1>4. /\ a \in AType /\ a.pc = "remove" /\ a.r = adapter.r
      /\ a.journal = adapter.journal \union {adapter.r}
    BY <1>1, <1>2 DEF At, AType, With
<1> HIDE DEF x, a
<1>5. Local(x, a) /\ ("temp" \notin torn => Whole(x, a))
    BY <1>1, <1>3, <1>4 DEF Inv, Local, Whole, NoMix
<1>6. torn \subseteq {"temp"} =>
          ~x.d.cut /\ \A q \in Resources : x.d.temp[q] # Absent => q \in a.journal
    BY <1>1, <1>3, <1>4 DEF Inv, Journaled, Named
<1> QED BY <1>1, <1>3, <1>4, <1>5, <1>6, DoneOK DEF Done

\* The target is set to a file that mixes nothing.
LEMMA TargetSet ==
    ASSUME NEW y \in SType, NEW r \in Resources, NEW f \in {Absent, Empty}
    PROVE  LET x == [y EXCEPT !.d = Target(@, r, f)]
           IN  /\ x \in SType /\ x.fd = y.fd /\ x.open = y.open /\ x.d.cut = y.d.cut
               /\ x.d.temp = y.d.temp /\ (NoMix(y.d) => NoMix(x.d))
               /\ x.loaded = y.loaded /\ x.d.journal = y.d.journal
<1> DEFINE d == Target(y.d, r, f)
<1>1. y.d \in DType /\ f \in Files /\ f # Mixed
    BY Constants DEF SType
<1>2. /\ d \in DType /\ d.cut = y.d.cut /\ d.temp = y.d.temp /\ d.journal = y.d.journal
      /\ d.target = [y.d.target EXCEPT ![r] = f] /\ y.d.target \in [Resources -> Files]
    BY <1>1 DEF DType, Target
<1> HIDE DEF d
<1>3. NoMix(y.d) => NoMix(d)
    BY <1>1, <1>2 DEF NoMix
<1>4. [y EXCEPT !.d = Target(@, r, f)] = [y EXCEPT !.d = d]
    BY DEF d, SType
<1> QED BY <1>2, <1>3, <1>4 DEF SType

\* So does the removal of the stale snapshot.
LEMMA RemoveStep == Inv /\ RemoveStale => Inv'
<1> SUFFICES ASSUME Inv, RemoveStale PROVE Inv'
    OBVIOUS
<1>1. PICK out \in Outcomes(adapter.r) : \E l \in {LookedUp(adapter.r, out)} :
          Done([l.s EXCEPT !.d = Target(@, adapter.r, Absent)], l.left \union {l.s.d},
               At("rename"), {}, out)
    BY DEF RemoveStale
<1> DEFINE l == LookedUp(adapter.r, out)
           x == [l.s EXCEPT !.d = Target(@, adapter.r, Absent)]
           a == At("rename")
<1>2. /\ s \in SType /\ adapter \in AType 
      /\ adapter.pc = "remove" /\ adapter.r \in Resources /\ adapter.r \in adapter.journal
    BY DEF Inv, Shape, RemoveStale, Local
<1>3. MountOK(s, l.s) /\ \A d \in l.left \union {l.s.d} : LeftOK(s, d)
    BY <1>2, LookupHere
<1>4. Done(x, l.left \union {l.s.d}, a, {}, out)
    BY <1>1
<1> HIDE DEF l
<1>5. /\ l.s \in SType /\ Local(l.s, adapter)
      /\ "temp" \notin torn => NoMix(l.s.d)
      /\ torn \subseteq {"temp"} =>
            ~l.s.d.cut /\ \A q \in Resources : l.s.d.temp[q] # Absent => q \in adapter.journal
    BY <1>2, <1>3, AfterLookup
<1>6. /\ x \in SType /\ x.fd = l.s.fd /\ x.d.cut = l.s.d.cut /\ x.d.temp = l.s.d.temp
      /\ NoMix(l.s.d) => NoMix(x.d)
    BY <1>2, <1>5, TargetSet
<1>7. a \in AType /\ a.pc = "rename" /\ a.r = adapter.r /\ a.journal = adapter.journal
    BY <1>2 DEF At, AType
<1> HIDE DEF x, a
<1>8. Local(x, a) /\ ("temp" \notin torn => Whole(x, a))
    BY <1>2, <1>5, <1>6, <1>7 DEF Local, Whole
<1>9. torn \subseteq {"temp"} =>
          ~x.d.cut /\ \A q \in Resources : x.d.temp[q] # Absent => q \in a.journal
    BY <1>5, <1>6, <1>7
<1> QED BY <1>2, <1>3, <1>4, <1>6, <1>7, <1>8, <1>9, DoneOK DEF Done

\* So does the rename, also when a lookup takes the temporary file first.
LEMMA PublishStep == Inv /\ PublishTemp => Inv'
<1> SUFFICES ASSUME Inv, PublishTemp PROVE Inv'
    OBVIOUS
<1>1. PICK out \in Outcomes(adapter.r) : \E l \in {LookedUp(adapter.r, out)} :
          IF l.err \/ l.s.d.temp[adapter.r] = Absent
            THEN Done(l.s, l.left, Idle, {}, out)
            ELSE Done([l.s EXCEPT !.d = Published(@, adapter.r, @.temp[adapter.r])],
                      l.left \union {l.s.d}, At("clear"), {}, out)
    BY DEF PublishTemp
<1> DEFINE l == LookedUp(adapter.r, out)
           p == Published(l.s.d, adapter.r, l.s.d.temp[adapter.r])
           x == [l.s EXCEPT !.d = Published(@, adapter.r, @.temp[adapter.r])]
           a == At("clear")
<1>2. /\ s \in SType /\ adapter \in AType 
      /\ adapter.pc = "rename" /\ adapter.r \in Resources /\ adapter.r \in adapter.journal
    BY DEF Inv, Shape, PublishTemp, Local
<1>3. MountOK(s, l.s) /\ \A d \in l.left \union {l.s.d} : LeftOK(s, d)
    BY <1>2, LookupHere
<1>4. \/ Done(l.s, l.left, Idle, {}, out)
      \/ Done(x, l.left \union {l.s.d}, a, {}, out)
    BY <1>1
<1> HIDE DEF l
<1>5. /\ l.s \in SType /\ Local(l.s, adapter) /\ l.s.fd = "none"
      /\ "temp" \notin torn => NoMix(l.s.d)
      /\ torn \subseteq {"temp"} =>
            ~l.s.d.cut /\ \A q \in Resources : l.s.d.temp[q] # Absent => q \in adapter.journal
    BY <1>2, <1>3, AfterLookup DEF Local
<1>6. CASE Done(l.s, l.left, Idle, {}, out)
    <2>1. /\ Idle \in AType /\ Idle.pc = "idle" /\ Idle.r = NoResource
          /\ Idle.journal = adapter.journal
        BY <1>2, Constants DEF Idle, AType
    <2>2. Local(l.s, Idle) /\ ("temp" \notin torn => Whole(l.s, Idle))
        BY <1>5, <2>1 DEF Local, Whole
    <2>3. torn \subseteq {"temp"} =>
              ~l.s.d.cut /\ \A q \in Resources : l.s.d.temp[q] # Absent => q \in Idle.journal
        BY <1>5, <2>1
    <2> QED BY <1>2, <1>3, <1>5, <1>6, <2>1, <2>2, <2>3, DoneOK DEF Done
<1>7. CASE Done(x, l.left \union {l.s.d}, a, {}, out)
    <2>1. /\ l.s.d \in DType /\ l.s.d.temp[adapter.r] \in Files
          /\ l.s.d.temp \in [Resources -> Files] /\ l.s.d.target \in [Resources -> Files]
        BY <1>2, <1>5 DEF SType, DType
    <2>2. /\ p \in DType /\ p.cut = l.s.d.cut
          /\ p.target = [l.s.d.target EXCEPT ![adapter.r] = l.s.d.temp[adapter.r]]
          /\ p.temp = [l.s.d.temp EXCEPT ![adapter.r] = Absent]
        BY <1>2, <2>1, PublishedOp
    <2>3. x = [l.s EXCEPT !.d = p]
        BY <1>5 DEF SType
    <2> HIDE DEF p
    <2>4. x \in SType /\ x.fd = "none" /\ x.d = p
        BY <1>5, <2>2, <2>3 DEF SType
    <2>5. a \in AType /\ a.pc = "clear" /\ a.r = adapter.r /\ a.journal = adapter.journal
        BY <1>2 DEF At, AType
    <2> HIDE DEF x, a
    <2>7. Local(x, a)
        BY <1>2, <2>4, <2>5 DEF Local
    <2>8. "temp" \notin torn => Whole(x, a)
        BY <1>2, <1>5, <2>1, <2>2, <2>4, Constants DEF Whole, NoMix
    <2>9. torn \subseteq {"temp"} =>
              ~x.d.cut /\ \A q \in Resources : x.d.temp[q] # Absent => q \in a.journal
        BY <1>2, <1>5, <2>1, <2>2, <2>4, <2>5
    <2>10. x \in SType
        BY <2>4
    <2> QED BY <1>2, <1>3, <1>7, <2>5, <2>7, <2>8, <2>9, <2>10, DoneOK DEF Done
<1> QED BY <1>4, <1>6, <1>7

\* So does the placeholder of the structure synchronisation, over what the mount has served.
LEMMA PlaceholderStep ==
    ASSUME Inv, adapter.pc # "write", NEW r \in Resources, NEW y, MountOK(s, y), NEW left,
           \A d \in left : LeftOK(s, d), NEW out,
           Done([y EXCEPT !.d = Target(@, r, Empty)], left, adapter, {}, out)
    PROVE  Inv'
<1> DEFINE x == [y EXCEPT !.d = Target(@, r, Empty)]
<1>1. adapter \in AType /\ {} \in SUBSET Windows
    BY DEF Inv, Shape
<1>2. /\ y \in SType /\ Local(y, adapter) /\ y.fd = "none"
      /\ "temp" \notin torn => NoMix(y.d)
      /\ torn \union Foreign(y.loaded) \subseteq {"temp"} => Named(y, adapter)
    BY AfterMount DEF Local
<1>3. /\ x \in SType /\ x.fd = y.fd /\ x.d.cut = y.d.cut /\ x.d.temp = y.d.temp
      /\ NoMix(y.d) => NoMix(x.d)
      /\ x.loaded = y.loaded /\ x.d.journal = y.d.journal
    BY <1>2, TargetSet
<1>4. DoneTearing(x, left, adapter, {}, out, {})
    BY DEF Done
<1> HIDE DEF x
<1>5. Local(x, adapter) /\ ("temp" \notin torn /\ x.fd # "target" => Whole(x, adapter))
    BY <1>2, <1>3 DEF Local, Whole
<1>6. torn \union {} \union Foreign(x.loaded) \subseteq {"temp"} => Named(x, adapter)
    BY <1>2, <1>3 DEF Named
<1> QED BY <1>1, <1>3, <1>4, <1>5, <1>6, DoneAny

\* So does the synchronisation of one resource, with the one or two lookups it makes.
LEMMA NodeStep == ASSUME Inv, NEW r \in Resources, materialize_node(r) PROVE Inv'
<1>1. PICK out \in Outcomes(r) : \E l \in {LookedUp(r, out)} :
          \/ /\ Misses(r)
             /\ Done(l.s, l.left, adapter, {}, out)
          \/ /\ l.err /\ l.s.loaded
             /\ \E e \in {Expanded(Fetch(l.s), r, l.s.next)} :
                   Done([e.s EXCEPT !.d = Target(@, r, Empty)],
                        l.left \union e.left \union {l.s.d, e.s.d}, adapter, {}, out)
          \/ /\ ~Misses(r)
             /\ Done([s EXCEPT !.d = Target(@, r, Empty)], {}, adapter, {}, out)
    BY DEF materialize_node
<1> DEFINE l == LookedUp(r, out)
           e == Expanded(Fetch(l.s), r, l.s.next)
           both == l.left \union e.left \union {l.s.d, e.s.d}
<1>2. s \in SType /\ adapter.pc # "write"
    BY DEF Inv, Shape, materialize_node
<1>3. MountOK(s, l.s) /\ \A d \in l.left \union {l.s.d} : LeftOK(s, d)
    BY LookupHere
<1>4. \/ Done(l.s, l.left, adapter, {}, out)
      \/ l.s.loaded /\ Done([e.s EXCEPT !.d = Target(@, r, Empty)], both, adapter, {}, out)
      \/ Done([s EXCEPT !.d = Target(@, r, Empty)], {}, adapter, {}, out)
    BY <1>1
<1> HIDE DEF l
<1>5. CASE Done(l.s, l.left, adapter, {}, out)
    BY <1>3, <1>5, MountStep
<1>6. CASE l.s.loaded /\ Done([e.s EXCEPT !.d = Target(@, r, Empty)], both, adapter, {}, out)
    <2>1. /\ Fetch(l.s) \in SType /\ MountOK(l.s, Fetch(l.s)) /\ l.s.next \in Contents
          /\ Fetch(l.s).loaded
        BY <1>3, <1>6 DEF Fetch, SType, MountOK, Contents
    <2>2. /\ MountOK(Fetch(l.s), e.s) /\ \A d \in e.left : LeftOK(Fetch(l.s), d)
        BY <2>1, ExpandedOK, Constants
    <2> HIDE DEF e
    <2>3. MountOK(s, Fetch(l.s))
        BY <1>2, <1>3, <2>1, MountTwice
    <2>4. MountOK(s, e.s) /\ LeftOK(s, e.s.d) /\ \A d \in e.left : LeftOK(s, d)
        BY <1>2, <2>2, <2>3, MountTwice, MountLeaves
    <2>5. \A d \in both : LeftOK(s, d)
        BY <1>3, <2>4
    <2> HIDE DEF both
    <2> QED BY <1>2, <1>6, <2>4, <2>5, PlaceholderStep
<1>7. CASE Done([s EXCEPT !.d = Target(@, r, Empty)], {}, adapter, {}, out)
    BY <1>2, <1>7, MountStay, PlaceholderStep
<1> QED BY <1>4, <1>5, <1>6, <1>7

\* So does the lookup of a resource at the start.
LEMMA InitializeStep == ASSUME Inv, NEW r \in Resources, initialize_snapshot_states(r) PROVE Inv'
<1> DEFINE a == [adapter EXCEPT !.todo = @ \ {r}]
<1>1. PICK out \in Outcomes(r) : \E l \in {LookedUp(r, out)} :
          Done(l.s, l.left, a, {}, out)
    BY DEF initialize_snapshot_states
<1> DEFINE l == LookedUp(r, out)
<1>2. /\ s \in SType /\ adapter \in AType 
      /\ adapter.pc = "init"
    BY DEF Inv, Shape, initialize_snapshot_states
<1>3. MountOK(s, l.s) /\ \A d \in l.left \union {l.s.d} : LeftOK(s, d)
    BY LookupHere
<1>4. Done(l.s, l.left, a, {}, out)
    BY <1>1
<1> HIDE DEF l
<1>5. /\ l.s \in SType /\ Local(l.s, adapter) /\ l.s.fd = "none"
      /\ "temp" \notin torn => NoMix(l.s.d)
      /\ torn \subseteq {"temp"} =>
            ~l.s.d.cut /\ \A q \in Resources : l.s.d.temp[q] # Absent => q \in adapter.journal
    BY <1>2, <1>3, AfterLookup DEF Local
<1>6. a \in AType /\ a.pc = "init" /\ a.r = adapter.r /\ a.journal = adapter.journal
    BY <1>2 DEF AType
<1> HIDE DEF a
<1>7. Local(l.s, a) /\ ("temp" \notin torn => Whole(l.s, a))
    BY <1>2, <1>5, <1>6 DEF Local, Whole
<1>8. torn \subseteq {"temp"} =>
          ~l.s.d.cut /\ \A q \in Resources : l.s.d.temp[q] # Absent => q \in a.journal
    BY <1>5, <1>6
<1> QED BY <1>2, <1>3, <1>4, <1>5, <1>6, <1>7, <1>8, DoneOK DEF Done

\* So does a lookup of a client.
LEMMA LookupStep == ASSUME Inv, NEW r \in Resources, lookup(r) PROVE Inv'
<1>1. PICK out \in Outcomes(r) : \E l \in {LookedUp(r, out)} : Done(l.s, l.left, adapter, {}, out)
    BY DEF lookup
<1> DEFINE l == LookedUp(r, out)
<1>2. MountOK(s, l.s) /\ \A d \in l.left : LeftOK(s, d)
    BY LookupHere
<1>3. Done(l.s, l.left, adapter, {}, out)
    BY <1>1
<1> HIDE DEF l
<1> QED BY <1>2, <1>3, MountStep

\* So does a lookup elsewhere in the app, which loads the journal.
LEMMA OtherLookupStep == Inv /\ maybe_snapshot_resource_from_fs_path => Inv'
<1> SUFFICES ASSUME Inv, maybe_snapshot_resource_from_fs_path PROVE Inv'
    OBVIOUS
<1> DEFINE l == runtime_loaded(s)
<1>1. Done(l.s, l.left, adapter, {}, "ok")
    BY DEF maybe_snapshot_resource_from_fs_path
<1>2. MountOK(s, l.s) /\ \A d \in l.left : LeftOK(s, d)
    BY LoadOK DEF Inv, Shape
<1> HIDE DEF l
<1> QED BY <1>1, <1>2, MountStep

\* So does the start of the process.
LEMMA StartStep == Inv /\ Start => Inv'
<1> SUFFICES ASSUME Inv, Start PROVE Inv'
    OBVIOUS
<1>1. /\ s \in SType /\ adapter.pc = "down" /\ UNCHANGED <<mode, s, pending, torn>>
      /\ adapter' = [Off EXCEPT !.pc = "init", !.journal = s.d.journal, !.by = s.d.by,
                              !.todo = Resources]
    BY DEF Inv, Shape, Start
<1>2. s.d.journal \in SUBSET Resources /\ s.d.by \in Writers
    BY <1>1 DEF SType, DType
<1>3. /\ adapter' \in AType /\ adapter'.pc = "init" /\ adapter'.r = NoResource
      /\ adapter'.journal = s.d.journal
    BY <1>1, <1>2, Constants DEF Off, AType
<1>4. Shape' /\ Local(s, adapter)'
    BY <1>1, <1>3 DEF Inv, Shape, Local
<1>5. "temp" \notin torn => Whole(s, adapter)'
    BY <1>1, <1>3 DEF Inv, Whole, Local, NoMix
<1>6. torn \subseteq {"temp"} => Journaled(s, adapter)'
    BY <1>1, <1>3 DEF Inv, Journaled, Named
<1> QED BY <1>1, <1>4, <1>5, <1>6 DEF Inv

\* So does the recovery of the adapter from the journal.
LEMMA RecoverStep == Inv /\ recover_snapshot_expand_journal => Inv'
<1> SUFFICES ASSUME Inv, recover_snapshot_expand_journal PROVE Inv'
    OBVIOUS
<1> DEFINE c == Cleaned(s.d, Mine)
           x == Recovered(s)
           a == [Idle EXCEPT !.journal = {}, !.by = "adapter"]
           tears == IF \E r \in adapter.journal \ Mine : s.d.temp[r] # Absent THEN {"foreign"}
                    ELSE {}
<1>1. DoneTearing(x, {c}, a, {}, "ok", tears)
    BY DEF recover_snapshot_expand_journal
<1>2. /\ s \in SType /\ adapter \in AType
      /\ adapter.pc = "init" /\ s.fd = "none"
    BY DEF Inv, Shape, recover_snapshot_expand_journal, Local
<1>3. tears \in SUBSET Windows
      /\ (tears \subseteq {"temp"} => \A q \in adapter.journal \ Mine : s.d.temp[q] = Absent)
    BY DEF Windows
<1>4. s.d \in DType /\ s.d.temp \in [Resources -> Files] /\ {} \in SUBSET Resources
    BY <1>2 DEF SType, DType
<1>5. /\ c \in DType /\ c.cut = s.d.cut /\ c.target = s.d.target
      /\ c.journal = s.d.journal /\ c.by = s.d.by
      /\ c.temp = [q \in Resources |-> IF q \in Mine THEN Absent ELSE s.d.temp[q]]
    BY <1>4, CleanedOp
<1> HIDE DEF c, tears
<1>7. LeftOK(s, c)
    BY <1>4, <1>5, Constants DEF LeftOK, NoMix
<1>8. /\ a \in AType /\ a.pc = "idle" /\ a.r = NoResource /\ a.journal = {}
    BY <1>2, Constants DEF Idle, AType, Writers
<1>9. /\ x \in SType /\ x.fd = "none" /\ (NoMix(s.d) => NoMix(x.d))
      /\ (~s.d.cut => ~x.d.cut)
      /\ \A q \in Resources : x.d.temp[q] # Absent =>
            s.d.temp[q] # Absent /\ (q \in adapter.journal => q \notin Mine)
    <2>1. CASE adapter.journal = {}
        BY <1>2, <2>1 DEF Recovered
    <2>2. CASE adapter.journal # {}
        <3> DEFINE w == [s EXCEPT !.d = c]
        <3>1. w \in SType /\ w.fd = "none" /\ w.d = c
            BY <1>2, <1>5 DEF SType
        <3>2. x = Save(w, {})
            BY <1>2, <2>2 DEF Recovered, SType, c
        <3> HIDE DEF w, x
        <3>3. /\ x \in SType /\ x.fd = "none" /\ x.d.target = c.target /\ x.d.temp = c.temp
              /\ ~x.d.cut
            BY <1>4, <3>1, <3>2, SaveOp
        <3> QED BY <1>4, <1>5, <3>3, Constants DEF NoMix
    <2> QED BY <2>1, <2>2
<1> HIDE DEF x, a
<1>10. Local(x, a) /\ ("temp" \notin torn => Whole(x, a))
    BY <1>8, <1>9 DEF Inv, Local, Whole
<1>11. torn \union tears \subseteq {"temp"} =>
           ~x.d.cut /\ \A q \in Resources : x.d.temp[q] # Absent => q \in a.journal
    BY <1>2, <1>3, <1>9 DEF Inv, Journaled, Named
<1> QED BY <1>1, <1>3, <1>7, <1>8, <1>9, <1>10, <1>11, DoneOK

\* So do the remaining steps, which leave the files alone, and a crash.
LEMMA OtherSteps ==
    ASSUME Inv,
           \/ \E r \in Resources : Request(r)
           \/ refresh_registry_snapshot
           \/ Crash
           \/ UNCHANGED vars
    PROVE  Inv'
<1>1. CASE \E r \in Resources : Request(r)
    BY <1>1 DEF Inv, Shape, Local, Whole, Journaled, Named, NoMix, Request
<1>2. CASE refresh_registry_snapshot
    <2>1. /\ s \in SType /\ s' = [s EXCEPT !.loaded = FALSE, !.mj = {}]
          /\ UNCHANGED <<mode, adapter, pending, torn>>
        BY <1>2 DEF Inv, Shape, refresh_registry_snapshot
    <2>2. s' \in SType /\ s'.d = s.d /\ s'.fd = s.fd /\ s'.open = s.open /\ ~s'.loaded
        BY <2>1 DEF SType
    <2> QED BY <2>1, <2>2 DEF Inv, Shape, Local, Whole, Journaled, Named
<1>3. CASE Crash
    <2>1. LeftOK(s, s.d)
        BY MountStay DEF Inv, Shape
    <2> QED BY <1>3, <2>1, DiesOK DEF Crash
<1>4. CASE UNCHANGED vars
    BY <1>4 DEF Inv, Shape, Local, Whole, Journaled, Named, NoMix, vars
<1> QED BY <1>1, <1>2, <1>3, <1>4

\* The invariant holds initially.
LEMMA InvInit == Init => Inv
<1> SUFFICES ASSUME Init PROVE Inv
    OBVIOUS
<1>1. /\ s \in SType /\ s.fd = "none" /\ s.d.cut = FALSE
      /\ s.d.target = [r \in Resources |-> Absent] /\ s.d.temp = [r \in Resources |-> Absent]
    BY Constants DEF Init, Left, SType, DType, Writers
<1>2. /\ adapter \in AType /\ adapter.pc = "down" /\ adapter.r = NoResource
      /\ adapter.journal = {}
    BY Constants DEF Init, Off, AType, Writers
<1>3. Shape /\ Local(s, adapter)
    BY <1>1, <1>2 DEF Init, Shape, Local
<1> QED BY <1>1, <1>2, <1>3, Constants DEF Init, Inv, Whole, NoMix, Journaled, Named

\* Every step keeps it.
LEMMA InvNext == Inv /\ [Next]_vars => Inv'
<1> SUFFICES ASSUME Inv, [Next]_vars PROVE Inv'
    OBVIOUS
<1>1. CASE Adapter
    <2>1. CASE Expansion
        BY <2>1, ExpandTimeoutStep, EndSteps, FetchStep, OpenTempStep, WriteTempStep, MarkStep,
           RemoveStep, PublishStep DEF Expansion
    <2> QED BY <1>1, <2>1, StartStep, RecoverStep, InitializeStep, RefreshStep DEF Adapter
<1>2. CASE \E r \in Resources : materialize_node(r) \/ lookup(r)
    BY <1>2, NodeStep, LookupStep
<1> QED BY <1>1, <1>2, OtherLookupStep, OtherSteps DEF Next

-----------------------------------------------------------------------------
(* The theorems.                                                           *)

\* The inductive invariant holds of every behaviour.
THEOREM InvAlways == Spec => []Inv
BY InvInit, InvNext, PTL DEF Spec

\* The files, the two journal maps and the adapter's expansion always have their shape.
THEOREM SnapshotTypes == Spec => []TypeOK
<1>1. Inv => TypeOK
    BY DEF Inv, Shape, Local, TypeOK, SType, DType, AType, Writers, Windows
<1> QED BY <1>1, InvAlways, PTL

\* Unless a lookup publishes the file that the adapter has open, no snapshot ever mixes the
\* bytes of two fetches, whatever fails, times out, crashes or is tried again.
THEOREM PublishedWhole == Spec => []SnapshotsWhole
<1>1. Inv => SnapshotsWhole
    BY DEF Inv, Whole, NoMix, SnapshotsWhole
<1> QED BY <1>1, InvAlways, PTL

\* Outside the windows "journal", "crash", "retry" and "foreign" every temporary file is named
\* in the journal on disk, whichever writer saved it last and whichever recovered.
THEOREM TempsRecovered == Spec => []TempsJournaled
<1>1. Inv => TempsJournaled
    BY DEF Inv, Journaled, Named, TempsJournaled
<1> QED BY <1>1, InvAlways, PTL
=============================================================================
