------------------------------ MODULE AgentFS ------------------------------
(***************************************************************************)
(* AgentFS: the SQLite-backed filesystem of the SDK                        *)
(* (appfs/sdk/rust/src/filesystem/agentfs.rs).                             *)
(*                                                                         *)
(* Two actors share one database: the mount, whose kernel client calls the *)
(* inode operations one at a time, and an SDK program in the same process  *)
(* (the structure synchronisation of the AppFS runtime) that calls the     *)
(* path operations through an AgentFS instance of its own, with its own    *)
(* dentry cache.  Some operations are one transaction; the others are      *)
(* sequences of autocommitted statements, and each statement that matters  *)
(* to names, link counts or bytes is a step here.  A crash may come        *)
(* between any two of them, and nothing is repaired at the next start.     *)
(*                                                                         *)
(* `torn` records the windows the code leaves open, when one is entered:   *)
(*   "stale"  a statement acted on what an earlier one had read, or the    *)
(*            kernel had looked up, and what the other actor has changed   *)
(*            since (a name was put into a removed directory), or a path   *)
(*            write took a directory for a file or a file for a directory; *)
(*   "count"  a name was in the directory and not yet in the link count    *)
(*            when the process died or the other actor read the count;     *)
(*   "orphan" a new inode lost the race for its name.                      *)
(* Timestamps, owners and permissions are left out.                        *)
(***************************************************************************)
EXTENDS FileChunks, Integers, FiniteSets

CONSTANTS
    Names,          \* names in a directory
    Paths,          \* paths the SDK program uses: sequences of names
    Plans,          \* BulkMaterializePlans: sequences of entries in the order of the sort
    Offsets,        \* positions writes start at
    Payloads,       \* what writes put there: non-empty sequences of bytes
    Sizes,          \* sizes truncations ask for
    MaxInode,       \* bound: inodes ever created, the root included
    MaxOps,         \* bound: operations that change the database
    MaxCrashes      \* bound: crashes

\* BulkMaterializeEntry: a directory, an empty file, or a file and its bytes.
Bytes == 0..255
PlanEntries == [path : Seq(Names) \ {<<>>}, kind : {"dir", "file"}, write : BOOLEAN, bytes : Seq(Bytes)]

\* Every operation by path refuses the root (FsError::RootOperation).
ASSUME ClientsAssumption ==
    /\ Paths \subseteq Seq(Names) \ {<<>>}
    /\ Plans \subseteq Seq(PlanEntries)
    /\ \A plan \in Plans : \A k \in DOMAIN plan : plan[k].write => plan[k].kind = "file"
    /\ Offsets \subseteq Nat /\ Sizes \subseteq Nat
    /\ Payloads \subseteq Seq(Bytes) \ {<<>>}
ASSUME BoundsAssumption == MaxInode \in Nat \ {0} /\ MaxOps \in Nat /\ MaxCrashes \in Nat

Root == 1
None == 0
Actors == {"mount", "sdk"}
Idle == [do |-> "nothing"]

VARIABLES
    db,         \* fs_inode, fs_dentry, fs_data and the AUTOINCREMENT counter
    op,         \* per actor: its operation between two statements
    cache,      \* DentryCache of the SDK program's instance
    handle,     \* the file the mount's client holds open, or None
    torn,       \* the windows entered
    ops,        \* operations begun
    crashes     \* crashes so far

vars == <<db, op, cache, handle, torn, ops, crashes>>

-----------------------------------------------------------------------------
(* The tables.                                                             *)

Put(f, k, v) == [x \in DOMAIN f \union {k} |-> IF x = k THEN v ELSE f[x]]
Without(f, k) == [x \in DOMAIN f \ {k} |-> f[x]]

EmptyDb == [inode |-> [i \in {Root} |-> [kind |-> "dir", nlink |-> 2, size |-> 0]],
            dentry |-> <<>>, data |-> <<>>, next |-> Root + 1]

InsertInode(d, kind, nlink, size) ==
    [d EXCEPT !.inode = Put(@, d.next, [kind |-> kind, nlink |-> nlink, size |-> size]),
              !.next = @ + 1]

InsertDentry(d, e, i) == [d EXCEPT !.dentry = Put(@, e, i)]
DeleteDentry(d, e) == [d EXCEPT !.dentry = Without(@, e)]

\* UPDATE fs_inode ... WHERE ino = i changes nothing when there is no such row.
AddLinks(d, i, n) ==
    IF i \in DOMAIN d.inode THEN [d EXCEPT !.inode[i].nlink = @ + n] ELSE d
SetSize(d, i, n) ==
    IF i \in DOMAIN d.inode THEN [d EXCEPT !.inode[i].size = n] ELSE d
SetRows(d, i, rows) == [d EXCEPT !.data = Put(@, i, rows)]
DeleteData(d, i) == [d EXCEPT !.data = Without(@, i)]
DeleteInode(d, i) == [d EXCEPT !.inode = Without(@, i)]

Rows(d, i) == IF i \in DOMAIN d.data THEN d.data[i] ELSE NoRows
Size(d, i) == IF i \in DOMAIN d.inode THEN d.inode[i].size ELSE 0
get_link_count(d, i) == IF i \in DOMAIN d.inode THEN d.inode[i].nlink ELSE 0

IsDir(d, i) == i \in DOMAIN d.inode /\ d.inode[i].kind = "dir"
IsFile(d, i) == i \in DOMAIN d.inode /\ d.inode[i].kind = "file"
Children(d, i) == {e \in DOMAIN d.dentry : e[1] = i}
NamesOf(d, i) == {e \in DOMAIN d.dentry : d.dentry[e] = i}
Points(d, e, i) == e \in DOMAIN d.dentry /\ d.dentry[e] = i

\* A directory that a path leads to, as far as its own name goes.
Present(d, i) == i = Root \/ (NamesOf(d, i) # {} /\ IsDir(d, i))

\* Where the mount's client may put or seek a name.  The kernel's entries never expire,
\* and a directory that the SDK program has removed keeps its row: it is served as well.
Slots == {i \in DOMAIN db.inode : IsDir(db, i)} \X Names

\* The data, then the inode, of something without links (unlink, rename).
Purged(d, i) == IF get_link_count(d, i) = 0 THEN DeleteInode(DeleteData(d, i), i) ELSE d

\* Directories on the way from i to the root.
Within(d, i, j) ==
    LET Up[k \in 0..Cardinality(DOMAIN d.dentry)] ==
            IF k = 0 THEN {i}
            ELSE Up[k - 1] \union {e[1] : e \in {x \in DOMAIN d.dentry : d.dentry[x] \in Up[k - 1]}}
    IN  j \in Up[Cardinality(DOMAIN d.dentry)]

Init ==
    /\ db = EmptyDb
    /\ op = [a \in Actors |-> Idle]
    /\ cache = <<>>
    /\ handle = None
    /\ torn = {}
    /\ ops = 0 /\ crashes = 0

-----------------------------------------------------------------------------
(* Steps.                                                                  *)

Begins(a) == op[a] = Idle /\ ops < MaxOps /\ ops' = ops + 1
Enter(a, o) == op' = [op EXCEPT ![a] = o]
Leave(a) == op' = [op EXCEPT ![a] = Idle]
At(a, place) == op[a] # Idle /\ op[a].at = place
Go(a, place) == op' = [op EXCEPT ![a].at = place]
Tear(kind, cond) == torn' = IF cond THEN torn \union {kind} ELSE torn
Room == db.next <= MaxInode

-----------------------------------------------------------------------------
(* The mount: FileSystem for AgentFS.  The kernel has looked the parents   *)
(* up at some time, never asks for a name it knows to be taken or missing, *)
(* and keeps a directory out of its own subtree.                           *)

open(i) ==
    /\ op["mount"] = Idle /\ handle = None
    /\ IsFile(db, i) /\ NamesOf(db, i) # {}
    /\ handle' = i
    /\ UNCHANGED <<db, op, cache, torn, ops, crashes>>

release ==
    /\ op["mount"] = Idle /\ handle # None
    /\ handle' = None
    /\ UNCHANGED <<db, op, cache, torn, ops, crashes>>

\* One transaction: the inode with its link, then the name.  Only the name is checked.
create_file(e) ==
    /\ Begins("mount") /\ Room
    /\ e \in Slots \ DOMAIN db.dentry
    /\ db' = InsertDentry(InsertInode(db, "file", 1, 0), e, db.next)
    /\ handle' = IF handle = None THEN db.next ELSE handle
    /\ Tear("stale", ~Present(db, e[1]))
    /\ UNCHANGED <<op, cache, crashes>>

\* mkdir, and mknod or symlink: first an inode without links.
mkdir(e) ==
    /\ Begins("mount") /\ Room
    /\ e \in Slots \ DOMAIN db.dentry
    /\ db' = InsertInode(db, "dir", 0, 0)
    /\ Enter("mount", [do |-> "mkdir", e |-> e, i |-> db.next, at |-> "name"])
    /\ UNCHANGED <<cache, handle, torn, crashes>>

mknod(e) ==
    /\ Begins("mount") /\ Room
    /\ e \in Slots \ DOMAIN db.dentry
    /\ db' = InsertInode(db, "node", 0, 0)
    /\ Enter("mount", [do |-> "mknod", e |-> e, i |-> db.next, at |-> "name"])
    /\ UNCHANGED <<cache, handle, torn, crashes>>

link(i, e) ==
    /\ Begins("mount")
    /\ NamesOf(db, i) # {} /\ i \in DOMAIN db.inode /\ ~IsDir(db, i)
    /\ e \in Slots \ DOMAIN db.dentry
    /\ Enter("mount", [do |-> "link", e |-> e, i |-> i, at |-> "name"])
    /\ UNCHANGED <<db, cache, handle, torn, crashes>>

\* The name, which is UNIQUE (parent_ino, name); then the link count.
AddName(a) ==
    /\ At(a, "name")
    /\ LET o == op[a]
           taken == o.e \in DOMAIN db.dentry
       IN  /\ db' = IF taken THEN db ELSE InsertDentry(db, o.e, o.i)
           /\ IF taken THEN Leave(a) ELSE Go(a, "count")
           /\ torn' = torn
                 \union (IF taken /\ o.do # "link" THEN {"orphan"} ELSE {})
                 \union (IF ~taken /\ (~Present(db, o.e[1])
                                         \/ (o.do = "link" /\ NamesOf(db, o.i) = {}))
                           THEN {"stale"} ELSE {})
    /\ UNCHANGED <<cache, handle, ops, crashes>>

\* Mutant: link does not count the new name.
AddCount_Forgets(a) ==
    /\ At(a, "count")
    /\ IF op[a].do = "mkdir" THEN Go(a, "addparent") ELSE Leave(a)
    /\ UNCHANGED <<db, cache, handle, torn, ops, crashes>>

AddCount(a) ==
    /\ At(a, "count")
    /\ LET o == op[a]
       IN  IF o.do = "mkdir"
             THEN /\ db' = [db EXCEPT !.inode[o.i].nlink = 2]
                  /\ Go(a, "addparent")
             ELSE /\ db' = AddLinks(db, o.i, 1)
                  /\ Leave(a)
    /\ UNCHANGED <<cache, handle, torn, ops, crashes>>

AddParent(a) ==
    /\ At(a, "addparent")
    /\ db' = AddLinks(db, op[a].e[1], 1)
    /\ Leave(a)
    /\ UNCHANGED <<cache, handle, torn, ops, crashes>>

unlink(e) ==
    /\ Begins("mount")
    /\ e \in DOMAIN db.dentry \cap Slots
    /\ ~IsDir(db, db.dentry[e])
    /\ Enter("mount", [do |-> "unlink", e |-> e, i |-> db.dentry[e], dir |-> FALSE, at |-> "drop"])
    /\ UNCHANGED <<db, cache, handle, torn, crashes>>

rmdir(e) ==
    /\ Begins("mount")
    /\ e \in DOMAIN db.dentry \cap Slots
    /\ IsDir(db, db.dentry[e]) /\ Children(db, db.dentry[e]) = {}
    /\ Enter("mount", [do |-> "rmdir", e |-> e, i |-> db.dentry[e], dir |-> TRUE, at |-> "drop"])
    /\ UNCHANGED <<db, cache, handle, torn, crashes>>

\* The name goes, whatever it names by now; the SDK's remove clears the caches.
DropName(a) ==
    /\ At(a, "drop")
    /\ LET o == op[a]
       IN  /\ db' = DeleteDentry(db, o.e)
           /\ Go(a, "uncount")
           /\ Tear("stale", ~Points(db, o.e, o.i) \/ (o.dir /\ Children(db, o.i) # {}))
    /\ cache' = IF a = "sdk" THEN <<>> ELSE cache
    /\ UNCHANGED <<handle, ops, crashes>>

DropCount(a) ==
    /\ At(a, "uncount")
    /\ db' = AddLinks(db, op[a].i, -1)
    /\ Go(a, IF op[a].dir THEN "dropparent" ELSE "purge")
    /\ UNCHANGED <<cache, handle, torn, ops, crashes>>

DropParent(a) ==
    /\ At(a, "dropparent")
    /\ db' = AddLinks(db, op[a].e[1], -1)
    /\ Go(a, "purge")
    /\ UNCHANGED <<cache, handle, torn, ops, crashes>>

\* Mutant: a file goes with its first name, whatever its link count.
Purge_Always(a) ==
    /\ At(a, "purge")
    /\ db' = DeleteData(db, op[a].i) /\ Go(a, "inode")
    /\ UNCHANGED <<cache, handle, torn, ops, crashes>>

\* Mutant: the last link leaves the inode behind.
Purge_Never(a) ==
    /\ At(a, "purge")
    /\ Leave(a)
    /\ UNCHANGED <<db, cache, handle, torn, ops, crashes>>

\* get_link_count, and the data of what has no link left.
Purge(a) ==
    /\ At(a, "purge")
    /\ LET i == op[a].i
       IN  /\ IF get_link_count(db, i) = 0
                THEN db' = DeleteData(db, i) /\ Go(a, "inode")
                ELSE db' = db /\ Leave(a)
           /\ Tear("count", \E b \in Actors \ {a} : At(b, "count") /\ op[b].i = i)
    /\ UNCHANGED <<cache, handle, ops, crashes>>

DropInode(a) ==
    /\ At(a, "inode")
    /\ db' = DeleteInode(db, op[a].i)
    /\ Leave(a)
    /\ UNCHANGED <<cache, handle, torn, ops, crashes>>

\* rename looks its source up before the transaction.
rename(e, f) ==
    /\ Begins("mount")
    /\ e \in DOMAIN db.dentry \cap Slots /\ f \in Slots
    /\ ~Points(db, f, db.dentry[e])
    /\ ~Within(db, f[1], db.dentry[e])
    /\ Enter("mount", [do |-> "rename", e |-> e, f |-> f, i |-> db.dentry[e],
                       dir |-> IsDir(db, db.dentry[e]), at |-> "move"])
    /\ UNCHANGED <<db, cache, handle, torn, crashes>>

\* What the transaction of rename does to the tables.
Replaced(d, f) ==
    IF f \in DOMAIN d.dentry
      THEN Purged(AddLinks(DeleteDentry(d, f), d.dentry[f], -1), d.dentry[f])
      ELSE d
Moved(d, e, f, dir) ==
    LET m == IF e \in DOMAIN d.dentry
               THEN InsertDentry(DeleteDentry(d, e), f, d.dentry[e]) ELSE d
    IN  IF dir /\ e[1] # f[1] THEN AddLinks(AddLinks(m, e[1], -1), f[1], 1) ELSE m
MayReplace(d, f, dir) ==
    f \in DOMAIN d.dentry =>
        LET j == d.dentry[f]
        IN  /\ j \in DOMAIN d.inode
            /\ IsDir(d, j) <=> dir
            /\ dir => Children(d, j) = {}

Move(a) ==
    /\ At(a, "move")
    /\ LET o == op[a]
           done == MayReplace(db, o.f, o.dir)
       IN  /\ db' = IF done THEN Moved(Replaced(db, o.f), o.e, o.f, o.dir) ELSE db
           /\ Tear("stale", done /\ ~(Points(db, o.e, o.i) /\ Present(db, o.f[1])))
    /\ Leave(a)
    /\ UNCHANGED <<cache, handle, ops, crashes>>

-----------------------------------------------------------------------------
(* The open file of the mount: File for AgentFSFile.                       *)

\* One transaction; the file may be gone.
pwrite(off, data) ==
    /\ Begins("mount") /\ handle # None
    /\ db' = SetSize(SetRows(db, handle, write_data_at_offset(Rows(db, handle), off, data)),
                     handle, MaxOf(Size(db, handle), off + Len(data)))
    /\ UNCHANGED <<op, cache, handle, torn, crashes>>

\* truncate reads the size before its transaction.
truncate(n) ==
    /\ Begins("mount") /\ handle # None
    /\ Enter("mount", [do |-> "truncate", i |-> handle, to |-> n,
                       seen |-> Size(db, handle), at |-> "cut"])
    /\ UNCHANGED <<db, cache, handle, torn, crashes>>

Cut(a) ==
    /\ At(a, "cut")
    /\ LET o == op[a]
       IN  /\ db' = SetSize(SetRows(db, o.i, truncate_rows(Rows(db, o.i), o.seen, o.to)), o.i, o.to)
           /\ Tear("stale", Size(db, o.i) # o.seen)
    /\ Leave(a)
    /\ UNCHANGED <<cache, handle, ops, crashes>>

-----------------------------------------------------------------------------
(* The SDK program: paths, resolved through its dentry cache.              *)

\* The inodes along a path, from the root; None from the first name that is missing.
Walk(d, path) ==
    LET W[k \in 0..Len(path)] ==
            IF k = 0 THEN Root
            ELSE LET e == <<W[k - 1], path[k]>>
                 IN  IF e \in DOMAIN cache THEN cache[e]
                     ELSE IF e \in DOMAIN d.dentry THEN d.dentry[e] ELSE None
    IN  W
resolve_path(d, path) == Walk(d, path)[Len(path)]
Parent(path) == SubSeq(path, 1, Len(path) - 1)

\* The entries a resolution has used: it puts them in the cache.
Used(d, path) ==
    LET W == Walk(d, path)
    IN  [e \in {<<W[k - 1], path[k]>> : k \in {j \in 1..Len(path) : W[j] # None}} |->
            LET k == CHOOSE j \in 1..Len(path) : e = <<W[j - 1], path[j]>> /\ W[j] # None
            IN  W[k]]
Filled(d, path) ==
    [e \in DOMAIN cache \union DOMAIN Used(d, path) |->
        IF e \in DOMAIN cache THEN cache[e] ELSE Used(d, path)[e]]
Outdated(d, path) == \E e \in DOMAIN Used(d, path) : ~Points(d, e, Used(d, path)[e])

\* read_file, stat, pread: any use of a path remembers its entries.
read_file(path) ==
    /\ op["sdk"] = Idle
    /\ cache' = Filled(db, path)
    /\ UNCHANGED <<db, op, handle, torn, ops, crashes>>

remove(path) ==
    /\ Begins("sdk")
    /\ LET i == resolve_path(db, path)
       IN  /\ i \in DOMAIN db.inode
           /\ Children(db, i) = {}
           /\ Enter("sdk", [do |-> "remove", e |-> <<resolve_path(db, Parent(path)), path[Len(path)]>>,
                            i |-> i, dir |-> IsDir(db, i), at |-> "drop"])
    /\ cache' = Filled(db, path)
    /\ Tear("stale", Outdated(db, path))
    /\ UNCHANGED <<db, handle, crashes>>

\* Mutant: the parent of a new file need not exist.
write_path_AnyParent(path, off, data) ==
    LET i == resolve_path(db, path)
        p == resolve_path(db, Parent(path))
        end == off + Len(data)
    IN  /\ Begins("sdk") /\ Room
        /\ IF i # None
             THEN db' = SetSize(SetRows(db, i, path_pwrite(Rows(db, i), Size(db, i), off, data)),
                                i, MaxOf(Size(db, i), end))
             ELSE db' = SetRows(InsertDentry(InsertInode(db, "file", 1, end),
                                             <<p, path[Len(path)]>>, db.next),
                                db.next, path_pwrite(NoRows, 0, off, data))
        /\ cache' = Filled(db, path)
        /\ Tear("stale", Outdated(db, path) \/ ~Present(db, p) \/ IsDir(db, i))
        /\ UNCHANGED <<op, handle, crashes>>

\* pwrite by path: one transaction that creates the file if it is missing; neither the
\* parent nor the file is asked what it is.
write_path(path, off, data) ==
    LET i == resolve_path(db, path)
        p == resolve_path(db, Parent(path))
        end == off + Len(data)
    IN  /\ Begins("sdk") /\ Room
        /\ p # None
        /\ IF i # None
             THEN db' = SetSize(SetRows(db, i, path_pwrite(Rows(db, i), Size(db, i), off, data)),
                                i, MaxOf(Size(db, i), end))
             ELSE db' = SetRows(InsertDentry(InsertInode(db, "file", 1, end),
                                             <<p, path[Len(path)]>>, db.next),
                                db.next, path_pwrite(NoRows, 0, off, data))
        /\ cache' = Filled(db, path)
        /\ Tear("stale", Outdated(db, path) \/ ~Present(db, p) \/ IsDir(db, i))
        /\ UNCHANGED <<op, handle, crashes>>

\* One entry of a plan: [path, kind, write, bytes]; a WriteFile has `write` set.
FillFile(d, i, x) ==
    IF ~x.write THEN d
    ELSE SetSize(SetRows(d, i, insert_bulk_file_chunks(x.bytes)), i, Len(x.bytes))
create_bulk_entry(d, x, p) ==
    LET i == d.next
        made == InsertDentry(InsertInode(d, x.kind, IF x.kind = "dir" THEN 2 ELSE 1, 0),
                             <<p, x.path[Len(x.path)]>>, i)
    IN  IF x.kind = "dir" THEN AddLinks(made, p, 1) ELSE FillFile(made, i, x)
BulkEntry(r, x) ==
    LET d == r.db
        p == resolve_path(d, Parent(x.path))
        i == resolve_path(d, x.path)
        fits == /\ IsDir(d, p)
                /\ i # None => i \in DOMAIN d.inode /\ d.inode[i].kind = x.kind
    IN  IF ~r.ok \/ ~fits THEN [r EXCEPT !.ok = FALSE]
        ELSE [ok |-> TRUE, stale |-> r.stale \/ Outdated(d, x.path) \/ ~Present(d, p),
              db |-> IF i = None THEN create_bulk_entry(d, x, p) ELSE FillFile(d, i, x)]
BulkResult(plan) ==
    LET B[k \in 0..Len(plan)] ==
            IF k = 0 THEN [ok |-> TRUE, stale |-> FALSE, db |-> db]
            ELSE BulkEntry(B[k - 1], plan[k])
    IN  B[Len(plan)]

\* One transaction: all entries or none; a commit clears the dentry caches.
bulk_materialize_tree(plan) ==
    /\ Begins("sdk")
    /\ LET r == BulkResult(plan)
       IN  /\ r.ok /\ r.db.next <= MaxInode + 1
           /\ db' = r.db
           /\ Tear("stale", r.stale)
    /\ cache' = <<>>
    /\ UNCHANGED <<op, handle, crashes>>

-----------------------------------------------------------------------------
\* The process dies; the database keeps what was committed.
Crash ==
    /\ crashes < MaxCrashes
    /\ \E a \in Actors : op[a] # Idle
    /\ crashes' = crashes + 1
    /\ op' = [a \in Actors |-> Idle]
    /\ cache' = <<>> /\ handle' = None
    /\ Tear("count", \E a \in Actors : At(a, "count") /\ op[a].do # "mkdir")
    /\ UNCHANGED <<db, ops>>

Next ==
    \/ \E i \in DOMAIN db.inode : open(i)
    \/ release
    \/ \E e \in Slots : create_file(e) \/ mkdir(e) \/ mknod(e) \/ unlink(e) \/ rmdir(e)
    \/ \E i \in DOMAIN db.inode, e \in Slots : link(i, e)
    \/ \E e, f \in Slots : rename(e, f)
    \/ \E off \in Offsets, data \in Payloads : pwrite(off, data)
    \/ \E n \in Sizes : truncate(n)
    \/ \E path \in Paths : read_file(path) \/ remove(path)
    \/ \E path \in Paths, off \in Offsets, data \in Payloads : write_path(path, off, data)
    \/ \E plan \in Plans : bulk_materialize_tree(plan)
    \/ \E a \in Actors : \/ AddName(a) \/ AddCount(a) \/ AddParent(a)
                         \/ DropName(a) \/ DropCount(a) \/ DropParent(a)
                         \/ Purge(a) \/ DropInode(a)
                         \/ Move(a) \/ Cut(a)
    \/ Crash

Spec == Init /\ [][Next]_vars

-----------------------------------------------------------------------------
(* Properties.                                                             *)

Sound == torn \subseteq {"orphan"}

\* The tables and the operations in flight have their shape.
TypeOK ==
    /\ DOMAIN db = {"inode", "dentry", "data", "next"}
    /\ db.next \in Nat
    /\ \A i \in DOMAIN db.inode : /\ i \in 1..(db.next - 1)
                                  /\ db.inode[i].kind \in {"dir", "file", "node"}
                                  /\ db.inode[i].nlink \in Int
                                  /\ db.inode[i].size \in Nat
    /\ \A e \in DOMAIN db.dentry : e \in (1..(db.next - 1)) \X Names
                                   /\ db.dentry[e] \in 2..(db.next - 1)
    /\ \A i \in DOMAIN db.data : i \in 2..(db.next - 1)
    /\ DOMAIN op = Actors
    /\ handle \in 0..(db.next - 1)
    /\ torn \subseteq {"stale", "count", "orphan"}

\* SPEC.md, consistency rules 1 to 3: every name stands for an inode that exists, in a
\* directory that exists.
NamesIntact ==
    Sound => /\ Root \in DOMAIN db.inode
             /\ \A e \in DOMAIN db.dentry : db.dentry[e] \in DOMAIN db.inode /\ IsDir(db, e[1])

\* A file never has more names, and names about to be dropped from its count, than
\* links, whatever is in flight and wherever earlier crashes struck: the count reaches
\* zero only when the last name is gone.
Dropping(i) == Cardinality({a \in Actors : At(a, "uncount") /\ op[a].i = i})
Adding(i) == Cardinality({a \in Actors : At(a, "count") /\ op[a].i = i})
LinksSuffice ==
    Sound => \A i \in DOMAIN db.inode : ~IsDir(db, i) =>
        Cardinality(NamesOf(db, i)) + Dropping(i) <= db.inode[i].nlink + Adding(i)

\* No row of a file holds bytes at or past its end, so that a file that grows again
\* reads as zeros there ("The sparse regions will be handled by pread returning zeros").
NothingPastEnd == Sound => \A i \in DOMAIN db.inode : RowsFit(Rows(db, i), Size(db, i))

\* Reading chunk by chunk gives the bytes of the file, for every offset and length.
ReadsWhole ==
    \A i \in DOMAIN db.inode : IsFile(db, i) =>
        LET bytes == Content(Rows(db, i), Size(db, i))
        IN  \A off \in 0..(Len(bytes) + 1), n \in 0..(Len(bytes) + 1) :
                pread(Rows(db, i), Size(db, i), off, n)
                    = SubSeq(bytes, off + 1, MinOf(off + n, Len(bytes)))

\* Without a crash or a lost race, a file that has lost its last name is gone.
NoFileLeaks ==
    torn = {} /\ crashes = 0 /\ op = [a \in Actors |-> Idle] =>
        \A i \in DOMAIN db.inode : ~IsDir(db, i) => NamesOf(db, i) # {}

\* Outside the torn windows each statement is a step of FileTree or invisible: names,
\* and the bytes behind them, change only as the operations promise.
Directory == <<-1>>     \* no file reads so
Gone == <<-2>>          \* a name without an inode
Says(d) ==
    [i \in {d.dentry[e] : e \in DOMAIN d.dentry} |->
        IF i \notin DOMAIN d.inode THEN Gone
        ELSE IF IsDir(d, i) THEN Directory
        ELSE Content(Rows(d, i), Size(d, i))]
Planned == UNION {{plan[k].bytes : k \in {j \in DOMAIN plan : plan[j].write}} : plan \in Plans}
Tree == INSTANCE FileTree WITH
    Objects <- 1..MaxInode, Dir <- Directory, Contents <- Planned, names <- db.dentry, says <- Says(db)
Implements == Tree!Init /\ [][Tree!Next \/ torn' \cap {"stale", "count"} # {}]_(Tree!treeVars)
=============================================================================
