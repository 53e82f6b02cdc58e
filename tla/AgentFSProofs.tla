--------------------------- MODULE AgentFSProofs ---------------------------
(***************************************************************************)
(* Proofs about AgentFS, for every set of names, paths and plans, and any  *)
(* number of operations, inodes and crashes.                               *)
(***************************************************************************)
EXTENDS AgentFS, FiniteSetTheorems, SequenceTheorems, WellFoundedInduction, TLAPS

-----------------------------------------------------------------------------
(* Types.                                                                  *)

\* The tables.
Kinds == {"dir", "file", "node"}
InodeRow == [kind : Kinds, nlink : Int, size : Nat]
IsDb(d) == d = [inode |-> d.inode, dentry |-> d.dentry, data |-> d.data, next |-> d.next]
Slot(n) == (1..(n - 1)) \X Names
Tables(d) ==
    /\ IsDb(d) /\ d.next \in Nat \ {0, 1}
    /\ \A i \in DOMAIN d.inode : i \in 1..(d.next - 1) /\ d.inode[i] \in InodeRow
    /\ IsFiniteSet(DOMAIN d.dentry)
    /\ \A e \in DOMAIN d.dentry : e \in Slot(d.next) /\ d.dentry[e] \in 2..(d.next - 1)
    /\ \A i \in DOMAIN d.data : i \in 2..(d.next - 1)

\* An operation between two statements, below inode number n.
AddOps(n) == [do : {"mkdir", "mknod", "link"}, e : Slot(n), i : 2..(n - 1), at : {"name", "count", "addparent"}]
DropOps(n) == [do : {"unlink", "rmdir", "remove"}, e : Slot(n), i : 2..(n - 1), dir : BOOLEAN,
               at : {"drop", "uncount", "dropparent", "purge", "inode"}]
MoveOps(n) == [do : {"rename"}, e : Slot(n), f : Slot(n), i : 2..(n - 1), dir : BOOLEAN, at : {"move"}]
CutOps(n) == [do : {"truncate"}, i : 2..(n - 1), to : Nat, seen : Nat, at : {"cut"}]
MountOps(n) == {Idle} \union AddOps(n) \union DropOps(n) \union MoveOps(n) \union CutOps(n)
SdkOps(n) == {Idle} \union DropOps(n)
CacheOK(c, n) == \A e \in DOMAIN c : e \in Slot(n) /\ c[e] \in 2..(n - 1)
Types ==
    /\ Tables(db)
    /\ DOMAIN op = Actors /\ op = [a \in Actors |-> op[a]]
    /\ op["mount"] \in MountOps(db.next) /\ op["sdk"] \in SdkOps(db.next)
    /\ CacheOK(cache, db.next)
    /\ handle \in {None} \union 2..(db.next - 1)
    /\ torn \subseteq {"stale", "count", "orphan"}

-----------------------------------------------------------------------------
(* Names.                                                                  *)

\* Every name stands for an inode, in a directory; a directory has at most one name, and
\* without one it is empty.
Intact(d) ==
    /\ IsDir(d, Root)
    /\ \A e \in DOMAIN d.dentry : d.dentry[e] \in DOMAIN d.inode /\ IsDir(d, e[1])
    /\ \A i \in DOMAIN d.inode : i # Root /\ IsDir(d, i) =>
         /\ \A e, f \in NamesOf(d, i) : e = f
         /\ NamesOf(d, i) = {} => Children(d, i) = {}

\* What an operation in flight relies on: the kind of what it works on, which never changes
\* while the inode lives; that a directory whose name it dropped, or an inode it is about to
\* delete, has no name; and that nobody has named the inode it has just made.
DropOK(d, o) ==
    /\ o.i \in DOMAIN d.inode => (o.dir <=> IsDir(d, o.i))
    /\ o.e[1] \in DOMAIN d.inode => IsDir(d, o.e[1])
    /\ o.at \in {"uncount", "dropparent", "purge"} /\ IsDir(d, o.i) => NamesOf(d, o.i) = {}
    /\ o.at = "inode" => NamesOf(d, o.i) = {}
Making(o) == o # Idle /\ o.do \in {"mkdir", "mknod"} /\ o.at = "name"
AddOK(d, o) ==
    /\ o.do = "mkdir" /\ o.i \in DOMAIN d.inode => IsDir(d, o.i)
    /\ o.do \in {"mknod", "link"} => ~IsDir(d, o.i)
    /\ o.at = "addparent" => o.do = "mkdir"
    /\ o.e[1] \in DOMAIN d.inode => IsDir(d, o.e[1])
    /\ Making(o) => o.i \in DOMAIN d.inode /\ NamesOf(d, o.i) = {}
MoveOK(d, o) ==
    /\ o.e # o.f
    /\ o.i \in DOMAIN d.inode => (o.dir <=> IsDir(d, o.i))
OpOK(d, o) ==
    o # Idle => /\ o.do \in {"unlink", "rmdir", "remove"} => DropOK(d, o)
                /\ o.do \in {"mkdir", "mknod", "link"} => AddOK(d, o)
                /\ o.do = "rename" => MoveOK(d, o)

\* The SDK program knows nothing of an inode the mount is still making.
Hidden(c, m, s) ==
    Making(m) => /\ s # Idle => s.i # m.i
                 /\ \A e \in DOMAIN c : c[e] # m.i

\* The links of a file that are not accounted for by its names, by names it is about to
\* lose and by names it is about to count.
Drops(o, i) == IF o # Idle /\ o.at = "uncount" /\ o.i = i THEN 1 ELSE 0
Adds(o, i) == IF o # Idle /\ o.at = "count" /\ o.i = i THEN 1 ELSE 0
Due(d, o, q, i) ==
    d.inode[i].nlink + Adds(o, i) + Adds(q, i) - Cardinality(NamesOf(d, i)) - Drops(o, i) - Drops(q, i)
Files(d) == {i \in DOMAIN d.inode : ~IsDir(d, i)}
Whole(d, o, q) ==
    /\ Intact(d) /\ OpOK(d, o) /\ OpOK(d, q)
    /\ \A i \in Files(d) : Due(d, o, q, i) >= 0
NamesInv == Sound => Whole(db, op["mount"], op["sdk"]) /\ Hidden(cache, op["mount"], op["sdk"])

\* A file without a name is being made, or being deleted.
Settles(o, i) == o # Idle /\ o.i = i /\ (o.at \in {"uncount", "purge", "inode"} \/ (o.do = "mknod" /\ o.at = "name"))
Settled(d, o, q) ==
    \A i \in Files(d) : /\ Due(d, o, q, i) = 0
                        /\ NamesOf(d, i) = {} => Settles(o, i) \/ Settles(q, i)
LeakInv == torn = {} /\ crashes = 0 => Settled(db, op["mount"], op["sdk"])

-----------------------------------------------------------------------------
(* What the statements do to the tables.                                   *)

\* Every set of naturals that is not empty has a least element: what the inductions
\* below rest on.
LEMMA LeastNat ==
  ASSUME NEW T, T \subseteq Nat, T # {}
  PROVE  \E x \in T : \A y \in T : x <= y
<1>. DEFINE R == {ss \in Nat \X Nat : ss[1] < ss[2]}
<1>1. IsWellFoundedOn(R, Nat)
  BY NatLessThanWellFounded DEF OpToRel
<1>2. PICK x \in T : \A y \in T : ~(<<y, x>> \in R)
  <2>. HIDE DEF R
  <2>. QED BY <1>1, WFMin, Zenon
<1>3. \A y \in T : <<y, x>> \in R <=> y < x
  OBVIOUS
<1>. HIDE DEF R
<1>4. \A y \in T : ~(y < x)
  BY <1>2, <1>3
<1>. QED BY <1>4

\* A new inode has the next number.
LEMMA InsertInodeEffect ==
  ASSUME NEW d, Tables(d), NEW kind \in Kinds, NEW nlink \in Int, NEW size \in Nat
  PROVE  LET d2 == InsertInode(d, kind, nlink, size)
         IN  /\ Tables(d2)
             /\ d2.next = d.next + 1 /\ d2.dentry = d.dentry /\ d2.data = d.data
             /\ DOMAIN d2.inode = DOMAIN d.inode \union {d.next} /\ d.next \notin DOMAIN d.inode
             /\ d2.inode[d.next] = [kind |-> kind, nlink |-> nlink, size |-> size]
             /\ \A j \in DOMAIN d.inode : d2.inode[j] = d.inode[j]
<1>. DEFINE row == [kind |-> kind, nlink |-> nlink, size |-> size]
            d2 == InsertInode(d, kind, nlink, size)
            put == Put(d.inode, d.next, row)
<1>0. d2 = [d EXCEPT !.inode = put, !.next = d.next + 1]
  BY DEF InsertInode
<1>2. row \in InodeRow
  BY DEF InodeRow
<1>. HIDE DEF row, d2, put
<1>1. d2 = [inode |-> put, dentry |-> d.dentry, data |-> d.data, next |-> d.next + 1]
  BY <1>0 DEF Tables, IsDb
<1>3. d.next \in Nat \ {0, 1} /\ d.next \notin DOMAIN d.inode
  BY DEF Tables
<1>4. /\ DOMAIN d2.inode = DOMAIN d.inode \union {d.next} /\ d2.inode[d.next] = row
      /\ \A j \in DOMAIN d.inode : d2.inode[j] = d.inode[j]
  <2>1. d2.inode = put
    BY <1>1
  <2>2. DOMAIN put = DOMAIN d.inode \union {d.next} /\ put[d.next] = row
        /\ \A j \in DOMAIN d.inode : j # d.next => put[j] = d.inode[j]
    BY DEF put, Put
  <2>. QED BY <1>3, <2>1, <2>2
<1>5. d2.next = d.next + 1 /\ d2.dentry = d.dentry /\ d2.data = d.data /\ IsDb(d2)
  BY <1>1 DEF IsDb
<1>6. Tables(d2)
  <2>1. \A i \in DOMAIN d2.inode : i \in 1..(d2.next - 1) /\ d2.inode[i] \in InodeRow
    BY <1>2, <1>3, <1>4, <1>5 DEF Tables
  <2>2. \A e \in DOMAIN d2.dentry : e \in Slot(d2.next) /\ d2.dentry[e] \in 2..(d2.next - 1)
    BY <1>3, <1>5 DEF Tables, Slot
  <2>3. \A i \in DOMAIN d2.data : i \in 2..(d2.next - 1)
    BY <1>3, <1>5 DEF Tables
  <2>. QED BY <1>3, <1>5, <2>1, <2>2, <2>3 DEF Tables
<1>. QED BY <1>3, <1>4, <1>5, <1>6 DEF d2, row

\* A new name.
LEMMA InsertDentryEffect ==
  ASSUME NEW d, Tables(d), NEW e \in Slot(d.next), NEW i \in 2..(d.next - 1)
  PROVE  LET d2 == InsertDentry(d, e, i)
         IN  /\ Tables(d2)
             /\ d2.next = d.next /\ d2.inode = d.inode /\ d2.data = d.data
             /\ DOMAIN d2.dentry = DOMAIN d.dentry \union {e} /\ d2.dentry[e] = i
             /\ \A x \in DOMAIN d.dentry : x # e => d2.dentry[x] = d.dentry[x]
<1>. DEFINE d2 == InsertDentry(d, e, i)
<1>1. d2 = [inode |-> d.inode, dentry |-> Put(d.dentry, e, i), data |-> d.data, next |-> d.next]
  BY DEF Tables, IsDb, InsertDentry
<1>. HIDE DEF d2
<1>2. /\ DOMAIN d2.dentry = DOMAIN d.dentry \union {e} /\ d2.dentry[e] = i
      /\ \A x \in DOMAIN d.dentry : x # e => d2.dentry[x] = d.dentry[x]
  <2>1. d2.dentry = Put(d.dentry, e, i)
    BY <1>1
  <2>. QED BY <2>1 DEF Put
<1>3. d2.next = d.next /\ d2.inode = d.inode /\ d2.data = d.data /\ IsDb(d2)
  BY <1>1 DEF IsDb
<1>4. IsFiniteSet(DOMAIN d2.dentry)
  BY <1>2, FS_AddElement DEF Tables
<1>5. Tables(d2)
  BY <1>2, <1>3, <1>4 DEF Tables
<1>. QED BY <1>2, <1>3, <1>5 DEF d2

\* A name goes.
LEMMA DeleteDentryEffect ==
  ASSUME NEW d, Tables(d), NEW e
  PROVE  LET d2 == DeleteDentry(d, e)
         IN  /\ Tables(d2)
             /\ d2.next = d.next /\ d2.inode = d.inode /\ d2.data = d.data
             /\ DOMAIN d2.dentry = DOMAIN d.dentry \ {e}
             /\ \A x \in DOMAIN d.dentry \ {e} : d2.dentry[x] = d.dentry[x]
<1>. DEFINE d2 == DeleteDentry(d, e)
<1>1. d2 = [inode |-> d.inode, dentry |-> Without(d.dentry, e), data |-> d.data, next |-> d.next]
  BY DEF Tables, IsDb, DeleteDentry
<1>. HIDE DEF d2
<1>2. /\ DOMAIN d2.dentry = DOMAIN d.dentry \ {e}
      /\ \A x \in DOMAIN d.dentry \ {e} : d2.dentry[x] = d.dentry[x]
  <2>1. d2.dentry = Without(d.dentry, e)
    BY <1>1
  <2>. QED BY <2>1 DEF Without
<1>3. d2.next = d.next /\ d2.inode = d.inode /\ d2.data = d.data /\ IsDb(d2)
  BY <1>1 DEF IsDb
<1>4. IsFiniteSet(DOMAIN d2.dentry)
  BY <1>2, FS_RemoveElement DEF Tables
<1>5. Tables(d2)
  BY <1>2, <1>3, <1>4 DEF Tables
<1>. QED BY <1>2, <1>3, <1>5 DEF d2

\* A link count changes: nothing else, and nothing if there is no such inode.
LEMMA AddLinksEffect ==
  ASSUME NEW d, Tables(d), NEW i, NEW n \in Int
  PROVE  LET d2 == AddLinks(d, i, n)
         IN  /\ Tables(d2)
             /\ d2.next = d.next /\ d2.dentry = d.dentry /\ d2.data = d.data
             /\ DOMAIN d2.inode = DOMAIN d.inode
             /\ \A j \in DOMAIN d.inode : /\ d2.inode[j].kind = d.inode[j].kind
                                          /\ d2.inode[j].size = d.inode[j].size
                                          /\ d2.inode[j].nlink = d.inode[j].nlink + (IF j = i THEN n ELSE 0)
<1>. DEFINE d2 == AddLinks(d, i, n)
<1>1. CASE i \in DOMAIN d.inode
  <2>. DEFINE row == [d.inode[i] EXCEPT !.nlink = @ + n]
  <2>1. d2 = [inode |-> [d.inode EXCEPT ![i] = row], dentry |-> d.dentry, data |-> d.data, next |-> d.next]
    BY <1>1 DEF Tables, IsDb, AddLinks
  <2>2. d.inode[i] \in InodeRow /\ d.inode[i].nlink \in Int
    BY <1>1 DEF Tables, InodeRow
  <2>3. row \in InodeRow /\ row.kind = d.inode[i].kind /\ row.size = d.inode[i].size
        /\ row.nlink = d.inode[i].nlink + n
    BY <2>2 DEF InodeRow
  <2>. HIDE DEF d2, row
  <2>4. d2.next = d.next /\ d2.dentry = d.dentry /\ d2.data = d.data /\ IsDb(d2)
        /\ d2.inode = [d.inode EXCEPT ![i] = row]
    BY <2>1 DEF IsDb
  <2>5. DOMAIN d2.inode = DOMAIN d.inode /\ d2.inode[i] = row
        /\ \A j \in DOMAIN d.inode : j # i => d2.inode[j] = d.inode[j]
    BY <1>1, <2>4
  <2>6. Tables(d2)
    BY <2>3, <2>4, <2>5 DEF Tables
  <2>7. \A j \in DOMAIN d.inode : d.inode[j].nlink \in Int
    BY DEF Tables, InodeRow
  <2>. QED BY <2>3, <2>4, <2>5, <2>6, <2>7 DEF d2
<1>2. CASE i \notin DOMAIN d.inode
  <2>1. d2 = d
    BY <1>2 DEF AddLinks
  <2>2. \A j \in DOMAIN d.inode : d.inode[j].nlink \in Int
    BY DEF Tables, InodeRow
  <2>. QED BY <1>2, <2>1, <2>2
<1>. QED BY <1>1, <1>2

\* mkdir sets the count of its new directory.
LEMMA SetLinksEffect ==
  ASSUME NEW d, Tables(d), NEW i
  PROVE  LET d2 == [d EXCEPT !.inode[i].nlink = 2]
         IN  /\ Tables(d2)
             /\ d2.next = d.next /\ d2.dentry = d.dentry /\ d2.data = d.data
             /\ DOMAIN d2.inode = DOMAIN d.inode
             /\ \A j \in DOMAIN d.inode : /\ d2.inode[j].kind = d.inode[j].kind
                                          /\ j # i => d2.inode[j] = d.inode[j]
<1>. DEFINE row == [d.inode[i] EXCEPT !.nlink = 2]
            d2 == [d EXCEPT !.inode[i].nlink = 2]
<1>1. d2 = [inode |-> [d.inode EXCEPT ![i] = row], dentry |-> d.dentry, data |-> d.data, next |-> d.next]
  BY DEF Tables, IsDb
<1>2. i \in DOMAIN d.inode => row \in InodeRow /\ row.kind = d.inode[i].kind
  BY DEF Tables, InodeRow
<1>. HIDE DEF d2, row
<1>3. d2.next = d.next /\ d2.dentry = d.dentry /\ d2.data = d.data /\ IsDb(d2)
      /\ d2.inode = [d.inode EXCEPT ![i] = row]
  BY <1>1 DEF IsDb
<1>4. DOMAIN d2.inode = DOMAIN d.inode /\ (i \in DOMAIN d.inode => d2.inode[i] = row)
      /\ \A j \in DOMAIN d.inode : j # i => d2.inode[j] = d.inode[j]
  BY <1>3
<1>5. Tables(d2)
  BY <1>2, <1>3, <1>4 DEF Tables
<1>. QED BY <1>2, <1>3, <1>4, <1>5 DEF d2

\* A size changes.
LEMMA SetSizeEffect ==
  ASSUME NEW d, Tables(d), NEW i, NEW n \in Nat
  PROVE  LET d2 == SetSize(d, i, n)
         IN  /\ Tables(d2)
             /\ d2.next = d.next /\ d2.dentry = d.dentry /\ d2.data = d.data
             /\ DOMAIN d2.inode = DOMAIN d.inode
             /\ \A j \in DOMAIN d.inode : /\ d2.inode[j].kind = d.inode[j].kind
                                          /\ d2.inode[j].nlink = d.inode[j].nlink
                                          /\ d2.inode[j].size = IF j = i THEN n ELSE d.inode[j].size
<1>. DEFINE d2 == SetSize(d, i, n)
<1>1. CASE i \in DOMAIN d.inode
  <2>. DEFINE row == [d.inode[i] EXCEPT !.size = n]
  <2>1. d2 = [inode |-> [d.inode EXCEPT ![i] = row], dentry |-> d.dentry, data |-> d.data, next |-> d.next]
    BY <1>1 DEF Tables, IsDb, SetSize
  <2>2. d.inode[i] \in InodeRow
    BY <1>1 DEF Tables, InodeRow
  <2>3. row \in InodeRow /\ row.kind = d.inode[i].kind /\ row.nlink = d.inode[i].nlink
        /\ row.size = n
    BY <2>2 DEF InodeRow
  <2>. HIDE DEF d2, row
  <2>4. d2.next = d.next /\ d2.dentry = d.dentry /\ d2.data = d.data /\ IsDb(d2)
        /\ d2.inode = [d.inode EXCEPT ![i] = row]
    BY <2>1 DEF IsDb
  <2>5. DOMAIN d2.inode = DOMAIN d.inode /\ d2.inode[i] = row
        /\ \A j \in DOMAIN d.inode : j # i => d2.inode[j] = d.inode[j]
    BY <1>1, <2>4
  <2>6. Tables(d2)
    BY <2>3, <2>4, <2>5 DEF Tables
  <2>. QED BY <2>3, <2>4, <2>5, <2>6 DEF d2
<1>2. CASE i \notin DOMAIN d.inode
  BY <1>2 DEF SetSize
<1>. QED BY <1>1, <1>2

\* Rows change.
LEMMA SetRowsEffect ==
  ASSUME NEW d, Tables(d), NEW i \in 2..(d.next - 1), NEW rows
  PROVE  LET d2 == SetRows(d, i, rows)
         IN  /\ Tables(d2)
             /\ d2.next = d.next /\ d2.dentry = d.dentry /\ d2.inode = d.inode
             /\ DOMAIN d2.data = DOMAIN d.data \union {i} /\ d2.data[i] = rows
             /\ \A j \in DOMAIN d.data : j # i => d2.data[j] = d.data[j]
<1>. DEFINE d2 == SetRows(d, i, rows)
<1>1. d2 = [inode |-> d.inode, dentry |-> d.dentry, data |-> Put(d.data, i, rows), next |-> d.next]
  BY DEF Tables, IsDb, SetRows
<1>. HIDE DEF d2
<1>2. /\ DOMAIN d2.data = DOMAIN d.data \union {i} /\ d2.data[i] = rows
      /\ \A x \in DOMAIN d.data : x # i => d2.data[x] = d.data[x]
  <2>1. d2.data = Put(d.data, i, rows)
    BY <1>1
  <2>. QED BY <2>1 DEF Put
<1>3. d2.next = d.next /\ d2.inode = d.inode /\ d2.dentry = d.dentry /\ IsDb(d2)
  BY <1>1 DEF IsDb
<1>4. Tables(d2)
  BY <1>2, <1>3 DEF Tables
<1>. QED BY <1>2, <1>3, <1>4 DEF d2

\* Rows go.
LEMMA DeleteDataEffect ==
  ASSUME NEW d, Tables(d), NEW i
  PROVE  LET d2 == DeleteData(d, i)
         IN  /\ Tables(d2)
             /\ d2.next = d.next /\ d2.dentry = d.dentry /\ d2.inode = d.inode
             /\ DOMAIN d2.data = DOMAIN d.data \ {i}
             /\ \A j \in DOMAIN d.data \ {i} : d2.data[j] = d.data[j]
<1>. DEFINE d2 == DeleteData(d, i)
<1>1. d2 = [inode |-> d.inode, dentry |-> d.dentry, data |-> Without(d.data, i), next |-> d.next]
  BY DEF Tables, IsDb, DeleteData
<1>. HIDE DEF d2
<1>2. /\ DOMAIN d2.data = DOMAIN d.data \ {i}
      /\ \A x \in DOMAIN d.data \ {i} : d2.data[x] = d.data[x]
  <2>1. d2.data = Without(d.data, i)
    BY <1>1
  <2>. QED BY <2>1 DEF Without
<1>3. d2.next = d.next /\ d2.inode = d.inode /\ d2.dentry = d.dentry /\ IsDb(d2)
  BY <1>1 DEF IsDb
<1>4. Tables(d2)
  BY <1>2, <1>3 DEF Tables
<1>. QED BY <1>2, <1>3, <1>4 DEF d2

\* An inode goes.
LEMMA DeleteInodeEffect ==
  ASSUME NEW d, Tables(d), NEW i
  PROVE  LET d2 == DeleteInode(d, i)
         IN  /\ Tables(d2)
             /\ d2.next = d.next /\ d2.dentry = d.dentry /\ d2.data = d.data
             /\ DOMAIN d2.inode = DOMAIN d.inode \ {i}
             /\ \A j \in DOMAIN d.inode \ {i} : d2.inode[j] = d.inode[j]
<1>. DEFINE d2 == DeleteInode(d, i)
<1>1. d2 = [inode |-> Without(d.inode, i), dentry |-> d.dentry, data |-> d.data, next |-> d.next]
  BY DEF Tables, IsDb, DeleteInode
<1>. HIDE DEF d2
<1>2. /\ DOMAIN d2.inode = DOMAIN d.inode \ {i}
      /\ \A x \in DOMAIN d.inode \ {i} : d2.inode[x] = d.inode[x]
  <2>1. d2.inode = Without(d.inode, i)
    BY <1>1
  <2>. QED BY <2>1 DEF Without
<1>3. d2.next = d.next /\ d2.data = d.data /\ d2.dentry = d.dentry /\ IsDb(d2)
  BY <1>1 DEF IsDb
<1>4. Tables(d2)
  BY <1>2, <1>3 DEF Tables
<1>. QED BY <1>2, <1>3, <1>4 DEF d2

-----------------------------------------------------------------------------
(* Paths.                                                                  *)

\* What a name stands for, to the SDK program.
Look(c, d, e) == IF e \in DOMAIN c THEN c[e] ELSE IF e \in DOMAIN d.dentry THEN d.dentry[e] ELSE None

\* A walk starts at the root and looks up one name after the other.
LEMMA WalkIs ==
  ASSUME NEW d, NEW path \in Seq(Names)
  PROVE  /\ DOMAIN Walk(d, path) = 0..Len(path)
         /\ Walk(d, path)[0] = Root
         /\ \A k \in 1..Len(path) : Walk(d, path)[k] = Look(cache, d, <<Walk(d, path)[k - 1], path[k]>>)
<1>. DEFINE W[k \in 0..Len(path)] ==
              IF k = 0 THEN Root
              ELSE LET e == <<W[k - 1], path[k]>>
                   IN  IF e \in DOMAIN cache THEN cache[e]
                       ELSE IF e \in DOMAIN d.dentry THEN d.dentry[e] ELSE None
            N == Len(path)
            Ask(x, k) == LET e == <<x, path[k]>>
                         IN  IF e \in DOMAIN cache THEN cache[e]
                             ELSE IF e \in DOMAIN d.dentry THEN d.dentry[e] ELSE None
            G(g, n) == g = [k \in 0..n |-> IF k = 0 THEN Root ELSE Ask(g[k - 1], k)]
            none == {n \in Nat : ~\E g : G(g, n)}
<1>1. N \in Nat
  OBVIOUS
<1>2. Walk(d, path) = CHOOSE g : G(g, N)
  BY DEF Walk
<1>3. \A x, k : Ask(x, k) = Look(cache, d, <<x, path[k]>>)
  BY DEF Look
<1>. HIDE DEF W, N, Ask
<1>4. ASSUME none # {} PROVE FALSE
  <2>1. PICK n \in none : \A m \in none : n <= m
    <3>1. none \subseteq Nat
      OBVIOUS
    <3>. HIDE DEF none
    <3>. QED BY <1>4, <3>1, LeastNat
  <2>2. CASE n = 0
    <3>1. G([k \in 0..0 |-> Root], 0)
      OBVIOUS
    <3>. QED BY <2>1, <2>2, <3>1
  <2>3. CASE n # 0
    <3>1. n - 1 \in Nat /\ ~(n <= n - 1)
      BY <2>1, <2>3
    <3>2. n - 1 \notin none
      BY <2>1, <3>1
    <3>3. PICK g : G(g, n - 1)
      BY <3>1, <3>2
    <3>. DEFINE h == [k \in 0..n |-> IF k = n THEN Ask(g[n - 1], n) ELSE g[k]]
    <3>4. G(h, n)
      BY <2>3, <3>1, <3>3
    <3>. QED BY <2>1, <3>4
  <2>. QED BY <2>2, <2>3
<1>5. PICK g : G(g, N)
  BY <1>1, <1>4
<1>6. G(CHOOSE h : G(h, N), N)
  BY <1>5, Zenon
<1>7. G(Walk(d, path), N)
  BY <1>2, <1>6
<1>8. DOMAIN Walk(d, path) = 0..N /\ Walk(d, path)[0] = Root
      /\ \A k \in 1..N : Walk(d, path)[k] = Ask(Walk(d, path)[k - 1], k)
  BY <1>1, <1>7
<1>. QED BY <1>3, <1>8 DEF N

\* The walk of the parent's path is the walk of the path, without its last step.
LEMMA ParentWalk ==
  ASSUME NEW d, NEW path \in Seq(Names), path # <<>>
  PROVE  /\ Parent(path) \in Seq(Names) /\ Len(Parent(path)) = Len(path) - 1 /\ Len(path) \in Nat \ {0}
         /\ resolve_path(d, Parent(path)) = Walk(d, path)[Len(path) - 1]
<1>. DEFINE N == Len(path)
            V == Walk(d, Parent(path))
            W == Walk(d, path)
            bad == {k \in 0..(N - 1) : V[k] # W[k]}
<1>1. N \in Nat \ {0} /\ Parent(path) \in Seq(Names) /\ Len(Parent(path)) = N - 1
      /\ \A k \in 1..(N - 1) : Parent(path)[k] = path[k]
  <2>1. N \in Nat /\ N # 0
    OBVIOUS
  <2>. DEFINE m == N - 1
  <2>2. m \in Int /\ m >= 0 /\ 1 \in Int /\ \A k \in 1..m : path[k] \in Names
    BY <2>1
  <2>3. /\ Parent(path) \in Seq(Names) /\ Len(Parent(path)) = N - 1
        /\ \A k \in 1..(N - 1) : Parent(path)[k] = path[k]
    <3>. HIDE DEF m
    <3>1. /\ SubSeq(path, 1, m) \in Seq(Names) /\ Len(SubSeq(path, 1, m)) = IF 1 <= m THEN m - 1 + 1 ELSE 0
          /\ \A k \in 1..(m - 1 + 1) : SubSeq(path, 1, m)[k] = path[1 + k - 1]
      BY <2>2, SubSeqProperties
    <3>2. /\ SubSeq(path, 1, m) \in Seq(Names) /\ Len(SubSeq(path, 1, m)) = m
          /\ \A k \in 1..m : SubSeq(path, 1, m)[k] = path[k]
      BY <2>2, <3>1
    <3>. QED BY <3>2 DEF Parent, m
  <2>. QED BY <2>1, <2>3
<1>2. V[0] = Root /\ \A k \in 1..(N - 1) : V[k] = Look(cache, d, <<V[k - 1], path[k]>>)
  BY <1>1, WalkIs
<1>3. W[0] = Root /\ \A k \in 1..N : W[k] = Look(cache, d, <<W[k - 1], path[k]>>)
  BY <1>1, WalkIs
<1>. HIDE DEF N, V, W
<1>4. ASSUME bad # {} PROVE FALSE
  <2>1. PICK k \in bad : \A j \in bad : k <= j
    <3>1. bad \subseteq Nat
      BY <1>1
    <3>. HIDE DEF bad
    <3>. QED BY <1>4, <3>1, LeastNat
  <2>2. k # 0 /\ k \in 1..(N - 1) /\ k - 1 \in 0..(N - 1) /\ ~(k <= k - 1)
    BY <1>1, <1>2, <1>3, <2>1
  <2>3. V[k - 1] = W[k - 1]
    BY <2>1, <2>2
  <2>4. V[k] = Look(cache, d, <<V[k - 1], path[k]>>) /\ W[k] = Look(cache, d, <<W[k - 1], path[k]>>)
    <3>1. k \in 1..N
      BY <1>1, <2>2
    <3>. QED BY <1>2, <1>3, <2>2, <3>1
  <2>5. V[k] = W[k]
    BY <2>3, <2>4, Zenon
  <2>. QED BY <2>1, <2>5
<1>5. V[N - 1] = W[N - 1]
  BY <1>1, <1>4
<1>. QED BY <1>1, <1>5 DEF resolve_path, N, V, W

\* A walk uses what it looks up.
LEMMA UsedIs ==
  ASSUME NEW d, NEW path \in Seq(Names)
  PROVE  /\ \A e \in DOMAIN Used(d, path) : /\ Used(d, path)[e] = Look(cache, d, e)
                                            /\ Look(cache, d, e) # None
         /\ \A k \in 1..Len(path) : Walk(d, path)[k] # None =>
                <<Walk(d, path)[k - 1], path[k]>> \in DOMAIN Used(d, path)
<1>. DEFINE W == Walk(d, path)
            S == {<<W[k - 1], path[k]>> : k \in {j \in 1..Len(path) : W[j] # None}}
            at(e) == CHOOSE j \in 1..Len(path) : e = <<W[j - 1], path[j]>> /\ W[j] # None
<1>1. Used(d, path) = [e \in S |-> W[at(e)]]
  BY DEF Used
<1>2. \A k \in 1..Len(path) : W[k] = Look(cache, d, <<W[k - 1], path[k]>>)
  BY WalkIs
<1>. HIDE DEF W
<1>3. ASSUME NEW e \in S
      PROVE  W[at(e)] = Look(cache, d, e) /\ Look(cache, d, e) # None
  <2>1. PICK k \in 1..Len(path) : W[k] # None /\ e = <<W[k - 1], path[k]>>
    BY <1>3
  <2>2. at(e) \in 1..Len(path) /\ e = <<W[at(e) - 1], path[at(e)]>> /\ W[at(e)] # None
    BY <2>1
  <2>. HIDE DEF at
  <2>. QED BY <1>2, <2>2
<1>4. DOMAIN Used(d, path) = S
  BY <1>1
<1>5. \A e \in S : Used(d, path)[e] = W[at(e)]
  BY <1>1
<1>6. \A k \in 1..Len(path) : W[k] # None => <<W[k - 1], path[k]>> \in S
  OBVIOUS
<1>. HIDE DEF S, at
<1>. QED BY <1>3, <1>4, <1>5, <1>6 DEF W

\* The cache after a walk knows what it knew and what the walk looked up.
LEMMA FilledIs ==
  ASSUME NEW d, NEW path \in Seq(Names), NEW c, c = Filled(d, path)
  PROVE  \A e \in DOMAIN c : e \in DOMAIN cache \union DOMAIN d.dentry /\ c[e] = Look(cache, d, e)
<1>. DEFINE U == Used(d, path)
<1>1. \A e \in DOMAIN U : U[e] = Look(cache, d, e) /\ Look(cache, d, e) # None
  BY UsedIs
<1>2. c = [e \in DOMAIN cache \union DOMAIN U |-> IF e \in DOMAIN cache THEN cache[e] ELSE U[e]]
  BY DEF Filled
<1>. HIDE DEF U
<1>3. SUFFICES ASSUME NEW e \in DOMAIN c
               PROVE  e \in DOMAIN cache \union DOMAIN d.dentry /\ c[e] = Look(cache, d, e)
  OBVIOUS
<1>4. e \in DOMAIN cache \union DOMAIN U /\ c[e] = IF e \in DOMAIN cache THEN cache[e] ELSE U[e]
  BY <1>2
<1>. QED BY <1>1, <1>4 DEF Look

\* The cache after a walk holds entries and inodes that exist or existed.
LEMMA FilledType ==
  ASSUME NEW d, Tables(d), CacheOK(cache, d.next), NEW path \in Seq(Names)
  PROVE  CacheOK(Filled(d, path), d.next)
<1>. DEFINE c == Filled(d, path)
<1>1. \A e \in DOMAIN c : e \in DOMAIN cache \union DOMAIN d.dentry /\ c[e] = Look(cache, d, e)
  BY FilledIs
<1>. HIDE DEF c
<1>2. CacheOK(c, d.next)
  BY <1>1 DEF CacheOK, Look, Tables
<1>. QED BY <1>2 DEF c

\* Where a path leads: to what its last name, in its parent, stands for; and if the walk
\* found nothing out of date, that is what the directory says too.
LEMMA Resolved ==
  ASSUME NEW d, Tables(d), NEW n \in Nat, n <= d.next, CacheOK(cache, n), NEW path \in Seq(Names), path # <<>>
  PROVE  LET i == resolve_path(d, path)
             p == resolve_path(d, Parent(path))
             e == <<p, path[Len(path)]>>
         IN  /\ p # None => p \in 1..(d.next - 1) /\ e \in Slot(d.next)
             /\ i = Look(cache, d, e)
             /\ i # None => i \in 2..(d.next - 1) /\ p # None
             /\ i # None /\ ~Outdated(d, path) => Points(d, e, i)
             /\ i = None => e \notin DOMAIN d.dentry
<1>. DEFINE i == resolve_path(d, path)
            p == resolve_path(d, Parent(path))
            last == path[Len(path)]
            e == <<p, last>>
            N == Len(path)
            W == Walk(d, path)
<1>1. N \in Nat \ {0} /\ p = W[N - 1] /\ i = W[N] /\ last \in Names
  BY ParentWalk DEF resolve_path
<1>2. W[0] = Root /\ \A k \in 1..N : W[k] = Look(cache, d, <<W[k - 1], path[k]>>)
  BY WalkIs
<1>3. \A x : Look(cache, d, x) # None =>
        x \in Slot(d.next) /\ Look(cache, d, x) \in 2..(d.next - 1)
  BY DEF Look, CacheOK, Tables, Slot
<1>4. i = Look(cache, d, e)
  BY <1>1, <1>2
<1>5. p # None => p \in 1..(d.next - 1)
  <2>1. CASE N = 1
    BY <1>1, <1>2, <2>1 DEF Root, Tables
  <2>2. CASE N # 1
    <3>1. p = Look(cache, d, <<W[N - 1 - 1], path[N - 1]>>)
      <4>0. N \in Nat \ {0}
        BY <1>1
      <4>. HIDE DEF N, W, p
      <4>1. N - 1 \in 1..N
        BY <4>0, <2>2
      <4>. QED BY <1>1, <1>2, <4>1
    <3>2. p # None => p \in 2..(d.next - 1)
      BY <1>3, <3>1
    <3>. QED BY <3>2
  <2>. QED BY <2>1, <2>2
<1>6. i # None /\ ~Outdated(d, path) => Points(d, e, i)
  <2>1. i # None => e \in DOMAIN Used(d, path) /\ Used(d, path)[e] = i
    <3>1. N \in 1..N
      BY <1>1
    <3>2. W[N] # None => <<W[N - 1], path[N]>> \in DOMAIN Used(d, path)
      BY <3>1, UsedIs
    <3>3. i # None => e \in DOMAIN Used(d, path)
      BY <1>1, <3>2, Zenon
    <3>4. e \in DOMAIN Used(d, path) => Used(d, path)[e] = Look(cache, d, e)
      BY UsedIs
    <3>. QED BY <1>4, <3>3, <3>4, Zenon
  <2>. QED BY <2>1 DEF Outdated
<1>7. p # None => e \in Slot(d.next)
  BY <1>1, <1>5 DEF Slot
<1>8. i # None => i \in 2..(d.next - 1) /\ p # None
  <2>1. i # None => i \in 2..(d.next - 1) /\ e \in Slot(d.next)
    BY <1>3, <1>4
  <2>2. e \in Slot(d.next) => p \in 1..(d.next - 1)
    BY DEF Slot
  <2>. QED BY <2>1, <2>2 DEF None
<1>9. i = None => e \notin DOMAIN d.dentry
  <2>1. i = None /\ e \in DOMAIN d.dentry => Look(cache, d, e) \in 2..(d.next - 1)
    BY DEF Look, CacheOK, Tables
  <2>. QED BY <1>4, <2>1 DEF None
<1>. QED BY <1>4, <1>5, <1>6, <1>7, <1>8, <1>9

-----------------------------------------------------------------------------
(* Names and links.                                                        *)

\* NamesOf and Children depend on the directory entries only.
LEMMA SameEntries ==
  ASSUME NEW d, NEW d2, d2.dentry = d.dentry
  PROVE  \A i : NamesOf(d2, i) = NamesOf(d, i) /\ Children(d2, i) = Children(d, i)
BY DEF NamesOf, Children

\* An inode has finitely many names, and none exactly when their number is zero.
LEMMA NamesFinite ==
  ASSUME NEW d, Tables(d), NEW i
  PROVE  /\ IsFiniteSet(NamesOf(d, i)) /\ Cardinality(NamesOf(d, i)) \in Nat
         /\ Cardinality(NamesOf(d, i)) = 0 <=> NamesOf(d, i) = {}
<1>1. NamesOf(d, i) \in SUBSET DOMAIN d.dentry /\ IsFiniteSet(DOMAIN d.dentry)
  BY DEF NamesOf, Tables
<1>2. IsFiniteSet(NamesOf(d, i))
  BY <1>1, FS_Subset
<1>. QED BY <1>2, FS_CardinalityType, FS_EmptySet

\* A new name is one name more for what it names.
Naming(d, d2, e, i) ==
    /\ e \notin DOMAIN d.dentry
    /\ DOMAIN d2.dentry = DOMAIN d.dentry \union {e} /\ d2.dentry[e] = i
    /\ \A x \in DOMAIN d.dentry : x # e => d2.dentry[x] = d.dentry[x]

\* The name counts once, for its inode and for its directory, and for no other.
LEMMA NameAdded ==
  ASSUME NEW d, Tables(d), NEW d2, NEW e, NEW i, Naming(d, d2, e, i)
  PROVE  /\ NamesOf(d2, i) = NamesOf(d, i) \union {e}
         /\ Cardinality(NamesOf(d2, i)) = Cardinality(NamesOf(d, i)) + 1
         /\ \A j : j # i => NamesOf(d2, j) = NamesOf(d, j)
         /\ \A j : Children(d2, j) = IF j = e[1] THEN Children(d, j) \union {e} ELSE Children(d, j)
<1>1. NamesOf(d2, i) = NamesOf(d, i) \union {e} /\ e \notin NamesOf(d, i)
  BY DEF NamesOf, Naming
<1>2. IsFiniteSet(NamesOf(d, i))
  BY NamesFinite
<1>3. Cardinality(NamesOf(d2, i)) = Cardinality(NamesOf(d, i)) + 1
  BY <1>1, <1>2, FS_AddElement
<1>4. \A j : j # i => NamesOf(d2, j) = NamesOf(d, j)
  BY DEF NamesOf, Naming
<1>5. \A j : Children(d2, j) = IF j = e[1] THEN Children(d, j) \union {e} ELSE Children(d, j)
  BY DEF Children, Naming
<1>. QED BY <1>1, <1>3, <1>4, <1>5

\* A name that goes is one name less.
Unnaming(d, d2, e) ==
    /\ e \in DOMAIN d.dentry /\ DOMAIN d2.dentry = DOMAIN d.dentry \ {e}
    /\ \A x \in DOMAIN d.dentry \ {e} : d2.dentry[x] = d.dentry[x]

\* The inode it named loses it, and no other inode does.
LEMMA NameDropped ==
  ASSUME NEW d, Tables(d), NEW d2, NEW e, Unnaming(d, d2, e)
  PROVE  /\ NamesOf(d2, d.dentry[e]) = NamesOf(d, d.dentry[e]) \ {e}
         /\ Cardinality(NamesOf(d2, d.dentry[e])) = Cardinality(NamesOf(d, d.dentry[e])) - 1
         /\ \A j : j # d.dentry[e] => NamesOf(d2, j) = NamesOf(d, j)
         /\ \A j : Children(d2, j) = Children(d, j) \ {e}
<1>. DEFINE i == d.dentry[e]
<1>1. NamesOf(d2, i) = NamesOf(d, i) \ {e} /\ e \in NamesOf(d, i)
  BY DEF NamesOf, Unnaming
<1>2. IsFiniteSet(NamesOf(d, i))
  BY NamesFinite
<1>3. Cardinality(NamesOf(d2, i)) = Cardinality(NamesOf(d, i)) - 1
  BY <1>1, <1>2, FS_RemoveElement
<1>4. \A j : j # i => NamesOf(d2, j) = NamesOf(d, j)
  BY DEF NamesOf, Unnaming
<1>5. \A j : Children(d2, j) = Children(d, j) \ {e}
  BY DEF Children, Unnaming
<1>. QED BY <1>1, <1>3, <1>4, <1>5

\* What an operation relies on survives when kinds stay and its inode gains no name.
LEMMA OpKept ==
  ASSUME NEW d, NEW d2, NEW n \in Nat, NEW o \in MountOps(n),
         \A j \in 1..(n - 1) : j \in DOMAIN d2.inode => j \in DOMAIN d.inode /\ d2.inode[j].kind = d.inode[j].kind,
         o # Idle => NamesOf(d2, o.i) \subseteq NamesOf(d, o.i),
         Making(o) => o.i \in DOMAIN d2.inode,
         OpOK(d, o)
  PROVE  OpOK(d2, o)
<1>1. \A j \in 1..(n - 1) : /\ IsDir(d2, j) => IsDir(d, j)
                            /\ j \in DOMAIN d2.inode => j \in DOMAIN d.inode /\ (IsDir(d2, j) <=> IsDir(d, j))
  BY DEF IsDir
<1>2. CASE o \in DropOps(n)
  <2>1. o.i \in 1..(n - 1) /\ o.e[1] \in 1..(n - 1) /\ o.do \in {"unlink", "rmdir", "remove"}
    BY <1>2 DEF DropOps, Slot
  <2>2. o # Idle => DropOK(d2, o)
    BY <1>1, <2>1 DEF OpOK, DropOK
  <2>. QED BY <2>1, <2>2 DEF OpOK
<1>3. CASE o \in AddOps(n)
  <2>1. o.i \in 1..(n - 1) /\ o.e[1] \in 1..(n - 1) /\ o.do \in {"mkdir", "mknod", "link"}
    BY <1>3 DEF AddOps, Slot
  <2>2. o # Idle => AddOK(d2, o)
    BY <1>1, <2>1 DEF OpOK, AddOK
  <2>. QED BY <2>1, <2>2 DEF OpOK
<1>4. CASE o \in MoveOps(n)
  <2>1. o.i \in 1..(n - 1) /\ o.do = "rename"
    BY <1>4 DEF MoveOps, Slot
  <2>2. o # Idle => MoveOK(d2, o)
    BY <1>1, <2>1 DEF OpOK, MoveOK
  <2>. QED BY <2>1, <2>2 DEF OpOK
<1>5. CASE o \in CutOps(n)
  BY <1>5 DEF CutOps, OpOK
<1>6. CASE o = Idle
  BY <1>6 DEF OpOK
<1>. QED BY <1>2, <1>3, <1>4, <1>5, <1>6 DEF MountOps

-----------------------------------------------------------------------------
(* Steps that leave every name, or only add names of new inodes.           *)

\* The same names, and the same links of files.
Alike(d, d2) ==
    /\ d2.next = d.next /\ d2.dentry = d.dentry /\ DOMAIN d2.inode = DOMAIN d.inode
    /\ \A j \in DOMAIN d.inode : /\ d2.inode[j].kind = d.inode[j].kind
                                 /\ ~IsDir(d, j) => d2.inode[j].nlink = d.inode[j].nlink

\* Tables that are alike have the same directories, names and files.
LEMMA AlikeNames ==
  ASSUME NEW d, NEW d2, Alike(d, d2)
  PROVE  /\ \A i : IsDir(d2, i) <=> IsDir(d, i)
         /\ \A i : NamesOf(d2, i) = NamesOf(d, i) /\ Children(d2, i) = Children(d, i)
         /\ Files(d2) = Files(d)
         /\ Intact(d) => Intact(d2)
<1>1. \A i : IsDir(d2, i) <=> IsDir(d, i)
  BY DEF Alike, IsDir
<1>2. \A i : NamesOf(d2, i) = NamesOf(d, i) /\ Children(d2, i) = Children(d, i)
  BY SameEntries DEF Alike
<1>3. Files(d2) = Files(d)
  BY <1>1 DEF Alike, Files
<1>4. Intact(d) => Intact(d2)
  BY <1>1, <1>2 DEF Alike, Intact
<1>. QED BY <1>1, <1>2, <1>3, <1>4

\* Alike is transitive.
LEMMA AlikeTrans ==
  ASSUME NEW d, NEW d2, NEW d3, Alike(d, d2), Alike(d2, d3)
  PROVE  Alike(d, d3)
<1>1. \A j : IsDir(d2, j) <=> IsDir(d, j)
  BY AlikeNames
<1>. QED BY <1>1 DEF Alike

\* A change of bytes, or of a directory's link count, leaves names and links as they were.
LEMMA WholeAlike ==
  ASSUME NEW d, NEW d2, Tables(d), Alike(d, d2), NEW o \in MountOps(d.next), NEW q \in MountOps(d.next)
  PROVE  /\ Whole(d, o, q) => Whole(d2, o, q)
         /\ Settled(d, o, q) => Settled(d2, o, q)
<1>1. /\ \A i : IsDir(d2, i) <=> IsDir(d, i)
      /\ \A i : NamesOf(d2, i) = NamesOf(d, i)
      /\ Files(d2) = Files(d)
      /\ Intact(d) => Intact(d2)
  BY AlikeNames
<1>2. d.next \in Nat
  BY DEF Tables
<1>3. \A i \in Files(d) : Due(d2, o, q, i) = Due(d, o, q, i)
  BY <1>1 DEF Alike, Due, Files
<1>4. \A x \in MountOps(d.next) : OpOK(d, x) => OpOK(d2, x)
  <2>1. \A j \in 1..(d.next - 1) : j \in DOMAIN d2.inode => j \in DOMAIN d.inode /\ d2.inode[j].kind = d.inode[j].kind
    BY DEF Alike
  <2>2. SUFFICES ASSUME NEW x \in MountOps(d.next), OpOK(d, x)
                 PROVE  OpOK(d2, x)
    OBVIOUS
  <2>3. Making(x) => x.i \in DOMAIN d2.inode
    BY <2>2 DEF OpOK, AddOK, Making, Alike
  <2>. QED BY <1>1, <1>2, <2>1, <2>2, <2>3, OpKept
<1>5. Whole(d, o, q) => Whole(d2, o, q)
  BY <1>1, <1>3, <1>4 DEF Whole
<1>6. Settled(d, o, q) => Settled(d2, o, q)
  BY <1>1, <1>3 DEF Settled
<1>. QED BY <1>5, <1>6

\* What was there is still there; the names added are of new inodes, and each new file has
\* one of them and counts it.
Extends(d0, d) ==
    /\ d0.next <= d.next
    /\ \A i \in 1..(d0.next - 1) : i \in DOMAIN d.inode <=> i \in DOMAIN d0.inode
    /\ \A i \in DOMAIN d0.inode : /\ d.inode[i].kind = d0.inode[i].kind
                                  /\ ~IsDir(d0, i) => d.inode[i].nlink = d0.inode[i].nlink
    /\ \A e \in DOMAIN d0.dentry : e \in DOMAIN d.dentry /\ d.dentry[e] = d0.dentry[e]
    /\ \A e \in DOMAIN d.dentry : e \in DOMAIN d0.dentry \/ d.dentry[e] \in d0.next..(d.next - 1)
    /\ \A i \in Files(d) : i >= d0.next => d.inode[i].nlink = 1 /\ \E e : NamesOf(d, i) = {e}

\* Nothing has been made yet.
LEMMA ExtendsSelf ==
  ASSUME NEW d, Tables(d)
  PROVE  Extends(d, d)
BY DEF Extends, Tables, Files

\* Bytes written to what was made do not matter.
LEMMA ExtendsAlike ==
  ASSUME NEW d0, NEW d, NEW d2, Tables(d0), Tables(d), Extends(d0, d), Alike(d, d2)
  PROVE  Extends(d0, d2)
<1>1. /\ \A i : IsDir(d2, i) <=> IsDir(d, i)
      /\ \A i : NamesOf(d2, i) = NamesOf(d, i)
      /\ Files(d2) = Files(d)
  BY AlikeNames
<1>2. \A i \in DOMAIN d0.inode : i \in DOMAIN d.inode /\ (IsDir(d, i) <=> IsDir(d0, i))
  BY DEF Extends, Tables, IsDir
<1>3. \A i \in DOMAIN d0.inode : /\ d2.inode[i].kind = d0.inode[i].kind
                                 /\ ~IsDir(d0, i) => d2.inode[i].nlink = d0.inode[i].nlink
  BY <1>2 DEF Extends, Alike
<1>4. \A i \in Files(d2) : i >= d0.next => d2.inode[i].nlink = 1 /\ \E e : NamesOf(d2, i) = {e}
  BY <1>1 DEF Extends, Alike, Files
<1>. QED BY <1>3, <1>4 DEF Extends, Alike

\* New files, each with its one link and its one name, keep names and links in order.
LEMMA WholeExtends ==
  ASSUME NEW d0, NEW d, Tables(d0), Tables(d), Extends(d0, d), Intact(d),
         NEW o \in MountOps(d0.next), NEW q \in MountOps(d0.next)
  PROVE  /\ Whole(d0, o, q) => Whole(d, o, q)
         /\ Settled(d0, o, q) => Settled(d, o, q)
<1>0. d0.next \in Nat
  BY DEF Tables
<1>1. \A i \in 1..(d0.next - 1) : NamesOf(d, i) = NamesOf(d0, i)
  BY <1>0 DEF Extends, NamesOf, Tables
<1>2. \A x \in MountOps(d0.next) : x # Idle => x.i \in 2..(d0.next - 1)
  BY DEF MountOps, AddOps, DropOps, MoveOps, CutOps
<1>3. \A i \in Files(d) : i < d0.next => i \in Files(d0) /\ Due(d, o, q, i) = Due(d0, o, q, i)
                                         /\ NamesOf(d, i) = NamesOf(d0, i)
  <2>1. SUFFICES ASSUME NEW i \in Files(d), i < d0.next
                 PROVE  i \in Files(d0) /\ Due(d, o, q, i) = Due(d0, o, q, i) /\ NamesOf(d, i) = NamesOf(d0, i)
    OBVIOUS
  <2>2. i \in 1..(d0.next - 1)
    BY <1>0, <2>1 DEF Files, Tables
  <2>3. i \in DOMAIN d0.inode /\ d.inode[i].kind = d0.inode[i].kind
    BY <2>2 DEF Files, Extends
  <2>4. i \in Files(d0) /\ d.inode[i].nlink = d0.inode[i].nlink
    BY <2>3 DEF Files, IsDir, Extends
  <2>. QED BY <1>1, <2>2, <2>4 DEF Due
<1>4. \A i \in Files(d) : ~(i < d0.next) => NamesOf(d, i) # {} /\ Due(d, o, q, i) = 0
  <2>1. SUFFICES ASSUME NEW i \in Files(d), ~(i < d0.next)
                 PROVE  NamesOf(d, i) # {} /\ Due(d, o, q, i) = 0
    OBVIOUS
  <2>2. i \in Nat /\ i >= d0.next
    BY <1>0, <2>1 DEF Files, Tables
  <2>3. PICK e : NamesOf(d, i) = {e} /\ d.inode[i].nlink = 1
    BY <2>2 DEF Extends
  <2>4. Cardinality(NamesOf(d, i)) = 1
    BY <2>3, FS_Singleton
  <2>5. Adds(o, i) = 0 /\ Adds(q, i) = 0 /\ Drops(o, i) = 0 /\ Drops(q, i) = 0
    BY <1>0, <1>2, <2>2 DEF Adds, Drops
  <2>. QED BY <2>3, <2>4, <2>5 DEF Due
<1>5. \A x \in MountOps(d0.next) : OpOK(d0, x) => OpOK(d, x)
  <2>1. \A j \in 1..(d0.next - 1) : j \in DOMAIN d.inode => j \in DOMAIN d0.inode /\ d.inode[j].kind = d0.inode[j].kind
    BY DEF Extends
  <2>2. SUFFICES ASSUME NEW x \in MountOps(d0.next), OpOK(d0, x)
                 PROVE  OpOK(d, x)
    OBVIOUS
  <2>3. Making(x) => x.i \in DOMAIN d.inode
    BY <1>2, <2>2 DEF OpOK, AddOK, Making, Extends, Tables
  <2>4. x # Idle => NamesOf(d, x.i) \subseteq NamesOf(d0, x.i)
    BY <1>1, <1>2
  <2>. QED BY <1>0, <2>1, <2>2, <2>3, <2>4, OpKept
<1>6. Whole(d0, o, q) => Whole(d, o, q)
  BY <1>3, <1>4, <1>5 DEF Whole
<1>7. Settled(d0, o, q) => Settled(d, o, q)
  BY <1>3, <1>4 DEF Settled
<1>. QED BY <1>6, <1>7

\* A new inode and its name, in one transaction.
Created(d, kind, nlink, size, e) == InsertDentry(InsertInode(d, kind, nlink, size), e, d.next)

\* What it does to the tables.
LEMMA CreateEffect ==
  ASSUME NEW d, Tables(d), NEW kind \in Kinds, NEW nlink \in Int, NEW size \in Nat, NEW e \in Slot(d.next)
  PROVE  LET d2 == Created(d, kind, nlink, size, e)
         IN  /\ Tables(d2)
             /\ d2.next = d.next + 1 /\ d2.data = d.data
             /\ DOMAIN d2.inode = DOMAIN d.inode \union {d.next}
             /\ d2.inode[d.next] = [kind |-> kind, nlink |-> nlink, size |-> size]
             /\ \A j \in DOMAIN d.inode : d2.inode[j] = d.inode[j]
             /\ DOMAIN d2.dentry = DOMAIN d.dentry \union {e} /\ d2.dentry[e] = d.next
             /\ \A x \in DOMAIN d.dentry : x # e => d2.dentry[x] = d.dentry[x]
<1>. DEFINE d1 == InsertInode(d, kind, nlink, size)
            d2 == InsertDentry(d1, e, d.next)
<1>1. /\ Tables(d1)
      /\ d1.next = d.next + 1 /\ d1.dentry = d.dentry /\ d1.data = d.data
      /\ DOMAIN d1.inode = DOMAIN d.inode \union {d.next}
      /\ d1.inode[d.next] = [kind |-> kind, nlink |-> nlink, size |-> size]
      /\ \A j \in DOMAIN d.inode : d1.inode[j] = d.inode[j]
  BY InsertInodeEffect
<1>. HIDE DEF d1
<1>2. d.next \in Nat \ {0, 1} /\ d.next \in 2..(d1.next - 1) /\ e \in Slot(d1.next)
  BY <1>1 DEF Tables, Slot
<1>3. /\ Tables(d2)
      /\ d2.next = d1.next /\ d2.inode = d1.inode /\ d2.data = d1.data
      /\ DOMAIN d2.dentry = DOMAIN d1.dentry \union {e} /\ d2.dentry[e] = d.next
      /\ \A x \in DOMAIN d1.dentry : x # e => d2.dentry[x] = d1.dentry[x]
  <2>. DEFINE i == d.next
  <2>. HIDE DEF i
  <2>1. Tables(d1) /\ i \in 2..(d1.next - 1) /\ e \in Slot(d1.next)
    BY <1>1, <1>2 DEF i
  <2>. DEFINE d3 == InsertDentry(d1, e, i)
  <2>2. /\ Tables(d3)
        /\ d3.next = d1.next /\ d3.inode = d1.inode /\ d3.data = d1.data
        /\ DOMAIN d3.dentry = DOMAIN d1.dentry \union {e} /\ d3.dentry[e] = i
        /\ \A x \in DOMAIN d1.dentry : x # e => d3.dentry[x] = d1.dentry[x]
    BY <2>1, InsertDentryEffect
  <2>3. d2 = d3
    BY DEF i
  <2>. HIDE DEF d2, d3
  <2>. QED BY <2>2, <2>3 DEF i
<1>. HIDE DEF d2
<1>4. Created(d, kind, nlink, size, e) = d2
  BY DEF Created, d2, d1
<1>. QED BY <1>1, <1>3, <1>4

\* A file or directory made in a directory that has a name.
LEMMA CreateIntact ==
  ASSUME NEW d, Tables(d), NEW kind \in Kinds, NEW nlink \in Int, NEW size \in Nat, NEW e \in Slot(d.next),
         e \notin DOMAIN d.dentry, Present(d, e[1]), Intact(d)
  PROVE  Intact(Created(d, kind, nlink, size, e))
<1>. DEFINE d2 == Created(d, kind, nlink, size, e)
<1>1. /\ d2.next = d.next + 1
      /\ DOMAIN d2.inode = DOMAIN d.inode \union {d.next}
      /\ d2.inode[d.next] = [kind |-> kind, nlink |-> nlink, size |-> size]
      /\ \A j \in DOMAIN d.inode : d2.inode[j] = d.inode[j]
      /\ DOMAIN d2.dentry = DOMAIN d.dentry \union {e} /\ d2.dentry[e] = d.next
      /\ \A x \in DOMAIN d.dentry : x # e => d2.dentry[x] = d.dentry[x]
  BY CreateEffect
<1>. HIDE DEF d2
<1>2. \A j : IsDir(d, j) => IsDir(d2, j)
  BY <1>1 DEF IsDir
<1>3. \A j \in DOMAIN d.inode : IsDir(d2, j) <=> IsDir(d, j)
  BY <1>1 DEF IsDir
<1>4. /\ NamesOf(d2, d.next) = NamesOf(d, d.next) \union {e}
      /\ \A j : j # d.next => NamesOf(d2, j) = NamesOf(d, j)
      /\ \A j : Children(d2, j) = IF j = e[1] THEN Children(d, j) \union {e} ELSE Children(d, j)
  <2>1. Naming(d, d2, e, d.next)
    BY <1>1 DEF Naming
  <2>. QED BY <2>1, NameAdded
<1>5. NamesOf(d, d.next) = {} /\ d.next \notin DOMAIN d.inode
  BY DEF NamesOf, Tables
<1>6. IsDir(d, e[1]) /\ (e[1] # Root => NamesOf(d, e[1]) # {})
  BY DEF Present, Intact
<1>7. IsDir(d2, Root)
  BY <1>2 DEF Intact
<1>8. \A x \in DOMAIN d2.dentry : d2.dentry[x] \in DOMAIN d2.inode /\ IsDir(d2, x[1])
  BY <1>1, <1>2, <1>6 DEF Intact
<1>9. ASSUME NEW j \in DOMAIN d2.inode, j # Root, IsDir(d2, j)
      PROVE  /\ \A x, y \in NamesOf(d2, j) : x = y
             /\ NamesOf(d2, j) = {} => Children(d2, j) = {}
  <2>1. CASE j = d.next
    BY <1>4, <1>5, <2>1
  <2>2. CASE j # d.next
    <3>1. j \in DOMAIN d.inode /\ IsDir(d, j) /\ NamesOf(d2, j) = NamesOf(d, j)
      BY <1>1, <1>3, <1>4, <1>9, <2>2
    <3>2. NamesOf(d2, j) = {} => Children(d2, j) = {}
      BY <1>4, <1>6, <1>9, <3>1 DEF Intact
    <3>3. \A x, y \in NamesOf(d2, j) : x = y
      BY <1>9, <3>1 DEF Intact
    <3>. QED BY <3>2, <3>3
  <2>. QED BY <2>1, <2>2
<1>10. Intact(d2)
  BY <1>7, <1>8, <1>9 DEF Intact
<1>. QED BY <1>10 DEF d2

\* One more file or directory, with its name.
LEMMA CreateExtends ==
  ASSUME NEW d0, Tables(d0), NEW d, Tables(d), Extends(d0, d),
         NEW kind \in Kinds, NEW nlink \in Int, NEW size \in Nat, NEW e \in Slot(d.next),
         e \notin DOMAIN d.dentry, kind # "dir" => nlink = 1
  PROVE  Extends(d0, Created(d, kind, nlink, size, e))
<1>. DEFINE d2 == Created(d, kind, nlink, size, e)
<1>1. /\ d2.next = d.next + 1
      /\ DOMAIN d2.inode = DOMAIN d.inode \union {d.next}
      /\ d2.inode[d.next] = [kind |-> kind, nlink |-> nlink, size |-> size]
      /\ \A j \in DOMAIN d.inode : d2.inode[j] = d.inode[j]
      /\ DOMAIN d2.dentry = DOMAIN d.dentry \union {e} /\ d2.dentry[e] = d.next
      /\ \A x \in DOMAIN d.dentry : x # e => d2.dentry[x] = d.dentry[x]
  BY CreateEffect
<1>. HIDE DEF d2
<1>2. d.next \in Nat /\ d0.next \in Nat /\ d0.next <= d.next
  BY DEF Tables, Extends
<1>3. \A i \in 1..(d0.next - 1) : i \in DOMAIN d2.inode <=> i \in DOMAIN d0.inode
  BY <1>1, <1>2 DEF Extends
<1>4. \A i \in DOMAIN d0.inode : d2.inode[i] = d.inode[i]
  <2>1. \A i \in DOMAIN d0.inode : i \in DOMAIN d.inode
    BY DEF Extends, Tables
  <2>. QED BY <1>1, <2>1
<1>5. \A x \in DOMAIN d0.dentry : x \in DOMAIN d2.dentry /\ d2.dentry[x] = d0.dentry[x]
  BY <1>1 DEF Extends
<1>6. \A x \in DOMAIN d2.dentry : x \in DOMAIN d0.dentry \/ d2.dentry[x] \in d0.next..(d2.next - 1)
  <2>1. SUFFICES ASSUME NEW x \in DOMAIN d2.dentry, x \notin DOMAIN d0.dentry
                 PROVE  d2.dentry[x] \in d0.next..(d2.next - 1)
    OBVIOUS
  <2>2. CASE x = e
    BY <1>1, <1>2, <2>2
  <2>3. CASE x # e
    <3>1. d2.dentry[x] = d.dentry[x] /\ d.dentry[x] \in d0.next..(d.next - 1)
      BY <1>1, <2>1, <2>3 DEF Extends
    <3>. QED BY <1>1, <1>2, <3>1
  <2>. QED BY <2>2, <2>3
<1>7. \A i \in Files(d2) : i >= d0.next => d2.inode[i].nlink = 1 /\ \E x : NamesOf(d2, i) = {x}
  <2>1. /\ NamesOf(d2, d.next) = NamesOf(d, d.next) \union {e}
        /\ \A j : j # d.next => NamesOf(d2, j) = NamesOf(d, j)
    <3>1. /\ DOMAIN d2.dentry = DOMAIN d.dentry \union {e} /\ d2.dentry[e] = d.next
          /\ \A x \in DOMAIN d.dentry : x # e => d2.dentry[x] = d.dentry[x]
      BY <1>1
    <3>2. Naming(d, d2, e, d.next)
      BY <3>1 DEF Naming
    <3>. QED BY <3>2, NameAdded
  <2>2. NamesOf(d, d.next) = {}
    BY DEF NamesOf, Tables
  <2>3. NamesOf(d2, d.next) = {e}
    BY <2>1, <2>2
  <2>4. d.next \in Files(d2) => d2.inode[d.next].nlink = 1
    BY <1>1 DEF Files, IsDir
  <2>5. \A i \in Files(d2) : i # d.next => i \in Files(d) /\ d2.inode[i] = d.inode[i] /\ NamesOf(d2, i) = NamesOf(d, i)
    BY <1>1, <2>1 DEF Files, IsDir
  <2>6. \A i \in Files(d) : i >= d0.next => d.inode[i].nlink = 1 /\ \E x : NamesOf(d, i) = {x}
    BY DEF Extends
  <2>7. ASSUME NEW i \in Files(d2), i >= d0.next
        PROVE  d2.inode[i].nlink = 1 /\ \E x : NamesOf(d2, i) = {x}
    <3>1. CASE i = d.next
      BY <2>3, <2>4, <3>1, Zenon
    <3>2. CASE i # d.next
      <4>1. i \in Files(d) /\ d2.inode[i] = d.inode[i] /\ NamesOf(d2, i) = NamesOf(d, i)
        BY <2>5, <3>2
      <4>2. d.inode[i].nlink = 1 /\ \E x : NamesOf(d, i) = {x}
        BY <2>6, <2>7, <4>1
      <4>. QED BY <4>1, <4>2
    <3>. QED BY <3>1, <3>2
  <2>. QED BY <2>7
<1>8. d0.next <= d2.next
  BY <1>1, <1>2
<1>9. Extends(d0, d2)
  BY <1>3, <1>4, <1>5, <1>6, <1>7, <1>8 DEF Extends
<1>. QED BY <1>9 DEF d2

\* What a write or a truncation does to the tables: rows and a size.
LEMMA StoreEffect ==
  ASSUME NEW d, Tables(d), NEW i \in 2..(d.next - 1), NEW rows, NEW n \in Nat
  PROVE  LET d2 == SetSize(SetRows(d, i, rows), i, n) IN Tables(d2) /\ Alike(d, d2)
<1>. DEFINE d1 == SetRows(d, i, rows)
            d2 == SetSize(d1, i, n)
<1>1. Tables(d1) /\ d1.next = d.next /\ d1.dentry = d.dentry /\ d1.inode = d.inode
  BY SetRowsEffect
<1>. HIDE DEF d1
<1>2. /\ Tables(d2)
      /\ d2.next = d1.next /\ d2.dentry = d1.dentry
      /\ DOMAIN d2.inode = DOMAIN d1.inode
      /\ \A j \in DOMAIN d1.inode : d2.inode[j].kind = d1.inode[j].kind /\ d2.inode[j].nlink = d1.inode[j].nlink
  BY <1>1, SetSizeEffect
<1>. HIDE DEF d2
<1>3. Alike(d, d2)
  BY <1>1, <1>2 DEF Alike
<1>. QED BY <1>2, <1>3 DEF d2, d1

\* The bytes of a plan's file.
LEMMA FillFileEffect ==
  ASSUME NEW d, Tables(d), NEW i \in 2..(d.next - 1), NEW x, x.bytes \in Seq(Bytes)
  PROVE  Tables(FillFile(d, i, x)) /\ Alike(d, FillFile(d, i, x))
<1>1. CASE x.write
  <2>1. Len(x.bytes) \in Nat
    OBVIOUS
  <2>. QED BY <1>1, <2>1, StoreEffect DEF FillFile
<1>2. CASE ~x.write
  BY <1>2 DEF FillFile, Alike
<1>. QED BY <1>1, <1>2

-----------------------------------------------------------------------------
(* A plan.                                                                 *)

\* What the entries of a plan have made so far of the tables d0.
IsResult(r) == r = [ok |-> r.ok, stale |-> r.stale, db |-> r.db]
Progress(d0, r) ==
    /\ IsResult(r) /\ r.ok \in BOOLEAN /\ r.stale \in BOOLEAN
    /\ Tables(r.db) /\ d0.next <= r.db.next
    /\ Intact(d0) /\ ~r.stale => Intact(r.db) /\ Extends(d0, r.db)

\* One entry of a plan: made where its parent is a directory with a name.
LEMMA BulkEntryOK ==
  ASSUME NEW d0, Tables(d0), CacheOK(cache, d0.next), NEW r, Progress(d0, r), NEW x \in PlanEntries
  PROVE  Progress(d0, BulkEntry(r, x))
<1>. DEFINE d == r.db
            path == x.path
            p == resolve_path(d, Parent(path))
            i == resolve_path(d, path)
            e == <<p, path[Len(path)]>>
            fits == /\ IsDir(d, p)
                    /\ i # None => i \in DOMAIN d.inode /\ d.inode[i].kind = x.kind
            late == Outdated(d, path) \/ ~Present(d, p)
            d2 == IF i = None THEN create_bulk_entry(d, x, p) ELSE FillFile(d, i, x)
            r2 == [ok |-> TRUE, stale |-> r.stale \/ late, db |-> d2]
<1>1. BulkEntry(r, x) = IF ~r.ok \/ ~fits THEN [r EXCEPT !.ok = FALSE] ELSE r2
  BY DEF BulkEntry
<1>2. path \in Seq(Names) /\ path # <<>> /\ x.kind \in {"dir", "file"} /\ x.bytes \in Seq(Bytes)
  BY DEF PlanEntries
<1>3. /\ Tables(d) /\ d0.next \in Nat /\ d.next \in Nat /\ d0.next <= d.next
      /\ Intact(d0) /\ ~r.stale => Intact(d) /\ Extends(d0, d)
  BY DEF Progress, Tables
<1>4. /\ p # None => p \in 1..(d.next - 1) /\ e \in Slot(d.next)
      /\ i # None => i \in 2..(d.next - 1)
      /\ i = None => e \notin DOMAIN d.dentry
  <2>. HIDE DEF d, path
  <2>. QED BY <1>2, <1>3, Resolved
<1>5. CASE ~r.ok \/ ~fits
  <2>1. BulkEntry(r, x) = [r EXCEPT !.ok = FALSE]
    BY <1>1, <1>5
  <2>2. [r EXCEPT !.ok = FALSE] = [ok |-> FALSE, stale |-> r.stale, db |-> r.db]
    <3>. DEFINE a == r.ok
                b == r.stale
                c == r.db
                no == FALSE
    <3>0. IsResult(r)
      BY DEF Progress
    <3>1. r = [ok |-> a, stale |-> b, db |-> c]
      BY <3>0, Zenon DEF IsResult
    <3>. HIDE DEF a, b, c, no
    <3>2. [r EXCEPT !.ok = no] = [ok |-> no, stale |-> b, db |-> c]
      BY <3>1
    <3>. QED BY <3>2 DEF b, c, no
  <2>. DEFINE r3 == [ok |-> FALSE, stale |-> r.stale, db |-> r.db]
  <2>3. r3.ok = FALSE /\ r3.stale = r.stale /\ r3.db = r.db
        /\ IsResult(r3)
    <3>. HIDE DEF d
    <3>. QED BY DEF IsResult
  <2>4. Progress(d0, r3)
    <3>. HIDE DEF r3
    <3>. QED BY <2>3 DEF Progress
  <2>. QED BY <2>1, <2>2, <2>4
<1>6. CASE r.ok /\ fits
  <2>1. p # None /\ e \in Slot(d.next)
    <3>1. p \in DOMAIN d.inode
      BY <1>6 DEF IsDir
    <3>2. p \in 1..(d.next - 1)
      BY <1>3, <3>1 DEF Tables
    <3>. QED BY <1>4, <3>2 DEF None
  <2>2. Tables(d2) /\ d.next <= d2.next
        /\ (Extends(d0, d) => Extends(d0, d2))
        /\ (Intact(d) /\ ~late => Intact(d2))
    <3>1. CASE i # None
      <4>1. d2 = FillFile(d, i, x)
        BY <3>1
      <4>. HIDE DEF d, d2, i, p, e, path, late
      <4>2. Tables(d2) /\ Alike(d, d2)
        BY <1>2, <1>3, <1>4, <3>1, <4>1, FillFileEffect
      <4>3. d2.next = d.next
        BY <4>2 DEF Alike
      <4>. QED BY <1>3, <4>2, <4>3, AlikeNames, ExtendsAlike
    <3>2. CASE i = None
      <4>. DEFINE nl == IF x.kind = "dir" THEN 2 ELSE 1
                  made == Created(d, x.kind, nl, 0, e)
      <4>1. d2 = IF x.kind = "dir" THEN AddLinks(made, p, 1) ELSE FillFile(made, d.next, x)
        BY <3>2 DEF create_bulk_entry, Created
      <4>2. x.kind \in Kinds /\ nl \in Int /\ (x.kind # "dir" => nl = 1) /\ 0 \in Nat
        BY <1>2 DEF Kinds
      <4>3. e \notin DOMAIN d.dentry /\ e[1] = p /\ IsDir(d, p)
        BY <1>4, <1>6, <3>2
      <4>4. ~late => Present(d, p)
        OBVIOUS
      <4>. HIDE DEF d, d2, i, p, e, path, late, nl, made
      <4>5. /\ Tables(made) /\ made.next = d.next + 1
            /\ DOMAIN made.inode = DOMAIN d.inode \union {d.next}
            /\ \A j \in DOMAIN d.inode : made.inode[j] = d.inode[j]
        <5>1. /\ Tables(made)
              /\ made.next = d.next + 1 /\ made.data = d.data
              /\ DOMAIN made.inode = DOMAIN d.inode \union {d.next}
              /\ made.inode[d.next] = [kind |-> x.kind, nlink |-> nl, size |-> 0]
              /\ \A j \in DOMAIN d.inode : made.inode[j] = d.inode[j]
              /\ DOMAIN made.dentry = DOMAIN d.dentry \union {e} /\ made.dentry[e] = d.next
              /\ \A y \in DOMAIN d.dentry : y # e => made.dentry[y] = d.dentry[y]
          BY <1>3, <2>1, <4>2, CreateEffect DEF made
        <5>. QED BY <5>1
      <4>6. Extends(d0, d) => Extends(d0, made)
        BY <1>3, <2>1, <4>2, <4>3, CreateExtends DEF made
      <4>7. Intact(d) /\ ~late => Intact(made)
        BY <1>3, <2>1, <4>2, <4>3, <4>4, CreateIntact DEF made
      <4>8. Tables(d2) /\ Alike(made, d2)
        <5>1. CASE x.kind = "dir"
          <6>1. IsDir(made, p)
            BY <4>3, <4>5 DEF IsDir
          <6>2. d2 = AddLinks(made, p, 1) /\ 1 \in Int
            BY <4>1, <5>1
          <6>3. /\ Tables(d2)
                /\ d2.next = made.next /\ d2.dentry = made.dentry /\ d2.data = made.data
                /\ DOMAIN d2.inode = DOMAIN made.inode
                /\ \A j \in DOMAIN made.inode :
                     /\ d2.inode[j].kind = made.inode[j].kind
                     /\ d2.inode[j].size = made.inode[j].size
                     /\ d2.inode[j].nlink = made.inode[j].nlink + (IF j = p THEN 1 ELSE 0)
            BY <4>5, <6>2, AddLinksEffect
          <6>4. \A j \in DOMAIN made.inode : made.inode[j].nlink \in Int
            BY <4>5 DEF Tables, InodeRow
          <6>. QED BY <6>1, <6>3, <6>4 DEF Alike
        <5>2. CASE x.kind # "dir"
          <6>1. d2 = FillFile(made, d.next, x) /\ d.next \in 2..(made.next - 1)
            BY <1>3, <4>1, <4>5, <5>2 DEF Tables
          <6>. QED BY <1>2, <4>5, <6>1, FillFileEffect
        <5>. QED BY <5>1, <5>2
      <4>9. d2.next = made.next
        BY <4>8 DEF Alike
      <4>. QED BY <1>3, <4>5, <4>6, <4>7, <4>8, <4>9, AlikeNames, ExtendsAlike
    <3>. QED BY <3>1, <3>2
  <2>3. BulkEntry(r, x) = r2
    BY <1>1, <1>6
  <2>4. r.stale \in BOOLEAN
    BY DEF Progress
  <2>. HIDE DEF d, d2, late
  <2>5. r2.ok = TRUE /\ r2.stale = (r.stale \/ late) /\ r2.db = d2
        /\ IsResult(r2)
    BY DEF IsResult
  <2>6. d0.next <= d2.next
    BY <1>3, <2>2 DEF Tables
  <2>. HIDE DEF r2
  <2>7. Progress(d0, r2)
    BY <1>3, <2>2, <2>4, <2>5, <2>6 DEF Progress
  <2>. QED BY <2>3, <2>7
<1>7. r.ok \in BOOLEAN
  BY DEF Progress
<1>. QED BY <1>5, <1>6, <1>7

\* The results of a plan's entries, one after the other.
LEMMA BulkSteps ==
  ASSUME NEW plan \in Plans
  PROVE  /\ Len(plan) \in Nat /\ \A k \in 1..Len(plan) : plan[k] \in PlanEntries
         /\ \E B : /\ B[0] = [ok |-> TRUE, stale |-> FALSE, db |-> db]
                   /\ \A k \in 1..Len(plan) : B[k] = BulkEntry(B[k - 1], plan[k])
                   /\ BulkResult(plan) = B[Len(plan)]
<1>. DEFINE start == [ok |-> TRUE, stale |-> FALSE, db |-> db]
            N == Len(plan)
            G(g, n) == g = [k \in 0..n |-> IF k = 0 THEN start ELSE BulkEntry(g[k - 1], plan[k])]
            none == {n \in Nat : ~\E g : G(g, n)}
            B == CHOOSE g : G(g, N)
<1>1. N \in Nat /\ \A k \in 1..N : plan[k] \in PlanEntries
  BY ClientsAssumption
<1>2. BulkResult(plan) = B[N]
  BY DEF BulkResult
<1>. HIDE DEF start, N
<1>4. ASSUME none # {} PROVE FALSE
  <2>1. PICK n \in none : \A m \in none : n <= m
    <3>1. none \subseteq Nat
      OBVIOUS
    <3>. HIDE DEF none
    <3>. QED BY <1>4, <3>1, LeastNat
  <2>2. CASE n = 0
    <3>1. G([k \in 0..0 |-> start], 0)
      OBVIOUS
    <3>. QED BY <2>1, <2>2, <3>1
  <2>3. CASE n # 0
    <3>1. n - 1 \in Nat /\ ~(n <= n - 1)
      BY <2>1, <2>3
    <3>2. n - 1 \notin none
      BY <2>1, <3>1
    <3>3. PICK g : G(g, n - 1)
      BY <3>1, <3>2
    <3>. DEFINE h == [k \in 0..n |-> IF k = n THEN BulkEntry(g[n - 1], plan[n]) ELSE g[k]]
    <3>4. G(h, n)
      BY <2>3, <3>1, <3>3
    <3>. QED BY <2>1, <3>4
  <2>. QED BY <2>2, <2>3
<1>5. PICK g : G(g, N)
  BY <1>1, <1>4
<1>6. G(B, N)
  BY <1>5, Zenon
<1>. HIDE DEF B
<1>7. B[0] = start /\ \A k \in 1..N : B[k] = BulkEntry(B[k - 1], plan[k])
  BY <1>1, <1>6
<1>. QED BY <1>1, <1>2, <1>7, Zenon DEF start, N

\* The plan as a whole, by induction on its entries.
LEMMA BulkResultOK ==
  ASSUME Tables(db), CacheOK(cache, db.next), NEW plan \in Plans
  PROVE  Progress(db, BulkResult(plan))
<1>. DEFINE start == [ok |-> TRUE, stale |-> FALSE, db |-> db]
            N == Len(plan)
<1>1. N \in Nat /\ \A k \in 1..N : plan[k] \in PlanEntries
  BY BulkSteps
<1>2. PICK B : /\ B[0] = start
               /\ \A k \in 1..N : B[k] = BulkEntry(B[k - 1], plan[k])
               /\ BulkResult(plan) = B[N]
  BY BulkSteps, Zenon
<1>3. Progress(db, start)
  <2>1. start.ok = TRUE /\ start.stale = FALSE /\ start.db = db
        /\ IsResult(start)
    BY DEF IsResult
  <2>. HIDE DEF start
  <2>2. db.next <= db.next
    BY DEF Tables
  <2>. QED BY <2>1, <2>2, ExtendsSelf DEF Progress
<1>. HIDE DEF start, N
<1>. DEFINE bad == {k \in 0..N : ~Progress(db, B[k])}
<1>4. ASSUME bad # {} PROVE FALSE
  <2>1. PICK k \in bad : \A j \in bad : k <= j
    <3>1. bad \subseteq Nat
      BY <1>1
    <3>. HIDE DEF bad
    <3>. QED BY <1>4, <3>1, LeastNat
  <2>2. k # 0
    BY <1>2, <1>3, <2>1
  <2>3. k \in 1..N /\ k - 1 \in 0..N /\ ~(k <= k - 1)
    BY <1>1, <2>1, <2>2
  <2>4. Progress(db, B[k - 1])
    BY <2>1, <2>3
  <2>5. Progress(db, BulkEntry(B[k - 1], plan[k]))
    BY <1>1, <2>3, <2>4, BulkEntryOK
  <2>6. Progress(db, B[k])
    BY <1>2, <2>3, <2>5
  <2>. QED BY <2>1, <2>6
<1>5. Progress(db, B[N])
  BY <1>1, <1>4
<1>. QED BY <1>2, <1>5

-----------------------------------------------------------------------------
(* Types are kept.                                                         *)

\* A larger number of inodes admits what a smaller one admits.
LEMMA TypesGrow ==
  ASSUME NEW n \in Nat, NEW m \in Nat, n <= m
  PROVE  /\ MountOps(n) \subseteq MountOps(m) /\ SdkOps(n) \subseteq SdkOps(m) /\ DropOps(n) \subseteq DropOps(m)
         /\ \A c : CacheOK(c, n) => CacheOK(c, m)
         /\ Slot(n) \subseteq Slot(m)
<1>1. 1..(n - 1) \subseteq 1..(m - 1) /\ 2..(n - 1) \subseteq 2..(m - 1)
  OBVIOUS
<1>2. Slot(n) \subseteq Slot(m)
  BY <1>1 DEF Slot
<1>3. AddOps(n) \subseteq AddOps(m)
  BY <1>1, <1>2 DEF AddOps
<1>4. DropOps(n) \subseteq DropOps(m)
  BY <1>1, <1>2 DEF DropOps
<1>5. MoveOps(n) \subseteq MoveOps(m)
  BY <1>1, <1>2 DEF MoveOps
<1>6. CutOps(n) \subseteq CutOps(m)
  BY <1>1 DEF CutOps
<1>7. \A c : CacheOK(c, n) => CacheOK(c, m)
  BY <1>1, <1>2 DEF CacheOK
<1>. QED BY <1>2, <1>3, <1>4, <1>5, <1>6, <1>7 DEF MountOps, SdkOps

\* What an actor is doing, by where it is.
LEMMA WhoIsWhere ==
  ASSUME Types, NEW a \in Actors
  PROVE  /\ SdkOps(db.next) \subseteq MountOps(db.next) /\ op[a] \in MountOps(db.next)
         /\ \A p \in {"name", "count", "addparent"} : At(a, p) => a = "mount" /\ op[a] \in AddOps(db.next)
         /\ \A p \in {"drop", "uncount", "dropparent", "purge", "inode"} : At(a, p) => op[a] \in DropOps(db.next)
         /\ At(a, "move") => a = "mount" /\ op[a] \in MoveOps(db.next)
         /\ At(a, "cut") => a = "mount" /\ op[a] \in CutOps(db.next)
<1>1. SdkOps(db.next) \subseteq MountOps(db.next)
  BY DEF SdkOps, MountOps
<1>2. op["mount"] \in MountOps(db.next) /\ op["sdk"] \in SdkOps(db.next) /\ a \in {"mount", "sdk"}
  BY DEF Types, Actors
<1>3. \A o \in MountOps(db.next) : o # Idle =>
        /\ o.at \in {"name", "count", "addparent"} => o \in AddOps(db.next)
        /\ o.at \in {"drop", "uncount", "dropparent", "purge", "inode"} => o \in DropOps(db.next)
        /\ o.at = "move" => o \in MoveOps(db.next)
        /\ o.at = "cut" => o \in CutOps(db.next)
  BY DEF MountOps, AddOps, DropOps, MoveOps, CutOps
<1>4. \A o \in SdkOps(db.next) : o # Idle =>
        o.at \in {"drop", "uncount", "dropparent", "purge", "inode"} /\ o \in DropOps(db.next)
  BY DEF SdkOps, DropOps
<1>. QED BY <1>1, <1>2, <1>3, <1>4 DEF At

\* An operation moves on.
LEMMA Onward ==
  ASSUME NEW n
  PROVE  /\ \A o \in DropOps(n), p \in {"drop", "uncount", "dropparent", "purge", "inode"} :
              LET x == [o EXCEPT !.at = p]
              IN  x \in DropOps(n) /\ x.at = p /\ x.i = o.i /\ x.e = o.e /\ x.dir = o.dir /\ x.do = o.do
         /\ \A o \in AddOps(n), p \in {"name", "count", "addparent"} :
              LET x == [o EXCEPT !.at = p]
              IN  x \in AddOps(n) /\ x.at = p /\ x.i = o.i /\ x.e = o.e /\ x.do = o.do
BY DEF DropOps, AddOps

\* Idle is an operation of both actors and none of the four kinds of operation.
LEMMA NotIdle ==
  ASSUME NEW n
  PROVE  /\ Idle \in SdkOps(n) /\ Idle \in MountOps(n)
         /\ Idle \notin DropOps(n) /\ Idle \notin AddOps(n) /\ Idle \notin MoveOps(n) /\ Idle \notin CutOps(n)
<1>1. Idle.do = "nothing"
  BY DEF Idle
<1>. QED BY <1>1 DEF SdkOps, MountOps, DropOps, AddOps, MoveOps, CutOps

\* One actor's operation changes.
LEMMA OneOp ==
  ASSUME DOMAIN op = Actors, NEW a \in Actors, NEW o, op' = [op EXCEPT ![a] = o]
  PROVE  /\ DOMAIN op' = Actors /\ op' = [b \in Actors |-> op'[b]]
         /\ op'[a] = o /\ \A b \in Actors : b # a => op'[b] = op[b]
OBVIOUS

\* What a step has to show of the types.
LEMMA TypesKept ==
  ASSUME Types, Tables(db'), db.next <= db'.next,
         DOMAIN op' = Actors, op' = [a \in Actors |-> op'[a]],
         op'["mount"] = op["mount"] \/ op'["mount"] \in MountOps(db'.next),
         op'["sdk"] = op["sdk"] \/ op'["sdk"] \in SdkOps(db'.next),
         cache' = cache \/ CacheOK(cache', db'.next),
         handle' = handle \/ handle' \in {None} \union 2..(db'.next - 1),
         torn' \subseteq {"stale", "count", "orphan"}
  PROVE  Types'
<1>1. db.next \in Nat /\ db'.next \in Nat
  BY DEF Types, Tables
<1>2. MountOps(db.next) \subseteq MountOps(db'.next) /\ SdkOps(db.next) \subseteq SdkOps(db'.next)
      /\ \A c : CacheOK(c, db.next) => CacheOK(c, db'.next)
  BY <1>1, TypesGrow
<1>3. op'["mount"] \in MountOps(db'.next) /\ op'["sdk"] \in SdkOps(db'.next)
  BY <1>2 DEF Types
<1>4. CacheOK(cache', db'.next)
  BY <1>2 DEF Types
<1>5. handle' \in {None} \union 2..(db'.next - 1)
  BY <1>1 DEF Types
<1>. QED BY <1>3, <1>4, <1>5 DEF Types

\* The empty database.
LEMMA TypesInit ==
  ASSUME Init
  PROVE  Types
<1>1. Tables(db)
  <2>1. db = EmptyDb
    BY DEF Init
  <2>2. /\ db.next = 2 /\ DOMAIN db.inode = {1} /\ db.inode[1] = [kind |-> "dir", nlink |-> 2, size |-> 0]
        /\ db.dentry = <<>> /\ db.data = <<>> /\ IsDb(db)
    BY <2>1 DEF EmptyDb, Root, IsDb
  <2>3. db.inode[1] \in InodeRow
    BY <2>2 DEF InodeRow, Kinds
  <2>4. DOMAIN db.dentry = {} /\ DOMAIN db.data = {} /\ IsFiniteSet({})
    BY <2>2, FS_EmptySet
  <2>. QED BY <2>2, <2>3, <2>4 DEF Tables
<1>2. /\ DOMAIN op = Actors /\ op = [a \in Actors |-> op[a]] /\ op["mount"] = Idle /\ op["sdk"] = Idle
      /\ DOMAIN cache = {} /\ handle = None /\ torn = {}
  BY DEF Init, Actors
<1>. QED BY <1>1, <1>2, NotIdle DEF Types, CacheOK

\* The statements between which the other actor or a crash may come.
LEMMA TypesStatements ==
  ASSUME Types, NEW a \in Actors,
         \/ AddName(a) \/ AddCount(a) \/ AddParent(a)
         \/ DropName(a) \/ DropCount(a) \/ DropParent(a)
         \/ Purge(a) \/ DropInode(a)
  PROVE  Types'
<1>. DEFINE n == db.next
            o == op[a]
<1>1. Tables(db) /\ DOMAIN op = Actors /\ torn \subseteq {"stale", "count", "orphan"} /\ n \in Nat
  BY DEF Types, Tables
<1>2. Idle \in SdkOps(n) /\ Idle \in MountOps(n)
  BY NotIdle
<1>3. /\ \A p \in {"name", "count", "addparent"} : At(a, p) => a = "mount" /\ o \in AddOps(n)
      /\ \A p \in {"drop", "uncount", "dropparent", "purge", "inode"} : At(a, p) => o \in DropOps(n)
  BY WhoIsWhere
<1>4. /\ o \in AddOps(n) => o.i \in 2..(n - 1) /\ o.e \in Slot(n)
      /\ o \in DropOps(n) => o.i \in 2..(n - 1) /\ o.e \in Slot(n) /\ o.dir \in BOOLEAN
  BY DEF AddOps, DropOps
<1>5. Leave(a) => /\ DOMAIN op' = Actors /\ op' = [b \in Actors |-> op'[b]]
                  /\ op'["mount"] = op["mount"] \/ op'["mount"] \in MountOps(n)
                  /\ op'["sdk"] = op["sdk"] \/ op'["sdk"] \in SdkOps(n)
  BY <1>1, <1>2, OneOp DEF Leave, Actors
<1>6. ASSUME NEW p, Go(a, p),
             \/ a = "mount" /\ o \in AddOps(n) /\ p \in {"name", "count", "addparent"}
             \/ o \in DropOps(n) /\ p \in {"drop", "uncount", "dropparent", "purge", "inode"}
      PROVE  /\ DOMAIN op' = Actors /\ op' = [b \in Actors |-> op'[b]]
             /\ op'["mount"] = op["mount"] \/ op'["mount"] \in MountOps(n)
             /\ op'["sdk"] = op["sdk"] \/ op'["sdk"] \in SdkOps(n)
  <2>. DEFINE x == [o EXCEPT !.at = p]
  <2>1. op' = [op EXCEPT ![a] = x]
    BY <1>1, <1>6 DEF Go
  <2>2. x \in MountOps(n) /\ (a = "sdk" => x \in SdkOps(n))
    <3>1. \/ a = "mount" /\ x \in AddOps(n)
          \/ x \in DropOps(n)
      <4>1. CASE a = "mount" /\ o \in AddOps(n) /\ p \in {"name", "count", "addparent"}
        <5>1. x \in AddOps(n)
          BY <4>1, Onward
        <5>. QED BY <4>1, <5>1
      <4>2. CASE o \in DropOps(n) /\ p \in {"drop", "uncount", "dropparent", "purge", "inode"}
        <5>1. x \in DropOps(n)
          BY <4>2, Onward
        <5>. QED BY <5>1
      <4>. QED BY <1>6, <4>1, <4>2
    <3>. HIDE DEF x
    <3>. QED BY <3>1 DEF MountOps, SdkOps
  <2>. HIDE DEF x
  <2>. QED BY <1>1, <2>1, <2>2, OneOp DEF Actors
<1>7. ASSUME NEW kind \in {"stale", "count", "orphan"}, NEW cond, Tear(kind, cond)
      PROVE  torn' \subseteq {"stale", "count", "orphan"}
  BY <1>1, <1>7 DEF Tear
<1>. HIDE DEF o, n
<1>10. CASE AddName(a)
  <2>1. o \in AddOps(n) /\ a = "mount"
    BY <1>3, <1>10 DEF AddName
  <2>2. (Tables(db') /\ db'.next = n) /\ (Leave(a) \/ Go(a, "count"))
    <3>1. CASE o.e \in DOMAIN db.dentry
      BY <1>1, <1>10, <3>1 DEF AddName, o, n
    <3>2. CASE o.e \notin DOMAIN db.dentry
      <4>1. db' = InsertDentry(db, o.e, o.i) /\ Go(a, "count")
        BY <1>10, <3>2 DEF AddName, o
      <4>. QED BY <1>1, <1>4, <2>1, <4>1, InsertDentryEffect DEF n
    <3>. QED BY <3>1, <3>2
  <2>3. /\ DOMAIN op' = Actors /\ op' = [b \in Actors |-> op'[b]]
        /\ op'["mount"] = op["mount"] \/ op'["mount"] \in MountOps(n)
        /\ op'["sdk"] = op["sdk"] \/ op'["sdk"] \in SdkOps(n)
    BY <1>5, <1>6, <2>1, <2>2
  <2>4. torn' \subseteq {"stale", "count", "orphan"} /\ cache' = cache /\ handle' = handle
    BY <1>1, <1>10 DEF AddName
  <2>. QED BY <1>1, <2>2, <2>3, <2>4, TypesKept DEF n
<1>11. CASE AddCount(a)
  <2>1. o \in AddOps(n) /\ a = "mount" /\ 1 \in Int
    BY <1>3, <1>11 DEF AddCount
  <2>2. (Tables(db') /\ db'.next = n) /\ (Leave(a) \/ Go(a, "addparent"))
    <3>1. CASE o.do = "mkdir"
      <4>1. db' = [db EXCEPT !.inode[o.i].nlink = 2] /\ Go(a, "addparent")
        BY <1>11, <3>1 DEF AddCount, o
      <4>. QED BY <1>1, <4>1, SetLinksEffect DEF n
    <3>2. CASE o.do # "mkdir"
      <4>1. db' = AddLinks(db, o.i, 1) /\ Leave(a)
        BY <1>11, <3>2 DEF AddCount, o
      <4>. QED BY <1>1, <2>1, <4>1, AddLinksEffect DEF n
    <3>. QED BY <3>1, <3>2
  <2>3. /\ DOMAIN op' = Actors /\ op' = [b \in Actors |-> op'[b]]
        /\ op'["mount"] = op["mount"] \/ op'["mount"] \in MountOps(n)
        /\ op'["sdk"] = op["sdk"] \/ op'["sdk"] \in SdkOps(n)
    BY <1>5, <1>6, <2>1, <2>2
  <2>4. torn' = torn /\ cache' = cache /\ handle' = handle
    BY <1>11 DEF AddCount
  <2>. QED BY <1>1, <2>2, <2>3, <2>4, TypesKept DEF n
<1>12. CASE AddParent(a)
  <2>1. db' = AddLinks(db, o.e[1], 1) /\ Leave(a) /\ 1 \in Int /\ torn' = torn /\ cache' = cache /\ handle' = handle
    BY <1>12 DEF AddParent, o
  <2>2. Tables(db') /\ db'.next = n
    BY <1>1, <2>1, AddLinksEffect DEF n
  <2>. QED BY <1>1, <1>5, <2>1, <2>2, TypesKept DEF n
<1>13. CASE DropName(a)
  <2>1. o \in DropOps(n)
    BY <1>3, <1>13 DEF DropName
  <2>2. db' = DeleteDentry(db, o.e) /\ Go(a, "uncount") /\ handle' = handle
    BY <1>13 DEF DropName, o
  <2>3. Tables(db') /\ db'.next = n
    BY <1>1, <2>2, DeleteDentryEffect DEF n
  <2>4. torn' \subseteq {"stale", "count", "orphan"}
    BY <1>7, <1>13 DEF DropName
  <2>5. cache' = cache \/ CacheOK(cache', db'.next)
    BY <1>13 DEF DropName, CacheOK
  <2>6. /\ DOMAIN op' = Actors /\ op' = [b \in Actors |-> op'[b]]
        /\ op'["mount"] = op["mount"] \/ op'["mount"] \in MountOps(n)
        /\ op'["sdk"] = op["sdk"] \/ op'["sdk"] \in SdkOps(n)
    BY <1>6, <2>1, <2>2
  <2>. QED BY <1>1, <2>2, <2>3, <2>4, <2>5, <2>6, TypesKept DEF n
<1>14. CASE DropCount(a)
  <2>1. o \in DropOps(n) /\ -1 \in Int
    BY <1>3, <1>14 DEF DropCount
  <2>2. db' = AddLinks(db, o.i, -1) /\ (Go(a, "dropparent") \/ Go(a, "purge"))
        /\ torn' = torn /\ cache' = cache /\ handle' = handle
    BY <1>14 DEF DropCount, o
  <2>3. Tables(db') /\ db'.next = n
    BY <1>1, <2>1, <2>2, AddLinksEffect DEF n
  <2>4. /\ DOMAIN op' = Actors /\ op' = [b \in Actors |-> op'[b]]
        /\ op'["mount"] = op["mount"] \/ op'["mount"] \in MountOps(n)
        /\ op'["sdk"] = op["sdk"] \/ op'["sdk"] \in SdkOps(n)
    BY <1>6, <2>1, <2>2
  <2>. QED BY <1>1, <2>2, <2>3, <2>4, TypesKept DEF n
<1>15. CASE DropParent(a)
  <2>1. o \in DropOps(n) /\ -1 \in Int
    BY <1>3, <1>15 DEF DropParent
  <2>2. db' = AddLinks(db, o.e[1], -1) /\ Go(a, "purge")
        /\ torn' = torn /\ cache' = cache /\ handle' = handle
    BY <1>15 DEF DropParent, o
  <2>3. Tables(db') /\ db'.next = n
    BY <1>1, <2>1, <2>2, AddLinksEffect DEF n
  <2>4. /\ DOMAIN op' = Actors /\ op' = [b \in Actors |-> op'[b]]
        /\ op'["mount"] = op["mount"] \/ op'["mount"] \in MountOps(n)
        /\ op'["sdk"] = op["sdk"] \/ op'["sdk"] \in SdkOps(n)
    BY <1>6, <2>1, <2>2
  <2>. QED BY <1>1, <2>2, <2>3, <2>4, TypesKept DEF n
<1>16. CASE Purge(a)
  <2>1. o \in DropOps(n)
    BY <1>3, <1>16 DEF Purge
  <2>2. (db' = DeleteData(db, o.i) /\ Go(a, "inode")) \/ (db' = db /\ Leave(a))
    BY <1>16 DEF Purge, o
  <2>3. Tables(db') /\ db'.next = n
    BY <1>1, <2>2, DeleteDataEffect DEF n
  <2>4. torn' \subseteq {"stale", "count", "orphan"} /\ cache' = cache /\ handle' = handle
    BY <1>7, <1>16 DEF Purge
  <2>5. /\ DOMAIN op' = Actors /\ op' = [b \in Actors |-> op'[b]]
        /\ op'["mount"] = op["mount"] \/ op'["mount"] \in MountOps(n)
        /\ op'["sdk"] = op["sdk"] \/ op'["sdk"] \in SdkOps(n)
    BY <1>5, <1>6, <2>1, <2>2
  <2>. QED BY <1>1, <2>3, <2>4, <2>5, TypesKept DEF n
<1>17. CASE DropInode(a)
  <2>1. db' = DeleteInode(db, o.i) /\ Leave(a) /\ torn' = torn /\ cache' = cache /\ handle' = handle
    BY <1>17 DEF DropInode, o
  <2>2. Tables(db') /\ db'.next = n
    BY <1>1, <2>1, DeleteInodeEffect DEF n
  <2>. QED BY <1>1, <1>5, <2>1, <2>2, TypesKept DEF n
<1>. QED BY <1>10, <1>11, <1>12, <1>13, <1>14, <1>15, <1>16, <1>17

-----------------------------------------------------------------------------
(* rename.                                                                 *)

\* The name that is replaced goes, with its inode if that was its last link.
LEMMA ReplacedEffect ==
  ASSUME NEW d, Tables(d), NEW f
  PROVE  LET d2 == Replaced(d, f)
             j == d.dentry[f]
         IN  /\ Tables(d2) /\ d2.next = d.next
             /\ f \notin DOMAIN d.dentry => d2 = d
             /\ f \in DOMAIN d.dentry =>
                  /\ DOMAIN d2.dentry = DOMAIN d.dentry \ {f}
                  /\ \A x \in DOMAIN d.dentry \ {f} : d2.dentry[x] = d.dentry[x]
                  /\ DOMAIN d2.inode = IF j \in DOMAIN d.inode /\ d.inode[j].nlink = 1
                                         THEN DOMAIN d.inode \ {j} ELSE DOMAIN d.inode
                  /\ \A k \in DOMAIN d2.inode :
                       /\ k \in DOMAIN d.inode /\ d2.inode[k].kind = d.inode[k].kind
                       /\ d2.inode[k].nlink = d.inode[k].nlink + (IF k = j THEN -1 ELSE 0)
<1>1. CASE f \notin DOMAIN d.dentry
  BY <1>1 DEF Replaced
<1>2. CASE f \in DOMAIN d.dentry
  <2>. DEFINE j == d.dentry[f]
              d1 == DeleteDentry(d, f)
              d2 == AddLinks(d1, j, -1)
              d3 == DeleteData(d2, j)
              d4 == DeleteInode(d3, j)
              r == Replaced(d, f)
  <2>1. r = IF get_link_count(d2, j) = 0 THEN d4 ELSE d2
    BY <1>2 DEF Replaced, Purged
  <2>2. /\ Tables(d1)
        /\ d1.next = d.next /\ d1.inode = d.inode /\ d1.data = d.data
        /\ DOMAIN d1.dentry = DOMAIN d.dentry \ {f}
        /\ \A x \in DOMAIN d.dentry \ {f} : d1.dentry[x] = d.dentry[x]
    BY DeleteDentryEffect
  <2>. HIDE DEF d1, j
  <2>3. /\ Tables(d2)
        /\ d2.next = d1.next /\ d2.dentry = d1.dentry /\ d2.data = d1.data
        /\ DOMAIN d2.inode = DOMAIN d1.inode
        /\ \A k \in DOMAIN d1.inode : /\ d2.inode[k].kind = d1.inode[k].kind
                                      /\ d2.inode[k].size = d1.inode[k].size
                                      /\ d2.inode[k].nlink = d1.inode[k].nlink + (IF k = j THEN -1 ELSE 0)
    <3>1. -1 \in Int
      OBVIOUS
    <3>. QED BY <2>2, <3>1, AddLinksEffect
  <2>. HIDE DEF d2
  <2>4. Tables(d3) /\ d3.next = d2.next /\ d3.dentry = d2.dentry /\ d3.inode = d2.inode
    BY <2>3, DeleteDataEffect
  <2>. HIDE DEF d3
  <2>5. /\ Tables(d4)
        /\ d4.next = d3.next /\ d4.dentry = d3.dentry /\ d4.data = d3.data
        /\ DOMAIN d4.inode = DOMAIN d3.inode \ {j}
        /\ \A k \in DOMAIN d3.inode \ {j} : d4.inode[k] = d3.inode[k]
    BY <2>4, DeleteInodeEffect
  <2>. HIDE DEF d4
  <2>6. \A k \in DOMAIN d.inode : d.inode[k].nlink \in Int
    BY DEF Tables, InodeRow
  <2>7. CASE j \in DOMAIN d.inode /\ d.inode[j].nlink = 1
    <3>1. r = d4
      BY <2>1, <2>2, <2>3, <2>7 DEF get_link_count
    <3>. HIDE DEF r
    <3>2. /\ Tables(r) /\ r.next = d.next
          /\ DOMAIN r.dentry = DOMAIN d.dentry \ {f}
          /\ \A x \in DOMAIN d.dentry \ {f} : r.dentry[x] = d.dentry[x]
      BY <2>2, <2>3, <2>4, <2>5, <3>1
    <3>3. /\ DOMAIN r.inode = DOMAIN d.inode \ {j}
          /\ \A k \in DOMAIN r.inode :
               /\ k \in DOMAIN d.inode /\ r.inode[k].kind = d.inode[k].kind
               /\ r.inode[k].nlink = d.inode[k].nlink + (IF k = j THEN -1 ELSE 0)
      BY <2>2, <2>3, <2>4, <2>5, <2>6, <3>1
    <3>. QED BY <1>2, <2>7, <3>2, <3>3 DEF r, j
  <2>8. CASE j \in DOMAIN d.inode /\ d.inode[j].nlink # 1
    <3>1. r = d2
      BY <2>1, <2>2, <2>3, <2>6, <2>8 DEF get_link_count
    <3>. HIDE DEF r
    <3>. QED BY <1>2, <2>2, <2>3, <2>6, <2>8, <3>1 DEF r, j
  <2>9. CASE j \notin DOMAIN d.inode
    <3>1. get_link_count(d2, j) = 0
      BY <2>2, <2>3, <2>9 DEF get_link_count
    <3>2. r = d4
      BY <2>1, <3>1
    <3>. HIDE DEF r
    <3>3. /\ Tables(r) /\ r.next = d.next
          /\ DOMAIN r.dentry = DOMAIN d.dentry \ {f}
          /\ \A x \in DOMAIN d.dentry \ {f} : r.dentry[x] = d.dentry[x]
      BY <2>2, <2>3, <2>4, <2>5, <3>2
    <3>4. /\ DOMAIN r.inode = DOMAIN d.inode
          /\ \A k \in DOMAIN r.inode :
               /\ k \in DOMAIN d.inode /\ r.inode[k].kind = d.inode[k].kind
               /\ r.inode[k].nlink = d.inode[k].nlink + (IF k = j THEN -1 ELSE 0)
      <4>1. DOMAIN r.inode = DOMAIN d.inode /\ \A k \in DOMAIN r.inode : k # j /\ r.inode[k] = d2.inode[k]
        BY <2>2, <2>3, <2>4, <2>5, <2>9, <3>2
      <4>2. \A k \in DOMAIN d.inode : k # j => d2.inode[k].kind = d.inode[k].kind /\ d2.inode[k].nlink = d.inode[k].nlink
        BY <2>2, <2>3, <2>6
      <4>. QED BY <2>6, <4>1, <4>2
    <3>. QED BY <1>2, <2>9, <3>3, <3>4 DEF r, j
  <2>. QED BY <2>7, <2>8, <2>9
<1>. QED BY <1>1, <1>2

\* A name moves.
LEMMA MovedEffect ==
  ASSUME NEW d, Tables(d), NEW e \in Slot(d.next), NEW f \in Slot(d.next), NEW dir \in BOOLEAN
  PROVE  LET d2 == Moved(d, e, f, dir)
         IN  /\ Tables(d2) /\ d2.next = d.next
             /\ DOMAIN d2.inode = DOMAIN d.inode
             /\ \A k \in DOMAIN d.inode :
                  /\ d2.inode[k].kind = d.inode[k].kind
                  /\ k \notin {e[1], f[1]} => d2.inode[k].nlink = d.inode[k].nlink
             /\ e \in DOMAIN d.dentry =>
                  /\ DOMAIN d2.dentry = (DOMAIN d.dentry \ {e}) \union {f} /\ d2.dentry[f] = d.dentry[e]
                  /\ \A x \in DOMAIN d.dentry \ {e} : x # f => d2.dentry[x] = d.dentry[x]
<1>. DEFINE d1 == DeleteDentry(d, e)
            m == IF e \in DOMAIN d.dentry THEN InsertDentry(d1, f, d.dentry[e]) ELSE d
            m1 == AddLinks(m, e[1], -1)
            m2 == AddLinks(m1, f[1], 1)
            d2 == Moved(d, e, f, dir)
<1>1. d2 = IF dir /\ e[1] # f[1] THEN m2 ELSE m
  BY DEF Moved
<1>2. /\ Tables(m) /\ m.next = d.next /\ m.inode = d.inode
      /\ e \in DOMAIN d.dentry =>
           /\ DOMAIN m.dentry = (DOMAIN d.dentry \ {e}) \union {f} /\ m.dentry[f] = d.dentry[e]
           /\ \A x \in DOMAIN d.dentry \ {e} : x # f => m.dentry[x] = d.dentry[x]
  <2>1. CASE e \notin DOMAIN d.dentry
    BY <2>1
  <2>2. CASE e \in DOMAIN d.dentry
    <3>1. /\ Tables(d1)
          /\ d1.next = d.next /\ d1.inode = d.inode /\ d1.data = d.data
          /\ DOMAIN d1.dentry = DOMAIN d.dentry \ {e}
          /\ \A x \in DOMAIN d.dentry \ {e} : d1.dentry[x] = d.dentry[x]
      BY DeleteDentryEffect
    <3>. DEFINE i == d.dentry[e]
    <3>2. i \in 2..(d1.next - 1) /\ f \in Slot(d1.next) /\ m = InsertDentry(d1, f, i)
      BY <2>2, <3>1 DEF Tables
    <3>. HIDE DEF d1, i, m
    <3>3. /\ Tables(m)
          /\ m.next = d1.next /\ m.inode = d1.inode /\ m.data = d1.data
          /\ DOMAIN m.dentry = DOMAIN d1.dentry \union {f} /\ m.dentry[f] = i
          /\ \A x \in DOMAIN d1.dentry : x # f => m.dentry[x] = d1.dentry[x]
      <4>. DEFINE w == InsertDentry(d1, f, i)
      <4>1. /\ Tables(w)
            /\ w.next = d1.next /\ w.inode = d1.inode /\ w.data = d1.data
            /\ DOMAIN w.dentry = DOMAIN d1.dentry \union {f} /\ w.dentry[f] = i
            /\ \A x \in DOMAIN d1.dentry : x # f => w.dentry[x] = d1.dentry[x]
        <5>1. Tables(d1)
          BY <3>1
        <5>2. i \in 2..(d1.next - 1) /\ f \in Slot(d1.next)
          BY <3>2
        <5>. QED BY <5>1, <5>2, InsertDentryEffect
      <4>. QED BY <3>2, <4>1
    <3>. QED BY <3>1, <3>3 DEF i
  <2>. QED BY <2>1, <2>2
<1>. HIDE DEF m
<1>3. \A k \in DOMAIN m.inode : m.inode[k].nlink \in Int
  BY <1>2 DEF Tables, InodeRow
<1>4. -1 \in Int /\ 1 \in Int
  OBVIOUS
<1>5. /\ Tables(m1)
      /\ m1.next = m.next /\ m1.dentry = m.dentry /\ m1.data = m.data
      /\ DOMAIN m1.inode = DOMAIN m.inode
      /\ \A k \in DOMAIN m.inode : /\ m1.inode[k].kind = m.inode[k].kind
                                   /\ m1.inode[k].size = m.inode[k].size
                                   /\ m1.inode[k].nlink = m.inode[k].nlink + (IF k = e[1] THEN -1 ELSE 0)
  BY <1>2, <1>4, AddLinksEffect
<1>. HIDE DEF m1
<1>6. /\ Tables(m2)
      /\ m2.next = m1.next /\ m2.dentry = m1.dentry /\ m2.data = m1.data
      /\ DOMAIN m2.inode = DOMAIN m1.inode
      /\ \A k \in DOMAIN m1.inode : /\ m2.inode[k].kind = m1.inode[k].kind
                                    /\ m2.inode[k].size = m1.inode[k].size
                                    /\ m2.inode[k].nlink = m1.inode[k].nlink + (IF k = f[1] THEN 1 ELSE 0)
  BY <1>4, <1>5, AddLinksEffect
<1>. HIDE DEF m2
<1>7. CASE dir /\ e[1] # f[1]
  <2>1. d2 = m2
    BY <1>1, <1>7
  <2>. HIDE DEF d2
  <2>2. \A k \in DOMAIN d.inode : k \notin {e[1], f[1]} => d2.inode[k].nlink = d.inode[k].nlink
    BY <1>2, <1>3, <1>5, <1>6, <2>1
  <2>3. DOMAIN d2.inode = DOMAIN d.inode /\ \A k \in DOMAIN d.inode : d2.inode[k].kind = d.inode[k].kind
    BY <1>2, <1>5, <1>6, <2>1
  <2>4. Tables(d2) /\ d2.next = d.next /\ d2.dentry = m.dentry
    BY <1>2, <1>5, <1>6, <2>1
  <2>. QED BY <1>2, <2>2, <2>3, <2>4 DEF d2
<1>8. CASE ~(dir /\ e[1] # f[1])
  BY <1>1, <1>2, <1>8
<1>. QED BY <1>7, <1>8

\* New inodes keep the tables in shape.
LEMMA MakeTables ==
  ASSUME NEW d, Tables(d), NEW kind \in Kinds, NEW nlink \in Int, NEW size \in Nat
  PROVE  /\ Tables(InsertInode(d, kind, nlink, size)) /\ InsertInode(d, kind, nlink, size).next = d.next + 1
         /\ \A e \in Slot(d.next) : /\ Tables(Created(d, kind, nlink, size, e))
                                    /\ Created(d, kind, nlink, size, e).next = d.next + 1
<1>1. Tables(InsertInode(d, kind, nlink, size)) /\ InsertInode(d, kind, nlink, size).next = d.next + 1
  <2>. DEFINE d2 == InsertInode(d, kind, nlink, size)
  <2>1. /\ Tables(d2)
        /\ d2.next = d.next + 1 /\ d2.dentry = d.dentry /\ d2.data = d.data
        /\ DOMAIN d2.inode = DOMAIN d.inode \union {d.next} /\ d.next \notin DOMAIN d.inode
        /\ d2.inode[d.next] = [kind |-> kind, nlink |-> nlink, size |-> size]
        /\ \A j \in DOMAIN d.inode : d2.inode[j] = d.inode[j]
    BY InsertInodeEffect
  <2>. QED BY <2>1
<1>2. ASSUME NEW e \in Slot(d.next)
      PROVE  Tables(Created(d, kind, nlink, size, e)) /\ Created(d, kind, nlink, size, e).next = d.next + 1
  <2>. DEFINE d2 == Created(d, kind, nlink, size, e)
  <2>1. /\ Tables(d2)
        /\ d2.next = d.next + 1 /\ d2.data = d.data
        /\ DOMAIN d2.inode = DOMAIN d.inode \union {d.next}
        /\ d2.inode[d.next] = [kind |-> kind, nlink |-> nlink, size |-> size]
        /\ \A j \in DOMAIN d.inode : d2.inode[j] = d.inode[j]
        /\ DOMAIN d2.dentry = DOMAIN d.dentry \union {e} /\ d2.dentry[e] = d.next
        /\ \A x \in DOMAIN d.dentry : x # e => d2.dentry[x] = d.dentry[x]
    BY <1>2, CreateEffect
  <2>. QED BY <2>1
<1>. QED BY <1>1, <1>2

\* A slot of the mount is in a directory, named or removed.
LEMMA SlotType ==
  ASSUME Types, NEW e \in Slots
  PROVE  e \in Slot(db.next) /\ IsDir(db, e[1])
<1>1. e[1] \in DOMAIN db.inode /\ IsDir(db, e[1]) /\ e = <<e[1], e[2]>> /\ e[2] \in Names
  BY DEF Slots
<1>2. e[1] \in 1..(db.next - 1)
  BY <1>1 DEF Types, Tables
<1>. QED BY <1>1, <1>2 DEF Slot

\* The operations of the mount begin.
LEMMA TypesBegin ==
  ASSUME Types,
         \/ \E i \in DOMAIN db.inode : open(i)
         \/ release
         \/ \E e \in Slots : create_file(e) \/ mkdir(e) \/ mknod(e) \/ unlink(e) \/ rmdir(e)
         \/ \E i \in DOMAIN db.inode, e \in Slots : link(i, e)
         \/ \E e, f \in Slots : rename(e, f)
         \/ \E k \in Sizes : truncate(k)
  PROVE  Types'
<1>. DEFINE n == db.next
<1>1. Tables(db) /\ DOMAIN op = Actors /\ op = [a \in Actors |-> op[a]]
      /\ torn \subseteq {"stale", "count", "orphan"} /\ n \in Nat \ {0, 1}
  BY DEF Types, Tables
<1>2. \A e \in Slots : e \in Slot(n)
  BY SlotType
<1>3. "mount" \in Actors /\ "sdk" \in Actors /\ "mount" # "sdk"
  BY DEF Actors
<1>4. ASSUME NEW o, Enter("mount", o), o \in MountOps(db'.next)
      PROVE  /\ DOMAIN op' = Actors /\ op' = [b \in Actors |-> op'[b]]
             /\ op'["mount"] \in MountOps(db'.next) /\ op'["sdk"] = op["sdk"]
  BY <1>1, <1>3, <1>4, OneOp DEF Enter
<1>5. /\ \A i \in DOMAIN db.inode : i \in 1..(n - 1)
      /\ \A e \in DOMAIN db.dentry : db.dentry[e] \in 2..(n - 1)
      /\ \A i : NamesOf(db, i) # {} => i \in 2..(n - 1)
  BY <1>1 DEF Tables, NamesOf
<1>. HIDE DEF n
<1>10. ASSUME NEW i \in DOMAIN db.inode, open(i) PROVE Types'
  <2>1. handle' = i /\ UNCHANGED <<db, op, cache, torn>> /\ NamesOf(db, i) # {}
    BY <1>10 DEF open
  <2>2. i \in 2..(db.next - 1)
    BY <1>5, <2>1 DEF n
  <2>3. db.next <= db'.next
    BY <1>1, <2>1 DEF n
  <2>. QED BY <1>1, <2>1, <2>2, <2>3, TypesKept
<1>11. CASE release
  <2>1. handle' = None /\ UNCHANGED <<db, op, cache, torn>>
    BY <1>11 DEF release
  <2>2. db.next <= db'.next
    BY <1>1, <2>1 DEF n
  <2>. QED BY <1>1, <2>1, <2>2, TypesKept
<1>12. ASSUME NEW e \in Slots, create_file(e) PROVE Types'
  <2>1. /\ db' = Created(db, "file", 1, 0, e) /\ UNCHANGED <<op, cache>>
        /\ handle' = handle \/ handle' = n
        /\ torn' \subseteq torn \union {"stale"}
    BY <1>12 DEF create_file, Created, Tear, n
  <2>2. "file" \in Kinds /\ 1 \in Int /\ 0 \in Nat
    BY DEF Kinds
  <2>3. Tables(db') /\ db'.next = n + 1
    <3>. DEFINE w == Created(db, "file", 1, 0, e)
    <3>1. e \in Slot(db.next) /\ Tables(db)
      BY <1>1, <1>2 DEF n
    <3>2. Tables(w) /\ w.next = db.next + 1
      BY <2>2, <3>1, MakeTables
    <3>. QED BY <2>1, <3>2 DEF n
  <2>4. db.next <= db'.next /\ n \in 2..(db'.next - 1)
    BY <1>1, <2>3 DEF n
  <2>. QED BY <1>1, <2>1, <2>3, <2>4, TypesKept
<1>13. ASSUME NEW e \in Slots, NEW kind \in {"dir", "node"}, NEW do \in {"mkdir", "mknod"},
              db' = InsertInode(db, kind, 0, 0),
              Enter("mount", [do |-> do, e |-> e, i |-> db.next, at |-> "name"]),
              UNCHANGED <<cache, handle, torn>>
       PROVE  Types'
  <2>1. kind \in Kinds /\ 0 \in Int /\ 0 \in Nat
    BY DEF Kinds
  <2>2. Tables(db') /\ db'.next = n + 1
    <3>. DEFINE w == InsertInode(db, kind, 0, 0)
    <3>1. Tables(db)
      BY <1>1
    <3>2. Tables(w) /\ w.next = db.next + 1
      BY <2>1, <3>1, MakeTables
    <3>. QED BY <1>13, <3>2 DEF n
  <2>3. db.next <= db'.next /\ n \in 2..(db'.next - 1) /\ db'.next \in Nat
    BY <1>1, <2>2 DEF n
  <2>4. e \in Slot(db'.next)
    BY <1>1, <1>2, <2>3, TypesGrow DEF n
  <2>. DEFINE o == [do |-> do, e |-> e, i |-> db.next, at |-> "name"]
  <2>5. o \in AddOps(db'.next)
    BY <2>3, <2>4 DEF AddOps, n
  <2>6. o \in MountOps(db'.next)
    BY <2>5 DEF MountOps
  <2>7. /\ DOMAIN op' = Actors /\ op' = [b \in Actors |-> op'[b]]
        /\ op'["mount"] \in MountOps(db'.next) /\ op'["sdk"] = op["sdk"]
    BY <1>4, <1>13, <2>6
  <2>. QED BY <1>1, <1>13, <2>2, <2>3, <2>7, TypesKept
<1>14. ASSUME NEW e \in Slots, mkdir(e) \/ mknod(e) PROVE Types'
  BY <1>13, <1>14 DEF mkdir, mknod
<1>15. ASSUME NEW o \in MountOps(n), Enter("mount", o), UNCHANGED <<db, cache, handle, torn>>
       PROVE  Types'
  <2>1. o \in MountOps(db'.next) /\ db.next <= db'.next
    BY <1>1, <1>15 DEF n
  <2>2. /\ DOMAIN op' = Actors /\ op' = [b \in Actors |-> op'[b]]
        /\ op'["mount"] \in MountOps(db'.next) /\ op'["sdk"] = op["sdk"]
    BY <1>4, <1>15, <2>1
  <2>. QED BY <1>1, <1>15, <2>1, <2>2, TypesKept
<1>16. ASSUME NEW e \in Slots, unlink(e) \/ rmdir(e) PROVE Types'
  <2>1. PICK do \in {"unlink", "rmdir"}, dir \in BOOLEAN :
          /\ e \in DOMAIN db.dentry /\ UNCHANGED <<db, cache, handle, torn>>
          /\ Enter("mount", [do |-> do, e |-> e, i |-> db.dentry[e], dir |-> dir, at |-> "drop"])
    BY <1>16 DEF unlink, rmdir
  <2>2. [do |-> do, e |-> e, i |-> db.dentry[e], dir |-> dir, at |-> "drop"] \in DropOps(n)
    BY <1>2, <1>5, <2>1 DEF DropOps
  <2>. QED BY <1>15, <2>1, <2>2 DEF MountOps
<1>17. ASSUME NEW i \in DOMAIN db.inode, NEW e \in Slots, link(i, e) PROVE Types'
  <2>1. /\ NamesOf(db, i) # {} /\ UNCHANGED <<db, cache, handle, torn>>
        /\ Enter("mount", [do |-> "link", e |-> e, i |-> i, at |-> "name"])
    BY <1>17 DEF link
  <2>2. [do |-> "link", e |-> e, i |-> i, at |-> "name"] \in AddOps(n)
    BY <1>2, <1>5, <2>1 DEF AddOps
  <2>. QED BY <1>15, <2>1, <2>2 DEF MountOps
<1>18. ASSUME NEW e \in Slots, NEW f \in Slots, rename(e, f) PROVE Types'
  <2>. DEFINE dir == IsDir(db, db.dentry[e])
  <2>1. /\ e \in DOMAIN db.dentry /\ UNCHANGED <<db, cache, handle, torn>>
        /\ Enter("mount", [do |-> "rename", e |-> e, f |-> f, i |-> db.dentry[e], dir |-> dir, at |-> "move"])
    BY <1>18 DEF rename
  <2>2. dir \in BOOLEAN
    BY DEF IsDir
  <2>. HIDE DEF dir
  <2>3. [do |-> "rename", e |-> e, f |-> f, i |-> db.dentry[e], dir |-> dir, at |-> "move"] \in MoveOps(n)
    BY <1>2, <1>5, <2>1, <2>2 DEF MoveOps
  <2>. QED BY <1>15, <2>1, <2>3 DEF MountOps
<1>19. ASSUME NEW k \in Sizes, truncate(k) PROVE Types'
  <2>. DEFINE seen == Size(db, handle)
  <2>1. /\ handle # None /\ UNCHANGED <<db, cache, handle, torn>>
        /\ Enter("mount", [do |-> "truncate", i |-> handle, to |-> k, seen |-> seen, at |-> "cut"])
    BY <1>19 DEF truncate
  <2>2. seen \in Nat /\ k \in Nat /\ handle \in 2..(n - 1)
    BY <1>1, <2>1, ClientsAssumption DEF Size, Tables, InodeRow, Types, n
  <2>. HIDE DEF seen
  <2>3. [do |-> "truncate", i |-> handle, to |-> k, seen |-> seen, at |-> "cut"] \in CutOps(n)
    BY <2>2 DEF CutOps
  <2>. QED BY <1>15, <2>1, <2>3 DEF MountOps
<1>. QED BY <1>10, <1>11, <1>12, <1>14, <1>16, <1>17, <1>18, <1>19

\* Writes, and the SDK program.
LEMMA TypesWrites ==
  ASSUME Types,
         \/ \E off \in Offsets, data \in Payloads : pwrite(off, data)
         \/ \E path \in Paths : read_file(path) \/ remove(path)
         \/ \E path \in Paths, off \in Offsets, data \in Payloads : write_path(path, off, data)
         \/ \E plan \in Plans : bulk_materialize_tree(plan)
         \/ \E a \in Actors : Move(a) \/ Cut(a)
         \/ Crash
  PROVE  Types'
<1>. DEFINE n == db.next
<1>1. Tables(db) /\ DOMAIN op = Actors /\ op = [a \in Actors |-> op[a]] /\ CacheOK(cache, n)
      /\ torn \subseteq {"stale", "count", "orphan"} /\ n \in Nat \ {0, 1}
  BY DEF Types, Tables
<1>2. "mount" \in Actors /\ "sdk" \in Actors /\ "mount" # "sdk"
  BY DEF Actors
<1>3. \A cond : \A kind \in {"stale", "count", "orphan"} : Tear(kind, cond) => torn' \subseteq {"stale", "count", "orphan"}
  BY <1>1 DEF Tear
<1>4. \A path \in Paths : path \in Seq(Names) /\ path # <<>> /\ CacheOK(Filled(db, path), n)
  BY <1>1, ClientsAssumption, FilledType
<1>5. \A off \in Offsets, data \in Payloads : off + Len(data) \in Nat /\ data \in Seq(Bytes)
  BY ClientsAssumption
<1>6. \A i : Size(db, i) \in Nat
  BY <1>1 DEF Size, Tables, InodeRow
<1>7. \A a, b : a \in Nat /\ b \in Nat => MaxOf(a, b) \in Nat
  BY DEF MaxOf
<1>. HIDE DEF n
<1>10. ASSUME NEW off \in Offsets, NEW data \in Payloads, pwrite(off, data) PROVE Types'
  <2>. DEFINE rows == write_data_at_offset(Rows(db, handle), off, data)
              end == MaxOf(Size(db, handle), off + Len(data))
  <2>1. db' = SetSize(SetRows(db, handle, rows), handle, end) /\ UNCHANGED <<op, cache, handle, torn>> /\ handle # None
    BY <1>10 DEF pwrite
  <2>2. end \in Nat /\ handle \in 2..(db.next - 1)
    BY <1>5, <1>6, <1>7, <2>1 DEF Types
  <2>. HIDE DEF rows, end
  <2>3. Tables(db') /\ Alike(db, db')
    BY <1>1, <2>1, <2>2, StoreEffect
  <2>4. db.next <= db'.next
    BY <1>1, <2>3 DEF Alike, n
  <2>. QED BY <1>1, <2>1, <2>3, <2>4, TypesKept
<1>11. ASSUME NEW path \in Paths, read_file(path) PROVE Types'
  <2>1. cache' = Filled(db, path) /\ UNCHANGED <<db, op, handle, torn>>
    BY <1>11 DEF read_file
  <2>2. db.next <= db'.next /\ CacheOK(cache', db'.next)
    BY <1>1, <1>4, <2>1 DEF n
  <2>. QED BY <1>1, <2>1, <2>2, TypesKept
<1>12. ASSUME NEW path \in Paths, remove(path) PROVE Types'
  <2>. DEFINE i == resolve_path(db, path)
              p == resolve_path(db, Parent(path))
              e == <<p, path[Len(path)]>>
              dir == IsDir(db, i)
              o == [do |-> "remove", e |-> e, i |-> i, dir |-> dir, at |-> "drop"]
  <2>1. /\ i \in DOMAIN db.inode /\ op' = [op EXCEPT !["sdk"] = o] /\ cache' = Filled(db, path)
        /\ \E cond : Tear("stale", cond)
        /\ UNCHANGED <<db, handle>>
    BY <1>12 DEF remove, Enter
  <2>2. i # None
    BY <1>1, <2>1 DEF Tables, None
  <2>3. i \in 2..(n - 1) /\ e \in Slot(n)
    <3>1. path \in Seq(Names) /\ path # <<>> /\ n <= n
      BY <1>1, <1>4
    <3>2. /\ p # None => p \in 1..(db.next - 1) /\ e \in Slot(db.next)
          /\ i # None => i \in 2..(db.next - 1) /\ p # None
      BY <1>1, <3>1, Resolved DEF n
    <3>. QED BY <2>2, <3>2 DEF n
  <2>4. dir \in BOOLEAN
    BY DEF IsDir
  <2>. HIDE DEF i, e, dir
  <2>5. o \in DropOps(n)
    BY <2>3, <2>4 DEF DropOps
  <2>. HIDE DEF o
  <2>6. /\ DOMAIN op' = Actors /\ op' = [b \in Actors |-> op'[b]] /\ op'["mount"] = op["mount"]
        /\ op'["sdk"] \in SdkOps(n)
    BY <1>1, <1>2, <2>1, <2>5, OneOp DEF SdkOps
  <2>7. torn' \subseteq {"stale", "count", "orphan"}
    BY <1>3, <2>1
  <2>8. db.next <= db'.next /\ CacheOK(cache', db'.next) /\ op'["sdk"] \in SdkOps(db'.next)
    BY <1>1, <1>4, <2>1, <2>6 DEF n
  <2>. QED BY <1>1, <2>1, <2>6, <2>7, <2>8, TypesKept
<1>13. ASSUME NEW path \in Paths, NEW off \in Offsets, NEW data \in Payloads, write_path(path, off, data)
       PROVE  Types'
  <2>. DEFINE i == resolve_path(db, path)
              p == resolve_path(db, Parent(path))
              e == <<p, path[Len(path)]>>
              end == off + Len(data)
              rows == path_pwrite(Rows(db, i), Size(db, i), off, data)
              fresh == path_pwrite(NoRows, 0, off, data)
              size == MaxOf(Size(db, i), end)
              made == Created(db, "file", 1, end, e)
  <2>1. /\ p # None /\ cache' = Filled(db, path) /\ UNCHANGED <<op, handle>>
        /\ \E cond : Tear("stale", cond)
        /\ db' = IF i # None THEN SetSize(SetRows(db, i, rows), i, size) ELSE SetRows(made, db.next, fresh)
    BY <1>13 DEF write_path, Created
  <2>2. end \in Nat /\ size \in Nat
    BY <1>5, <1>6, <1>7
  <2>3. (i # None => i \in 2..(db.next - 1)) /\ e \in Slot(db.next)
    <3>1. path \in Seq(Names) /\ path # <<>> /\ n <= n
      BY <1>1, <1>4
    <3>2. /\ p # None => p \in 1..(db.next - 1) /\ e \in Slot(db.next)
          /\ i # None => i \in 2..(db.next - 1) /\ p # None
      BY <1>1, <3>1, Resolved DEF n
    <3>. QED BY <2>1, <3>2
  <2>. HIDE DEF i, p, e, end, rows, fresh, size, made
  <2>4. Tables(db') /\ db.next <= db'.next
    <3>1. CASE i # None
      <4>1. Tables(db') /\ Alike(db, db')
        BY <1>1, <2>1, <2>2, <2>3, <3>1, StoreEffect
      <4>. QED BY <1>1, <4>1 DEF Alike, n
    <3>2. CASE i = None
      <4>1. "file" \in Kinds /\ 1 \in Int
        BY DEF Kinds
      <4>2. Tables(made) /\ made.next = db.next + 1
        <5>1. \A x \in Slot(db.next) : /\ Tables(Created(db, "file", 1, end, x))
                                        /\ Created(db, "file", 1, end, x).next = db.next + 1
          BY <1>1, <2>2, <4>1, MakeTables
        <5>. QED BY <2>3, <5>1 DEF made
      <4>3. db.next \in 2..(made.next - 1) /\ db' = SetRows(made, db.next, fresh)
        BY <1>1, <2>1, <3>2, <4>2 DEF n
      <4>4. Tables(db') /\ db'.next = made.next
        BY <4>2, <4>3, SetRowsEffect
      <4>. QED BY <1>1, <4>2, <4>4 DEF n
    <3>. QED BY <3>1, <3>2
  <2>5. CacheOK(cache', db'.next)
    BY <1>1, <1>4, <2>1, <2>4, TypesGrow DEF Tables, n
  <2>6. torn' \subseteq {"stale", "count", "orphan"}
    BY <1>3, <2>1
  <2>. QED BY <1>1, <2>1, <2>4, <2>5, <2>6, TypesKept
<1>14. ASSUME NEW plan \in Plans, bulk_materialize_tree(plan) PROVE Types'
  <2>. DEFINE r == BulkResult(plan)
  <2>1. db' = r.db /\ cache' = <<>> /\ UNCHANGED <<op, handle>> /\ \E cond : Tear("stale", cond)
    BY <1>14 DEF bulk_materialize_tree
  <2>2. Tables(r.db) /\ db.next <= r.db.next
    BY <1>1, BulkResultOK DEF Progress, n
  <2>3. torn' \subseteq {"stale", "count", "orphan"} /\ CacheOK(cache', db'.next)
    BY <1>3, <2>1 DEF CacheOK
  <2>. QED BY <1>1, <2>1, <2>2, <2>3, TypesKept
<1>15. ASSUME NEW a \in Actors, Leave(a)
       PROVE  /\ DOMAIN op' = Actors /\ op' = [b \in Actors |-> op'[b]]
              /\ op'["mount"] = op["mount"] \/ op'["mount"] \in MountOps(db'.next)
              /\ op'["sdk"] = op["sdk"] \/ op'["sdk"] \in SdkOps(db'.next)
  BY <1>1, <1>15, OneOp, NotIdle DEF Leave, Actors
<1>16. ASSUME NEW a \in Actors, Move(a) PROVE Types'
  <2>. DEFINE o == op[a]
              r == Replaced(db, o.f)
  <2>1. /\ db' = db \/ db' = Moved(r, o.e, o.f, o.dir)
        /\ \E cond : Tear("stale", cond)
        /\ Leave(a) /\ UNCHANGED <<cache, handle>> /\ At(a, "move")
    BY <1>16 DEF Move
  <2>2. o.e \in Slot(n) /\ o.f \in Slot(n) /\ o.dir \in BOOLEAN
    BY <2>1, WhoIsWhere DEF MoveOps, n
  <2>. HIDE DEF o
  <2>3. Tables(r) /\ r.next = n
    BY <1>1, ReplacedEffect DEF n
  <2>. HIDE DEF r
  <2>4. Tables(Moved(r, o.e, o.f, o.dir)) /\ Moved(r, o.e, o.f, o.dir).next = n
    BY <2>2, <2>3, MovedEffect
  <2>5. Tables(db') /\ db.next <= db'.next
    BY <1>1, <2>1, <2>4 DEF n
  <2>6. torn' \subseteq {"stale", "count", "orphan"}
    BY <1>3, <2>1
  <2>. QED BY <1>1, <1>15, <2>1, <2>5, <2>6, TypesKept
<1>17. ASSUME NEW a \in Actors, Cut(a) PROVE Types'
  <2>. DEFINE o == op[a]
              rows == truncate_rows(Rows(db, o.i), o.seen, o.to)
  <2>1. /\ db' = SetSize(SetRows(db, o.i, rows), o.i, o.to)
        /\ \E cond : Tear("stale", cond)
        /\ Leave(a) /\ UNCHANGED <<cache, handle>> /\ At(a, "cut")
    BY <1>17 DEF Cut
  <2>2. o.i \in 2..(db.next - 1) /\ o.to \in Nat
    BY <2>1, WhoIsWhere DEF CutOps
  <2>. HIDE DEF o, rows
  <2>3. Tables(db') /\ Alike(db, db')
    BY <1>1, <2>1, <2>2, StoreEffect
  <2>4. db.next <= db'.next
    BY <1>1, <2>3 DEF Alike, n
  <2>5. torn' \subseteq {"stale", "count", "orphan"}
    BY <1>3, <2>1
  <2>. QED BY <1>1, <1>15, <2>1, <2>3, <2>4, <2>5, TypesKept
<1>18. CASE Crash
  <2>1. /\ op' = [a \in Actors |-> Idle] /\ cache' = <<>> /\ handle' = None /\ db' = db
        /\ \E cond : Tear("count", cond)
    BY <1>18 DEF Crash
  <2>2. DOMAIN op' = Actors /\ op' = [b \in Actors |-> op'[b]] /\ op'["mount"] = Idle /\ op'["sdk"] = Idle
    BY <1>2, <2>1
  <2>3. torn' \subseteq {"stale", "count", "orphan"} /\ CacheOK(cache', db'.next) /\ db.next <= db'.next
    BY <1>1, <1>3, <2>1 DEF CacheOK, n
  <2>. QED BY <1>1, <2>1, <2>2, <2>3, NotIdle, TypesKept
<1>. QED BY <1>10, <1>11, <1>12, <1>13, <1>14, <1>16, <1>17, <1>18

\* Every step keeps the types.
LEMMA TypesStep ==
  ASSUME Types, [Next]_vars
  PROVE  Types'
<1>1. CASE UNCHANGED vars
  BY <1>1 DEF vars, Types, CacheOK
<1>2. CASE Next
  BY <1>2, TypesBegin, TypesStatements, TypesWrites DEF Next
<1>. QED BY <1>1, <1>2

\* The tables keep the shape SPEC.md gives them: inode numbers below the AUTOINCREMENT
\* counter, never the root's for a new name, and operations that only name such inodes.
THEOREM AgentFSTypes == Spec => []TypeOK
<1>1. Init => Types
  BY TypesInit
<1>2. Types /\ [Next]_vars => Types'
  BY TypesStep
<1>3. Types => TypeOK
  <2>1. SUFFICES ASSUME Types PROVE TypeOK
    OBVIOUS
  <2>2. Tables(db) /\ DOMAIN op = Actors /\ torn \subseteq {"stale", "count", "orphan"}
        /\ handle \in {None} \union 2..(db.next - 1)
    BY <2>1 DEF Types
  <2>3. DOMAIN db = {"inode", "dentry", "data", "next"} /\ db.next \in Nat
    <3>1. IsDb(db) /\ db.next \in Nat
      BY <2>2 DEF Tables
    <3>. QED BY <3>1 DEF IsDb
  <2>4. \A i \in DOMAIN db.inode : i \in 1..(db.next - 1) /\ db.inode[i].kind \in {"dir", "file", "node"}
                                   /\ db.inode[i].nlink \in Int /\ db.inode[i].size \in Nat
    BY <2>2 DEF Tables, InodeRow, Kinds
  <2>5. \A e \in DOMAIN db.dentry : e \in (1..(db.next - 1)) \X Names /\ db.dentry[e] \in 2..(db.next - 1)
    BY <2>2 DEF Tables, Slot
  <2>6. (\A i \in DOMAIN db.data : i \in 2..(db.next - 1)) /\ handle \in 0..(db.next - 1)
    BY <2>2 DEF Tables, None
  <2>. QED BY <2>2, <2>3, <2>4, <2>5, <2>6 DEF TypeOK
<1>. QED BY <1>1, <1>2, <1>3, PTL DEF Spec

-----------------------------------------------------------------------------
(* Names and links are kept: one lemma per statement, about the tables d,  *)
(* the operation o it belongs to and the operation q of the other actor.   *)

\* The actors' order does not matter.
LEMMA WholeSym ==
  ASSUME NEW d, Tables(d), NEW o, NEW q
  PROVE  /\ Whole(d, o, q) => Whole(d, q, o)
         /\ Settled(d, o, q) => Settled(d, q, o)
<1>1. \A i \in Files(d) : Due(d, o, q, i) = Due(d, q, o, i)
  <2>1. \A i \in Files(d) : d.inode[i].nlink \in Int /\ Cardinality(NamesOf(d, i)) \in Nat
    BY NamesFinite DEF Files, Tables, InodeRow
  <2>2. \A i : Adds(o, i) \in Int /\ Adds(q, i) \in Int /\ Drops(o, i) \in Int /\ Drops(q, i) \in Int
    BY DEF Adds, Drops
  <2>. QED BY <2>1, <2>2 DEF Due
<1>. QED BY <1>1 DEF Whole, Settled

\* A step that changes no table.
LEMMA SwapOp ==
  ASSUME NEW d, NEW o, NEW q, NEW x, Whole(d, o, q), OpOK(d, x),
         \A i \in Files(d) : Adds(x, i) = Adds(o, i) /\ Drops(x, i) = Drops(o, i)
  PROVE  /\ Whole(d, x, q)
         /\ Settled(d, o, q) /\ (\A i \in Files(d) : Settles(o, i) /\ NamesOf(d, i) = {} => Settles(x, i) \/ Settles(q, i))
              => Settled(d, x, q)
<1>1. \A i \in Files(d) : Due(d, x, q, i) = Due(d, o, q, i)
  BY DEF Due
<1>. QED BY <1>1 DEF Whole, Settled

\* Fewer names and the same inodes leave an operation what it relies on.
LEMMA OpFewer ==
  ASSUME NEW d, NEW d2, Tables(d), NEW q \in MountOps(d.next), OpOK(d, q),
         DOMAIN d2.inode = DOMAIN d.inode, \A j \in DOMAIN d.inode : d2.inode[j].kind = d.inode[j].kind,
         \A j : NamesOf(d2, j) \subseteq NamesOf(d, j)
  PROVE  OpOK(d2, q)
<1>1. d.next \in Nat
  BY DEF Tables
<1>2. Making(q) => q.i \in DOMAIN d2.inode
  BY DEF OpOK, AddOK, Making
<1>. QED BY <1>1, <1>2, OpKept

\* The inode an operation works on is not the root; numbers are numbers.
LEMMA Numbers ==
  ASSUME NEW d, Tables(d)
  PROVE  /\ \A i \in Files(d) : d.inode[i].nlink \in Int
         /\ \A i : Cardinality(NamesOf(d, i)) \in Nat
         /\ \A o, i : Adds(o, i) \in {0, 1} /\ Drops(o, i) \in {0, 1}
         /\ \A o \in MountOps(d.next) : o # Idle => o.i \in 2..(d.next - 1) /\ o.i # Root
<1>1. \A i \in Files(d) : d.inode[i].nlink \in Int
  BY DEF Files, Tables, InodeRow
<1>2. \A i : Cardinality(NamesOf(d, i)) \in Nat
  BY NamesFinite
<1>3. \A o, i : Adds(o, i) \in {0, 1} /\ Drops(o, i) \in {0, 1}
  BY DEF Adds, Drops
<1>4. \A o \in MountOps(d.next) : o # Idle => o.i \in 2..(d.next - 1) /\ o.i # Root
  BY DEF MountOps, AddOps, DropOps, MoveOps, CutOps, Root
<1>. QED BY <1>1, <1>2, <1>3, <1>4

\* unlink, rmdir and remove: the name goes, and waits to be uncounted.
LEMMA WholeDropName ==
  ASSUME NEW d, Tables(d), NEW o \in DropOps(d.next), NEW q \in MountOps(d.next), Whole(d, o, q),
         o.at = "drop", Points(d, o.e, o.i), o.dir => Children(d, o.i) = {}
  PROVE  LET d2 == DeleteDentry(d, o.e)
             x == [o EXCEPT !.at = "uncount"]
         IN  Whole(d2, x, q) /\ (Settled(d, o, q) => Settled(d2, x, q))
<1>. DEFINE d2 == DeleteDentry(d, o.e)
            x == [o EXCEPT !.at = "uncount"]
<1>1. /\ Tables(d2)
      /\ d2.next = d.next /\ d2.inode = d.inode /\ d2.data = d.data
      /\ DOMAIN d2.dentry = DOMAIN d.dentry \ {o.e}
      /\ \A y \in DOMAIN d.dentry \ {o.e} : d2.dentry[y] = d.dentry[y]
  BY DeleteDentryEffect
<1>2. x \in DropOps(d.next) /\ x.at = "uncount" /\ x.i = o.i /\ x.e = o.e /\ x.dir = o.dir /\ x.do = o.do
  BY DEF DropOps
<1>. HIDE DEF d2, x
<1>3. o # Idle /\ x # Idle /\ o.do \in {"unlink", "rmdir", "remove"} /\ o.i # Root
  BY <1>2, NotIdle DEF DropOps, Root
<1>4. Unnaming(d, d2, o.e) /\ d.dentry[o.e] = o.i
  BY <1>1 DEF Unnaming, Points
<1>5. /\ NamesOf(d2, o.i) = NamesOf(d, o.i) \ {o.e}
      /\ Cardinality(NamesOf(d2, o.i)) = Cardinality(NamesOf(d, o.i)) - 1
      /\ \A j : j # o.i => NamesOf(d2, j) = NamesOf(d, j)
      /\ \A j : Children(d2, j) = Children(d, j) \ {o.e}
  BY <1>4, NameDropped
<1>6. /\ \A j : IsDir(d2, j) <=> IsDir(d, j)
      /\ Files(d2) = Files(d)
  BY <1>1 DEF IsDir, Files
<1>7. Intact(d) /\ OpOK(d, o) /\ OpOK(d, q) /\ \A i \in Files(d) : Due(d, o, q, i) >= 0
  BY DEF Whole
<1>8. DropOK(d, o)
  BY <1>3, <1>7 DEF OpOK
<1>9. IsDir(d, o.i) => NamesOf(d2, o.i) = {} /\ Children(d, o.i) = {}
  <2>1. IsDir(d, o.i) => o.dir /\ o.i \in DOMAIN d.inode
    BY <1>8 DEF DropOK, IsDir
  <2>2. o.e \in NamesOf(d, o.i)
    BY DEF Points, NamesOf
  <2>3. IsDir(d, o.i) => \A y, z \in NamesOf(d, o.i) : y = z
    BY <1>3, <1>7, <2>1 DEF Intact
  <2>. QED BY <1>5, <2>1, <2>2, <2>3
<1>10. Intact(d2)
  <2>1. IsDir(d2, Root) /\ \A y \in DOMAIN d2.dentry : d2.dentry[y] \in DOMAIN d2.inode /\ IsDir(d2, y[1])
    BY <1>1, <1>6, <1>7 DEF Intact
  <2>2. ASSUME NEW j \in DOMAIN d2.inode, j # Root, IsDir(d2, j)
        PROVE  /\ \A y, z \in NamesOf(d2, j) : y = z
               /\ NamesOf(d2, j) = {} => Children(d2, j) = {}
    <3>1. CASE j = o.i
      BY <1>5, <1>6, <1>9, <2>2, <3>1
    <3>2. CASE j # o.i
      <4>1. j \in DOMAIN d.inode /\ IsDir(d, j) /\ NamesOf(d2, j) = NamesOf(d, j)
        BY <1>1, <1>5, <1>6, <2>2, <3>2
      <4>2. /\ \A y, z \in NamesOf(d, j) : y = z
            /\ NamesOf(d, j) = {} => Children(d, j) = {}
        BY <1>7, <2>2, <4>1 DEF Intact
      <4>. QED BY <1>5, <4>1, <4>2
    <3>. QED BY <3>1, <3>2
  <2>. QED BY <2>1, <2>2 DEF Intact
<1>11. OpOK(d2, x)
  BY <1>1, <1>2, <1>3, <1>6, <1>8, <1>9 DEF OpOK, DropOK
<1>12. OpOK(d2, q)
  BY <1>1, <1>5, <1>7, OpFewer
<1>13. \A i \in Files(d) : Due(d2, x, q, i) = Due(d, o, q, i)
  <2>1. \A i : Adds(x, i) = 0 /\ Adds(o, i) = 0 /\ Drops(o, i) = 0 /\ Drops(x, i) = IF i = o.i THEN 1 ELSE 0
    BY <1>2, <1>3 DEF Adds, Drops
  <2>2. \A i \in Files(d) : Cardinality(NamesOf(d2, i)) = Cardinality(NamesOf(d, i)) - (IF i = o.i THEN 1 ELSE 0)
    BY <1>5, Numbers
  <2>. QED BY <1>1, <2>1, <2>2, Numbers DEF Due
<1>14. Whole(d2, x, q)
  BY <1>6, <1>7, <1>10, <1>11, <1>12, <1>13 DEF Whole
<1>15. ASSUME Settled(d, o, q) PROVE Settled(d2, x, q)
  <2>1. ASSUME NEW i \in Files(d), NamesOf(d2, i) = {} PROVE Settles(x, i) \/ Settles(q, i)
    <3>1. CASE i = o.i
      BY <1>2, <1>3, <3>1 DEF Settles
    <3>2. CASE i # o.i
      <4>1. ~Settles(o, i) /\ NamesOf(d, i) = {}
        BY <1>5, <2>1, <3>2 DEF Settles
      <4>. QED BY <1>15, <4>1 DEF Settled
    <3>. QED BY <3>1, <3>2
  <2>2. \A i \in Files(d) : Due(d, o, q, i) = 0
    BY <1>15 DEF Settled
  <2>. QED BY <1>6, <1>13, <2>1, <2>2 DEF Settled
<1>. QED BY <1>14, <1>15 DEF d2, x

\* The link count follows.
LEMMA WholeDropCount ==
  ASSUME NEW d, Tables(d), NEW o \in DropOps(d.next), NEW q \in MountOps(d.next), Whole(d, o, q), o.at = "uncount"
  PROVE  LET d2 == AddLinks(d, o.i, -1)
             x == [o EXCEPT !.at = IF o.dir THEN "dropparent" ELSE "purge"]
         IN  Whole(d2, x, q) /\ (Settled(d, o, q) => Settled(d2, x, q))
<1>. DEFINE d2 == AddLinks(d, o.i, -1)
            x == [o EXCEPT !.at = IF o.dir THEN "dropparent" ELSE "purge"]
<1>0. -1 \in Int
  OBVIOUS
<1>1. /\ Tables(d2)
      /\ d2.next = d.next /\ d2.dentry = d.dentry /\ d2.data = d.data
      /\ DOMAIN d2.inode = DOMAIN d.inode
      /\ \A j \in DOMAIN d.inode : /\ d2.inode[j].kind = d.inode[j].kind
                                   /\ d2.inode[j].size = d.inode[j].size
                                   /\ d2.inode[j].nlink = d.inode[j].nlink + (IF j = o.i THEN -1 ELSE 0)
  BY <1>0, AddLinksEffect
<1>2. x \in DropOps(d.next) /\ x.i = o.i /\ x.e = o.e /\ x.dir = o.dir /\ x.do = o.do
      /\ (o.dir => x.at = "dropparent") /\ (~o.dir => x.at = "purge")
  BY DEF DropOps
<1>. HIDE DEF d2, x
<1>3. o # Idle /\ x # Idle /\ o.do \in {"unlink", "rmdir", "remove"} /\ o.dir \in BOOLEAN
  BY <1>2, NotIdle DEF DropOps
<1>4. \A j : NamesOf(d2, j) = NamesOf(d, j) /\ Children(d2, j) = Children(d, j)
  BY <1>1, SameEntries
<1>5. /\ \A j : IsDir(d2, j) <=> IsDir(d, j)
      /\ Files(d2) = Files(d)
  BY <1>1 DEF IsDir, Files
<1>6. Intact(d) /\ OpOK(d, o) /\ OpOK(d, q) /\ \A i \in Files(d) : Due(d, o, q, i) >= 0
  BY DEF Whole
<1>7. Intact(d2)
  BY <1>1, <1>4, <1>5, <1>6 DEF Intact
<1>8. DropOK(d, o)
  BY <1>3, <1>6 DEF OpOK
<1>9. OpOK(d2, x)
  BY <1>1, <1>2, <1>3, <1>4, <1>5, <1>8 DEF OpOK, DropOK
<1>10. OpOK(d2, q)
  <2>1. DOMAIN d2.inode = DOMAIN d.inode /\ \A j \in DOMAIN d.inode : d2.inode[j].kind = d.inode[j].kind
    BY <1>1
  <2>2. OpOK(d, q) /\ \A j : NamesOf(d2, j) \subseteq NamesOf(d, j)
    BY <1>4, <1>6
  <2>. QED BY <2>1, <2>2, OpFewer
<1>11. \A i \in Files(d) : Due(d2, x, q, i) = Due(d, o, q, i)
  <2>1. \A i : Adds(x, i) = 0 /\ Adds(o, i) = 0 /\ Drops(x, i) = 0 /\ Drops(o, i) = IF i = o.i THEN 1 ELSE 0
    BY <1>2, <1>3 DEF Adds, Drops
  <2>2. \A i \in Files(d) : d2.inode[i].nlink = d.inode[i].nlink + (IF i = o.i THEN -1 ELSE 0)
    BY <1>1 DEF Files
  <2>. QED BY <1>4, <2>1, <2>2, Numbers DEF Due
<1>12. Whole(d2, x, q)
  BY <1>5, <1>6, <1>7, <1>9, <1>10, <1>11 DEF Whole
<1>13. ASSUME Settled(d, o, q) PROVE Settled(d2, x, q)
  <2>1. \A i \in Files(d) : Settles(o, i) => Settles(x, i)
    <3>1. SUFFICES ASSUME NEW i \in Files(d), Settles(o, i) PROVE Settles(x, i)
      OBVIOUS
    <3>2. i = o.i /\ i \in DOMAIN d.inode /\ ~IsDir(d, i)
      BY <3>1 DEF Settles, Files
    <3>3. x.at = "purge"
      BY <1>2, <1>3, <1>8, <3>2 DEF DropOK
    <3>. QED BY <1>2, <1>3, <3>2, <3>3 DEF Settles
  <2>. QED BY <1>4, <1>5, <1>11, <1>13, <2>1 DEF Settled
<1>. QED BY <1>12, <1>13 DEF d2, x

\* A change of a directory's link count.
LEMMA DirLinks ==
  ASSUME NEW d, Tables(d), NEW i, i \in DOMAIN d.inode => IsDir(d, i), NEW n \in Int
  PROVE  Tables(AddLinks(d, i, n)) /\ Alike(d, AddLinks(d, i, n))
<1>. DEFINE d2 == AddLinks(d, i, n)
<1>1. /\ Tables(d2)
      /\ d2.next = d.next /\ d2.dentry = d.dentry /\ d2.data = d.data
      /\ DOMAIN d2.inode = DOMAIN d.inode
      /\ \A j \in DOMAIN d.inode : /\ d2.inode[j].kind = d.inode[j].kind
                                   /\ d2.inode[j].size = d.inode[j].size
                                   /\ d2.inode[j].nlink = d.inode[j].nlink + (IF j = i THEN n ELSE 0)
  BY AddLinksEffect
<1>. HIDE DEF d2
<1>2. \A j \in DOMAIN d.inode : d.inode[j].nlink \in Int
  BY DEF Tables, InodeRow
<1>3. Alike(d, d2)
  BY <1>1, <1>2 DEF Alike
<1>. QED BY <1>1, <1>3 DEF d2

\* A removed directory's parent counts one link less.
LEMMA WholeDropParent ==
  ASSUME NEW d, Tables(d), NEW o \in DropOps(d.next), NEW q \in MountOps(d.next), Whole(d, o, q), o.at = "dropparent"
  PROVE  LET d2 == AddLinks(d, o.e[1], -1)
             x == [o EXCEPT !.at = "purge"]
         IN  Whole(d2, x, q) /\ (Settled(d, o, q) => Settled(d2, x, q))
<1>. DEFINE d2 == AddLinks(d, o.e[1], -1)
            x == [o EXCEPT !.at = "purge"]
<1>1. x \in DropOps(d.next) /\ x.i = o.i /\ x.e = o.e /\ x.dir = o.dir /\ x.do = o.do /\ x.at = "purge"
  BY DEF DropOps
<1>. HIDE DEF x
<1>2. o # Idle /\ x # Idle /\ o.do \in {"unlink", "rmdir", "remove"} /\ x \in MountOps(d.next)
  BY <1>1, NotIdle DEF DropOps, MountOps
<1>3. DropOK(d, o)
  BY <1>2 DEF Whole, OpOK
<1>4. OpOK(d, x)
  BY <1>1, <1>2, <1>3 DEF OpOK, DropOK
<1>5. \A i : Adds(x, i) = Adds(o, i) /\ Drops(x, i) = Drops(o, i) /\ ~Settles(o, i)
  BY <1>1, <1>2 DEF Adds, Drops, Settles
<1>6. Whole(d, x, q) /\ (Settled(d, o, q) => Settled(d, x, q))
  BY <1>4, <1>5, SwapOp
<1>7. (o.e[1] \in DOMAIN d.inode => IsDir(d, o.e[1])) /\ -1 \in Int
  BY <1>3 DEF DropOK
<1>8. Tables(d2) /\ Alike(d, d2)
  BY <1>7, DirLinks
<1>. HIDE DEF d2
<1>9. (Whole(d, x, q) => Whole(d2, x, q)) /\ (Settled(d, x, q) => Settled(d2, x, q))
  BY <1>2, <1>8, WholeAlike
<1>. QED BY <1>6, <1>9 DEF d2, x

\* What has no link left has no name left.
LEMMA NoLinkNoName ==
  ASSUME NEW d, Tables(d), NEW o \in DropOps(d.next), NEW q \in MountOps(d.next), Whole(d, o, q), o.at = "purge",
         Adds(q, o.i) = 0, get_link_count(d, o.i) = 0
  PROVE  NamesOf(d, o.i) = {}
<1>1. o # Idle /\ o.do \in {"unlink", "rmdir", "remove"}
  BY NotIdle DEF DropOps
<1>2. CASE o.i \notin DOMAIN d.inode
  BY <1>2 DEF Whole, Intact, NamesOf
<1>3. CASE IsDir(d, o.i)
  BY <1>1, <1>3 DEF Whole, OpOK, DropOK
<1>4. CASE o.i \in Files(d)
  <2>1. d.inode[o.i].nlink = 0
    BY <1>4 DEF get_link_count, Files
  <2>2. Adds(o, o.i) = 0
    BY DEF Adds
  <2>3. Due(d, o, q, o.i) >= 0
    BY <1>4 DEF Whole
  <2>4. Cardinality(NamesOf(d, o.i)) = 0
    BY <2>1, <2>2, <2>3, Numbers DEF Due
  <2>. QED BY <2>4, NamesFinite
<1>. QED BY <1>2, <1>3, <1>4 DEF Files

\* The link count is read: at zero the data go, otherwise the file stays.
LEMMA WholePurge ==
  ASSUME NEW d, Tables(d), NEW o \in DropOps(d.next), NEW q \in MountOps(d.next), Whole(d, o, q), o.at = "purge",
         Adds(q, o.i) = 0
  PROVE  /\ get_link_count(d, o.i) = 0 =>
              LET d2 == DeleteData(d, o.i)
                  x == [o EXCEPT !.at = "inode"]
              IN  Whole(d2, x, q) /\ (Settled(d, o, q) => Settled(d2, x, q))
         /\ get_link_count(d, o.i) # 0 =>
              Whole(d, Idle, q) /\ (Settled(d, o, q) => Settled(d, Idle, q))
<1>1. o # Idle /\ o.do \in {"unlink", "rmdir", "remove"}
  BY NotIdle DEF DropOps
<1>2. DropOK(d, o)
  BY <1>1 DEF Whole, OpOK
<1>3. ASSUME get_link_count(d, o.i) = 0
      PROVE  LET d2 == DeleteData(d, o.i)
                 x == [o EXCEPT !.at = "inode"]
             IN  Whole(d2, x, q) /\ (Settled(d, o, q) => Settled(d2, x, q))
  <2>. DEFINE d2 == DeleteData(d, o.i)
              x == [o EXCEPT !.at = "inode"]
  <2>1. x \in DropOps(d.next) /\ x.i = o.i /\ x.e = o.e /\ x.dir = o.dir /\ x.do = o.do /\ x.at = "inode"
    BY DEF DropOps
  <2>. HIDE DEF x
  <2>2. x # Idle /\ x \in MountOps(d.next)
    BY <2>1, NotIdle DEF MountOps
  <2>3. NamesOf(d, o.i) = {}
    BY <1>3, NoLinkNoName
  <2>4. OpOK(d, x)
    BY <1>1, <1>2, <2>1, <2>2, <2>3 DEF OpOK, DropOK
  <2>5. \A i : Adds(x, i) = Adds(o, i) /\ Drops(x, i) = Drops(o, i) /\ (Settles(o, i) => Settles(x, i))
    BY <1>1, <2>1, <2>2 DEF Adds, Drops, Settles
  <2>6. Whole(d, x, q) /\ (Settled(d, o, q) => Settled(d, x, q))
    BY <2>4, <2>5, SwapOp
  <2>7. Tables(d2) /\ d2.next = d.next /\ d2.dentry = d.dentry /\ d2.inode = d.inode
    BY DeleteDataEffect
  <2>. HIDE DEF d2
  <2>8. Alike(d, d2)
    BY <2>7 DEF Alike
  <2>9. (Whole(d, x, q) => Whole(d2, x, q)) /\ (Settled(d, x, q) => Settled(d2, x, q))
    BY <2>2, <2>8, WholeAlike
  <2>. QED BY <2>6, <2>9 DEF d2, x
<1>4. ASSUME get_link_count(d, o.i) # 0
      PROVE  Whole(d, Idle, q) /\ (Settled(d, o, q) => Settled(d, Idle, q))
  <2>1. OpOK(d, Idle) /\ \A i : Adds(Idle, i) = Adds(o, i) /\ Drops(Idle, i) = Drops(o, i)
    BY DEF OpOK, Adds, Drops
  <2>2. ASSUME Settled(d, o, q), NEW i \in Files(d), Settles(o, i), NamesOf(d, i) = {}
        PROVE  Settles(q, i)
    <3>1. i = o.i /\ Due(d, o, q, i) = 0 /\ d.inode[i].nlink # 0
      BY <1>4, <2>2 DEF Settled, Settles, get_link_count, Files
    <3>2. Cardinality(NamesOf(d, i)) = 0 /\ Adds(o, i) = 0 /\ Drops(o, i) = 0 /\ Adds(q, i) = 0
      BY <2>2, <3>1, FS_EmptySet DEF Adds, Drops
    <3>3. Drops(q, i) # 0
      BY <2>2, <3>1, <3>2, Numbers DEF Due
    <3>. QED BY <3>3 DEF Drops, Settles
  <2>. QED BY <2>1, <2>2, SwapOp
<1>. QED BY <1>3, <1>4

\* The inode goes; no name is left that could stand for it.
LEMMA WholeDropInode ==
  ASSUME NEW d, Tables(d), NEW o \in DropOps(d.next), NEW q \in MountOps(d.next), Whole(d, o, q), o.at = "inode",
         Making(q) => q.i # o.i
  PROVE  LET d2 == DeleteInode(d, o.i)
         IN  Whole(d2, Idle, q) /\ (Settled(d, o, q) => Settled(d2, Idle, q))
<1>. DEFINE d2 == DeleteInode(d, o.i)
<1>1. /\ Tables(d2)
      /\ d2.next = d.next /\ d2.dentry = d.dentry /\ d2.data = d.data
      /\ DOMAIN d2.inode = DOMAIN d.inode \ {o.i}
      /\ \A j \in DOMAIN d.inode \ {o.i} : d2.inode[j] = d.inode[j]
  BY DeleteInodeEffect
<1>. HIDE DEF d2
<1>2. o # Idle /\ o.do \in {"unlink", "rmdir", "remove"} /\ o.i # Root /\ d.next \in Nat
  BY NotIdle DEF DropOps, Root, Tables
<1>3. Intact(d) /\ OpOK(d, o) /\ OpOK(d, q) /\ \A i \in Files(d) : Due(d, o, q, i) >= 0
  BY DEF Whole
<1>4. NamesOf(d, o.i) = {}
  BY <1>2, <1>3 DEF OpOK, DropOK
<1>5. \A j : NamesOf(d2, j) = NamesOf(d, j) /\ Children(d2, j) = Children(d, j)
  BY <1>1, SameEntries
<1>6. \A j : j # o.i => (IsDir(d2, j) <=> IsDir(d, j))
  BY <1>1 DEF IsDir
<1>7. Children(d, o.i) = {}
  BY <1>2, <1>3, <1>4 DEF Intact, Children, IsDir
<1>8. Intact(d2)
  <2>1. \A y \in DOMAIN d.dentry : d.dentry[y] # o.i /\ y[1] # o.i
    BY <1>4, <1>7 DEF NamesOf, Children
  <2>2. IsDir(d2, Root) /\ \A y \in DOMAIN d2.dentry : d2.dentry[y] \in DOMAIN d2.inode /\ IsDir(d2, y[1])
    BY <1>1, <1>2, <1>3, <1>6, <2>1 DEF Intact
  <2>. QED BY <1>1, <1>3, <1>5, <1>6, <2>2 DEF Intact
<1>9. OpOK(d2, Idle)
  BY DEF OpOK
<1>10. OpOK(d2, q)
  <2>1. \A j \in 1..(d.next - 1) : j \in DOMAIN d2.inode => j \in DOMAIN d.inode /\ d2.inode[j].kind = d.inode[j].kind
    BY <1>1
  <2>2. Making(q) => q.i \in DOMAIN d2.inode
    BY <1>1, <1>3 DEF OpOK, AddOK, Making
  <2>. QED BY <1>2, <1>3, <1>5, <2>1, <2>2, OpKept
<1>11. \A i \in Files(d2) : i \in Files(d) /\ i # o.i /\ Due(d2, Idle, q, i) = Due(d, o, q, i)
  <2>1. \A i \in Files(d2) : i \in Files(d) /\ i # o.i /\ d2.inode[i] = d.inode[i]
    BY <1>1, <1>6 DEF Files
  <2>2. \A i : i # o.i => Adds(Idle, i) = Adds(o, i) /\ Drops(Idle, i) = Drops(o, i)
    BY DEF Adds, Drops
  <2>. QED BY <1>5, <2>1, <2>2 DEF Due
<1>12. Whole(d2, Idle, q)
  BY <1>3, <1>8, <1>9, <1>10, <1>11 DEF Whole
<1>13. ASSUME Settled(d, o, q) PROVE Settled(d2, Idle, q)
  <2>1. \A i : i # o.i => ~Settles(o, i)
    BY DEF Settles
  <2>. QED BY <1>5, <1>11, <1>13, <2>1 DEF Settled
<1>. QED BY <1>12, <1>13 DEF d2

\* What an operation's name does to the tables.
LEMMA NameGiven ==
  ASSUME NEW d, Tables(d), NEW o \in AddOps(d.next)
  PROVE  LET d2 == InsertDentry(d, o.e, o.i)
         IN  /\ Tables(d2)
             /\ d2.next = d.next /\ d2.inode = d.inode /\ d2.data = d.data
             /\ DOMAIN d2.dentry = DOMAIN d.dentry \union {o.e} /\ d2.dentry[o.e] = o.i
             /\ \A y \in DOMAIN d.dentry : y # o.e => d2.dentry[y] = d.dentry[y]
<1>1. o.e \in Slot(d.next) /\ o.i \in 2..(d.next - 1)
  BY DEF AddOps
<1>2. \A e \in Slot(d.next), i \in 2..(d.next - 1) :
        LET d2 == InsertDentry(d, e, i)
        IN  /\ Tables(d2)
            /\ d2.next = d.next /\ d2.inode = d.inode /\ d2.data = d.data
            /\ DOMAIN d2.dentry = DOMAIN d.dentry \union {e} /\ d2.dentry[e] = i
            /\ \A y \in DOMAIN d.dentry : y # e => d2.dentry[y] = d.dentry[y]
  BY InsertDentryEffect
<1>. QED BY <1>1, <1>2

\* The mount gives a name to what it makes or links.
LEMMA WholeAddName ==
  ASSUME NEW d, Tables(d), NEW o \in AddOps(d.next), NEW q \in SdkOps(d.next), Whole(d, o, q), o.at = "name",
         o.e \notin DOMAIN d.dentry, Present(d, o.e[1]), o.do = "link" => NamesOf(d, o.i) # {},
         Making(o) /\ q # Idle => q.i # o.i
  PROVE  LET d2 == InsertDentry(d, o.e, o.i)
             x == [o EXCEPT !.at = "count"]
         IN  Whole(d2, x, q) /\ (Settled(d, o, q) => Settled(d2, x, q))
<1>. DEFINE d2 == InsertDentry(d, o.e, o.i)
<1>0. o.e \in Slot(d.next) /\ o.i \in 2..(d.next - 1) /\ o.do \in {"mkdir", "mknod", "link"} /\ o.i # Root
  BY DEF AddOps, Root
<1>1. /\ Tables(d2)
      /\ d2.next = d.next /\ d2.inode = d.inode /\ d2.data = d.data
      /\ DOMAIN d2.dentry = DOMAIN d.dentry \union {o.e} /\ d2.dentry[o.e] = o.i
      /\ \A y \in DOMAIN d.dentry : y # o.e => d2.dentry[y] = d.dentry[y]
  BY NameGiven
<1>. DEFINE x == [o EXCEPT !.at = "count"]
<1>2. x \in AddOps(d.next) /\ x.at = "count" /\ x.i = o.i /\ x.e = o.e /\ x.do = o.do
  BY DEF AddOps
<1>. HIDE DEF d2, x
<1>3. o # Idle /\ x # Idle /\ (o.do # "link" => Making(o)) /\ ~Making(x)
  BY <1>0, <1>2, NotIdle DEF Making
<1>4. Naming(d, d2, o.e, o.i)
  BY <1>1 DEF Naming
<1>5. /\ NamesOf(d2, o.i) = NamesOf(d, o.i) \union {o.e}
      /\ Cardinality(NamesOf(d2, o.i)) = Cardinality(NamesOf(d, o.i)) + 1
      /\ \A j : j # o.i => NamesOf(d2, j) = NamesOf(d, j)
      /\ \A j : Children(d2, j) = IF j = o.e[1] THEN Children(d, j) \union {o.e} ELSE Children(d, j)
  BY <1>4, NameAdded
<1>6. /\ \A j : IsDir(d2, j) <=> IsDir(d, j)
      /\ Files(d2) = Files(d)
  BY <1>1 DEF IsDir, Files
<1>7. Intact(d) /\ OpOK(d, o) /\ OpOK(d, q) /\ \A i \in Files(d) : Due(d, o, q, i) >= 0
  BY DEF Whole
<1>8. AddOK(d, o)
  BY <1>0, <1>3, <1>7 DEF OpOK
<1>9. o.i \in DOMAIN d.inode /\ (IsDir(d, o.i) => NamesOf(d, o.i) = {}) /\ (o.do = "link" => ~IsDir(d, o.i))
  <2>1. CASE o.do = "link"
    <3>1. PICK y \in DOMAIN d.dentry : d.dentry[y] = o.i
      BY <2>1 DEF NamesOf
    <3>. QED BY <1>7, <1>8, <2>1, <3>1 DEF Intact, AddOK
  <2>2. CASE o.do # "link"
    BY <1>3, <1>8, <2>2 DEF AddOK
  <2>. QED BY <2>1, <2>2
<1>10. IsDir(d, o.e[1]) /\ (o.e[1] # Root => NamesOf(d, o.e[1]) # {})
  BY <1>7 DEF Present, Intact
<1>11. Intact(d2)
  <2>1. IsDir(d2, Root) /\ \A y \in DOMAIN d2.dentry : d2.dentry[y] \in DOMAIN d2.inode /\ IsDir(d2, y[1])
    <3>1. IsDir(d2, Root)
      BY <1>6, <1>7 DEF Intact
    <3>2. ASSUME NEW y \in DOMAIN d2.dentry PROVE d2.dentry[y] \in DOMAIN d2.inode /\ IsDir(d2, y[1])
      <4>1. CASE y = o.e
        BY <1>1, <1>6, <1>9, <1>10, <4>1
      <4>2. CASE y # o.e
        BY <1>1, <1>6, <1>7, <3>2, <4>2 DEF Intact
      <4>. QED BY <4>1, <4>2
    <3>. QED BY <3>1, <3>2
  <2>2. ASSUME NEW j \in DOMAIN d2.inode, j # Root, IsDir(d2, j)
        PROVE  /\ \A y, z \in NamesOf(d2, j) : y = z
               /\ NamesOf(d2, j) = {} => Children(d2, j) = {}
    <3>0. j \in DOMAIN d.inode /\ IsDir(d, j)
      BY <1>1, <1>6, <2>2
    <3>1. /\ \A y, z \in NamesOf(d, j) : y = z
          /\ NamesOf(d, j) = {} => Children(d, j) = {}
      BY <1>7, <2>2, <3>0 DEF Intact
    <3>2. CASE j = o.i
      BY <1>5, <1>9, <3>0, <3>2
    <3>3. CASE j # o.i
      BY <1>5, <1>10, <2>2, <3>1, <3>3
    <3>. QED BY <3>2, <3>3
  <2>. QED BY <2>1, <2>2 DEF Intact
<1>12. OpOK(d2, x)
  <2>1. AddOK(d2, x)
    BY <1>1, <1>2, <1>3, <1>6, <1>8 DEF AddOK
  <2>. QED BY <1>0, <1>2, <2>1 DEF OpOK
<1>13. OpOK(d2, q)
  <2>1. CASE q = Idle
    BY <2>1 DEF OpOK
  <2>2. CASE q # Idle /\ q.i # o.i
    <3>1. d.next \in Nat /\ q \in MountOps(d.next) /\ ~Making(q)
      BY DEF Tables, SdkOps, MountOps, DropOps, Making
    <3>2. \A j \in 1..(d.next - 1) : j \in DOMAIN d2.inode => j \in DOMAIN d.inode /\ d2.inode[j].kind = d.inode[j].kind
      BY <1>1
    <3>3. NamesOf(d2, q.i) \subseteq NamesOf(d, q.i)
      BY <1>5, <2>2
    <3>. QED BY <1>7, <3>1, <3>2, <3>3, OpKept
  <2>3. CASE q # Idle /\ q.i = o.i
    <3>1. o.do = "link" /\ ~IsDir(d, q.i) /\ NamesOf(d, q.i) # {}
      BY <1>3, <1>9, <2>3
    <3>2. q.do \in {"unlink", "rmdir", "remove"}
      BY <2>3 DEF SdkOps, DropOps
    <3>3. DropOK(d, q)
      BY <1>7, <2>3, <3>2 DEF OpOK
    <3>4. DropOK(d2, q)
      BY <1>1, <1>6, <3>1, <3>3 DEF DropOK
    <3>. QED BY <3>2, <3>4 DEF OpOK
  <2>. QED BY <2>1, <2>2, <2>3
<1>14. \A i \in Files(d) : Due(d2, x, q, i) = Due(d, o, q, i)
  <2>1. \A i : Drops(x, i) = 0 /\ Adds(o, i) = 0 /\ Drops(o, i) = 0 /\ Adds(x, i) = IF i = o.i THEN 1 ELSE 0
    BY <1>2, <1>3 DEF Adds, Drops
  <2>2. \A i \in Files(d) : Cardinality(NamesOf(d2, i)) = Cardinality(NamesOf(d, i)) + (IF i = o.i THEN 1 ELSE 0)
    <3>1. \A i : Cardinality(NamesOf(d, i)) \in Nat
      BY Numbers
    <3>2. Cardinality(NamesOf(d2, o.i)) = Cardinality(NamesOf(d, o.i)) + 1
      BY <1>5
    <3>3. \A i : i # o.i => Cardinality(NamesOf(d2, i)) = Cardinality(NamesOf(d, i)) + 0
      BY <1>5, <3>1
    <3>. QED BY <3>2, <3>3
  <2>. QED BY <1>1, <2>1, <2>2, Numbers DEF Due
<1>15. Whole(d2, x, q)
  BY <1>6, <1>7, <1>11, <1>12, <1>13, <1>14 DEF Whole
<1>16. ASSUME Settled(d, o, q) PROVE Settled(d2, x, q)
  <2>1. ASSUME NEW i \in Files(d), NamesOf(d2, i) = {} PROVE Settles(x, i) \/ Settles(q, i)
    <3>1. i # o.i /\ NamesOf(d, i) = {} /\ ~Settles(o, i)
      BY <1>5, <2>1 DEF Settles
    <3>. QED BY <1>16, <3>1 DEF Settled
  <2>2. \A i \in Files(d) : Due(d, o, q, i) = 0
    BY <1>16 DEF Settled
  <2>. QED BY <1>6, <1>14, <2>1, <2>2 DEF Settled
<1>. QED BY <1>15, <1>16 DEF d2, x

\* The name is taken by now: the operation gives up.
LEMMA WholeGiveUp ==
  ASSUME NEW d, Tables(d), NEW o \in AddOps(d.next), NEW q, Whole(d, o, q), o.at = "name"
  PROVE  /\ Whole(d, Idle, q)
         /\ o.do = "link" /\ Settled(d, o, q) => Settled(d, Idle, q)
<1>1. OpOK(d, Idle) /\ \A i : Adds(Idle, i) = Adds(o, i) /\ Drops(Idle, i) = Drops(o, i)
  BY DEF OpOK, Adds, Drops
<1>2. o.do = "link" => \A i : ~Settles(o, i)
  BY DEF Settles
<1>. QED BY <1>1, <1>2, SwapOp

\* A file counts its new name; a directory counts itself and, later, its parent counts it.
LEMMA WholeAddCount ==
  ASSUME NEW d, Tables(d), NEW o \in AddOps(d.next), NEW q \in MountOps(d.next), Whole(d, o, q), o.at = "count",
         o.do # "mkdir"
  PROVE  LET d2 == AddLinks(d, o.i, 1)
         IN  Whole(d2, Idle, q) /\ (Settled(d, o, q) => Settled(d2, Idle, q))
<1>. DEFINE d2 == AddLinks(d, o.i, 1)
<1>0. 1 \in Int
  OBVIOUS
<1>1. /\ Tables(d2)
      /\ d2.next = d.next /\ d2.dentry = d.dentry /\ d2.data = d.data
      /\ DOMAIN d2.inode = DOMAIN d.inode
      /\ \A j \in DOMAIN d.inode : /\ d2.inode[j].kind = d.inode[j].kind
                                   /\ d2.inode[j].size = d.inode[j].size
                                   /\ d2.inode[j].nlink = d.inode[j].nlink + (IF j = o.i THEN 1 ELSE 0)
  BY <1>0, AddLinksEffect
<1>. HIDE DEF d2
<1>2. o # Idle
  BY NotIdle
<1>3. \A j : NamesOf(d2, j) = NamesOf(d, j) /\ Children(d2, j) = Children(d, j)
  BY <1>1, SameEntries
<1>4. /\ \A j : IsDir(d2, j) <=> IsDir(d, j)
      /\ Files(d2) = Files(d)
  BY <1>1 DEF IsDir, Files
<1>5. Intact(d) /\ OpOK(d, q) /\ \A i \in Files(d) : Due(d, o, q, i) >= 0
  BY DEF Whole
<1>6. Intact(d2)
  BY <1>1, <1>3, <1>4, <1>5 DEF Intact
<1>7. OpOK(d2, q)
  <2>1. DOMAIN d2.inode = DOMAIN d.inode /\ \A j \in DOMAIN d.inode : d2.inode[j].kind = d.inode[j].kind
    BY <1>1
  <2>2. OpOK(d, q) /\ \A j : NamesOf(d2, j) \subseteq NamesOf(d, j)
    BY <1>3, <1>5
  <2>. QED BY <2>1, <2>2, OpFewer
<1>8. \A i \in Files(d) : Due(d2, Idle, q, i) = Due(d, o, q, i)
  <2>1. \A i : Adds(Idle, i) = 0 /\ Drops(o, i) = 0 /\ Drops(Idle, i) = 0 /\ Adds(o, i) = IF i = o.i THEN 1 ELSE 0
    BY <1>2 DEF Adds, Drops
  <2>2. \A i \in Files(d) : d2.inode[i].nlink = d.inode[i].nlink + (IF i = o.i THEN 1 ELSE 0)
    BY <1>1 DEF Files
  <2>. QED BY <1>3, <2>1, <2>2, Numbers DEF Due
<1>9. Whole(d2, Idle, q)
  BY <1>4, <1>5, <1>6, <1>7, <1>8 DEF Whole, OpOK
<1>10. ASSUME Settled(d, o, q) PROVE Settled(d2, Idle, q)
  <2>1. \A i : ~Settles(o, i)
    BY DEF Settles
  <2>. QED BY <1>3, <1>4, <1>8, <1>10, <2>1 DEF Settled
<1>. QED BY <1>9, <1>10 DEF d2

\* mkdir sets the new directory's own count.
LEMMA WholeAddSelf ==
  ASSUME NEW d, Tables(d), NEW o \in AddOps(d.next), NEW q \in MountOps(d.next), Whole(d, o, q), o.at = "count",
         o.do = "mkdir"
  PROVE  LET d2 == [d EXCEPT !.inode[o.i].nlink = 2]
             x == [o EXCEPT !.at = "addparent"]
         IN  Whole(d2, x, q) /\ (Settled(d, o, q) => Settled(d2, x, q))
<1>. DEFINE d2 == [d EXCEPT !.inode[o.i].nlink = 2]
            x == [o EXCEPT !.at = "addparent"]
<1>1. x \in AddOps(d.next) /\ x.i = o.i /\ x.e = o.e /\ x.do = o.do /\ x.at = "addparent"
  BY DEF AddOps
<1>. HIDE DEF x
<1>2. o # Idle /\ x # Idle /\ x \in MountOps(d.next)
  BY <1>1, NotIdle DEF MountOps
<1>3. AddOK(d, o)
  BY <1>2 DEF Whole, OpOK
<1>4. OpOK(d, x)
  BY <1>1, <1>2, <1>3 DEF OpOK, AddOK, Making
<1>5. \A i \in Files(d) : Adds(x, i) = Adds(o, i) /\ Drops(x, i) = Drops(o, i) /\ ~Settles(o, i)
  <2>1. o.i \notin Files(d)
    BY <1>3 DEF AddOK, Files
  <2>. QED BY <1>1, <2>1 DEF Adds, Drops, Settles
<1>6. Whole(d, x, q) /\ (Settled(d, o, q) => Settled(d, x, q))
  BY <1>4, <1>5, SwapOp
<1>7. /\ Tables(d2)
      /\ d2.next = d.next /\ d2.dentry = d.dentry /\ d2.data = d.data
      /\ DOMAIN d2.inode = DOMAIN d.inode
      /\ \A j \in DOMAIN d.inode : /\ d2.inode[j].kind = d.inode[j].kind
                                   /\ j # o.i => d2.inode[j] = d.inode[j]
  BY SetLinksEffect
<1>. HIDE DEF d2
<1>8. Alike(d, d2)
  <2>1. o.i \in DOMAIN d.inode => d.inode[o.i].kind = "dir"
    BY <1>3 DEF AddOK, IsDir
  <2>. QED BY <1>7, <2>1 DEF Alike, IsDir
<1>9. (Whole(d, x, q) => Whole(d2, x, q)) /\ (Settled(d, x, q) => Settled(d2, x, q))
  BY <1>2, <1>8, WholeAlike
<1>. QED BY <1>6, <1>9 DEF d2, x

\* mkdir counts the new directory in its parent.
LEMMA WholeAddParent ==
  ASSUME NEW d, Tables(d), NEW o \in AddOps(d.next), NEW q \in MountOps(d.next), Whole(d, o, q), o.at = "addparent"
  PROVE  LET d2 == AddLinks(d, o.e[1], 1)
         IN  Whole(d2, Idle, q) /\ (Settled(d, o, q) => Settled(d2, Idle, q))
<1>. DEFINE d2 == AddLinks(d, o.e[1], 1)
<1>1. o # Idle /\ o.do \in {"mkdir", "mknod", "link"}
  BY NotIdle DEF AddOps
<1>2. AddOK(d, o)
  BY <1>1 DEF Whole, OpOK
<1>3. OpOK(d, Idle) /\ \A i : Adds(Idle, i) = Adds(o, i) /\ Drops(Idle, i) = Drops(o, i) /\ ~Settles(o, i)
  BY DEF OpOK, Adds, Drops, Settles
<1>4. Whole(d, Idle, q) /\ (Settled(d, o, q) => Settled(d, Idle, q))
  BY <1>3, SwapOp
<1>5. (o.e[1] \in DOMAIN d.inode => IsDir(d, o.e[1])) /\ 1 \in Int
  BY <1>2 DEF AddOK
<1>6. Tables(d2) /\ Alike(d, d2)
  BY <1>5, DirLinks
<1>. HIDE DEF d2
<1>7. (Whole(d, Idle, q) => Whole(d2, Idle, q)) /\ (Settled(d, Idle, q) => Settled(d2, Idle, q))
  BY <1>6, WholeAlike, NotIdle
<1>. QED BY <1>4, <1>7 DEF d2

\* rename, first half: what has the name is dropped, and deleted with its last link.
LEMMA WholeReplaced ==
  ASSUME NEW d, Tables(d), NEW o \in MoveOps(d.next), NEW q \in SdkOps(d.next), Whole(d, o, q),
         MayReplace(d, o.f, o.dir)
  PROVE  LET d1 == Replaced(d, o.f)
         IN  /\ Whole(d1, Idle, q) /\ (Settled(d, o, q) => Settled(d1, Idle, q))
             /\ Points(d, o.e, o.i) => Points(d1, o.e, o.i)
             /\ Present(d, o.f[1]) => Present(d1, o.f[1])
             /\ o.f \notin DOMAIN d1.dentry
<1>. DEFINE d1 == Replaced(d, o.f)
            j == d.dentry[o.f]
<1>1. /\ Tables(d1) /\ d1.next = d.next
      /\ o.f \notin DOMAIN d.dentry => d1 = d
      /\ o.f \in DOMAIN d.dentry =>
           /\ DOMAIN d1.dentry = DOMAIN d.dentry \ {o.f}
           /\ \A y \in DOMAIN d.dentry \ {o.f} : d1.dentry[y] = d.dentry[y]
           /\ DOMAIN d1.inode = IF j \in DOMAIN d.inode /\ d.inode[j].nlink = 1
                                  THEN DOMAIN d.inode \ {j} ELSE DOMAIN d.inode
           /\ \A k \in DOMAIN d1.inode :
                /\ k \in DOMAIN d.inode /\ d1.inode[k].kind = d.inode[k].kind
                /\ d1.inode[k].nlink = d.inode[k].nlink + (IF k = j THEN -1 ELSE 0)
  <2>. DEFINE f == o.f
              w == Replaced(d, f)
              jj == d.dentry[f]
  <2>. HIDE DEF f
  <2>1. /\ Tables(w) /\ w.next = d.next
        /\ f \notin DOMAIN d.dentry => w = d
        /\ f \in DOMAIN d.dentry =>
             /\ DOMAIN w.dentry = DOMAIN d.dentry \ {f}
             /\ \A x \in DOMAIN d.dentry \ {f} : w.dentry[x] = d.dentry[x]
             /\ DOMAIN w.inode = IF jj \in DOMAIN d.inode /\ d.inode[jj].nlink = 1
                                    THEN DOMAIN d.inode \ {jj} ELSE DOMAIN d.inode
             /\ \A k \in DOMAIN w.inode :
                  /\ k \in DOMAIN d.inode /\ w.inode[k].kind = d.inode[k].kind
                  /\ w.inode[k].nlink = d.inode[k].nlink + (IF k = jj THEN -1 ELSE 0)
    BY ReplacedEffect
  <2>. QED BY <2>1 DEF f
<1>. HIDE DEF d1
<1>2. /\ o # Idle /\ o.do = "rename" /\ o.at = "move" /\ d.next \in Nat
      /\ q \in MountOps(d.next) /\ ~Making(q)
      /\ q # Idle => q.at \in {"drop", "uncount", "dropparent", "purge", "inode"}
  <2>1. o # Idle
    BY NotIdle
  <2>. QED BY <2>1 DEF MoveOps, Tables, SdkOps, DropOps, MountOps, Making
<1>3. Intact(d) /\ OpOK(d, o) /\ OpOK(d, q) /\ \A i \in Files(d) : Due(d, o, q, i) >= 0
  BY DEF Whole
<1>4. o.e # o.f
  BY <1>2, <1>3 DEF OpOK, MoveOK
<1>5. /\ OpOK(d, Idle)
      /\ \A k : /\ Adds(Idle, k) = 0 /\ Drops(Idle, k) = 0 /\ Adds(o, k) = 0 /\ Drops(o, k) = 0 /\ Adds(q, k) = 0
                /\ ~Settles(o, k) /\ ~Settles(Idle, k)
  BY <1>2 DEF OpOK, Adds, Drops, Settles
<1>6. CASE o.f \notin DOMAIN d.dentry
  <2>1. Whole(d, Idle, q) /\ (Settled(d, o, q) => Settled(d, Idle, q))
    BY <1>5, SwapOp
  <2>. QED BY <1>1, <1>6, <2>1 DEF d1
<1>7. CASE o.f \in DOMAIN d.dentry
  <2>1. Unnaming(d, d1, o.f)
    BY <1>1, <1>7 DEF Unnaming
  <2>2. /\ NamesOf(d1, j) = NamesOf(d, j) \ {o.f}
        /\ Cardinality(NamesOf(d1, j)) = Cardinality(NamesOf(d, j)) - 1
        /\ \A k : k # j => NamesOf(d1, k) = NamesOf(d, k)
        /\ \A k : Children(d1, k) = Children(d, k) \ {o.f}
    BY <2>1, NameDropped
  <2>3. /\ j \in DOMAIN d.inode /\ j # Root
        /\ IsDir(d, o.f[1]) /\ o.f \in NamesOf(d, j) /\ o.f \in Children(d, o.f[1])
    BY <1>3, <1>7 DEF Intact, Tables, Root, NamesOf, Children
  <2>4. (IsDir(d, j) <=> o.dir) /\ (o.dir => Children(d, j) = {})
    BY <1>7 DEF MayReplace
  <2>. HIDE DEF j
  <2>5. o.f[1] # j
    BY <2>3, <2>4
  <2>6. IsDir(d, j) => NamesOf(d1, j) = {} /\ Children(d, j) = {}
    <3>1. IsDir(d, j) => \A y, z \in NamesOf(d, j) : y = z
      BY <1>3, <2>3 DEF Intact
    <3>. QED BY <2>2, <2>3, <2>4, <3>1
  <2>7. j \notin DOMAIN d1.inode => NamesOf(d1, j) = {}
    <3>1. CASE IsDir(d, j)
      BY <2>6, <3>1
    <3>2. CASE ~IsDir(d, j)
      <4>1. j \in Files(d)
        BY <2>3, <3>2 DEF Files
      <4>2. Due(d, o, q, j) >= 0 /\ Drops(q, j) \in {0, 1} /\ Cardinality(NamesOf(d, j)) \in Nat
        BY <1>3, <4>1, Numbers
      <4>3. SUFFICES ASSUME j \notin DOMAIN d1.inode PROVE NamesOf(d1, j) = {}
        OBVIOUS
      <4>4. d.inode[j].nlink = 1
        BY <1>1, <1>7, <2>3, <4>3 DEF j
      <4>5. 1 + 0 + 0 - Cardinality(NamesOf(d, j)) - 0 - Drops(q, j) >= 0
        BY <1>5, <4>2, <4>4 DEF Due
      <4>6. Cardinality(NamesOf(d1, j)) \in Nat /\ Cardinality(NamesOf(d1, j)) = Cardinality(NamesOf(d, j)) - 1
        BY <1>1, <2>2, NamesFinite
      <4>7. Cardinality(NamesOf(d1, j)) = 0
        BY <4>2, <4>5, <4>6
      <4>. QED BY <1>1, <4>7, NamesFinite
    <3>. QED BY <3>1, <3>2
  <2>8. /\ \A k \in DOMAIN d1.inode : /\ k \in DOMAIN d.inode /\ d1.inode[k].kind = d.inode[k].kind
                                      /\ d1.inode[k].nlink = d.inode[k].nlink + (IF k = j THEN -1 ELSE 0)
        /\ \A k \in DOMAIN d.inode : k # j => k \in DOMAIN d1.inode
        /\ DOMAIN d1.dentry = DOMAIN d.dentry \ {o.f}
        /\ \A y \in DOMAIN d.dentry \ {o.f} : d1.dentry[y] = d.dentry[y]
    BY <1>1, <1>7 DEF j
  <2>9. /\ \A k : IsDir(d1, k) => IsDir(d, k)
        /\ \A k : k # j => (IsDir(d1, k) <=> IsDir(d, k))
        /\ \A k \in Files(d1) : k \in Files(d)
    BY <2>8 DEF IsDir, Files
  <2>10. Intact(d1)
    <3>1. IsDir(d1, Root)
      BY <1>3, <2>3, <2>9 DEF Intact
    <3>2. ASSUME NEW y \in DOMAIN d1.dentry PROVE d1.dentry[y] \in DOMAIN d1.inode /\ IsDir(d1, y[1])
      <4>1. y \in DOMAIN d.dentry /\ d1.dentry[y] = d.dentry[y] /\ y # o.f
        BY <2>8, <3>2
      <4>2. d.dentry[y] \in DOMAIN d.inode /\ IsDir(d, y[1])
        BY <1>3, <4>1 DEF Intact
      <4>3. d1.dentry[y] \in DOMAIN d1.inode
        <5>1. CASE d.dentry[y] = j
          BY <2>7, <3>2, <4>1, <5>1 DEF NamesOf
        <5>2. CASE d.dentry[y] # j
          BY <2>8, <4>1, <4>2, <5>2
        <5>. QED BY <5>1, <5>2
      <4>4. y[1] # j
        <5>1. y \in Children(d, y[1])
          BY <4>1 DEF Children
        <5>. QED BY <2>6, <4>2, <5>1
      <4>. QED BY <2>9, <4>2, <4>3, <4>4
    <3>3. ASSUME NEW k \in DOMAIN d1.inode, k # Root, IsDir(d1, k)
          PROVE  /\ \A y, z \in NamesOf(d1, k) : y = z
                 /\ NamesOf(d1, k) = {} => Children(d1, k) = {}
      <4>1. k \in DOMAIN d.inode /\ IsDir(d, k)
        BY <2>8, <2>9, <3>3
      <4>2. /\ \A y, z \in NamesOf(d, k) : y = z
            /\ NamesOf(d, k) = {} => Children(d, k) = {}
        BY <1>3, <3>3, <4>1 DEF Intact
      <4>3. CASE k = j
        BY <2>2, <2>6, <4>1, <4>3
      <4>4. CASE k # j
        BY <2>2, <4>2, <4>4
      <4>. QED BY <4>3, <4>4
    <3>. QED BY <3>1, <3>2, <3>3 DEF Intact
  <2>11. OpOK(d1, q)
    <3>1. \A k \in 1..(d.next - 1) : k \in DOMAIN d1.inode => k \in DOMAIN d.inode /\ d1.inode[k].kind = d.inode[k].kind
      BY <2>8
    <3>2. q # Idle => NamesOf(d1, q.i) \subseteq NamesOf(d, q.i)
      BY <2>2
    <3>. QED BY <1>2, <1>3, <3>1, <3>2, OpKept
  <2>12. \A k \in Files(d1) : Due(d1, Idle, q, k) = Due(d, o, q, k)
    <3>1. SUFFICES ASSUME NEW k \in Files(d1) PROVE Due(d1, Idle, q, k) = Due(d, o, q, k)
      OBVIOUS
    <3>2. /\ k \in DOMAIN d1.inode /\ k \in Files(d) /\ d.inode[k].nlink \in Int
          /\ Drops(q, k) \in Int /\ Cardinality(NamesOf(d, k)) \in Int
      BY <2>9, Numbers DEF Files
    <3>3. CASE k = j
      <4>1. d1.inode[k].nlink = d.inode[k].nlink - 1 /\ Cardinality(NamesOf(d1, k)) = Cardinality(NamesOf(d, k)) - 1
        BY <2>2, <2>8, <3>2, <3>3
      <4>. QED BY <1>5, <3>2, <4>1 DEF Due
    <3>4. CASE k # j
      <4>1. d1.inode[k].nlink = d.inode[k].nlink /\ Cardinality(NamesOf(d1, k)) = Cardinality(NamesOf(d, k))
        BY <2>2, <2>8, <3>2, <3>4
      <4>. QED BY <1>5, <3>2, <4>1 DEF Due
    <3>. QED BY <3>3, <3>4
  <2>13. Whole(d1, Idle, q)
    BY <1>3, <2>9, <2>10, <2>11, <2>12 DEF Whole, OpOK
  <2>14. ASSUME Settled(d, o, q) PROVE Settled(d1, Idle, q)
    <3>1. ASSUME NEW k \in Files(d1), NamesOf(d1, k) = {} PROVE Settles(q, k)
      <4>1. k \in Files(d) /\ k \in DOMAIN d1.inode
        BY <2>9, <3>1 DEF Files
      <4>2. CASE k = j
        <5>1. d1.inode[k].nlink # 0
          <6>1. d.inode[j].nlink # 1
            BY <1>1, <1>7, <2>3, <4>1, <4>2 DEF j
          <6>. QED BY <2>8, <4>1, <4>2, <6>1, Numbers
        <5>2. Due(d1, Idle, q, k) = 0
          BY <2>12, <2>14, <3>1, <4>1 DEF Settled
        <5>3. Cardinality(NamesOf(d1, k)) = 0 /\ d1.inode[k].nlink \in Int /\ Drops(q, k) \in {0, 1}
          BY <1>1, <3>1, FS_EmptySet, Numbers
        <5>4. Drops(q, k) # 0
          BY <1>5, <5>1, <5>2, <5>3 DEF Due
        <5>. QED BY <5>4 DEF Drops, Settles
      <4>3. CASE k # j
        BY <1>5, <2>2, <2>14, <3>1, <4>1, <4>3 DEF Settled
      <4>. QED BY <4>2, <4>3
    <3>2. \A k \in Files(d1) : Due(d1, Idle, q, k) = 0
      BY <2>9, <2>12, <2>14 DEF Settled
    <3>. QED BY <3>1, <3>2 DEF Settled
  <2>15. Points(d, o.e, o.i) => Points(d1, o.e, o.i)
    BY <1>4, <2>8 DEF Points
  <2>16. Present(d, o.f[1]) => Present(d1, o.f[1])
    BY <2>2, <2>3, <2>5, <2>9 DEF Present
  <2>17. o.f \notin DOMAIN d1.dentry
    BY <2>8
  <2>. QED BY <2>13, <2>14, <2>15, <2>16, <2>17 DEF d1
<1>. QED BY <1>6, <1>7

\* rename, second half: the name moves.
Renaming(d, d2, e, f) ==
    /\ e \in DOMAIN d.dentry /\ f \notin DOMAIN d.dentry
    /\ DOMAIN d2.dentry = (DOMAIN d.dentry \ {e}) \union {f} /\ d2.dentry[f] = d.dentry[e]
    /\ \A x \in DOMAIN d.dentry \ {e} : d2.dentry[x] = d.dentry[x]

\* No inode gains or loses a name by it.
LEMMA NameMoved ==
  ASSUME NEW d, Tables(d), NEW d2, NEW e, NEW f, Renaming(d, d2, e, f)
  PROVE  /\ NamesOf(d2, d.dentry[e]) = (NamesOf(d, d.dentry[e]) \ {e}) \union {f}
         /\ e \in NamesOf(d, d.dentry[e])
         /\ \A j : j # d.dentry[e] => NamesOf(d2, j) = NamesOf(d, j)
         /\ \A j : Cardinality(NamesOf(d2, j)) = Cardinality(NamesOf(d, j))
         /\ \A j : Children(d2, j) \subseteq Children(d, j) \union (IF j = f[1] THEN {f} ELSE {})
<1>. DEFINE i == d.dentry[e]
            A == NamesOf(d, i)
<1>1. NamesOf(d2, i) = (A \ {e}) \union {f} /\ e \in A /\ f \notin A
  BY DEF NamesOf, Renaming
<1>2. \A j : j # i => NamesOf(d2, j) = NamesOf(d, j)
  BY DEF NamesOf, Renaming
<1>3. \A j : Children(d2, j) \subseteq Children(d, j) \union (IF j = f[1] THEN {f} ELSE {})
  BY DEF Children, Renaming
<1>4. IsFiniteSet(A)
  BY NamesFinite
<1>. HIDE DEF A
<1>5. IsFiniteSet(A \ {e}) /\ Cardinality(A \ {e}) = Cardinality(A) - 1
  BY <1>1, <1>4, FS_RemoveElement
<1>6. Cardinality((A \ {e}) \union {f}) = Cardinality(A \ {e}) + 1
  BY <1>1, <1>5, FS_AddElement
<1>7. Cardinality(A) \in Nat
  BY <1>4, FS_CardinalityType
<1>8. Cardinality(NamesOf(d2, i)) = Cardinality(NamesOf(d, i))
  BY <1>1, <1>5, <1>6, <1>7 DEF A
<1>. QED BY <1>1, <1>2, <1>3, <1>8 DEF A

\* The names and links of every inode are as many as before.
LEMMA WholeMoved ==
  ASSUME NEW d, Tables(d), NEW e \in Slot(d.next), NEW f \in Slot(d.next), NEW dir \in BOOLEAN,
         NEW q \in SdkOps(d.next), Whole(d, Idle, q),
         e \in DOMAIN d.dentry, f \notin DOMAIN d.dentry, Present(d, f[1])
  PROVE  LET d2 == Moved(d, e, f, dir)
         IN  Whole(d2, Idle, q) /\ (Settled(d, Idle, q) => Settled(d2, Idle, q))
<1>. DEFINE d2 == Moved(d, e, f, dir)
            i == d.dentry[e]
<1>1. /\ Tables(d2) /\ d2.next = d.next
      /\ DOMAIN d2.inode = DOMAIN d.inode
      /\ \A k \in DOMAIN d.inode :
           /\ d2.inode[k].kind = d.inode[k].kind
           /\ k \notin {e[1], f[1]} => d2.inode[k].nlink = d.inode[k].nlink
      /\ e \in DOMAIN d.dentry =>
           /\ DOMAIN d2.dentry = (DOMAIN d.dentry \ {e}) \union {f} /\ d2.dentry[f] = d.dentry[e]
           /\ \A x \in DOMAIN d.dentry \ {e} : x # f => d2.dentry[x] = d.dentry[x]
  BY MovedEffect
<1>. HIDE DEF d2
<1>2. Renaming(d, d2, e, f)
  BY <1>1 DEF Renaming
<1>3. /\ NamesOf(d2, i) = (NamesOf(d, i) \ {e}) \union {f}
      /\ e \in NamesOf(d, i)
      /\ \A j : j # i => NamesOf(d2, j) = NamesOf(d, j)
      /\ \A j : Cardinality(NamesOf(d2, j)) = Cardinality(NamesOf(d, j))
      /\ \A j : Children(d2, j) \subseteq Children(d, j) \union (IF j = f[1] THEN {f} ELSE {})
  BY <1>2, NameMoved
<1>4. /\ \A j : IsDir(d2, j) <=> IsDir(d, j)
      /\ Files(d2) = Files(d)
  BY <1>1 DEF IsDir, Files
<1>5. Intact(d) /\ OpOK(d, q) /\ \A j \in Files(d) : Due(d, Idle, q, j) >= 0
  BY DEF Whole
<1>6. i \in DOMAIN d.inode /\ IsDir(d, e[1]) /\ IsDir(d, f[1]) /\ (f[1] # Root => NamesOf(d, f[1]) # {})
  BY <1>5 DEF Intact, Present
<1>7. \A j : NamesOf(d2, j) = {} <=> NamesOf(d, j) = {}
  BY <1>3
<1>8. Intact(d2)
  <2>1. IsDir(d2, Root)
    BY <1>4, <1>5 DEF Intact
  <2>2. ASSUME NEW y \in DOMAIN d2.dentry PROVE d2.dentry[y] \in DOMAIN d2.inode /\ IsDir(d2, y[1])
    <3>1. CASE y = f
      BY <1>1, <1>4, <1>6, <3>1
    <3>2. CASE y # f
      <4>1. y \in DOMAIN d.dentry /\ d2.dentry[y] = d.dentry[y]
        BY <1>1, <2>2, <3>2
      <4>. QED BY <1>1, <1>4, <1>5, <4>1 DEF Intact
    <3>. QED BY <3>1, <3>2
  <2>3. ASSUME NEW j \in DOMAIN d2.inode, j # Root, IsDir(d2, j)
        PROVE  /\ \A y, z \in NamesOf(d2, j) : y = z
               /\ NamesOf(d2, j) = {} => Children(d2, j) = {}
    <3>1. j \in DOMAIN d.inode /\ IsDir(d, j)
      BY <1>1, <1>4, <2>3
    <3>2. /\ \A y, z \in NamesOf(d, j) : y = z
          /\ NamesOf(d, j) = {} => Children(d, j) = {}
      BY <1>5, <2>3, <3>1 DEF Intact
    <3>3. \A y, z \in NamesOf(d2, j) : y = z
      <4>1. CASE j = i
        BY <1>3, <3>2, <4>1
      <4>2. CASE j # i
        BY <1>3, <3>2, <4>2
      <4>. QED BY <4>1, <4>2
    <3>4. NamesOf(d2, j) = {} => Children(d2, j) = {}
      BY <1>3, <1>6, <1>7, <2>3, <3>2
    <3>. QED BY <3>3, <3>4
  <2>. QED BY <2>1, <2>2, <2>3 DEF Intact
<1>9. OpOK(d2, q)
  <2>1. CASE q = Idle
    BY <2>1 DEF OpOK
  <2>2. CASE q # Idle
    <3>1. q.do \in {"unlink", "rmdir", "remove"}
      BY <2>2 DEF SdkOps, DropOps
    <3>2. DropOK(d, q)
      BY <1>5, <2>2, <3>1 DEF OpOK
    <3>3. DropOK(d2, q)
      BY <1>1, <1>4, <1>7, <3>2 DEF DropOK
    <3>. QED BY <3>1, <3>3 DEF OpOK
  <2>. QED BY <2>1, <2>2
<1>10. \A j \in Files(d) : Due(d2, Idle, q, j) = Due(d, Idle, q, j)
  <2>1. \A j \in Files(d) : d2.inode[j].nlink = d.inode[j].nlink
    BY <1>1, <1>6 DEF Files
  <2>. QED BY <1>3, <2>1 DEF Due
<1>11. Whole(d2, Idle, q)
  BY <1>4, <1>5, <1>8, <1>9, <1>10 DEF Whole, OpOK
<1>12. Settled(d, Idle, q) => Settled(d2, Idle, q)
  BY <1>4, <1>7, <1>10 DEF Settled
<1>. QED BY <1>11, <1>12 DEF d2

\* rename's transaction.
LEMMA WholeMove ==
  ASSUME NEW d, Tables(d), NEW o \in MoveOps(d.next), NEW q \in SdkOps(d.next), Whole(d, o, q),
         MayReplace(d, o.f, o.dir), Points(d, o.e, o.i), Present(d, o.f[1])
  PROVE  LET d2 == Moved(Replaced(d, o.f), o.e, o.f, o.dir)
         IN  Whole(d2, Idle, q) /\ (Settled(d, o, q) => Settled(d2, Idle, q))
<1>. DEFINE d1 == Replaced(d, o.f)
<1>1. /\ Whole(d1, Idle, q) /\ (Settled(d, o, q) => Settled(d1, Idle, q))
      /\ Points(d1, o.e, o.i) /\ Present(d1, o.f[1]) /\ o.f \notin DOMAIN d1.dentry
  BY WholeReplaced
<1>2. Tables(d1) /\ d1.next = d.next
  <2>1. Tables(d)
    OBVIOUS
  <2>2. \A f : Tables(Replaced(d, f)) /\ Replaced(d, f).next = d.next
    BY ReplacedEffect
  <2>. QED BY <2>2
<1>3. o.e \in Slot(d1.next) /\ o.f \in Slot(d1.next) /\ o.dir \in BOOLEAN /\ q \in SdkOps(d1.next)
  BY <1>2 DEF MoveOps
<1>. HIDE DEF d1
<1>4. o.e \in DOMAIN d1.dentry
  BY <1>1 DEF Points
<1>. DEFINE e == o.e
            f == o.f
            dir == o.dir
            d2 == Moved(d1, e, f, dir)
<1>5. /\ e \in Slot(d1.next) /\ f \in Slot(d1.next) /\ dir \in BOOLEAN /\ q \in SdkOps(d1.next)
      /\ e \in DOMAIN d1.dentry /\ f \notin DOMAIN d1.dentry /\ Present(d1, f[1])
  BY <1>1, <1>3, <1>4
<1>. HIDE DEF e, f, dir
<1>6. Whole(d2, Idle, q) /\ (Settled(d1, Idle, q) => Settled(d2, Idle, q))
  BY <1>1, <1>2, <1>5, WholeMoved
<1>. QED BY <1>1, <1>6 DEF d1, e, f, dir

\* An operation begins, or ends without having changed a name.
LEMMA WholeBegin ==
  ASSUME NEW d, NEW q, NEW x, Whole(d, Idle, q), OpOK(d, x), x # Idle => x.at \notin {"count", "uncount"}
  PROVE  Whole(d, x, q) /\ (Settled(d, Idle, q) => Settled(d, x, q))
<1>1. \A i : Adds(x, i) = Adds(Idle, i) /\ Drops(x, i) = Drops(Idle, i) /\ ~Settles(Idle, i)
  BY DEF Adds, Drops, Settles
<1>. QED BY <1>1, SwapOp

\* rename or truncate ends, its transaction apart.
LEMMA WholeEnd ==
  ASSUME NEW d, NEW o, NEW q, Whole(d, o, q), o.at \in {"move", "cut"}
  PROVE  Whole(d, Idle, q) /\ (Settled(d, o, q) => Settled(d, Idle, q))
<1>1. /\ OpOK(d, Idle)
      /\ \A i : Adds(o, i) = Adds(Idle, i) /\ Drops(o, i) = Drops(Idle, i)
  BY DEF OpOK, Adds, Drops
<1>2. \A i : Settles(o, i) => o.do = "mknod" /\ o.at = "name"
  BY DEF Settles
<1>. QED BY <1>1, <1>2, SwapOp

\* mkdir and mknod make an inode that has neither names nor links yet.
LEMMA WholeMake ==
  ASSUME NEW d, Tables(d), NEW e \in Slot(d.next), IsDir(d, e[1]), NEW q \in SdkOps(d.next), Whole(d, Idle, q),
         NEW kind, NEW do, (kind = "dir" /\ do = "mkdir") \/ (kind = "node" /\ do = "mknod")
  PROVE  LET d2 == InsertInode(d, kind, 0, 0)
             x == [do |-> do, e |-> e, i |-> d.next, at |-> "name"]
         IN  Whole(d2, x, q) /\ (Settled(d, Idle, q) => Settled(d2, x, q))
<1>. DEFINE d2 == InsertInode(d, kind, 0, 0)
            x == [do |-> do, e |-> e, i |-> d.next, at |-> "name"]
<1>0. kind \in Kinds /\ 0 \in Int /\ 0 \in Nat
  BY DEF Kinds
<1>1. /\ Tables(d2)
      /\ d2.next = d.next + 1 /\ d2.dentry = d.dentry /\ d2.data = d.data
      /\ DOMAIN d2.inode = DOMAIN d.inode \union {d.next} /\ d.next \notin DOMAIN d.inode
      /\ d2.inode[d.next] = [kind |-> kind, nlink |-> 0, size |-> 0]
      /\ \A j \in DOMAIN d.inode : d2.inode[j] = d.inode[j]
  BY <1>0, InsertInodeEffect
<1>2. x.do = do /\ x.e = e /\ x.i = d.next /\ x.at = "name" /\ x # Idle
  BY DEF Idle
<1>. HIDE DEF d2, x
<1>3. d.next \in Nat /\ d.next # Root /\ \A y \in DOMAIN d.dentry : y[1] # d.next /\ d.dentry[y] # d.next
  BY DEF Tables, Slot, Root
<1>4. /\ \A j : NamesOf(d2, j) = NamesOf(d, j) /\ Children(d2, j) = Children(d, j)
      /\ NamesOf(d, d.next) = {} /\ Children(d, d.next) = {}
  BY <1>1, <1>3, SameEntries DEF NamesOf, Children
<1>5. /\ \A j : j # d.next => (IsDir(d2, j) <=> IsDir(d, j))
      /\ IsDir(d2, d.next) <=> kind = "dir"
      /\ \A j \in Files(d2) : j # d.next => j \in Files(d)
      /\ d.next \in Files(d2) <=> kind # "dir"
  BY <1>1 DEF IsDir, Files
<1>6. Intact(d) /\ OpOK(d, q) /\ \A i \in Files(d) : Due(d, Idle, q, i) >= 0
  BY DEF Whole
<1>7. Intact(d2)
  <2>1. IsDir(d2, Root) /\ \A y \in DOMAIN d2.dentry : d2.dentry[y] \in DOMAIN d2.inode /\ IsDir(d2, y[1])
    BY <1>1, <1>3, <1>5, <1>6 DEF Intact
  <2>2. ASSUME NEW j \in DOMAIN d2.inode, j # Root, IsDir(d2, j)
        PROVE  /\ \A y, z \in NamesOf(d2, j) : y = z
               /\ NamesOf(d2, j) = {} => Children(d2, j) = {}
    <3>1. CASE j = d.next
      BY <1>4, <3>1
    <3>2. CASE j # d.next
      <4>1. j \in DOMAIN d.inode /\ IsDir(d, j)
        BY <1>1, <1>5, <2>2, <3>2
      <4>. QED BY <1>4, <1>6, <2>2, <4>1 DEF Intact
    <3>. QED BY <3>1, <3>2
  <2>. QED BY <2>1, <2>2 DEF Intact
<1>8. OpOK(d2, x)
  <2>1. IsDir(d2, e[1])
    <3>1. e[1] # d.next
      BY <1>1 DEF IsDir
    <3>. QED BY <1>5, <3>1
  <2>2. AddOK(d2, x)
    BY <1>1, <1>2, <1>4, <1>5, <2>1 DEF AddOK
  <2>. QED BY <1>2, <2>2 DEF OpOK
<1>9. OpOK(d2, q)
  <2>1. q \in MountOps(d.next) /\ ~Making(q)
    BY DEF SdkOps, DropOps, MountOps, Making
  <2>2. \A j \in 1..(d.next - 1) : j \in DOMAIN d2.inode => j \in DOMAIN d.inode /\ d2.inode[j].kind = d.inode[j].kind
    BY <1>1, <1>3
  <2>. QED BY <1>3, <1>4, <1>6, <2>1, <2>2, OpKept
<1>10. \A i : Adds(x, i) = 0 /\ Drops(x, i) = 0 /\ Adds(Idle, i) = 0 /\ Drops(Idle, i) = 0 /\ ~Settles(Idle, i)
  BY <1>2 DEF Adds, Drops, Settles
<1>11. Due(d2, x, q, d.next) = 0
  <2>1. Adds(q, d.next) = 0 /\ Drops(q, d.next) = 0
    <3>1. q # Idle => q.i \in 2..(d.next - 1)
      BY DEF SdkOps, DropOps
    <3>2. q # Idle => q.i # d.next
      BY <1>3, <3>1
    <3>. QED BY <3>2 DEF Adds, Drops
  <2>2. d2.inode[d.next].nlink = 0 /\ Cardinality(NamesOf(d2, d.next)) = 0
    BY <1>1, <1>4, FS_EmptySet
  <2>. QED BY <1>10, <2>1, <2>2 DEF Due
<1>12. \A i \in Files(d2) : i # d.next => Due(d2, x, q, i) = Due(d, Idle, q, i)
  <2>1. \A i \in Files(d2) : i # d.next => d2.inode[i] = d.inode[i]
    BY <1>1 DEF Files
  <2>. QED BY <1>4, <1>10, <2>1 DEF Due
<1>13. Whole(d2, x, q)
  BY <1>5, <1>6, <1>7, <1>8, <1>9, <1>11, <1>12 DEF Whole
<1>14. ASSUME Settled(d, Idle, q) PROVE Settled(d2, x, q)
  <2>1. ASSUME NEW i \in Files(d2), NamesOf(d2, i) = {} PROVE Settles(x, i) \/ Settles(q, i)
    <3>1. CASE i = d.next
      <4>1. do = "mknod"
        BY <1>5, <2>1, <3>1
      <4>. QED BY <1>2, <3>1, <4>1 DEF Settles
    <3>2. CASE i # d.next
      BY <1>4, <1>5, <1>10, <1>14, <2>1, <3>2 DEF Settled
    <3>. QED BY <3>1, <3>2
  <2>2. ASSUME NEW i \in Files(d2) PROVE Due(d2, x, q, i) = 0
    BY <1>5, <1>11, <1>12, <1>14 DEF Settled
  <2>. QED BY <2>1, <2>2 DEF Settled
<1>. QED BY <1>13, <1>14 DEF d2, x

\* A crash drops what was in flight: names may then stay counted, never uncounted.
LEMMA WholeCrash ==
  ASSUME NEW d, Tables(d), NEW o \in MountOps(d.next), NEW q \in SdkOps(d.next), Whole(d, o, q),
         ~(o # Idle /\ o.at = "count" /\ o.do # "mkdir")
  PROVE  Whole(d, Idle, Idle)
<1>1. ASSUME NEW i \in Files(d) PROVE Due(d, Idle, Idle, i) >= 0
  <2>1. Adds(o, i) = 0
    <3>1. SUFFICES ASSUME o # Idle, o.at = "count", o.i = i PROVE FALSE
      BY DEF Adds
    <3>2. o.do = "mkdir" /\ i \in DOMAIN d.inode /\ ~IsDir(d, i)
      BY <1>1, <3>1 DEF Files
    <3>. QED BY <3>1, <3>2 DEF Whole, OpOK, AddOK
  <2>2. Adds(q, i) = 0
    BY DEF Adds, SdkOps, DropOps
  <2>3. Adds(Idle, i) = 0 /\ Drops(Idle, i) = 0
    BY DEF Adds, Drops
  <2>4. Due(d, o, q, i) >= 0
    BY <1>1 DEF Whole
  <2>5. d.inode[i].nlink \in Int /\ Cardinality(NamesOf(d, i)) \in Nat /\ Drops(o, i) \in {0, 1} /\ Drops(q, i) \in {0, 1}
    BY <1>1, Numbers
  <2>. QED BY <2>1, <2>2, <2>3, <2>4, <2>5 DEF Due
<1>. QED BY <1>1 DEF Whole, OpOK

-----------------------------------------------------------------------------
(* Names and links are kept by every step.                                 *)

\* What a step of one actor has to show.
LEMMA Turn ==
  ASSUME Types, Types', NamesInv, LeakInv, NEW a \in Actors, NEW b \in Actors, a # b,
         torn \subseteq torn', crashes' = crashes,
         Sound /\ Sound' /\ Whole(db, op[a], op[b]) => Whole(db', op'[a], op'[b]),
         torn' = {} /\ Whole(db, op[a], op[b]) /\ Settled(db, op[a], op[b]) => Settled(db', op'[a], op'[b]),
         Sound /\ Sound' /\ Whole(db, op[a], op[b]) /\ Hidden(cache, op["mount"], op["sdk"])
           => Hidden(cache', op'["mount"], op'["sdk"])
  PROVE  NamesInv' /\ LeakInv'
<1>1. Tables(db) /\ Tables(db')
  BY DEF Types
<1>2. (a = "mount" /\ b = "sdk") \/ (a = "sdk" /\ b = "mount")
  BY DEF Actors
<1>3. /\ \A o, q : Whole(db, o, q) => Whole(db, q, o)
      /\ \A o, q : Settled(db, o, q) => Settled(db, q, o)
      /\ \A o, q : Whole(db', o, q) => Whole(db', q, o)
      /\ \A o, q : Settled(db', o, q) => Settled(db', q, o)
  BY <1>1, WholeSym
<1>4. Sound' => Sound
  BY DEF Sound
<1>5. Sound => Whole(db, op[a], op[b]) /\ Hidden(cache, op["mount"], op["sdk"])
  BY <1>2, <1>3 DEF NamesInv
<1>6. torn' = {} => torn = {} /\ Sound /\ Sound'
  BY DEF Sound
<1>7. NamesInv'
  BY <1>2, <1>3, <1>4, <1>5 DEF NamesInv
<1>8. LeakInv'
  <2>1. SUFFICES ASSUME torn' = {}, crashes' = 0 PROVE Settled(db', op'["mount"], op'["sdk"])
    BY DEF LeakInv
  <2>2. Settled(db, op[a], op[b]) /\ Whole(db, op[a], op[b])
    BY <1>2, <1>3, <1>5, <1>6, <2>1 DEF LeakInv
  <2>. QED BY <1>2, <1>3, <2>1, <2>2
<1>. QED BY <1>7, <1>8

\* An actor's operation is not being made any more, or is what it was.
LEMMA HiddenKept ==
  ASSUME NEW c, NEW c2, NEW m, NEW s, NEW m2, NEW s2, Hidden(c, m, s),
         Making(m2) => m2 = m,
         s2 # Idle => s # Idle /\ s2.i = s.i,
         DOMAIN c2 = {} \/ c2 = c
  PROVE  Hidden(c2, m2, s2)
BY DEF Hidden

\* The statements that drop a name.
LEMMA DropStatements ==
  ASSUME Types, Types', NamesInv, LeakInv, NEW a \in Actors,
         DropName(a) \/ DropCount(a) \/ DropParent(a) \/ Purge(a) \/ DropInode(a)
  PROVE  NamesInv' /\ LeakInv'
<1>. DEFINE o == op[a]
            n == db.next
<1>1. Tables(db) /\ DOMAIN op = Actors
  BY DEF Types
<1>2. PICK b \in Actors : a # b /\ Actors \ {a} = {b}
  BY DEF Actors
<1>3. o \in DropOps(n) /\ o # Idle
  BY WhoIsWhere DEF DropName, DropCount, DropParent, Purge, DropInode, At
<1>4. op[b] \in MountOps(n) /\ op["sdk"] \in SdkOps(n)
  BY WhoIsWhere DEF Types
<1>5. \A p : Go(a, p) => /\ op'[b] = op[b] /\ op'[a] = [o EXCEPT !.at = p]
                         /\ op'[a].i = o.i /\ ~Making(op'[a])
  <2>1. SUFFICES ASSUME NEW p, Go(a, p)
                 PROVE  /\ op'[b] = op[b] /\ op'[a] = [o EXCEPT !.at = p]
                        /\ op'[a].i = o.i /\ ~Making(op'[a])
    OBVIOUS
  <2>. DEFINE x == [o EXCEPT !.at = p]
  <2>2. op' = [op EXCEPT ![a] = x]
    BY <1>1, <2>1 DEF Go
  <2>3. x.do = o.do /\ x.i = o.i /\ o.do \notin {"mkdir", "mknod"}
    BY <1>3 DEF DropOps
  <2>. HIDE DEF x
  <2>4. op'[b] = op[b] /\ op'[a] = x
    BY <1>1, <1>2, <2>2
  <2>5. ~Making(x)
    BY <2>3 DEF Making
  <2>. QED BY <2>3, <2>4, <2>5 DEF x
<1>6. Leave(a) => op'[b] = op[b] /\ op'[a] = Idle
  BY <1>1, <1>2 DEF Leave
<1>7. ASSUME op'[b] = op[b], op'[a] = Idle \/ (op'[a].i = o.i /\ ~Making(op'[a])),
             cache' = cache \/ DOMAIN cache' = {}
      PROVE  Hidden(cache, op["mount"], op["sdk"]) => Hidden(cache', op'["mount"], op'["sdk"])
  <2>1. ~Making(Idle)
    BY DEF Making
  <2>2. CASE a = "sdk"
    <3>1. b = "mount"
      BY <1>2, <2>2 DEF Actors
    <3>. QED BY <1>3, <1>7, <2>2, <3>1, HiddenKept
  <2>3. CASE a = "mount"
    <3>1. b = "sdk"
      BY <1>2, <2>3 DEF Actors
    <3>. QED BY <1>7, <2>1, <2>3, <3>1, HiddenKept
  <2>. QED BY <2>2, <2>3 DEF Actors
<1>. HIDE DEF o, n
<1>10. CASE DropName(a)
  <2>1. /\ o.at = "drop" /\ db' = DeleteDentry(db, o.e) /\ Go(a, "uncount") /\ crashes' = crashes
        /\ torn \subseteq torn' /\ (cache' = cache \/ DOMAIN cache' = {})
        /\ Sound' => Points(db, o.e, o.i) /\ (o.dir => Children(db, o.i) = {})
    BY <1>10 DEF DropName, At, Tear, Sound, o
  <2>2. Sound' /\ Whole(db, o, op[b]) => /\ Whole(db', op'[a], op'[b])
                                         /\ Settled(db, o, op[b]) => Settled(db', op'[a], op'[b])
    <3>1. op'[b] = op[b] /\ op'[a] = [o EXCEPT !.at = "uncount"]
      BY <1>5, <2>1
    <3>2. o \in DropOps(db.next) /\ op[b] \in MountOps(db.next)
      BY <1>3, <1>4 DEF n
    <3>3. SUFFICES ASSUME Sound', Whole(db, o, op[b])
                   PROVE  /\ Whole(db', op'[a], op'[b])
                          /\ Settled(db, o, op[b]) => Settled(db', op'[a], op'[b])
      OBVIOUS
    <3>4. Points(db, o.e, o.i) /\ (o.dir => Children(db, o.i) = {})
      BY <2>1, <3>3
    <3>. DEFINE d2 == DeleteDentry(db, o.e)
                x == [o EXCEPT !.at = "uncount"]
    <3>5. Whole(d2, x, op[b]) /\ (Settled(db, o, op[b]) => Settled(d2, x, op[b]))
      BY <1>1, <2>1, <3>2, <3>3, <3>4, WholeDropName
    <3>. QED BY <2>1, <3>1, <3>5
  <2>3. Hidden(cache, op["mount"], op["sdk"]) => Hidden(cache', op'["mount"], op'["sdk"])
    BY <1>5, <1>7, <2>1
  <2>4. torn' = {} => Sound'
    BY DEF Sound
  <2>. QED BY <1>2, <2>1, <2>2, <2>3, <2>4, Turn DEF o
<1>11. CASE DropCount(a)
  <2>. DEFINE p == IF o.dir THEN "dropparent" ELSE "purge"
  <2>1. /\ o.at = "uncount" /\ db' = AddLinks(db, o.i, -1) /\ Go(a, p)
        /\ crashes' = crashes /\ torn' = torn /\ cache' = cache
    BY <1>11 DEF DropCount, At, o
  <2>2. Whole(db, o, op[b]) => /\ Whole(db', op'[a], op'[b])
                               /\ Settled(db, o, op[b]) => Settled(db', op'[a], op'[b])
    <3>1. op'[b] = op[b] /\ op'[a] = [o EXCEPT !.at = p]
      BY <1>5, <2>1
    <3>. QED BY <1>1, <1>3, <1>4, <2>1, <3>1, WholeDropCount DEF n
  <2>3. Hidden(cache, op["mount"], op["sdk"]) => Hidden(cache', op'["mount"], op'["sdk"])
    <3>1. op'[b] = op[b] /\ op'[a].i = o.i /\ ~Making(op'[a])
      BY <1>5, <2>1
    <3>. QED BY <1>7, <2>1, <3>1
  <2>. QED BY <1>2, <2>1, <2>2, <2>3, Turn DEF o
<1>12. CASE DropParent(a)
  <2>1. /\ o.at = "dropparent" /\ db' = AddLinks(db, o.e[1], -1) /\ Go(a, "purge")
        /\ crashes' = crashes /\ torn' = torn /\ cache' = cache
    BY <1>12 DEF DropParent, At, o
  <2>2. Whole(db, o, op[b]) => /\ Whole(db', op'[a], op'[b])
                               /\ Settled(db, o, op[b]) => Settled(db', op'[a], op'[b])
    <3>1. op'[b] = op[b] /\ op'[a] = [o EXCEPT !.at = "purge"]
      BY <1>5, <2>1
    <3>2. o \in DropOps(db.next) /\ op[b] \in MountOps(db.next)
      BY <1>3, <1>4 DEF n
    <3>. DEFINE d2 == AddLinks(db, o.e[1], -1)
                x == [o EXCEPT !.at = "purge"]
    <3>3. Whole(db, o, op[b]) => Whole(d2, x, op[b]) /\ (Settled(db, o, op[b]) => Settled(d2, x, op[b]))
      BY <1>1, <2>1, <3>2, WholeDropParent
    <3>. QED BY <2>1, <3>1, <3>3
  <2>3. Hidden(cache, op["mount"], op["sdk"]) => Hidden(cache', op'["mount"], op'["sdk"])
    BY <1>5, <1>7, <2>1
  <2>. QED BY <1>2, <2>1, <2>2, <2>3, Turn DEF o
<1>13. CASE Purge(a)
  <2>1. /\ o.at = "purge" /\ crashes' = crashes /\ torn \subseteq torn' /\ cache' = cache
        /\ \/ get_link_count(db, o.i) = 0 /\ db' = DeleteData(db, o.i) /\ Go(a, "inode")
           \/ get_link_count(db, o.i) # 0 /\ db' = db /\ Leave(a)
        /\ Sound' => ~(At(b, "count") /\ op[b].i = o.i)
    BY <1>2, <1>13 DEF Purge, At, Tear, Sound, o
  <2>2. Sound' => Adds(op[b], o.i) = 0
    BY <2>1 DEF Adds, At
  <2>3. Sound' /\ Whole(db, o, op[b]) => /\ Whole(db', op'[a], op'[b])
                                         /\ Settled(db, o, op[b]) => Settled(db', op'[a], op'[b])
    <3>1. o \in DropOps(db.next) /\ op[b] \in MountOps(db.next)
      BY <1>3, <1>4 DEF n
    <3>2. SUFFICES ASSUME Sound', Whole(db, o, op[b])
                   PROVE  /\ Whole(db', op'[a], op'[b])
                          /\ Settled(db, o, op[b]) => Settled(db', op'[a], op'[b])
      OBVIOUS
    <3>3. Adds(op[b], o.i) = 0
      BY <2>2, <3>2
    <3>4. CASE get_link_count(db, o.i) = 0
      <4>. DEFINE d2 == DeleteData(db, o.i)
                  x == [o EXCEPT !.at = "inode"]
      <4>1. op'[b] = op[b] /\ op'[a] = x /\ db' = d2
        BY <1>5, <2>1, <3>4
      <4>2. Whole(d2, x, op[b]) /\ (Settled(db, o, op[b]) => Settled(d2, x, op[b]))
        BY <1>1, <2>1, <3>1, <3>2, <3>3, <3>4, WholePurge
      <4>. QED BY <4>1, <4>2
    <3>5. CASE get_link_count(db, o.i) # 0
      <4>1. op'[b] = op[b] /\ op'[a] = Idle /\ db' = db
        BY <1>6, <2>1, <3>5
      <4>2. Whole(db, Idle, op[b]) /\ (Settled(db, o, op[b]) => Settled(db, Idle, op[b]))
        BY <1>1, <2>1, <3>1, <3>2, <3>3, <3>5, WholePurge
      <4>. QED BY <4>1, <4>2
    <3>. QED BY <3>4, <3>5
  <2>4. Hidden(cache, op["mount"], op["sdk"]) => Hidden(cache', op'["mount"], op'["sdk"])
    BY <1>5, <1>6, <1>7, <2>1
  <2>5. torn' = {} => Sound'
    BY DEF Sound
  <2>. QED BY <1>2, <2>1, <2>3, <2>4, <2>5, Turn DEF o
<1>14. CASE DropInode(a)
  <2>1. /\ o.at = "inode" /\ db' = DeleteInode(db, o.i) /\ Leave(a)
        /\ crashes' = crashes /\ torn' = torn /\ cache' = cache
    BY <1>14 DEF DropInode, At, o
  <2>2. op'[b] = op[b] /\ op'[a] = Idle
    BY <1>6, <2>1
  <2>3. Sound => (Making(op[b]) => op[b].i # o.i)
    <3>1. CASE b = "sdk"
      BY <1>4, <3>1 DEF Making, SdkOps, DropOps
    <3>2. CASE b = "mount"
      <4>1. a = "sdk"
        BY <1>2, <3>2 DEF Actors
      <4>. QED BY <1>3, <3>2, <4>1 DEF NamesInv, Hidden, o
    <3>. QED BY <3>1, <3>2 DEF Actors
  <2>4. Sound /\ Whole(db, o, op[b]) => /\ Whole(db', op'[a], op'[b])
                                        /\ Settled(db, o, op[b]) => Settled(db', op'[a], op'[b])
    BY <1>1, <1>3, <1>4, <2>1, <2>2, <2>3, WholeDropInode DEF n
  <2>5. Hidden(cache, op["mount"], op["sdk"]) => Hidden(cache', op'["mount"], op'["sdk"])
    BY <1>7, <2>1, <2>2
  <2>6. torn' = {} => Sound
    BY <2>1 DEF Sound
  <2>. QED BY <1>2, <2>1, <2>4, <2>5, <2>6, Turn DEF o
<1>. QED BY <1>10, <1>11, <1>12, <1>13, <1>14

\* What the mount's operation becomes, and the SDK program's stays.
LEMMA MountTurn ==
  ASSUME Types, NEW x, Enter("mount", x)
  PROVE  op'["mount"] = x /\ op'["sdk"] = op["sdk"]
<1>1. DOMAIN op = Actors /\ "mount" \in Actors /\ "sdk" \in Actors
  BY DEF Types, Actors
<1>. QED BY <1>1 DEF Enter

\* The statements that add a name.
LEMMA AddStatements ==
  ASSUME Types, Types', NamesInv, LeakInv, NEW a \in Actors, AddName(a) \/ AddCount(a) \/ AddParent(a)
  PROVE  NamesInv' /\ LeakInv'
<1>. DEFINE o == op["mount"]
            q == op["sdk"]
<1>1. Tables(db) /\ DOMAIN op = Actors /\ "mount" \in Actors /\ "sdk" \in Actors
  BY DEF Types, Actors
<1>2. a = "mount" /\ o \in AddOps(db.next) /\ o # Idle /\ q \in SdkOps(db.next) /\ q \in MountOps(db.next)
  BY <1>1, WhoIsWhere DEF AddName, AddCount, AddParent, At, Types
<1>3. ASSUME NEW p, Go("mount", p), p # "name"
      PROVE  op'["mount"] = [o EXCEPT !.at = p] /\ op'["sdk"] = q /\ ~Making(op'["mount"])
  <2>. DEFINE x == [o EXCEPT !.at = p]
  <2>1. op' = [op EXCEPT !["mount"] = x]
    BY <1>1, <1>3 DEF Go
  <2>2. x.at = p
    BY <1>2 DEF AddOps
  <2>. HIDE DEF x
  <2>3. op'["mount"] = x /\ op'["sdk"] = q
    BY <2>1, MountTurn DEF Enter
  <2>. QED BY <1>3, <2>2, <2>3 DEF x, Making
<1>4. Leave("mount") => op'["mount"] = Idle /\ op'["sdk"] = q /\ ~Making(op'["mount"])
  BY MountTurn DEF Enter, Leave, Making
<1>5. ASSUME op'["sdk"] = q, ~Making(op'["mount"])
      PROVE  Hidden(cache', op'["mount"], op'["sdk"])
  BY <1>5 DEF Hidden
<1>6. "mount" # "sdk" /\ (torn' = {} => Sound')
  BY DEF Sound
<1>. HIDE DEF o, q
<1>10. CASE AddName(a)
  <2>. DEFINE taken == o.e \in DOMAIN db.dentry
  <2>1. /\ o.at = "name" /\ crashes' = crashes /\ torn \subseteq torn'
        /\ taken => db' = db /\ Leave("mount") /\ (torn' = {} => o.do = "link")
        /\ ~taken => /\ db' = InsertDentry(db, o.e, o.i) /\ Go("mount", "count")
                     /\ Sound' => Present(db, o.e[1]) /\ (o.do = "link" => NamesOf(db, o.i) # {})
    BY <1>2, <1>10 DEF AddName, At, Sound, o
  <2>. HIDE DEF taken
  <2>2. CASE taken
    <3>1. op'["mount"] = Idle /\ op'["sdk"] = q /\ ~Making(op'["mount"]) /\ db' = db
      BY <1>4, <2>1, <2>2
    <3>2. Whole(db, o, q) => Whole(db', Idle, q) /\ (o.do = "link" /\ Settled(db, o, q) => Settled(db', Idle, q))
      BY <1>1, <1>2, <2>1, <3>1, WholeGiveUp
    <3>. QED BY <1>1, <1>5, <1>6, <2>1, <2>2, <3>1, <3>2, Turn DEF o, q
  <2>3. CASE ~taken
    <3>. DEFINE d2 == InsertDentry(db, o.e, o.i)
                x == [o EXCEPT !.at = "count"]
    <3>1. op'["mount"] = x /\ op'["sdk"] = q /\ ~Making(op'["mount"]) /\ db' = d2
      BY <1>3, <2>1, <2>3
    <3>2. ASSUME Sound, Sound', Whole(db, o, q)
          PROVE  Whole(d2, x, q) /\ (Settled(db, o, q) => Settled(d2, x, q))
      <4>1. Present(db, o.e[1]) /\ (o.do = "link" => NamesOf(db, o.i) # {}) /\ o.e \notin DOMAIN db.dentry
        BY <2>1, <2>3, <3>2 DEF taken
      <4>2. Making(o) /\ q # Idle => q.i # o.i
        BY <3>2 DEF NamesInv, Hidden, o, q
      <4>. QED BY <1>1, <1>2, <2>1, <3>2, <4>1, <4>2, WholeAddName
    <3>3. torn' = {} => Sound /\ Sound'
      BY <2>1 DEF Sound
    <3>. QED BY <1>1, <1>5, <1>6, <2>1, <3>1, <3>2, <3>3, Turn DEF o, q
  <2>. QED BY <2>2, <2>3
<1>11. CASE AddCount(a)
  <2>1. /\ o.at = "count" /\ crashes' = crashes /\ torn' = torn
        /\ o.do = "mkdir" => db' = [db EXCEPT !.inode[o.i].nlink = 2] /\ Go("mount", "addparent")
        /\ o.do # "mkdir" => db' = AddLinks(db, o.i, 1) /\ Leave("mount")
    BY <1>2, <1>11 DEF AddCount, At, o
  <2>2. CASE o.do = "mkdir"
    <3>. DEFINE d2 == [db EXCEPT !.inode[o.i].nlink = 2]
                x == [o EXCEPT !.at = "addparent"]
    <3>1. op'["mount"] = x /\ op'["sdk"] = q /\ ~Making(op'["mount"]) /\ db' = d2
      BY <1>3, <2>1, <2>2
    <3>2. Whole(db, o, q) => Whole(d2, x, q) /\ (Settled(db, o, q) => Settled(d2, x, q))
      BY <1>1, <1>2, <2>1, <2>2, WholeAddSelf
    <3>. HIDE DEF d2, x
    <3>. QED BY <1>1, <1>5, <1>6, <2>1, <3>1, <3>2, Turn DEF o, q
  <2>3. CASE o.do # "mkdir"
    <3>. DEFINE d2 == AddLinks(db, o.i, 1)
    <3>1. op'["mount"] = Idle /\ op'["sdk"] = q /\ ~Making(op'["mount"]) /\ db' = d2
      BY <1>4, <2>1, <2>3
    <3>2. Whole(db, o, q) => Whole(d2, Idle, q) /\ (Settled(db, o, q) => Settled(d2, Idle, q))
      BY <1>1, <1>2, <2>1, <2>3, WholeAddCount
    <3>. HIDE DEF d2
    <3>. QED BY <1>1, <1>5, <1>6, <2>1, <3>1, <3>2, Turn DEF o, q
  <2>. QED BY <2>2, <2>3
<1>12. CASE AddParent(a)
  <2>. DEFINE d2 == AddLinks(db, o.e[1], 1)
  <2>1. o.at = "addparent" /\ crashes' = crashes /\ torn' = torn /\ db' = d2 /\ Leave("mount")
    BY <1>2, <1>12 DEF AddParent, At, o
  <2>2. op'["mount"] = Idle /\ op'["sdk"] = q /\ ~Making(op'["mount"])
    BY <1>4, <2>1
  <2>3. Whole(db, o, q) => Whole(d2, Idle, q) /\ (Settled(db, o, q) => Settled(d2, Idle, q))
    BY <1>1, <1>2, <2>1, WholeAddParent
  <2>. HIDE DEF d2
  <2>. QED BY <1>1, <1>5, <1>6, <2>1, <2>2, <2>3, Turn DEF o, q
<1>. QED BY <1>10, <1>11, <1>12

\* The transactions of rename and truncate.
LEMMA MoveStatements ==
  ASSUME Types, Types', NamesInv, LeakInv, NEW a \in Actors, Move(a) \/ Cut(a)
  PROVE  NamesInv' /\ LeakInv'
<1>. DEFINE o == op["mount"]
            q == op["sdk"]
<1>1. Tables(db) /\ DOMAIN op = Actors /\ "mount" \in Actors /\ "sdk" \in Actors
  BY DEF Types, Actors
<1>2. /\ a = "mount" /\ q \in SdkOps(db.next) /\ q \in MountOps(db.next)
      /\ Move(a) => o \in MoveOps(db.next)
      /\ Cut(a) => o \in CutOps(db.next)
  BY <1>1, WhoIsWhere DEF Move, Cut, Types
<1>3. op'["mount"] = Idle /\ op'["sdk"] = q /\ ~Making(op'["mount"])
  <2>1. Leave("mount")
    BY <1>2 DEF Move, Cut
  <2>. QED BY <2>1, MountTurn DEF Enter, Leave, Making
<1>4. Hidden(cache', op'["mount"], op'["sdk"])
  BY <1>3 DEF Hidden
<1>5. "mount" # "sdk" /\ (torn' = {} => Sound')
  BY DEF Sound
<1>. HIDE DEF o, q
<1>10. CASE Move(a)
  <2>. DEFINE d2 == Moved(Replaced(db, o.f), o.e, o.f, o.dir)
  <2>1. /\ o.at = "move" /\ crashes' = crashes /\ torn \subseteq torn'
        /\ MayReplace(db, o.f, o.dir) => /\ db' = d2
                                         /\ Sound' => Points(db, o.e, o.i) /\ Present(db, o.f[1])
        /\ ~MayReplace(db, o.f, o.dir) => db' = db
    BY <1>2, <1>10 DEF Move, At, Tear, Sound, o
  <2>2. ASSUME Sound', Whole(db, o, q)
        PROVE  Whole(db', Idle, q) /\ (Settled(db, o, q) => Settled(db', Idle, q))
    <3>1. CASE MayReplace(db, o.f, o.dir)
      <4>1. Points(db, o.e, o.i) /\ Present(db, o.f[1])
        BY <2>1, <2>2, <3>1
      <4>2. Whole(d2, Idle, q) /\ (Settled(db, o, q) => Settled(d2, Idle, q))
        BY <1>1, <1>2, <1>10, <2>2, <3>1, <4>1, WholeMove
      <4>. QED BY <2>1, <3>1, <4>2
    <3>2. CASE ~MayReplace(db, o.f, o.dir)
      <4>1. Whole(db, Idle, q) /\ (Settled(db, o, q) => Settled(db, Idle, q))
        BY <2>1, <2>2, WholeEnd
      <4>. QED BY <2>1, <3>2, <4>1
    <3>. QED BY <3>1, <3>2
  <2>. HIDE DEF d2
  <2>. QED BY <1>1, <1>3, <1>4, <1>5, <2>1, <2>2, Turn DEF o, q
<1>11. CASE Cut(a)
  <2>. DEFINE rows == truncate_rows(Rows(db, o.i), o.seen, o.to)
  <2>1. /\ o.at = "cut" /\ crashes' = crashes /\ torn \subseteq torn'
        /\ db' = SetSize(SetRows(db, o.i, rows), o.i, o.to)
    BY <1>2, <1>11 DEF Cut, At, Tear, o
  <2>2. o.i \in 2..(db.next - 1) /\ o.to \in Nat
    BY <1>2, <1>11 DEF CutOps
  <2>. HIDE DEF rows
  <2>3. Alike(db, db')
    BY <1>1, <2>1, <2>2, StoreEffect
  <2>4. Whole(db, o, q) => Whole(db, Idle, q) /\ (Settled(db, o, q) => Settled(db, Idle, q))
    BY <2>1, WholeEnd
  <2>5. (Whole(db, Idle, q) => Whole(db', Idle, q)) /\ (Settled(db, Idle, q) => Settled(db', Idle, q))
    BY <1>1, <1>2, <2>3, WholeAlike, NotIdle
  <2>. QED BY <1>1, <1>3, <1>4, <1>5, <2>1, <2>4, <2>5, Turn DEF o, q
<1>. QED BY <1>10, <1>11

\* A step that changes neither tables, operations nor the cache.
LEMMA NamesStutter ==
  ASSUME NamesInv, LeakInv, UNCHANGED <<db, op, cache, torn, crashes>>
  PROVE  NamesInv' /\ LeakInv'
<1>1. NamesInv'
  BY DEF NamesInv, Sound
<1>2. LeakInv'
  BY DEF LeakInv
<1>. QED BY <1>1, <1>2

\* The operations of the mount that read before they write.
LEMMA MountBegins ==
  ASSUME Types, Types', NamesInv, LeakInv,
         \/ \E e \in Slots : unlink(e) \/ rmdir(e)
         \/ \E i \in DOMAIN db.inode, e \in Slots : link(i, e)
         \/ \E e, f \in Slots : rename(e, f)
         \/ \E k \in Sizes : truncate(k)
  PROVE  NamesInv' /\ LeakInv'
<1>. DEFINE q == op["sdk"]
<1>1. Tables(db) /\ "mount" \in Actors /\ "sdk" \in Actors /\ "mount" # "sdk"
  BY DEF Types, Actors
<1>2. ASSUME NEW x, Enter("mount", x), op["mount"] = Idle, UNCHANGED <<db, cache, torn, crashes>>,
             ~Making(x), x.at \notin {"count", "uncount"}, Intact(db) => OpOK(db, x)
      PROVE  NamesInv' /\ LeakInv'
  <2>1. op'["mount"] = x /\ op'["sdk"] = q
    BY <1>2, MountTurn
  <2>2. Whole(db, Idle, q) => Whole(db, x, q) /\ (Settled(db, Idle, q) => Settled(db, x, q))
    <3>1. Whole(db, Idle, q) => Intact(db)
      BY DEF Whole
    <3>. QED BY <1>2, <3>1, WholeBegin
  <2>3. Hidden(cache', op'["mount"], op'["sdk"])
    BY <1>2, <2>1 DEF Hidden
  <2>4. db' = db /\ torn' = torn /\ crashes' = crashes /\ op["mount"] = Idle
    BY <1>2
  <2>. QED BY <1>1, <2>1, <2>2, <2>3, <2>4, Turn DEF q
<1>3. ASSUME NEW e \in Slots, unlink(e) PROVE NamesInv' /\ LeakInv'
  <2>. DEFINE x == [do |-> "unlink", e |-> e, i |-> db.dentry[e], dir |-> FALSE, at |-> "drop"]
  <2>1. /\ e \in DOMAIN db.dentry /\ ~IsDir(db, db.dentry[e]) /\ Enter("mount", x) /\ op["mount"] = Idle
        /\ UNCHANGED <<db, cache, torn, crashes>>
    BY <1>3 DEF unlink, Begins
  <2>2. x.do = "unlink" /\ x.e = e /\ x.i = db.dentry[e] /\ x.at = "drop" /\ ~x.dir
    OBVIOUS
  <2>. HIDE DEF x
  <2>3. Intact(db) => OpOK(db, x)
    BY <2>1, <2>2 DEF Intact, OpOK, DropOK
  <2>. QED BY <1>2, <2>1, <2>2, <2>3 DEF Making
<1>4. ASSUME NEW e \in Slots, rmdir(e) PROVE NamesInv' /\ LeakInv'
  <2>. DEFINE x == [do |-> "rmdir", e |-> e, i |-> db.dentry[e], dir |-> TRUE, at |-> "drop"]
  <2>1. /\ e \in DOMAIN db.dentry /\ IsDir(db, db.dentry[e]) /\ Enter("mount", x) /\ op["mount"] = Idle
        /\ UNCHANGED <<db, cache, torn, crashes>>
    BY <1>4 DEF rmdir, Begins
  <2>2. x.do = "rmdir" /\ x.e = e /\ x.i = db.dentry[e] /\ x.at = "drop" /\ x.dir
    OBVIOUS
  <2>. HIDE DEF x
  <2>3. Intact(db) => OpOK(db, x)
    BY <2>1, <2>2 DEF Intact, OpOK, DropOK
  <2>. QED BY <1>2, <2>1, <2>2, <2>3 DEF Making
<1>5. ASSUME NEW i \in DOMAIN db.inode, NEW e \in Slots, link(i, e) PROVE NamesInv' /\ LeakInv'
  <2>. DEFINE x == [do |-> "link", e |-> e, i |-> i, at |-> "name"]
  <2>1. /\ ~IsDir(db, i) /\ Enter("mount", x) /\ op["mount"] = Idle
        /\ UNCHANGED <<db, cache, torn, crashes>>
    BY <1>5 DEF link, Begins
  <2>2. x.do = "link" /\ x.e = e /\ x.i = i /\ x.at = "name"
    OBVIOUS
  <2>. HIDE DEF x
  <2>3. IsDir(db, e[1])
    BY SlotType
  <2>4. Intact(db) => OpOK(db, x)
    BY <2>1, <2>2, <2>3 DEF OpOK, AddOK, Making
  <2>. QED BY <1>2, <2>1, <2>2, <2>4 DEF Making
<1>6. ASSUME NEW e \in Slots, NEW f \in Slots, rename(e, f) PROVE NamesInv' /\ LeakInv'
  <2>. DEFINE dir == IsDir(db, db.dentry[e])
              x == [do |-> "rename", e |-> e, f |-> f, i |-> db.dentry[e], dir |-> dir, at |-> "move"]
  <2>1. /\ e \in DOMAIN db.dentry /\ ~Points(db, f, db.dentry[e]) /\ Enter("mount", x) /\ op["mount"] = Idle
        /\ UNCHANGED <<db, cache, torn, crashes>>
    BY <1>6 DEF rename, Begins
  <2>2. e # f /\ dir \in BOOLEAN
    BY <2>1 DEF Points, IsDir
  <2>3. x.do = "rename" /\ x.e = e /\ x.f = f /\ x.i = db.dentry[e] /\ x.at = "move" /\ x.dir = dir
    OBVIOUS
  <2>. HIDE DEF x
  <2>4. OpOK(db, x)
    BY <2>2, <2>3 DEF OpOK, MoveOK
  <2>. QED BY <1>2, <2>1, <2>3, <2>4 DEF Making
<1>7. ASSUME NEW k \in Sizes, truncate(k) PROVE NamesInv' /\ LeakInv'
  <2>. DEFINE x == [do |-> "truncate", i |-> handle, to |-> k, seen |-> Size(db, handle), at |-> "cut"]
  <2>1. Enter("mount", x) /\ op["mount"] = Idle /\ UNCHANGED <<db, cache, torn, crashes>>
    BY <1>7 DEF truncate, Begins
  <2>2. x.do = "truncate" /\ x.at = "cut"
    OBVIOUS
  <2>. HIDE DEF x
  <2>. QED BY <1>2, <2>1, <2>2 DEF Making, OpOK
<1>. QED BY <1>3, <1>4, <1>5, <1>6, <1>7

\* The operations of the mount that make an inode.
LEMMA MountMakes ==
  ASSUME Types, Types', NamesInv, LeakInv, NEW e \in Slots, create_file(e) \/ mkdir(e) \/ mknod(e)
  PROVE  NamesInv' /\ LeakInv'
<1>. DEFINE q == op["sdk"]
<1>1. /\ Tables(db) /\ "mount" \in Actors /\ "sdk" \in Actors /\ "mount" # "sdk" /\ db.next \in Nat
      /\ q \in SdkOps(db.next) /\ q \in MountOps(db.next) /\ CacheOK(cache, db.next)
  BY WhoIsWhere DEF Types, Actors, Tables
<1>2. /\ e \in Slot(db.next) /\ IsDir(db, e[1]) /\ e \notin DOMAIN db.dentry /\ op["mount"] = Idle
      /\ torn \subseteq torn' /\ UNCHANGED <<cache, crashes>>
  BY SlotType DEF create_file, mkdir, mknod, Begins, Tear
<1>. HIDE DEF q
<1>3. CASE create_file(e)
  <2>. DEFINE d2 == Created(db, "file", 1, 0, e)
  <2>1. db' = d2 /\ op' = op /\ (Sound' => Present(db, e[1]))
    BY <1>3 DEF create_file, Created, Tear, Sound
  <2>2. "file" \in Kinds /\ 1 \in Int /\ 0 \in Nat /\ ("file" # "dir" => 1 = 1)
    BY DEF Kinds
  <2>3. Tables(d2)
    BY <2>1 DEF Types
  <2>4. Sound' /\ Intact(db) => Intact(d2)
    BY <1>1, <1>2, <2>1, <2>2, CreateIntact
  <2>5. Extends(db, db)
    BY <1>1, ExtendsSelf
  <2>6. Extends(db, d2)
    BY <1>1, <1>2, <2>2, <2>5, CreateExtends
  <2>. HIDE DEF d2
  <2>7. Intact(d2) => /\ Whole(db, Idle, q) => Whole(d2, Idle, q)
                      /\ Settled(db, Idle, q) => Settled(d2, Idle, q)
    BY <1>1, <2>3, <2>6, WholeExtends, NotIdle
  <2>8. (Whole(db, Idle, q) => Intact(db)) /\ (torn' = {} => Sound')
    BY DEF Whole, Sound
  <2>. QED BY <1>1, <1>2, <2>1, <2>4, <2>7, <2>8, Turn DEF q
<1>4. ASSUME NEW kind, NEW do, (kind = "dir" /\ do = "mkdir") \/ (kind = "node" /\ do = "mknod"),
             db' = InsertInode(db, kind, 0, 0),
             Enter("mount", [do |-> do, e |-> e, i |-> db.next, at |-> "name"])
      PROVE  NamesInv' /\ LeakInv'
  <2>. DEFINE d2 == InsertInode(db, kind, 0, 0)
              x == [do |-> do, e |-> e, i |-> db.next, at |-> "name"]
  <2>1. op'["mount"] = x /\ op'["sdk"] = q
    BY <1>4, MountTurn DEF q
  <2>2. Whole(db, Idle, q) => Whole(d2, x, q) /\ (Settled(db, Idle, q) => Settled(d2, x, q))
    BY <1>1, <1>2, <1>4, WholeMake
  <2>3. Hidden(cache', op'["mount"], op'["sdk"])
    <3>1. x.i = db.next
      OBVIOUS
    <3>2. q # Idle => q.i # db.next
      BY <1>1 DEF SdkOps, DropOps
    <3>3. \A y \in DOMAIN cache : cache[y] # db.next
      BY <1>1 DEF CacheOK
    <3>. QED BY <1>2, <2>1, <3>1, <3>2, <3>3 DEF Hidden
  <2>. QED BY <1>1, <1>2, <1>4, <2>1, <2>2, <2>3, Turn DEF q
<1>5. CASE mkdir(e) \/ mknod(e)
  BY <1>4, <1>5 DEF mkdir, mknod
<1>. QED BY <1>3, <1>5

\* A resolution never meets the inode the mount is making.
LEMMA HiddenFilled ==
  ASSUME NEW m, NEW s, OpOK(db, m), Hidden(cache, m, s), NEW path \in Seq(Names)
  PROVE  Hidden(Filled(db, path), m, s)
<1>1. SUFFICES ASSUME Making(m), NEW e \in DOMAIN Filled(db, path)
               PROVE  Filled(db, path)[e] # m.i
  BY DEF Hidden
<1>2. NamesOf(db, m.i) = {} /\ \A y \in DOMAIN cache : cache[y] # m.i
  BY <1>1 DEF OpOK, AddOK, Making, Hidden
<1>3. /\ e \in DOMAIN cache \union DOMAIN db.dentry
      /\ Filled(db, path)[e] = Look(cache, db, e)
  BY <1>1, FilledIs
<1>. QED BY <1>2, <1>3 DEF Look, NamesOf

\* What the SDK program's operation becomes, and the mount's stays.
LEMMA SdkTurn ==
  ASSUME Types, NEW x, Enter("sdk", x)
  PROVE  op'["sdk"] = x /\ op'["mount"] = op["mount"]
<1>1. DOMAIN op = Actors /\ "mount" \in Actors /\ "sdk" \in Actors
  BY DEF Types, Actors
<1>. QED BY <1>1 DEF Enter

\* The SDK program reads and removes by path.
LEMMA SdkPaths ==
  ASSUME Types, Types', NamesInv, LeakInv, NEW path \in Paths, read_file(path) \/ remove(path)
  PROVE  NamesInv' /\ LeakInv'
<1>. DEFINE m == op["mount"]
            s == op["sdk"]
<1>1. /\ Tables(db) /\ "mount" \in Actors /\ "sdk" \in Actors /\ "mount" # "sdk" /\ db.next \in Nat
      /\ CacheOK(cache, db.next)
  BY DEF Types, Actors, Tables
<1>2. path \in Seq(Names) /\ path # <<>>
  BY ClientsAssumption
<1>3. s = Idle /\ cache' = Filled(db, path) /\ db' = db /\ crashes' = crashes
  BY DEF read_file, remove, Begins
<1>4. Whole(db, s, m) /\ Hidden(cache, m, s) => Hidden(cache', m, s)
  <2>1. Whole(db, s, m) => OpOK(db, m)
    BY DEF Whole
  <2>. QED BY <1>2, <1>3, <2>1, HiddenFilled
<1>. HIDE DEF m, s
<1>5. CASE read_file(path)
  <2>1. op' = op /\ torn' = torn
    BY <1>5 DEF read_file
  <2>. QED BY <1>1, <1>3, <1>4, <2>1, Turn DEF m, s
<1>6. CASE remove(path)
  <2>. DEFINE i == resolve_path(db, path)
              p == resolve_path(db, Parent(path))
              e == <<p, path[Len(path)]>>
              dir == IsDir(db, i)
              x == [do |-> "remove", e |-> e, i |-> i, dir |-> dir, at |-> "drop"]
  <2>1. /\ i \in DOMAIN db.inode /\ Enter("sdk", x) /\ torn \subseteq torn'
        /\ Sound' => ~Outdated(db, path)
    BY <1>6 DEF remove, Tear, Sound
  <2>2. i # None
    BY <1>1, <2>1 DEF Tables, None
  <2>3. ~Outdated(db, path) => Points(db, e, i)
    <3>1. db.next <= db.next
      BY <1>1
    <3>. QED BY <1>1, <1>2, <2>2, <3>1, Resolved
  <2>4. op'["sdk"] = x /\ op'["mount"] = m
    BY <2>1, SdkTurn DEF m
  <2>5. dir \in BOOLEAN
    BY DEF IsDir
  <2>6. dir <=> IsDir(db, i)
    OBVIOUS
  <2>. HIDE DEF i, e, dir
  <2>7. x.do = "remove" /\ x.e = e /\ x.i = i /\ x.dir = dir /\ x.at = "drop"
    OBVIOUS
  <2>. HIDE DEF x
  <2>8. Sound' => Points(db, e, i)
    BY <2>1, <2>3
  <2>9. ASSUME Sound', Whole(db, Idle, m)
        PROVE  Whole(db, x, m) /\ (Settled(db, Idle, m) => Settled(db, x, m))
    <3>1. IsDir(db, e[1])
      BY <2>8, <2>9 DEF Points, Whole, Intact
    <3>2. OpOK(db, x)
      BY <2>5, <2>6, <2>7, <3>1 DEF OpOK, DropOK
    <3>. QED BY <2>7, <2>9, <3>2, WholeBegin
  <2>10. ASSUME Sound', Whole(db, s, m), Hidden(cache, m, s)
         PROVE  Hidden(cache', m, x)
    <3>1. Making(m) => NamesOf(db, m.i) = {}
      BY <2>10 DEF Whole, OpOK, AddOK, Making
    <3>2. Making(m) => i # m.i
      BY <2>8, <2>10, <3>1 DEF Points, NamesOf
    <3>. QED BY <1>4, <2>7, <2>10, <3>2 DEF Hidden
  <2>11. torn' = {} => Sound'
    BY DEF Sound
  <2>. QED BY <1>1, <1>3, <2>1, <2>4, <2>9, <2>10, <2>11, Turn DEF m, s
<1>. QED BY <1>5, <1>6

\* Bytes are written, by handle or by path; a path may make its file.
LEMMA Writes ==
  ASSUME Types, Types', NamesInv, LeakInv,
         \/ \E off \in Offsets, data \in Payloads : pwrite(off, data)
         \/ \E path \in Paths, off \in Offsets, data \in Payloads : write_path(path, off, data)
         \/ \E plan \in Plans : bulk_materialize_tree(plan)
  PROVE  NamesInv' /\ LeakInv'
<1>. DEFINE m == op["mount"]
            s == op["sdk"]
<1>1. /\ Tables(db) /\ Tables(db') /\ "mount" \in Actors /\ "sdk" \in Actors /\ "mount" # "sdk" /\ db.next \in Nat
      /\ CacheOK(cache, db.next)
      /\ m \in MountOps(db.next) /\ s \in MountOps(db.next)
  BY WhoIsWhere DEF Types, Actors, Tables
<1>2. \A off \in Offsets, data \in Payloads : off + Len(data) \in Nat /\ data \in Seq(Bytes)
  BY ClientsAssumption
<1>3. \A i : Size(db, i) \in Nat
  BY <1>1 DEF Size, Tables, InodeRow
<1>4. \A x, y : x \in Nat /\ y \in Nat => MaxOf(x, y) \in Nat
  BY DEF MaxOf
<1>. HIDE DEF m, s
<1>5. ASSUME UNCHANGED <<op, crashes>>, torn \subseteq torn',
             Sound /\ Sound' => Alike(db, db') \/ (Intact(db) => Intact(db') /\ Extends(db, db')),
             Sound /\ Sound' /\ Whole(db, s, m) /\ Hidden(cache, m, s) => Hidden(cache', m, s)
      PROVE  NamesInv' /\ LeakInv'
  <2>1. ASSUME Sound, Sound', Whole(db, s, m)
        PROVE  Whole(db', s, m) /\ (Settled(db, s, m) => Settled(db', s, m))
    <3>1. CASE Alike(db, db')
      BY <1>1, <2>1, <3>1, WholeAlike
    <3>2. CASE Intact(db') /\ Extends(db, db')
      BY <1>1, <2>1, <3>2, WholeExtends
    <3>3. Intact(db)
      BY <2>1 DEF Whole
    <3>. QED BY <1>5, <2>1, <3>1, <3>2, <3>3
  <2>2. torn' = {} => Sound /\ Sound'
    BY <1>5 DEF Sound
  <2>. QED BY <1>1, <1>5, <2>1, <2>2, Turn DEF m, s
<1>10. ASSUME NEW off \in Offsets, NEW data \in Payloads, pwrite(off, data) PROVE NamesInv' /\ LeakInv'
  <2>. DEFINE rows == write_data_at_offset(Rows(db, handle), off, data)
              end == MaxOf(Size(db, handle), off + Len(data))
  <2>1. /\ db' = SetSize(SetRows(db, handle, rows), handle, end) /\ handle # None
        /\ UNCHANGED <<op, crashes>> /\ torn' = torn /\ cache' = cache
    BY <1>10 DEF pwrite
  <2>2. end \in Nat /\ handle \in 2..(db.next - 1)
    BY <1>2, <1>3, <1>4, <2>1 DEF Types
  <2>. HIDE DEF rows, end
  <2>3. Alike(db, db')
    BY <1>1, <2>1, <2>2, StoreEffect
  <2>. QED BY <1>5, <2>1, <2>3
<1>11. ASSUME NEW path \in Paths, NEW off \in Offsets, NEW data \in Payloads, write_path(path, off, data)
       PROVE  NamesInv' /\ LeakInv'
  <2>. DEFINE i == resolve_path(db, path)
              p == resolve_path(db, Parent(path))
              e == <<p, path[Len(path)]>>
              end == off + Len(data)
              rows == path_pwrite(Rows(db, i), Size(db, i), off, data)
              fresh == path_pwrite(NoRows, 0, off, data)
              size == MaxOf(Size(db, i), end)
              made == Created(db, "file", 1, end, e)
  <2>0. path \in Seq(Names) /\ path # <<>> /\ db.next <= db.next
    BY <1>1, ClientsAssumption
  <2>1. /\ p # None /\ cache' = Filled(db, path) /\ UNCHANGED <<op, crashes>> /\ torn \subseteq torn'
        /\ Sound' => Present(db, p)
        /\ db' = IF i # None THEN SetSize(SetRows(db, i, rows), i, size) ELSE SetRows(made, db.next, fresh)
    BY <1>11 DEF write_path, Created, Tear, Sound
  <2>2. end \in Nat /\ size \in Nat
    BY <1>2, <1>3, <1>4
  <2>3. (i # None => i \in 2..(db.next - 1)) /\ e \in Slot(db.next) /\ (i = None => e \notin DOMAIN db.dentry) /\ e[1] = p
    <3>1. /\ p # None => p \in 1..(db.next - 1) /\ e \in Slot(db.next)
          /\ i # None => i \in 2..(db.next - 1) /\ p # None
          /\ i = None => e \notin DOMAIN db.dentry
      BY <1>1, <2>0, Resolved
    <3>. QED BY <2>1, <3>1
  <2>. HIDE DEF i, p, e, end, rows, fresh, size, made
  <2>4. Whole(db, s, m) /\ Hidden(cache, m, s) => Hidden(cache', m, s)
    <3>1. Whole(db, s, m) => OpOK(db, m)
      BY DEF Whole
    <3>. QED BY <2>0, <2>1, <3>1, HiddenFilled
  <2>5. CASE i # None
    <3>1. Alike(db, db')
      BY <1>1, <2>1, <2>2, <2>3, <2>5, StoreEffect
    <3>. QED BY <1>5, <2>1, <2>4, <3>1
  <2>6. CASE i = None
    <3>1. "file" \in Kinds /\ 1 \in Int /\ ("file" # "dir" => 1 = 1)
      BY DEF Kinds
    <3>2. Tables(made) /\ made.next = db.next + 1
      BY <1>1, <2>2, <2>3, <3>1, MakeTables DEF made
    <3>3. db.next \in 2..(made.next - 1) /\ db' = SetRows(made, db.next, fresh)
      BY <1>1, <2>1, <2>6, <3>2 DEF Tables
    <3>4. db'.next = made.next /\ db'.dentry = made.dentry /\ db'.inode = made.inode
      BY <3>2, <3>3, SetRowsEffect
    <3>5. Alike(made, db')
      BY <3>4 DEF Alike
    <3>6. Extends(db, db)
      BY <1>1, ExtendsSelf
    <3>7. Extends(db, made)
      BY <1>1, <2>2, <2>3, <2>6, <3>1, <3>6, CreateExtends DEF made
    <3>8. Extends(db, db')
      BY <1>1, <3>2, <3>5, <3>7, ExtendsAlike
    <3>9. Sound' /\ Intact(db) => Intact(db')
      <4>1. SUFFICES ASSUME Sound', Intact(db) PROVE Intact(db')
        OBVIOUS
      <4>2. Present(db, e[1])
        BY <2>1, <2>3, <4>1
      <4>3. Intact(made)
        BY <1>1, <2>2, <2>3, <2>6, <3>1, <4>1, <4>2, CreateIntact DEF made
      <4>. QED BY <3>5, <4>3, AlikeNames
    <3>. QED BY <1>5, <2>1, <2>4, <3>8, <3>9
  <2>. QED BY <2>5, <2>6
<1>12. ASSUME NEW plan \in Plans, bulk_materialize_tree(plan) PROVE NamesInv' /\ LeakInv'
  <2>. DEFINE r == BulkResult(plan)
  <2>1. /\ db' = r.db /\ cache' = <<>> /\ UNCHANGED <<op, crashes>> /\ torn \subseteq torn'
        /\ Sound' => ~r.stale
    BY <1>12 DEF bulk_materialize_tree, Tear, Sound
  <2>2. Intact(db) /\ ~r.stale => Intact(r.db) /\ Extends(db, r.db)
    BY <1>1, BulkResultOK DEF Progress
  <2>. HIDE DEF r
  <2>3. Sound' => (Intact(db) => Intact(db') /\ Extends(db, db'))
    BY <2>1, <2>2
  <2>4. DOMAIN cache' = {}
    BY <2>1
  <2>5. Hidden(cache, m, s) => Hidden(cache', m, s)
    BY <2>4 DEF Hidden
  <2>. QED BY <1>5, <2>1, <2>3, <2>5
<1>. QED BY <1>10, <1>11, <1>12

\* A crash.
LEMMA NamesCrash ==
  ASSUME Types, NamesInv, Crash, crashes \in Nat
  PROVE  NamesInv' /\ LeakInv'
<1>1. /\ db' = db /\ op'["mount"] = Idle /\ op'["sdk"] = Idle /\ torn \subseteq torn' /\ crashes' = crashes + 1
      /\ Sound' => \A a \in Actors : ~(At(a, "count") /\ op[a].do # "mkdir")
  BY DEF Crash, Tear, Sound, Actors
<1>2. LeakInv'
  BY <1>1 DEF LeakInv
<1>3. ASSUME Sound' PROVE Whole(db', op'["mount"], op'["sdk"])
  <2>1. Whole(db, op["mount"], op["sdk"])
    BY <1>1, <1>3 DEF NamesInv, Sound
  <2>2. ~(op["mount"] # Idle /\ op["mount"].at = "count" /\ op["mount"].do # "mkdir")
    BY <1>1, <1>3 DEF At, Actors
  <2>3. Tables(db) /\ op["mount"] \in MountOps(db.next) /\ op["sdk"] \in SdkOps(db.next)
    BY DEF Types
  <2>4. Whole(db, Idle, Idle)
    BY <2>1, <2>2, <2>3, WholeCrash
  <2>. QED BY <1>1, <2>4
<1>4. Hidden(cache', op'["mount"], op'["sdk"])
  BY <1>1 DEF Hidden, Making
<1>. QED BY <1>2, <1>3, <1>4 DEF NamesInv

\* The empty database.
LEMMA NamesInit ==
  ASSUME Init
  PROVE  NamesInv /\ LeakInv
<1>1. op["mount"] = Idle /\ op["sdk"] = Idle /\ db = EmptyDb
  BY DEF Init, Actors
<1>2. DOMAIN db.inode = {Root} /\ db.inode[Root].kind = "dir" /\ DOMAIN db.dentry = {}
  BY <1>1 DEF EmptyDb
<1>3. Files(db) = {} /\ IsDir(db, Root)
  BY <1>2 DEF Files, IsDir
<1>4. Intact(db)
  BY <1>2, <1>3 DEF Intact
<1>5. Whole(db, Idle, Idle) /\ Settled(db, Idle, Idle) /\ Hidden(cache, Idle, Idle)
  BY <1>3, <1>4 DEF Whole, Settled, OpOK, Hidden, Making
<1>. QED BY <1>1, <1>5 DEF NamesInv, LeakInv

\* Every step keeps names and links in order.
LEMMA NamesStep ==
  ASSUME Types, Types', NamesInv, LeakInv, crashes \in Nat, [Next]_vars
  PROVE  NamesInv' /\ LeakInv' /\ crashes' \in Nat
<1>1. CASE UNCHANGED vars
  BY <1>1, NamesStutter DEF vars
<1>2. CASE \E i \in DOMAIN db.inode : open(i)
  BY <1>2, NamesStutter DEF open
<1>3. CASE release
  BY <1>3, NamesStutter DEF release
<1>4. ASSUME NEW e \in Slots, create_file(e) \/ mkdir(e) \/ mknod(e) PROVE NamesInv' /\ LeakInv' /\ crashes' \in Nat
  BY <1>4, MountMakes DEF create_file, mkdir, mknod
<1>5. CASE \/ \E e \in Slots : unlink(e) \/ rmdir(e)
           \/ \E i \in DOMAIN db.inode, e \in Slots : link(i, e)
           \/ \E e, f \in Slots : rename(e, f)
           \/ \E k \in Sizes : truncate(k)
  <2>1. crashes' = crashes
    BY <1>5 DEF unlink, rmdir, link, rename, truncate
  <2>. QED BY <1>5, <2>1, MountBegins
<1>6. CASE \E path \in Paths : read_file(path) \/ remove(path)
  BY <1>6, SdkPaths DEF read_file, remove
<1>7. CASE \/ \E off \in Offsets, data \in Payloads : pwrite(off, data)
           \/ \E path \in Paths, off \in Offsets, data \in Payloads : write_path(path, off, data)
           \/ \E plan \in Plans : bulk_materialize_tree(plan)
  <2>1. crashes' = crashes
    BY <1>7 DEF pwrite, write_path, bulk_materialize_tree
  <2>. QED BY <1>7, <2>1, Writes
<1>8. ASSUME NEW a \in Actors, AddName(a) \/ AddCount(a) \/ AddParent(a) PROVE NamesInv' /\ LeakInv' /\ crashes' \in Nat
  <2>1. crashes' = crashes
    BY <1>8 DEF AddName, AddCount, AddParent
  <2>. QED BY <1>8, <2>1, AddStatements
<1>9. ASSUME NEW a \in Actors, DropName(a) \/ DropCount(a) \/ DropParent(a) \/ Purge(a) \/ DropInode(a)
      PROVE  NamesInv' /\ LeakInv' /\ crashes' \in Nat
  <2>1. crashes' = crashes
    BY <1>9 DEF DropName, DropCount, DropParent, Purge, DropInode
  <2>. QED BY <1>9, <2>1, DropStatements
<1>10. ASSUME NEW a \in Actors, Move(a) \/ Cut(a) PROVE NamesInv' /\ LeakInv' /\ crashes' \in Nat
  <2>1. crashes' = crashes
    BY <1>10 DEF Move, Cut
  <2>. QED BY <1>10, <2>1, MoveStatements
<1>11. CASE Crash
  <2>1. crashes' = crashes + 1
    BY <1>11 DEF Crash
  <2>. QED BY <1>11, <2>1, NamesCrash
<1>. QED BY <1>1, <1>2, <1>3, <1>4, <1>5, <1>6, <1>7, <1>8, <1>9, <1>10, <1>11 DEF Next

\* The inductive invariant, in every reachable state.
LEMMA AgentFSInvariant == Spec => [](Types /\ NamesInv /\ LeakInv)
<1>. DEFINE Inv == Types /\ NamesInv /\ LeakInv /\ crashes \in Nat
<1>1. Init => Inv
  <2>1. Init => crashes \in Nat
    BY DEF Init
  <2>. QED BY <2>1, TypesInit, NamesInit
<1>2. Inv /\ [Next]_vars => Inv'
  BY TypesStep, NamesStep
<1>3. Inv => Types /\ NamesInv /\ LeakInv
  OBVIOUS
<1>. HIDE DEF Inv
<1>. QED BY <1>1, <1>2, <1>3, PTL DEF Spec

\* SPEC.md, consistency rules 1 to 3, through every interleaving of the mount's statements
\* with the SDK program's and every crash between two of them, outside the windows the
\* code leaves open: no name stands for nothing, and none lies in what is not a directory.
THEOREM NamesKept == Spec => []NamesIntact
<1>1. NamesInv => NamesIntact
  BY DEF NamesInv, NamesIntact, Whole, Intact, IsDir
<1>. QED BY <1>1, AgentFSInvariant, PTL

\* The two sums of operations in flight that LinksSuffice counts.
LEMMA InFlight ==
  ASSUME DOMAIN op = Actors, NEW i
  PROVE  /\ Dropping(i) = Drops(op["mount"], i) + Drops(op["sdk"], i)
         /\ Adding(i) = Adds(op["mount"], i) + Adds(op["sdk"], i)
<1>1. ASSUME NEW S, S \subseteq Actors
      PROVE  Cardinality(S) = (IF "mount" \in S THEN 1 ELSE 0) + (IF "sdk" \in S THEN 1 ELSE 0)
  <2>1. \/ S = {} /\ "mount" \notin S /\ "sdk" \notin S
        \/ S = {"mount"} /\ "sdk" \notin S
        \/ S = {"sdk"} /\ "mount" \notin S
        \/ S = {"mount", "sdk"}
    BY <1>1 DEF Actors
  <2>2. Cardinality({}) = 0 /\ Cardinality({"mount"}) = 1 /\ Cardinality({"sdk"}) = 1
    BY FS_EmptySet, FS_Singleton
  <2>3. Cardinality({"mount", "sdk"}) = 2
    <3>1. IsFiniteSet({"mount"}) /\ "sdk" \notin {"mount"} /\ {"mount", "sdk"} = {"mount"} \union {"sdk"}
      BY FS_Singleton
    <3>. QED BY <2>2, <3>1, FS_AddElement
  <2>. QED BY <2>1, <2>2, <2>3
<1>. DEFINE D == {a \in Actors : At(a, "uncount") /\ op[a].i = i}
            A == {a \in Actors : At(a, "count") /\ op[a].i = i}
<1>2. Dropping(i) = Cardinality(D) /\ Adding(i) = Cardinality(A) /\ D \subseteq Actors /\ A \subseteq Actors
  BY DEF Dropping, Adding
<1>3. /\ ("mount" \in D) <=> (At("mount", "uncount") /\ op["mount"].i = i)
      /\ ("sdk" \in D) <=> (At("sdk", "uncount") /\ op["sdk"].i = i)
      /\ ("mount" \in A) <=> (At("mount", "count") /\ op["mount"].i = i)
      /\ ("sdk" \in A) <=> (At("sdk", "count") /\ op["sdk"].i = i)
  BY DEF Actors
<1>. HIDE DEF D, A
<1>4. /\ Cardinality(D) = (IF "mount" \in D THEN 1 ELSE 0) + (IF "sdk" \in D THEN 1 ELSE 0)
      /\ Cardinality(A) = (IF "mount" \in A THEN 1 ELSE 0) + (IF "sdk" \in A THEN 1 ELSE 0)
  BY <1>1, <1>2
<1>5. /\ Drops(op["mount"], i) = IF "mount" \in D THEN 1 ELSE 0
      /\ Drops(op["sdk"], i) = IF "sdk" \in D THEN 1 ELSE 0
      /\ Adds(op["mount"], i) = IF "mount" \in A THEN 1 ELSE 0
      /\ Adds(op["sdk"], i) = IF "sdk" \in A THEN 1 ELSE 0
  BY <1>3 DEF Drops, Adds, At
<1>. QED BY <1>2, <1>4, <1>5

\* A file's count of links covers its names, wherever the statements of unlink, link, remove
\* and rename interleave and wherever earlier crashes struck: it is never deleted under a name.
THEOREM LinksCover == Spec => []LinksSuffice
<1>1. Types /\ NamesInv => LinksSuffice
  <2>1. SUFFICES ASSUME Types, NamesInv, Sound, NEW i \in DOMAIN db.inode, ~IsDir(db, i)
                 PROVE  Cardinality(NamesOf(db, i)) + Dropping(i) <= db.inode[i].nlink + Adding(i)
    BY DEF LinksSuffice
  <2>. DEFINE m == op["mount"]
              s == op["sdk"]
  <2>2. i \in Files(db) /\ Due(db, m, s, i) >= 0 /\ Tables(db) /\ DOMAIN op = Actors
    BY <2>1 DEF Files, NamesInv, Whole, Types
  <2>3. Dropping(i) = Drops(m, i) + Drops(s, i) /\ Adding(i) = Adds(m, i) + Adds(s, i)
    BY <2>2, InFlight
  <2>4. /\ db.inode[i].nlink \in Int /\ Cardinality(NamesOf(db, i)) \in Nat
        /\ Drops(m, i) \in {0, 1} /\ Drops(s, i) \in {0, 1} /\ Adds(m, i) \in {0, 1} /\ Adds(s, i) \in {0, 1}
    BY <2>2, Numbers
  <2>. HIDE DEF m, s
  <2>. QED BY <2>2, <2>3, <2>4 DEF Due
<1>. QED BY <1>1, AgentFSInvariant, PTL

\* Without a crash or a lost race, what has lost its last name is deleted by the operation
\* that took it, or by the other actor's that took the last link: nothing is left behind.
THEOREM FilesReclaimed == Spec => []NoFileLeaks
<1>1. Types /\ LeakInv => NoFileLeaks
  <2>1. SUFFICES ASSUME Types, LeakInv, torn = {}, crashes = 0, op = [a \in Actors |-> Idle],
                        NEW i \in DOMAIN db.inode, ~IsDir(db, i), NamesOf(db, i) = {}
                 PROVE  FALSE
    BY DEF NoFileLeaks
  <2>2. op["mount"] = Idle /\ op["sdk"] = Idle /\ i \in Files(db)
    BY <2>1 DEF Actors, Files
  <2>3. Settles(Idle, i)
    BY <2>1, <2>2 DEF LeakInv, Settled
  <2>. QED BY <2>3 DEF Settles
<1>. QED BY <1>1, AgentFSInvariant, PTL

-----------------------------------------------------------------------------
(* Chunks.                                                                 *)

\* The rows of a file: at most ChunkSize bytes each.
RowsOK(rows) ==
    \A c \in DOMAIN rows : c \in Nat /\ rows[c] \in Seq(Bytes) /\ Len(rows[c]) <= ChunkSize

\* Division with remainder.
LEMMA Division ==
  ASSUME NEW p \in Nat, NEW c \in Nat, c > 0
  PROVE  p \div c \in Nat /\ p % c \in 0..(c - 1) /\ p = (p \div c) * c + (p % c)
<1>1. p = (p \div c) * c + (p % c)
  OBVIOUS
<1>2. p \div c \in Nat /\ p % c \in 0..(c - 1)
  OBVIOUS
<1>. QED BY <1>1, <1>2

\* The chunk of a position.
LEMMA DivMod ==
  ASSUME NEW p \in Nat
  PROVE  /\ p \div ChunkSize \in Nat /\ p % ChunkSize \in 0..(ChunkSize - 1)
         /\ p = (p \div ChunkSize) * ChunkSize + (p % ChunkSize)
<1>1. ChunkSize \in Nat /\ ChunkSize > 0
  BY ChunkSizeAssumption
<1>2. p \div ChunkSize \in Nat /\ p % ChunkSize \in 0..(ChunkSize - 1)
      /\ p = (p \div ChunkSize) * ChunkSize + (p % ChunkSize)
  BY <1>1, Division
<1>. QED BY <1>1, <1>2

\* Where chunks begin.
LEMMA MulMono ==
  ASSUME NEW c \in Nat, NEW b \in Nat
  PROVE  /\ c * ChunkSize \in Nat
         /\ (c + 1) * ChunkSize = c * ChunkSize + ChunkSize
         /\ c < b => c * ChunkSize + ChunkSize <= b * ChunkSize
         /\ c <= b => c * ChunkSize <= b * ChunkSize
BY ChunkSizeAssumption

\* The chunk of a position is the one that holds it.
LEMMA ChunkOf ==
  ASSUME NEW c \in Nat, NEW k \in 0..(ChunkSize - 1)
  PROVE  (c * ChunkSize + k) \div ChunkSize = c /\ (c * ChunkSize + k) % ChunkSize = k
<1>. DEFINE p == c * ChunkSize + k
            q == p \div ChunkSize
<1>0. c * ChunkSize \in Nat
  BY MulMono
<1>1. p \in Nat
  BY <1>0, ChunkSizeAssumption
<1>2. q \in Nat /\ p % ChunkSize \in 0..(ChunkSize - 1) /\ p = q * ChunkSize + (p % ChunkSize)
  BY <1>1, DivMod
<1>3. q * ChunkSize \in Nat
  BY <1>2, MulMono
<1>. DEFINE r == p % ChunkSize
            cc == c * ChunkSize
            qq == q * ChunkSize
<1>4. cc \in Nat /\ qq \in Nat /\ r \in 0..(ChunkSize - 1) /\ cc + k = qq + r
  BY <1>0, <1>2, <1>3
<1>5. (q < c => qq + ChunkSize <= cc) /\ (c < q => cc + ChunkSize <= qq) /\ (q = c => qq = cc)
  BY <1>2, MulMono
<1>. HIDE DEF p, q, r, cc, qq
<1>6. q = c
  BY <1>2, <1>4, <1>5, ChunkSizeAssumption
<1>7. r = k
  BY <1>4, <1>5, <1>6, ChunkSizeAssumption
<1>. QED BY <1>6, <1>7 DEF q, r, p

\* The chunks a write touches begin before its end; all but the last one end before it,
\* and the last one reaches it.
LEMMA TouchedChunks ==
  ASSUME NEW off \in Nat, NEW len \in Nat \ {0}, NEW c \in Touched(off, len)
  PROVE  LET last == (off + len - 1) \div ChunkSize
         IN  /\ c \in Nat /\ c * ChunkSize \in Nat /\ c * ChunkSize < off + len
             /\ c # last => c * ChunkSize + ChunkSize <= off + len
             /\ c = last => off + len <= c * ChunkSize + ChunkSize
<1>. DEFINE e == off + len - 1
            last == e \div ChunkSize
            first == off \div ChunkSize
<1>1. e \in Nat /\ off + len = e + 1
  OBVIOUS
<1>2. first \in Nat
  BY DivMod
<1>3. last \in Nat /\ e % ChunkSize \in 0..(ChunkSize - 1) /\ e = last * ChunkSize + (e % ChunkSize)
  BY <1>1, DivMod
<1>4. c \in first..last
  BY DEF Touched
<1>. DEFINE r == e % ChunkSize
            cc == c * ChunkSize
            ll == last * ChunkSize
<1>. HIDE DEF e, last, first
<1>5. c \in Nat /\ c <= last
  BY <1>2, <1>3, <1>4
<1>6. cc \in Nat /\ ll \in Nat /\ (c < last => cc + ChunkSize <= ll) /\ cc <= ll /\ (c = last => cc = ll)
  BY <1>3, <1>5, MulMono
<1>7. r \in 0..(ChunkSize - 1) /\ e = ll + r
  BY <1>3
<1>. HIDE DEF r, cc, ll
<1>8. cc < e + 1 /\ (c # last => cc + ChunkSize <= e + 1) /\ (c = last => e + 1 <= cc + ChunkSize)
  BY <1>3, <1>5, <1>6, <1>7, <1>1, ChunkSizeAssumption
<1>. QED BY <1>1, <1>5, <1>6, <1>8 DEF last, cc, e

\* A byte of a row that is written: the data where it lies, or what was there, or zero.
LEMMA OverlaidType ==
  ASSUME NEW rows, RowsOK(rows), NEW c \in Nat, NEW off \in Nat, NEW data \in Seq(Bytes), NEW len \in Nat
  PROVE  LET row == [k \in 1..len |-> Overlaid(rows, c, k, off, data)] IN row \in Seq(Bytes) /\ Len(row) = len
<1>. DEFINE cc == c * ChunkSize
            old == RowOf(rows, c)
            row == [k \in 1..len |-> Overlaid(rows, c, k, off, data)]
<1>1. cc \in Nat
  BY MulMono
<1>2. old \in Seq(Bytes)
  BY DEF RowOf, RowsOK
<1>4. \A k \in 1..len : Overlaid(rows, c, k, off, data) \in Bytes
  <2>1. SUFFICES ASSUME NEW k \in 1..len PROVE Overlaid(rows, c, k, off, data) \in Bytes
    OBVIOUS
  <2>. DEFINE p == cc + k - 1
              b == Overlaid(rows, c, k, off, data)
  <2>2. b = IF off <= p /\ p < off + Len(data) THEN data[p - off + 1]
            ELSE IF k <= Len(old) THEN old[k] ELSE 0
    BY Zenon DEF Overlaid
  <2>3. p \in Nat /\ Len(data) \in Nat /\ Len(old) \in Nat
    BY <1>1, <1>2
  <2>. HIDE DEF b, p, old
  <2>4. off <= p /\ p < off + Len(data) => p - off + 1 \in 1..Len(data)
    BY <2>3
  <2>5. off <= p /\ p < off + Len(data) => data[p - off + 1] \in Bytes
    BY <2>4
  <2>6. k <= Len(old) => old[k] \in Bytes
    BY <1>2, <2>3
  <2>7. 0 \in Bytes
    BY DEF Bytes
  <2>8. b \in Bytes
    BY <2>2, <2>5, <2>6, <2>7
  <2>. QED BY <2>8 DEF b
<1>5. row \in [1..len -> Bytes]
  BY <1>4
<1>. HIDE DEF row
<1>6. row \in Seq(Bytes) /\ Len(row) = len
  BY <1>5
<1>. QED BY <1>6 DEF row

\* What a write through the open file leaves: rows within their chunks, and within the file
\* if they were.
LEMMA WriteRows ==
  ASSUME NEW rows, RowsOK(rows), NEW size \in Nat, NEW off \in Nat, NEW data \in Seq(Bytes), data # <<>>
  PROVE  LET new == write_data_at_offset(rows, off, data)
         IN  /\ RowsOK(new)
             /\ RowsFit(rows, size) => RowsFit(new, MaxOf(size, off + Len(data)))
<1>. DEFINE len == Len(data)
            T == Touched(off, len)
            new == write_data_at_offset(rows, off, data)
            past == MaxOf(size, off + len)
            end(c) == MinOf(ChunkSize, off + len - c * ChunkSize)
            long(c) == MaxOf(Len(RowOf(rows, c)), end(c))
<1>1. len \in Nat \ {0}
  OBVIOUS
<1>2. /\ DOMAIN new = DOMAIN rows \union T
      /\ \A c \in DOMAIN new : new[c] = IF c \notin T THEN rows[c]
                                        ELSE [k \in 1..long(c) |-> Overlaid(rows, c, k, off, data)]
  BY DEF write_data_at_offset
<1>3. past \in Nat /\ size <= past /\ off + len <= past
  BY <1>1 DEF MaxOf
<1>. HIDE DEF new, T, past, len
<1>4. ASSUME NEW c \in DOMAIN new
      PROVE  /\ c \in Nat /\ new[c] \in Seq(Bytes) /\ Len(new[c]) <= ChunkSize
             /\ RowsFit(rows, size) => c * ChunkSize + Len(new[c]) <= past
  <2>1. CASE c \notin T
    <3>1. c \in DOMAIN rows /\ new[c] = rows[c]
      BY <1>2, <2>1
    <3>2. c \in Nat /\ rows[c] \in Seq(Bytes) /\ Len(rows[c]) <= ChunkSize /\ c * ChunkSize \in Nat
      BY <3>1, MulMono DEF RowsOK
    <3>3. RowsFit(rows, size) => c * ChunkSize + Len(rows[c]) <= size
      BY <3>1 DEF RowsFit
    <3>. DEFINE cc == c * ChunkSize
                l == Len(rows[c])
    <3>4. cc \in Nat /\ l \in Nat /\ (RowsFit(rows, size) => cc + l <= size)
      BY <3>2, <3>3
    <3>. HIDE DEF cc, l
    <3>5. RowsFit(rows, size) => cc + l <= past
      BY <1>3, <3>4
    <3>. QED BY <3>1, <3>2, <3>5 DEF cc, l
  <2>2. CASE c \in T
    <3>. DEFINE cc == c * ChunkSize
                l == Len(RowOf(rows, c))
                m == long(c)
    <3>1. c \in Nat /\ cc \in Nat /\ cc < off + len
      BY <1>1, <2>2, TouchedChunks DEF T
    <3>2. l \in Nat /\ l <= ChunkSize /\ (RowsFit(rows, size) /\ l # 0 => cc + l <= size)
      BY ChunkSizeAssumption DEF RowOf, RowsOK, RowsFit
    <3>3. m = MaxOf(l, MinOf(ChunkSize, off + len - cc))
      OBVIOUS
    <3>. HIDE DEF cc, l, m
    <3>4. m \in Nat /\ m <= ChunkSize /\ (RowsFit(rows, size) => cc + m <= past)
      BY <1>1, <1>3, <3>1, <3>2, <3>3, ChunkSizeAssumption DEF MaxOf, MinOf
    <3>5. new[c] = [k \in 1..m |-> Overlaid(rows, c, k, off, data)]
      BY <1>2, <2>2 DEF m
    <3>6. new[c] \in Seq(Bytes) /\ Len(new[c]) = m
      <4>. DEFINE row == [k \in 1..m |-> Overlaid(rows, c, k, off, data)]
      <4>1. row \in Seq(Bytes) /\ Len(row) = m
        BY <3>1, <3>4, OverlaidType
      <4>2. new[c] = row
        BY <3>5
      <4>. HIDE DEF row
      <4>. QED BY <4>1, <4>2
    <3>. QED BY <3>1, <3>4, <3>6 DEF cc
  <2>. QED BY <2>1, <2>2
<1>5. RowsOK(new)
  BY <1>4 DEF RowsOK
<1>6. RowsFit(rows, size) => RowsFit(new, past)
  BY <1>4 DEF RowsFit
<1>. QED BY <1>5, <1>6 DEF new, past, len

\* What a write by path leaves: the same, though it fills the rows it passes with zeros.
LEMMA PathRows ==
  ASSUME NEW rows, RowsOK(rows), NEW size \in Nat, NEW off \in Nat, NEW data \in Seq(Bytes), data # <<>>
  PROVE  LET new == path_pwrite(rows, size, off, data)
         IN  /\ RowsOK(new)
             /\ RowsFit(rows, size) => RowsFit(new, MaxOf(size, off + Len(data)))
<1>. DEFINE len == Len(data)
            T == Touched(off, len)
            new == path_pwrite(rows, size, off, data)
            past == MaxOf(size, off + len)
            last == ((off + len) - 1) \div ChunkSize
            oldEnd(c) == IF size > c * ChunkSize THEN MinOf(size - c * ChunkSize, ChunkSize) ELSE 0
            long(c) == IF c = last THEN MaxOf((off + len) - c * ChunkSize, oldEnd(c)) ELSE ChunkSize
<1>1. len \in Nat \ {0}
  OBVIOUS
<1>2. /\ DOMAIN new = DOMAIN rows \union T
      /\ \A c \in DOMAIN new : new[c] = IF c \notin T THEN rows[c]
                                        ELSE [k \in 1..long(c) |-> Overlaid(rows, c, k, off, data)]
  <2>. DEFINE F(c) == IF c \notin T THEN rows[c] ELSE [k \in 1..long(c) |-> Overlaid(rows, c, k, off, data)]
  <2>1. new = [c \in DOMAIN rows \union T |-> F(c)]
    BY Zenon DEF path_pwrite
  <2>. HIDE DEF F
  <2>2. DOMAIN new = DOMAIN rows \union T /\ \A c \in DOMAIN new : new[c] = F(c)
    BY <2>1
  <2>. QED BY <2>2, Zenon DEF F
<1>3. past \in Nat /\ size <= past /\ off + len <= past
  BY <1>1 DEF MaxOf
<1>. HIDE DEF new, T, past, len, last
<1>4. ASSUME NEW c \in DOMAIN new
      PROVE  /\ c \in Nat /\ new[c] \in Seq(Bytes) /\ Len(new[c]) <= ChunkSize
             /\ RowsFit(rows, size) => c * ChunkSize + Len(new[c]) <= past
  <2>1. CASE c \notin T
    <3>1. c \in DOMAIN rows /\ new[c] = rows[c]
      BY <1>2, <2>1
    <3>2. c \in Nat /\ rows[c] \in Seq(Bytes) /\ Len(rows[c]) <= ChunkSize /\ c * ChunkSize \in Nat
      BY <3>1, MulMono DEF RowsOK
    <3>3. RowsFit(rows, size) => c * ChunkSize + Len(rows[c]) <= size
      BY <3>1 DEF RowsFit
    <3>. DEFINE cc == c * ChunkSize
                l == Len(rows[c])
    <3>4. cc \in Nat /\ l \in Nat /\ (RowsFit(rows, size) => cc + l <= size)
      BY <3>2, <3>3
    <3>. HIDE DEF cc, l
    <3>5. RowsFit(rows, size) => cc + l <= past
      BY <1>3, <3>4
    <3>. QED BY <3>1, <3>2, <3>5 DEF cc, l
  <2>2. CASE c \in T
    <3>. DEFINE cc == c * ChunkSize
                m == long(c)
    <3>1. /\ c \in Nat /\ cc \in Nat /\ cc < off + len
          /\ c # last => cc + ChunkSize <= off + len
          /\ c = last => off + len <= cc + ChunkSize
      <4>1. last = (off + len - 1) \div ChunkSize
        BY <1>1 DEF last
      <4>. QED BY <1>1, <2>2, <4>1, TouchedChunks DEF T
    <3>2. m = IF c = last THEN MaxOf((off + len) - cc, IF size > cc THEN MinOf(size - cc, ChunkSize) ELSE 0) ELSE ChunkSize
      OBVIOUS
    <3>. HIDE DEF cc, m
    <3>3. m \in Nat /\ m <= ChunkSize /\ cc + m <= past
      BY <1>1, <1>3, <3>1, <3>2, ChunkSizeAssumption DEF MaxOf, MinOf
    <3>4. new[c] = [k \in 1..m |-> Overlaid(rows, c, k, off, data)]
      BY <1>2, <2>2 DEF m
    <3>5. new[c] \in Seq(Bytes) /\ Len(new[c]) = m
      <4>. DEFINE row == [k \in 1..m |-> Overlaid(rows, c, k, off, data)]
      <4>1. row \in Seq(Bytes) /\ Len(row) = m
        BY <3>1, <3>3, OverlaidType
      <4>2. new[c] = row
        BY <3>4
      <4>. HIDE DEF row
      <4>. QED BY <4>1, <4>2
    <3>. QED BY <3>1, <3>3, <3>5 DEF cc
  <2>. QED BY <2>1, <2>2
<1>5. RowsOK(new)
  BY <1>4 DEF RowsOK
<1>6. RowsFit(rows, size) => RowsFit(new, past)
  BY <1>4 DEF RowsFit
<1>. QED BY <1>5, <1>6 DEF new, past, len

\* The rows of a file a plan writes are its bytes, cut into chunks.
LEMMA BulkRows ==
  ASSUME NEW bytes \in Seq(Bytes)
  PROVE  LET new == insert_bulk_file_chunks(bytes) IN RowsOK(new) /\ RowsFit(new, Len(bytes))
<1>. DEFINE len == Len(bytes)
            new == insert_bulk_file_chunks(bytes)
<1>1. len \in Nat
  OBVIOUS
<1>2. /\ DOMAIN new = {k \in 0..len : k * ChunkSize < len}
      /\ \A c \in DOMAIN new : new[c] = SubSeq(bytes, c * ChunkSize + 1, MinOf((c + 1) * ChunkSize, len))
  BY DEF insert_bulk_file_chunks
<1>. HIDE DEF new
<1>3. ASSUME NEW c \in DOMAIN new
      PROVE  /\ c \in Nat /\ new[c] \in Seq(Bytes) /\ Len(new[c]) <= ChunkSize
             /\ c * ChunkSize + Len(new[c]) <= len
  <2>1. c \in Nat /\ c * ChunkSize < len
    BY <1>1, <1>2
  <2>. DEFINE cc == c * ChunkSize
              dd == (c + 1) * ChunkSize
              to == MinOf(dd, len)
  <2>2. cc \in Nat /\ dd = cc + ChunkSize
    BY <2>1, MulMono
  <2>3. cc < len
    BY <2>1
  <2>4. new[c] = SubSeq(bytes, cc + 1, to)
    BY <1>2
  <2>. HIDE DEF cc, dd
  <2>5. cc + 1 \in 1..(len + 1) /\ to \in Nat /\ to <= len /\ cc + 1 <= to /\ to - cc <= ChunkSize
    BY <1>1, <2>2, <2>3, ChunkSizeAssumption DEF MinOf
  <2>. HIDE DEF to
  <2>6. cc + 1 \in 1..len /\ to \in (cc + 1)..len
    BY <1>1, <2>2, <2>5
  <2>7. new[c] \in Seq(Bytes) /\ Len(new[c]) = to - (cc + 1) + 1
    <3>1. \A m \in 1..Len(bytes) : \A n \in m..Len(bytes) :
            SubSeq(bytes, m, n) \in Seq(Bytes) /\ Len(SubSeq(bytes, m, n)) = n - m + 1
      OBVIOUS
    <3>. QED BY <2>4, <2>6, <3>1
  <2>8. Len(new[c]) <= ChunkSize /\ cc + Len(new[c]) <= len
    BY <1>1, <2>2, <2>5, <2>7, ChunkSizeAssumption
  <2>. QED BY <2>1, <2>7, <2>8 DEF cc
<1>. QED BY <1>3 DEF RowsOK, RowsFit, new

\* The row that holds a file's last byte, and how much of it a truncation keeps.
LEMMA LastChunk ==
  ASSUME NEW n \in Nat \ {0}
  PROVE  LET last == (n - 1) \div ChunkSize
             rest == n % ChunkSize
         IN  /\ last \in Nat /\ last * ChunkSize \in Nat /\ rest \in 0..(ChunkSize - 1)
             /\ rest = 0 => last * ChunkSize + ChunkSize = n
             /\ rest > 0 => last * ChunkSize + rest = n
<1>. DEFINE m == n - 1
            last == m \div ChunkSize
            s == m % ChunkSize
            ll == last * ChunkSize
            q == n \div ChunkSize
            rest == n % ChunkSize
            qq == q * ChunkSize
<1>1. m \in Nat /\ n = m + 1
  OBVIOUS
<1>2. last \in Nat /\ s \in 0..(ChunkSize - 1) /\ m = ll + s
  BY <1>1, DivMod
<1>3. q \in Nat /\ rest \in 0..(ChunkSize - 1) /\ n = qq + rest
  BY DivMod
<1>4. /\ ll \in Nat /\ qq \in Nat
      /\ (last < q => ll + ChunkSize <= qq) /\ (q < last => qq + ChunkSize <= ll)
      /\ (q = last => qq = ll)
  BY <1>2, <1>3, MulMono
<1>5. last + 1 \in Nat /\ (last + 1) * ChunkSize = ll + ChunkSize
      /\ (last + 1 < q => (last + 1) * ChunkSize + ChunkSize <= qq)
  BY <1>2, <1>3, MulMono
<1>. HIDE DEF m, last, s, ll, q, rest, qq
<1>6. (rest = 0 => ll + ChunkSize = n) /\ (rest > 0 => ll + rest = n)
  <2>1. last <= q
    BY <1>1, <1>2, <1>3, <1>4, ChunkSizeAssumption
  <2>2. CASE last = q
    BY <2>2, <1>1, <1>2, <1>3, <1>4, ChunkSizeAssumption
  <2>3. CASE last < q
    <3>1. ll + ChunkSize <= qq /\ qq + rest = ll + s + 1
      BY <1>1, <1>2, <1>3, <1>4, <2>3
    <3>. QED BY <3>1, <1>1, <1>2, <1>3, <1>4, ChunkSizeAssumption
  <2>. QED BY <1>2, <1>3, <2>1, <2>2, <2>3
<1>. QED BY <1>2, <1>3, <1>4, <1>6 DEF last, rest, ll, m

\* What a truncation leaves of rows that fit the size it has read.
LEMMA CutRows ==
  ASSUME NEW rows, RowsOK(rows), NEW size \in Nat, NEW n \in Nat
  PROVE  LET new == truncate_rows(rows, size, n)
         IN  RowsOK(new) /\ (RowsFit(rows, size) => RowsFit(new, n))
<1>. DEFINE new == truncate_rows(rows, size, n)
            last == (n - 1) \div ChunkSize
            rest == n % ChunkSize
<1>1. CASE n = 0
  <2>1. new = NoRows /\ DOMAIN NoRows = {}
    BY <1>1 DEF truncate_rows, NoRows
  <2>. HIDE DEF new
  <2>2. RowsOK(new) /\ RowsFit(new, n)
    BY <2>1 DEF RowsOK, RowsFit
  <2>. QED BY <2>2 DEF new
<1>2. CASE n # 0 /\ ~(n < size)
  <2>1. new = rows /\ size <= n
    BY <1>2 DEF truncate_rows
  <2>. HIDE DEF new
  <2>2. RowsFit(rows, size) => RowsFit(rows, n)
    <3>1. SUFFICES ASSUME RowsFit(rows, size), NEW c \in DOMAIN rows
                   PROVE  Len(rows[c]) <= ChunkSize /\ c * ChunkSize + Len(rows[c]) <= n
      BY DEF RowsFit
    <3>. DEFINE x == c * ChunkSize + Len(rows[c])
    <3>2. c * ChunkSize \in Nat /\ Len(rows[c]) \in Nat
      BY MulMono DEF RowsOK
    <3>3. x \in Nat /\ x <= size /\ Len(rows[c]) <= ChunkSize
      BY <3>1, <3>2 DEF RowsFit
    <3>. HIDE DEF x
    <3>4. x <= n
      BY <2>1, <3>3
    <3>. QED BY <3>3, <3>4 DEF x
  <2>3. RowsOK(new) /\ (RowsFit(rows, size) => RowsFit(new, n))
    BY <2>1, <2>2
  <2>. QED BY <2>3 DEF new
<1>3. CASE n # 0 /\ n < size
  <2>1. /\ last \in Nat /\ last * ChunkSize \in Nat /\ rest \in 0..(ChunkSize - 1)
        /\ rest = 0 => last * ChunkSize + ChunkSize = n
        /\ rest > 0 => last * ChunkSize + rest = n
    BY <1>3, LastChunk
  <2>2. /\ DOMAIN new = {k \in DOMAIN rows : k <= last}
        /\ \A c \in DOMAIN new : new[c] = IF c = last /\ rest > 0 THEN SubSeq(rows[c], 1, MinOf(Len(rows[c]), rest))
                                          ELSE rows[c]
    BY <1>3 DEF truncate_rows
  <2>. HIDE DEF new, last, rest
  <2>3. ASSUME NEW c \in DOMAIN new
        PROVE  /\ c \in Nat /\ new[c] \in Seq(Bytes) /\ Len(new[c]) <= ChunkSize
               /\ c * ChunkSize + Len(new[c]) <= n
    <3>. DEFINE cc == c * ChunkSize
                ll == last * ChunkSize
                l == Len(rows[c])
                row == rows[c]
    <3>1. c \in DOMAIN rows /\ c <= last
      BY <2>2
    <3>2. c \in Nat /\ row \in Seq(Bytes) /\ l \in Nat /\ l <= ChunkSize
      BY <3>1 DEF RowsOK
    <3>3. cc \in Nat /\ ll \in Nat /\ (c < last => cc + ChunkSize <= ll) /\ (c = last => cc = ll)
      BY <2>1, <3>2, MulMono
    <3>4. CASE c = last /\ rest > 0
      <4>. DEFINE m == MinOf(l, rest)
      <4>1. new[c] = SubSeq(row, 1, m)
        BY <2>2, <3>4
      <4>2. m \in 0..l /\ m <= rest
        BY <2>1, <3>2 DEF MinOf
      <4>. HIDE DEF m, row
      <4>3. SubSeq(row, 1, m) \in Seq(Bytes) /\ Len(SubSeq(row, 1, m)) = m
        <5>1. l = Len(row)
          BY DEF row
        <5>. HIDE DEF l
        <5>. QED BY <3>2, <4>2, <5>1
      <4>. HIDE DEF l, cc, ll
      <4>4. m <= ChunkSize /\ cc + m <= n
        BY <2>1, <3>2, <3>3, <3>4, <4>2, ChunkSizeAssumption DEF ll
      <4>. QED BY <3>2, <4>1, <4>3, <4>4 DEF cc
    <3>5. CASE ~(c = last /\ rest > 0)
      <4>1. new[c] = row
        BY <2>2, <3>5
      <4>2. (rest = 0 => ll + ChunkSize = n) /\ (rest > 0 => ll + rest = n)
        BY <2>1
      <4>. HIDE DEF l, cc, ll
      <4>3. cc + l <= n
        BY <2>1, <3>1, <3>2, <3>3, <3>5, <4>2, ChunkSizeAssumption
      <4>. QED BY <3>2, <4>1, <4>3 DEF cc, l
    <3>. QED BY <3>4, <3>5
  <2>4. RowsOK(new) /\ RowsFit(new, n)
    BY <2>3 DEF RowsOK, RowsFit
  <2>. QED BY <2>4 DEF new
<1>. QED BY <1>1, <1>2, <1>3

-----------------------------------------------------------------------------
(* Bytes.                                                                  *)

\* Every row is within its chunk, whatever happens; outside the windows the code leaves
\* open, every row of a file is within the file.
Stored(d) == \A i \in DOMAIN d.data : RowsOK(d.data[i])
Fits(d) == \A i \in DOMAIN d.inode : RowsFit(Rows(d, i), Size(d, i))
BytesInv == Stored(db) /\ (Sound => Fits(db))
Keeps(d, d2) == Stored(d) => Stored(d2) /\ (Fits(d) => Fits(d2))

\* No rows fit anywhere.
LEMMA NoRowsFit == RowsOK(NoRows) /\ \A n : RowsFit(NoRows, n)
<1>1. DOMAIN NoRows = {}
  BY DEF NoRows
<1>. QED BY <1>1 DEF RowsOK, RowsFit

\* Rows that are looked up are stored rows, or none.
LEMMA RowsStored ==
  ASSUME NEW d, Stored(d), NEW i
  PROVE  RowsOK(Rows(d, i))
BY NoRowsFit DEF Rows, Stored

\* Rows only go, sizes stay, and a new inode has no rows.
LEMMA KeepsFewer ==
  ASSUME NEW d, NEW d2,
         \A j \in DOMAIN d2.data : j \in DOMAIN d.data /\ d2.data[j] = d.data[j],
         \A j \in DOMAIN d2.inode : \/ j \notin DOMAIN d2.data
                                    \/ j \in DOMAIN d.inode /\ d2.inode[j].size = d.inode[j].size
  PROVE  Keeps(d, d2)
<1>1. Stored(d) => Stored(d2)
  BY DEF Stored
<1>2. ASSUME Fits(d), NEW j \in DOMAIN d2.inode PROVE RowsFit(Rows(d2, j), Size(d2, j))
  <2>1. CASE j \notin DOMAIN d2.data
    BY <2>1, NoRowsFit DEF Rows
  <2>2. CASE j \in DOMAIN d2.data
    <3>1. j \in DOMAIN d.inode /\ Rows(d2, j) = Rows(d, j) /\ Size(d2, j) = Size(d, j)
      BY <2>2 DEF Rows, Size
    <3>. QED BY <1>2, <3>1 DEF Fits
  <2>. QED BY <2>1, <2>2
<1>. QED BY <1>1, <1>2 DEF Keeps, Fits

\* One file gets rows that fit it, and the others stay as they are.
Storing(d, d2, i) ==
    /\ DOMAIN d2.data = DOMAIN d.data \union {i}
    /\ \A j \in DOMAIN d.data : j # i => d2.data[j] = d.data[j]
    /\ \A j \in DOMAIN d2.inode : j # i => j \in DOMAIN d.inode /\ d2.inode[j].size = d.inode[j].size
    /\ Stored(d) => RowsOK(d2.data[i])
    /\ Stored(d) /\ Fits(d) /\ i \in DOMAIN d2.inode => RowsFit(d2.data[i], Size(d2, i))

\* The tables stay in order.
LEMMA KeepsStore ==
  ASSUME NEW d, NEW d2, NEW i, Storing(d, d2, i)
  PROVE  Keeps(d, d2)
<1>1. Stored(d) => Stored(d2)
  BY DEF Stored, Storing
<1>2. ASSUME Stored(d), Fits(d), NEW j \in DOMAIN d2.inode PROVE RowsFit(Rows(d2, j), Size(d2, j))
  <2>1. CASE j = i
    BY <1>2, <2>1 DEF Rows, Storing
  <2>2. CASE j # i
    <3>1. j \in DOMAIN d.inode /\ Rows(d2, j) = Rows(d, j) /\ Size(d2, j) = Size(d, j)
      BY <2>2 DEF Rows, Size, Storing
    <3>. QED BY <1>2, <3>1 DEF Fits
  <2>. QED BY <2>1, <2>2
<1>. QED BY <1>1, <1>2 DEF Keeps, Fits

\* Steps one after the other.
LEMMA KeepsTrans ==
  ASSUME NEW d, NEW d2, NEW d3, Keeps(d, d2), Keeps(d2, d3)
  PROVE  Keeps(d, d3)
BY DEF Keeps

\* Names, links and deletions.
LEMMA KeepsEdits ==
  ASSUME NEW d, Tables(d)
  PROVE  /\ \A kind \in Kinds, nlink \in Int, size \in Nat : Keeps(d, InsertInode(d, kind, nlink, size))
         /\ \A e \in Slot(d.next), i \in 2..(d.next - 1) : Keeps(d, InsertDentry(d, e, i))
         /\ \A e : Keeps(d, DeleteDentry(d, e))
         /\ \A i : \A n \in Int : Keeps(d, AddLinks(d, i, n))
         /\ \A i : Keeps(d, DeleteData(d, i))
         /\ \A i : Keeps(d, DeleteInode(d, i))
<1>1. ASSUME NEW kind \in Kinds, NEW nlink \in Int, NEW size \in Nat PROVE Keeps(d, InsertInode(d, kind, nlink, size))
  <2>. DEFINE d2 == InsertInode(d, kind, nlink, size)
  <2>1. /\ Tables(d2)
        /\ d2.next = d.next + 1 /\ d2.dentry = d.dentry /\ d2.data = d.data
        /\ DOMAIN d2.inode = DOMAIN d.inode \union {d.next} /\ d.next \notin DOMAIN d.inode
        /\ d2.inode[d.next] = [kind |-> kind, nlink |-> nlink, size |-> size]
        /\ \A j \in DOMAIN d.inode : d2.inode[j] = d.inode[j]
    BY InsertInodeEffect
  <2>2. d.next \notin DOMAIN d.data
    BY DEF Tables
  <2>. HIDE DEF d2
  <2>3. Keeps(d, d2)
    BY <2>1, <2>2, KeepsFewer
  <2>. QED BY <2>3 DEF d2
<1>2. ASSUME NEW e \in Slot(d.next), NEW i \in 2..(d.next - 1) PROVE Keeps(d, InsertDentry(d, e, i))
  <2>. DEFINE d2 == InsertDentry(d, e, i)
  <2>1. /\ Tables(d2)
        /\ d2.next = d.next /\ d2.inode = d.inode /\ d2.data = d.data
        /\ DOMAIN d2.dentry = DOMAIN d.dentry \union {e} /\ d2.dentry[e] = i
        /\ \A x \in DOMAIN d.dentry : x # e => d2.dentry[x] = d.dentry[x]
    BY InsertDentryEffect
  <2>. HIDE DEF d2
  <2>2. Keeps(d, d2)
    BY <2>1, KeepsFewer
  <2>. QED BY <2>2 DEF d2
<1>3. ASSUME NEW e PROVE Keeps(d, DeleteDentry(d, e))
  <2>. DEFINE d2 == DeleteDentry(d, e)
  <2>1. d2.data = d.data /\ d2.inode = d.inode
    BY DeleteDentryEffect
  <2>. HIDE DEF d2
  <2>2. Keeps(d, d2)
    BY <2>1, KeepsFewer
  <2>. QED BY <2>2 DEF d2
<1>4. ASSUME NEW i, NEW n \in Int PROVE Keeps(d, AddLinks(d, i, n))
  <2>. DEFINE d2 == AddLinks(d, i, n)
  <2>1. /\ d2.data = d.data /\ DOMAIN d2.inode = DOMAIN d.inode
        /\ \A j \in DOMAIN d.inode : d2.inode[j].size = d.inode[j].size
    BY AddLinksEffect
  <2>. HIDE DEF d2
  <2>2. Keeps(d, d2)
    BY <2>1, KeepsFewer
  <2>. QED BY <2>2 DEF d2
<1>5. ASSUME NEW i PROVE Keeps(d, DeleteData(d, i))
  <2>. DEFINE d2 == DeleteData(d, i)
  <2>1. /\ d2.inode = d.inode /\ DOMAIN d2.data = DOMAIN d.data \ {i}
        /\ \A j \in DOMAIN d.data \ {i} : d2.data[j] = d.data[j]
    BY DeleteDataEffect
  <2>. HIDE DEF d2
  <2>2. Keeps(d, d2)
    BY <2>1, KeepsFewer
  <2>. QED BY <2>2 DEF d2
<1>6. ASSUME NEW i PROVE Keeps(d, DeleteInode(d, i))
  <2>. DEFINE d2 == DeleteInode(d, i)
  <2>1. /\ d2.data = d.data /\ DOMAIN d2.inode = DOMAIN d.inode \ {i}
        /\ \A j \in DOMAIN d.inode \ {i} : d2.inode[j] = d.inode[j]
    BY DeleteInodeEffect
  <2>. HIDE DEF d2
  <2>2. Keeps(d, d2)
    BY <2>1, KeepsFewer
  <2>. QED BY <2>2 DEF d2
<1>. QED BY <1>1, <1>2, <1>3, <1>4, <1>5, <1>6

\* The links of a new directory.
LEMMA KeepsSetLinks ==
  ASSUME NEW d, Tables(d), NEW i
  PROVE  Keeps(d, [d EXCEPT !.inode[i].nlink = 2])
<1>. DEFINE row == [d.inode[i] EXCEPT !.nlink = 2]
            d2 == [d EXCEPT !.inode[i].nlink = 2]
<1>1. d2 = [inode |-> [d.inode EXCEPT ![i] = row], dentry |-> d.dentry, data |-> d.data, next |-> d.next]
  BY DEF Tables, IsDb
<1>2. i \in DOMAIN d.inode => row.size = d.inode[i].size
  BY DEF Tables, InodeRow
<1>. HIDE DEF d2, row
<1>3. /\ d2.data = d.data /\ DOMAIN d2.inode = DOMAIN d.inode
      /\ \A j \in DOMAIN d.inode : d2.inode[j].size = d.inode[j].size
  BY <1>1, <1>2
<1>4. Keeps(d, d2)
  BY <1>3, KeepsFewer
<1>. QED BY <1>4 DEF d2

\* What a write or a truncation stores.
LEMMA KeepsWrite ==
  ASSUME NEW d, Tables(d), NEW i \in 2..(d.next - 1), NEW rows, NEW n \in Nat,
         Stored(d) => RowsOK(rows),
         Stored(d) /\ Fits(d) /\ i \in DOMAIN d.inode => RowsFit(rows, n)
  PROVE  Keeps(d, SetSize(SetRows(d, i, rows), i, n))
<1>. DEFINE d1 == SetRows(d, i, rows)
            d2 == SetSize(d1, i, n)
<1>1. /\ Tables(d1) /\ d1.inode = d.inode
      /\ DOMAIN d1.data = DOMAIN d.data \union {i} /\ d1.data[i] = rows
      /\ \A j \in DOMAIN d.data : j # i => d1.data[j] = d.data[j]
  BY SetRowsEffect
<1>. HIDE DEF d1
<1>2. /\ d2.data = d1.data /\ DOMAIN d2.inode = DOMAIN d1.inode
      /\ \A j \in DOMAIN d1.inode : d2.inode[j].size = IF j = i THEN n ELSE d1.inode[j].size
  BY <1>1, SetSizeEffect
<1>. HIDE DEF d2
<1>3. i \in DOMAIN d2.inode => i \in DOMAIN d.inode /\ Size(d2, i) = n
  BY <1>1, <1>2 DEF Size
<1>4. /\ DOMAIN d2.data = DOMAIN d.data \union {i} /\ d2.data[i] = rows
      /\ \A j \in DOMAIN d.data : j # i => d2.data[j] = d.data[j]
      /\ \A j \in DOMAIN d2.inode : j # i => j \in DOMAIN d.inode /\ d2.inode[j].size = d.inode[j].size
  BY <1>1, <1>2
<1>5. /\ Stored(d) => RowsOK(d2.data[i])
      /\ Stored(d) /\ Fits(d) /\ i \in DOMAIN d2.inode => RowsFit(d2.data[i], Size(d2, i))
  BY <1>3, <1>4
<1>6. Storing(d, d2, i)
  BY <1>4, <1>5, Zenon DEF Storing
<1>7. Keeps(d, d2)
  BY <1>6, KeepsStore
<1>. QED BY <1>7 DEF d2, d1

\* A new inode with its name.
LEMMA KeepsCreate ==
  ASSUME NEW d, Tables(d), NEW kind \in Kinds, NEW nlink \in Int, NEW size \in Nat, NEW e \in Slot(d.next)
  PROVE  Keeps(d, Created(d, kind, nlink, size, e))
<1>. DEFINE d1 == InsertInode(d, kind, nlink, size)
<1>1. Keeps(d, d1)
  BY KeepsEdits
<1>2. Tables(d1) /\ d1.next = d.next + 1
  BY MakeTables
<1>3. Created(d, kind, nlink, size, e) = InsertDentry(d1, e, d.next)
  BY DEF Created
<1>. HIDE DEF d1
<1>4. e \in Slot(d1.next) /\ d.next \in 2..(d1.next - 1)
  BY <1>2 DEF Tables, Slot
<1>5. Keeps(d1, InsertDentry(d1, e, d.next))
  BY <1>2, <1>4, KeepsEdits
<1>. QED BY <1>1, <1>3, <1>5, KeepsTrans

\* The bytes of a plan's file fit it.
LEMMA KeepsFill ==
  ASSUME NEW d, Tables(d), NEW i \in 2..(d.next - 1), NEW x, x.bytes \in Seq(Bytes)
  PROVE  Keeps(d, FillFile(d, i, x))
<1>1. CASE x.write
  <2>. DEFINE rows == insert_bulk_file_chunks(x.bytes)
              n == Len(x.bytes)
  <2>1. n \in Nat /\ RowsOK(rows) /\ RowsFit(rows, n)
    BY BulkRows
  <2>2. FillFile(d, i, x) = SetSize(SetRows(d, i, rows), i, n)
    BY <1>1 DEF FillFile
  <2>. HIDE DEF rows, n
  <2>. QED BY <2>1, <2>2, KeepsWrite
<1>2. CASE ~x.write
  BY <1>2 DEF FillFile, Keeps
<1>. QED BY <1>1, <1>2

\* One entry of a plan.
LEMMA KeepsEntry ==
  ASSUME NEW d0, Tables(d0), CacheOK(cache, d0.next), NEW r, Progress(d0, r), NEW x \in PlanEntries
  PROVE  Keeps(r.db, BulkEntry(r, x).db)
<1>. DEFINE d == r.db
            path == x.path
            p == resolve_path(d, Parent(path))
            i == resolve_path(d, path)
            e == <<p, path[Len(path)]>>
            fits == /\ IsDir(d, p)
                    /\ i # None => i \in DOMAIN d.inode /\ d.inode[i].kind = x.kind
            late == Outdated(d, path) \/ ~Present(d, p)
            d2 == IF i = None THEN create_bulk_entry(d, x, p) ELSE FillFile(d, i, x)
            r2 == [ok |-> TRUE, stale |-> r.stale \/ late, db |-> d2]
<1>1. BulkEntry(r, x) = IF ~r.ok \/ ~fits THEN [r EXCEPT !.ok = FALSE] ELSE r2
  BY DEF BulkEntry
<1>2. path \in Seq(Names) /\ path # <<>> /\ x.kind \in {"dir", "file"} /\ x.bytes \in Seq(Bytes)
  BY DEF PlanEntries
<1>3. Tables(d) /\ d0.next \in Nat /\ d.next \in Nat /\ d0.next <= d.next /\ IsResult(r)
  BY DEF Progress, Tables
<1>4. /\ p # None => p \in 1..(d.next - 1) /\ e \in Slot(d.next)
      /\ i # None => i \in 2..(d.next - 1)
  <2>. HIDE DEF d, path
  <2>. QED BY <1>2, <1>3, Resolved
<1>5. CASE ~r.ok \/ ~fits
  <2>1. BulkEntry(r, x) = [r EXCEPT !.ok = FALSE]
    BY <1>1, <1>5
  <2>2. [r EXCEPT !.ok = FALSE].db = d
    <3>. DEFINE a == r.ok
                b == r.stale
                no == FALSE
    <3>1. r = [ok |-> a, stale |-> b, db |-> d]
      BY <1>3, Zenon DEF IsResult
    <3>. HIDE DEF a, b, d, no
    <3>2. [r EXCEPT !.ok = no].db = d
      BY <3>1
    <3>. QED BY <3>2 DEF no
  <2>. QED BY <2>1, <2>2 DEF Keeps
<1>6. CASE r.ok /\ fits
  <2>1. BulkEntry(r, x) = r2
    BY <1>1, <1>6
  <2>2. r2.db = d2
    <3>. HIDE DEF d2, late, d
    <3>. QED OBVIOUS
  <2>3. p # None
    BY <1>3, <1>6 DEF IsDir, Tables, None
  <2>. HIDE DEF late, r2
  <2>4. CASE i # None
    <3>1. d2 = FillFile(d, i, x) /\ i \in 2..(d.next - 1)
      BY <1>4, <2>4
    <3>. HIDE DEF d2, d, i
    <3>2. Keeps(d, d2)
      BY <1>2, <1>3, <3>1, KeepsFill
    <3>. QED BY <2>1, <2>2, <3>2 DEF d
  <2>5. CASE i = None
    <3>. DEFINE nl == IF x.kind = "dir" THEN 2 ELSE 1
                made == Created(d, x.kind, nl, 0, e)
    <3>1. d2 = IF x.kind = "dir" THEN AddLinks(made, p, 1) ELSE FillFile(made, d.next, x)
      BY <2>5 DEF create_bulk_entry, Created
    <3>2. x.kind \in Kinds /\ nl \in Int /\ e \in Slot(d.next)
      BY <1>2, <1>4, <2>3 DEF Kinds
    <3>. HIDE DEF d2, d, i, e, p, nl
    <3>3. Tables(made) /\ made.next = d.next + 1
      <4>1. 0 \in Nat
        OBVIOUS
      <4>. DEFINE kind == x.kind
      <4>. HIDE DEF kind
      <4>2. Tables(Created(d, kind, nl, 0, e)) /\ Created(d, kind, nl, 0, e).next = d.next + 1
        BY <1>3, <3>2, <4>1, MakeTables DEF kind
      <4>. QED BY <4>2 DEF kind
    <3>4. Keeps(d, made)
      BY <1>3, <3>2, KeepsCreate
    <3>. HIDE DEF made
    <3>5. d.next \in 2..(made.next - 1)
      BY <1>3, <3>3 DEF Tables
    <3>6. Keeps(made, d2)
      <4>1. CASE x.kind = "dir"
        <5>1. Keeps(made, AddLinks(made, p, 1))
          BY <3>3, KeepsEdits
        <5>. QED BY <3>1, <4>1, <5>1
      <4>2. CASE x.kind # "dir"
        <5>1. Keeps(made, FillFile(made, d.next, x))
          BY <1>2, <3>3, <3>5, KeepsFill
        <5>. QED BY <3>1, <4>2, <5>1
      <4>. QED BY <4>1, <4>2
    <3>7. Keeps(d, d2)
      BY <3>4, <3>6, KeepsTrans
    <3>. QED BY <2>1, <2>2, <3>7 DEF d
  <2>. QED BY <2>4, <2>5
<1>7. r.ok \in BOOLEAN
  BY DEF Progress
<1>. QED BY <1>5, <1>6, <1>7

\* The plan as a whole keeps the bytes in order.
LEMMA KeepsPlan ==
  ASSUME Tables(db), CacheOK(cache, db.next), NEW plan \in Plans
  PROVE  Keeps(db, BulkResult(plan).db)
<1>. DEFINE start == [ok |-> TRUE, stale |-> FALSE, db |-> db]
            N == Len(plan)
            P(r) == Progress(db, r) /\ Keeps(db, r.db)
<1>1. N \in Nat /\ \A k \in 1..N : plan[k] \in PlanEntries
  BY BulkSteps
<1>2. PICK B : /\ B[0] = start
               /\ \A k \in 1..N : B[k] = BulkEntry(B[k - 1], plan[k])
               /\ BulkResult(plan) = B[N]
  BY BulkSteps, Zenon
<1>3. P(start)
  <2>1. start.ok = TRUE /\ start.stale = FALSE /\ start.db = db
        /\ IsResult(start)
    BY DEF IsResult
  <2>. HIDE DEF start
  <2>2. db.next <= db.next
    BY DEF Tables
  <2>. QED BY <2>1, <2>2, ExtendsSelf DEF Progress, Keeps
<1>. HIDE DEF start, N
<1>. DEFINE bad == {k \in 0..N : ~P(B[k])}
<1>4. ASSUME bad # {} PROVE FALSE
  <2>1. PICK k \in bad : \A j \in bad : k <= j
    <3>1. bad \subseteq Nat
      BY <1>1
    <3>. HIDE DEF bad
    <3>. QED BY <1>4, <3>1, LeastNat
  <2>2. k # 0
    <3>. HIDE DEF P
    <3>. QED BY <1>2, <1>3, <2>1
  <2>3. k \in 1..N /\ k - 1 \in 0..N /\ ~(k <= k - 1)
    BY <1>1, <2>1, <2>2
  <2>4. P(B[k - 1])
    <3>. HIDE DEF P
    <3>. QED BY <2>1, <2>3
  <2>5. P(BulkEntry(B[k - 1], plan[k]))
    <3>1. Progress(db, BulkEntry(B[k - 1], plan[k])) /\ Keeps(B[k - 1].db, BulkEntry(B[k - 1], plan[k]).db)
      BY <1>1, <2>3, <2>4, BulkEntryOK, KeepsEntry
    <3>. QED BY <2>4, <3>1, KeepsTrans
  <2>6. P(B[k])
    <3>. HIDE DEF P
    <3>. QED BY <1>2, <2>3, <2>5
  <2>. HIDE DEF P
  <2>. QED BY <2>1, <2>6
<1>5. Keeps(db, B[N].db)
  BY <1>1, <1>4
<1>. QED BY <1>2, <1>5

\* What rename replaces and moves.
LEMMA KeepsMove ==
  ASSUME NEW d, Tables(d), NEW e \in Slot(d.next), NEW f \in Slot(d.next), NEW dir \in BOOLEAN
  PROVE  Keeps(d, Moved(Replaced(d, f), e, f, dir))
<1>1. Keeps(d, Replaced(d, f))
  <2>1. CASE f \in DOMAIN d.dentry
    <3>. DEFINE j == d.dentry[f]
                d1 == DeleteDentry(d, f)
                d2 == AddLinks(d1, j, -1)
                d3 == DeleteData(d2, j)
    <3>1. Tables(d1) /\ Keeps(d, d1)
      BY DeleteDentryEffect, KeepsEdits
    <3>. HIDE DEF d1, j
    <3>2. Tables(d2) /\ Keeps(d1, d2)
      BY <3>1, AddLinksEffect, KeepsEdits
    <3>. HIDE DEF d2
    <3>3. Tables(d3) /\ Keeps(d2, d3)
      BY <3>2, DeleteDataEffect, KeepsEdits
    <3>. HIDE DEF d3
    <3>4. Keeps(d3, DeleteInode(d3, j))
      BY <3>3, KeepsEdits
    <3>5. Replaced(d, f) = d2 \/ Replaced(d, f) = DeleteInode(d3, j)
      BY <2>1 DEF Replaced, Purged, d3, d2, d1, j
    <3>6. Keeps(d, d2)
      BY <3>1, <3>2, KeepsTrans
    <3>7. Keeps(d, d3)
      BY <3>6, <3>3, KeepsTrans
    <3>8. Keeps(d, DeleteInode(d3, j))
      BY <3>7, <3>4, KeepsTrans
    <3>. QED BY <3>5, <3>6, <3>8
  <2>2. CASE f \notin DOMAIN d.dentry
    BY <2>2 DEF Replaced, Keeps
  <2>. QED BY <2>1, <2>2
<1>2. Tables(Replaced(d, f)) /\ Replaced(d, f).next = d.next
  BY ReplacedEffect
<1>3. ASSUME NEW r, Tables(r), r.next = d.next PROVE Keeps(r, Moved(r, e, f, dir))
  <2>. DEFINE d1 == DeleteDentry(r, e)
              m == IF e \in DOMAIN r.dentry THEN InsertDentry(d1, f, r.dentry[e]) ELSE r
              a == AddLinks(m, e[1], -1)
              b == AddLinks(a, f[1], 1)
  <2>1. Tables(d1) /\ Keeps(r, d1) /\ d1.next = r.next
    BY <1>3, DeleteDentryEffect, KeepsEdits
  <2>. HIDE DEF d1
  <2>2. Tables(m) /\ Keeps(r, m)
    <3>1. CASE e \in DOMAIN r.dentry
      <4>1. r.dentry[e] \in 2..(d1.next - 1) /\ f \in Slot(d1.next)
        BY <1>3, <2>1, <3>1 DEF Tables
      <4>2. Tables(InsertDentry(d1, f, r.dentry[e])) /\ Keeps(d1, InsertDentry(d1, f, r.dentry[e]))
        BY <2>1, <4>1, InsertDentryEffect, KeepsEdits
      <4>3. Keeps(r, InsertDentry(d1, f, r.dentry[e]))
        BY <2>1, <4>2, KeepsTrans
      <4>. QED BY <3>1, <4>2, <4>3
    <3>2. CASE e \notin DOMAIN r.dentry
      BY <1>3, <3>2 DEF Keeps
    <3>. QED BY <3>1, <3>2
  <2>3. Moved(r, e, f, dir) = m \/ Moved(r, e, f, dir) = b
    BY DEF Moved, d1
  <2>. HIDE DEF m
  <2>4. Tables(a) /\ Keeps(m, a)
    BY <2>2, AddLinksEffect, KeepsEdits
  <2>. HIDE DEF a
  <2>5. Keeps(a, b)
    BY <2>4, KeepsEdits
  <2>. HIDE DEF b
  <2>6. Keeps(r, a)
    BY <2>2, <2>4, KeepsTrans
  <2>7. Keeps(r, b)
    BY <2>5, <2>6, KeepsTrans
  <2>. QED BY <2>2, <2>3, <2>7
<1>. DEFINE r == Replaced(d, f)
<1>. HIDE DEF r
<1>4. Keeps(d, r) /\ Keeps(r, Moved(r, e, f, dir))
  BY <1>1, <1>2, <1>3 DEF r
<1>5. Keeps(d, Moved(r, e, f, dir))
  BY <1>4, KeepsTrans
<1>. QED BY <1>5 DEF r

\* A step that keeps the bytes in order, and closes no window.
LEMMA BytesKept ==
  ASSUME BytesInv, Keeps(db, db'), torn \subseteq torn'
  PROVE  BytesInv'
<1>1. Sound' => Sound
  BY DEF Sound
<1>. QED BY <1>1 DEF BytesInv, Keeps, Stored, Fits, Rows, Size

\* The statements of the operations in flight.
LEMMA BytesStatements ==
  ASSUME Types, BytesInv, NEW a \in Actors,
         \/ AddName(a) \/ AddCount(a) \/ AddParent(a)
         \/ DropName(a) \/ DropCount(a) \/ DropParent(a)
         \/ Purge(a) \/ DropInode(a) \/ Move(a)
  PROVE  BytesInv'
<1>1. Tables(db)
  BY DEF Types
<1>2. Keeps(db, db)
  BY DEF Keeps
<1>3. \A kind, cond : Tear(kind, cond) => torn \subseteq torn'
  BY DEF Tear
<1>4. CASE AddName(a)
  <2>. DEFINE o == op[a]
  <2>1. /\ At(a, "name") /\ torn \subseteq torn'
        /\ db' = db \/ db' = InsertDentry(db, o.e, o.i)
    BY <1>4 DEF AddName
  <2>2. o.e \in Slot(db.next) /\ o.i \in 2..(db.next - 1)
    BY <2>1, WhoIsWhere DEF AddOps
  <2>3. Keeps(db, InsertDentry(db, o.e, o.i))
    BY <1>1, <2>2, KeepsEdits
  <2>. QED BY <1>2, <2>1, <2>3, BytesKept
<1>5. CASE AddCount(a)
  <2>. DEFINE i == op[a].i
  <2>1. /\ torn' = torn
        /\ db' = [db EXCEPT !.inode[i].nlink = 2] \/ db' = AddLinks(db, i, 1)
    BY <1>5 DEF AddCount
  <2>. HIDE DEF i
  <2>2. Keeps(db, AddLinks(db, i, 1))
    BY <1>1, KeepsEdits
  <2>3. Keeps(db, [db EXCEPT !.inode[i].nlink = 2])
    BY <1>1, KeepsSetLinks
  <2>. QED BY <2>1, <2>2, <2>3, BytesKept
<1>6. CASE AddParent(a) \/ DropCount(a) \/ DropParent(a)
  <2>1. /\ torn' = torn
        /\ \E i : db' = AddLinks(db, i, 1) \/ db' = AddLinks(db, i, -1)
    BY <1>6 DEF AddParent, DropCount, DropParent
  <2>2. Keeps(db, db')
    BY <1>1, <2>1, KeepsEdits
  <2>. QED BY <2>1, <2>2, BytesKept
<1>7. CASE DropName(a)
  <2>1. /\ \E cond : Tear("stale", cond)
        /\ \E e : db' = DeleteDentry(db, e)
    BY <1>7 DEF DropName
  <2>2. Keeps(db, db')
    BY <1>1, <2>1, KeepsEdits
  <2>. QED BY <1>3, <2>1, <2>2, BytesKept
<1>8. CASE Purge(a)
  <2>1. /\ \E cond : Tear("count", cond)
        /\ db' = db \/ \E i : db' = DeleteData(db, i)
    BY <1>8 DEF Purge
  <2>2. Keeps(db, db')
    BY <1>1, <1>2, <2>1, KeepsEdits
  <2>. QED BY <1>3, <2>1, <2>2, BytesKept
<1>9. CASE DropInode(a)
  <2>1. torn' = torn /\ \E i : db' = DeleteInode(db, i)
    BY <1>9 DEF DropInode
  <2>2. Keeps(db, db')
    BY <1>1, <2>1, KeepsEdits
  <2>. QED BY <2>1, <2>2, BytesKept
<1>10. CASE Move(a)
  <2>. DEFINE o == op[a]
  <2>1. /\ db' = db \/ db' = Moved(Replaced(db, o.f), o.e, o.f, o.dir)
        /\ \E cond : Tear("stale", cond)
        /\ At(a, "move")
    BY <1>10 DEF Move
  <2>2. o.e \in Slot(db.next) /\ o.f \in Slot(db.next) /\ o.dir \in BOOLEAN
    BY <2>1, WhoIsWhere DEF MoveOps
  <2>. HIDE DEF o
  <2>3. Keeps(db, Moved(Replaced(db, o.f), o.e, o.f, o.dir))
    BY <1>1, <2>2, KeepsMove
  <2>. QED BY <1>2, <1>3, <2>1, <2>3, BytesKept
<1>. QED BY <1>4, <1>5, <1>6, <1>7, <1>8, <1>9, <1>10

\* The writes: what they store fits, or the truncation took the file for another size.
LEMMA BytesWrites ==
  ASSUME Types, BytesInv,
         \/ \E off \in Offsets, data \in Payloads : pwrite(off, data)
         \/ \E path \in Paths, off \in Offsets, data \in Payloads : write_path(path, off, data)
         \/ \E plan \in Plans : bulk_materialize_tree(plan)
         \/ \E a \in Actors : Cut(a)
  PROVE  BytesInv'
<1>1. Tables(db) /\ CacheOK(cache, db.next) /\ db.next \in Nat \ {0, 1}
  BY DEF Types, Tables
<1>2. \A off \in Offsets, data \in Payloads : /\ off \in Nat /\ data \in Seq(Bytes) /\ data # <<>>
                                              /\ off + Len(data) \in Nat
  BY ClientsAssumption
<1>3. \A i : Size(db, i) \in Nat
  BY <1>1 DEF Size, Tables, InodeRow
<1>4. \A i : RowsOK(Rows(db, i))
  BY RowsStored DEF BytesInv
<1>5. Fits(db) => \A i \in DOMAIN db.inode : RowsFit(Rows(db, i), Size(db, i))
  BY DEF Fits
<1>6. \A cond : Tear("stale", cond) => torn \subseteq torn'
  BY DEF Tear
<1>7. \A n, m : n \in Nat /\ m \in Nat => MaxOf(n, m) \in Nat
  BY DEF MaxOf
<1>10. ASSUME NEW off \in Offsets, NEW data \in Payloads, pwrite(off, data) PROVE BytesInv'
  <2>. DEFINE rows == write_data_at_offset(Rows(db, handle), off, data)
              end == MaxOf(Size(db, handle), off + Len(data))
  <2>1. db' = SetSize(SetRows(db, handle, rows), handle, end) /\ torn' = torn /\ handle # None
    BY <1>10 DEF pwrite
  <2>2. end \in Nat /\ handle \in 2..(db.next - 1)
    BY <1>2, <1>3, <1>7, <2>1 DEF Types
  <2>3. RowsOK(rows) /\ (RowsFit(Rows(db, handle), Size(db, handle)) => RowsFit(rows, end))
    BY <1>2, <1>3, <1>4, WriteRows
  <2>. HIDE DEF rows, end
  <2>4. Keeps(db, SetSize(SetRows(db, handle, rows), handle, end))
    BY <1>1, <1>5, <2>2, <2>3, KeepsWrite
  <2>. QED BY <2>1, <2>4, BytesKept
<1>11. ASSUME NEW path \in Paths, NEW off \in Offsets, NEW data \in Payloads, write_path(path, off, data)
       PROVE  BytesInv'
  <2>. DEFINE i == resolve_path(db, path)
              p == resolve_path(db, Parent(path))
              e == <<p, path[Len(path)]>>
              end == off + Len(data)
              rows == path_pwrite(Rows(db, i), Size(db, i), off, data)
              fresh == path_pwrite(NoRows, 0, off, data)
              size == MaxOf(Size(db, i), end)
              made == Created(db, "file", 1, end, e)
  <2>1. /\ p # None
        /\ \E cond : Tear("stale", cond)
        /\ db' = IF i # None THEN SetSize(SetRows(db, i, rows), i, size) ELSE SetRows(made, db.next, fresh)
    BY <1>11 DEF write_path, Created
  <2>2. end \in Nat /\ size \in Nat
    BY <1>2, <1>3, <1>7
  <2>3. (i # None => i \in 2..(db.next - 1)) /\ e \in Slot(db.next)
    <3>1. path \in Seq(Names) /\ path # <<>> /\ db.next <= db.next
      BY <1>1, ClientsAssumption
    <3>2. /\ p # None => p \in 1..(db.next - 1) /\ e \in Slot(db.next)
          /\ i # None => i \in 2..(db.next - 1) /\ p # None
      BY <1>1, <3>1, Resolved
    <3>. QED BY <2>1, <3>2
  <2>4. RowsOK(rows) /\ (RowsFit(Rows(db, i), Size(db, i)) => RowsFit(rows, size))
    BY <1>2, <1>3, <1>4, PathRows
  <2>5. RowsOK(fresh) /\ RowsFit(fresh, end)
    <3>1. 0 \in Nat /\ MaxOf(0, end) = end
      BY <2>2 DEF MaxOf
    <3>2. RowsOK(fresh) /\ (RowsFit(NoRows, 0) => RowsFit(fresh, MaxOf(0, end)))
      BY <1>2, <3>1, NoRowsFit, PathRows
    <3>. QED BY <3>1, <3>2, NoRowsFit
  <2>. HIDE DEF i, p, e, end, rows, fresh, size, made
  <2>6. Keeps(db, db')
    <3>1. CASE i # None
      <4>1. Keeps(db, SetSize(SetRows(db, i, rows), i, size))
        BY <1>1, <1>5, <2>2, <2>3, <2>4, <3>1, KeepsWrite
      <4>. QED BY <2>1, <3>1, <4>1
    <3>2. CASE i = None
      <4>. DEFINE d2 == SetRows(made, db.next, fresh)
                  n == db.next
      <4>1. "file" \in Kinds /\ 1 \in Int
        BY DEF Kinds
      <4>2. Tables(made) /\ made.next = n + 1
        <5>1. \A x \in Slot(db.next) : /\ Tables(Created(db, "file", 1, end, x))
                                        /\ Created(db, "file", 1, end, x).next = db.next + 1
          BY <1>1, <2>2, <4>1, MakeTables
        <5>. QED BY <2>3, <5>1 DEF made
      <4>3. n \in 2..(made.next - 1)
        BY <1>1, <4>2
      <4>4. /\ d2.inode = made.inode /\ DOMAIN d2.data = DOMAIN made.data \union {n} /\ d2.data[n] = fresh
            /\ \A j \in DOMAIN made.data : j # n => d2.data[j] = made.data[j]
        BY <4>2, <4>3, SetRowsEffect
      <4>5. Size(made, n) = end
        <5>1. /\ Tables(made)
              /\ made.next = db.next + 1 /\ made.data = db.data
              /\ DOMAIN made.inode = DOMAIN db.inode \union {db.next}
              /\ made.inode[db.next] = [kind |-> "file", nlink |-> 1, size |-> end]
          BY <1>1, <2>2, <2>3, <4>1, CreateEffect DEF made
        <5>. QED BY <5>1 DEF Size
      <4>. HIDE DEF d2, n
      <4>6. Size(d2, n) = end
        BY <4>4, <4>5 DEF Size
      <4>7. Storing(made, d2, n)
        BY <2>5, <4>4, <4>6, Zenon DEF Storing
      <4>8. Keeps(made, d2)
        BY <4>7, KeepsStore
      <4>9. Keeps(db, made)
        BY <1>1, <2>2, <2>3, <4>1, KeepsCreate DEF made
      <4>10. Keeps(db, d2) /\ db' = d2
        BY <2>1, <3>2, <4>8, <4>9, KeepsTrans DEF d2, n
      <4>. QED BY <4>10
    <3>. QED BY <3>1, <3>2
  <2>. QED BY <1>6, <2>1, <2>6, BytesKept
<1>12. ASSUME NEW plan \in Plans, bulk_materialize_tree(plan) PROVE BytesInv'
  <2>1. db' = BulkResult(plan).db /\ \E cond : Tear("stale", cond)
    BY <1>12 DEF bulk_materialize_tree
  <2>2. Keeps(db, db')
    BY <1>1, <2>1, KeepsPlan
  <2>. QED BY <1>6, <2>1, <2>2, BytesKept
<1>13. ASSUME NEW a \in Actors, Cut(a) PROVE BytesInv'
  <2>. DEFINE o == op[a]
              i == o.i
              seen == o.seen
              to == o.to
              rows == truncate_rows(Rows(db, i), seen, to)
              d1 == SetRows(db, i, rows)
  <2>1. /\ db' = SetSize(d1, i, to)
        /\ Tear("stale", Size(db, i) # seen)
        /\ At(a, "cut")
    BY <1>13 DEF Cut
  <2>2. i \in 2..(db.next - 1) /\ to \in Nat /\ seen \in Nat
    BY <2>1, WhoIsWhere DEF CutOps
  <2>. HIDE DEF o, i, seen, to
  <2>3. RowsOK(rows) /\ (RowsFit(Rows(db, i), seen) => RowsFit(rows, to))
    BY <1>4, <2>2, CutRows
  <2>. HIDE DEF rows
  <2>4. CASE Size(db, i) = seen
    <3>1. Keeps(db, SetSize(d1, i, to))
      BY <1>1, <1>5, <2>2, <2>3, <2>4, KeepsWrite
    <3>. QED BY <1>6, <2>1, <3>1, BytesKept
  <2>5. CASE Size(db, i) # seen
    <3>1. ~Sound'
      BY <2>1, <2>5 DEF Tear, Sound
    <3>2. /\ Tables(d1) /\ DOMAIN d1.data = DOMAIN db.data \union {i} /\ d1.data[i] = rows
          /\ \A j \in DOMAIN db.data : j # i => d1.data[j] = db.data[j]
      BY <1>1, <2>2, SetRowsEffect
    <3>. HIDE DEF d1
    <3>3. db'.data = d1.data
      BY <2>1, <2>2, <3>2, SetSizeEffect
    <3>4. Stored(db)'
      BY <2>3, <3>2, <3>3 DEF BytesInv, Stored
    <3>. QED BY <3>1, <3>4 DEF BytesInv
  <2>. QED BY <2>4, <2>5
<1>. QED BY <1>10, <1>11, <1>12, <1>13

\* Every step.
LEMMA BytesStep ==
  ASSUME Types, BytesInv, [Next]_vars
  PROVE  BytesInv'
<1>1. Tables(db) /\ Keeps(db, db)
  BY DEF Types, Keeps
<1>2. CASE \/ UNCHANGED vars
           \/ \E i \in DOMAIN db.inode : open(i)
           \/ release
           \/ \E e \in Slots : unlink(e) \/ rmdir(e)
           \/ \E i \in DOMAIN db.inode, e \in Slots : link(i, e)
           \/ \E e, f \in Slots : rename(e, f)
           \/ \E n \in Sizes : truncate(n)
           \/ \E path \in Paths : read_file(path) \/ remove(path)
           \/ Crash
  <2>1. db' = db /\ torn \subseteq torn'
    BY <1>2 DEF vars, open, release, unlink, rmdir, link, rename, truncate, read_file, remove, Crash, Tear
  <2>. QED BY <1>1, <2>1, BytesKept
<1>3. ASSUME NEW e \in Slots, create_file(e) \/ mkdir(e) \/ mknod(e) PROVE BytesInv'
  <2>1. e \in Slot(db.next)
    BY <1>1, SlotType
  <2>2. /\ torn \subseteq torn'
        /\ \/ db' = Created(db, "file", 1, 0, e)
           \/ db' = InsertInode(db, "dir", 0, 0)
           \/ db' = InsertInode(db, "node", 0, 0)
    BY <1>3 DEF create_file, mkdir, mknod, Created, Tear
  <2>3. "file" \in Kinds /\ "dir" \in Kinds /\ "node" \in Kinds /\ 0 \in Int /\ 1 \in Int /\ 0 \in Nat
    BY DEF Kinds
  <2>4. Keeps(db, Created(db, "file", 1, 0, e))
    BY <1>1, <2>1, <2>3, KeepsCreate
  <2>5. Keeps(db, InsertInode(db, "dir", 0, 0)) /\ Keeps(db, InsertInode(db, "node", 0, 0))
    BY <1>1, <2>3, KeepsEdits
  <2>. QED BY <2>2, <2>4, <2>5, BytesKept
<1>4. CASE \/ \E off \in Offsets, data \in Payloads : pwrite(off, data)
           \/ \E path \in Paths, off \in Offsets, data \in Payloads : write_path(path, off, data)
           \/ \E plan \in Plans : bulk_materialize_tree(plan)
           \/ \E a \in Actors : Cut(a)
  BY <1>4, BytesWrites
<1>5. ASSUME NEW a \in Actors,
             \/ AddName(a) \/ AddCount(a) \/ AddParent(a)
             \/ DropName(a) \/ DropCount(a) \/ DropParent(a)
             \/ Purge(a) \/ DropInode(a) \/ Move(a)
      PROVE  BytesInv'
  BY <1>5, BytesStatements
<1>. QED BY <1>2, <1>3, <1>4, <1>5 DEF Next

\* The bytes are in order from the start.
LEMMA BytesInit ==
  ASSUME Init
  PROVE  BytesInv
<1>1. db.data = <<>> /\ DOMAIN db.data = {}
  BY DEF Init, EmptyDb
<1>. QED BY <1>1, NoRowsFit DEF BytesInv, Stored, Fits, Rows

\* In every reachable state.
LEMMA BytesInvariant == Spec => [](Types /\ BytesInv)
<1>1. Init => Types /\ BytesInv
  BY TypesInit, BytesInit
<1>2. Types /\ BytesInv /\ [Next]_vars => (Types /\ BytesInv)'
  BY TypesStep, BytesStep
<1>. QED BY <1>1, <1>2, PTL DEF Spec

\* A file that grows again reads as zeros past its old end: whatever writes and truncations
\* by handle, writes by path and plans came before, interleaved or cut short by crashes, no
\* row holds a byte there, unless a truncation acted on a size it had read too early.
THEOREM NothingBeyond == Spec => []NothingPastEnd
<1>1. BytesInv => NothingPastEnd
  BY DEF BytesInv, NothingPastEnd, Fits
<1>. QED BY <1>1, BytesInvariant, PTL

-----------------------------------------------------------------------------
(* Reads.                                                                  *)

\* A sequence that holds the bytes of a file from position p on.
Holds(s, rows, p, len) ==
    /\ s \in Seq(Bytes) /\ Len(s) = len
    /\ \A j \in 1..len : s[j] = ByteAt(rows, p + (j - 1))

\* The byte at a position within a chunk.
LEMMA ByteIs ==
  ASSUME NEW rows, NEW c \in Nat, NEW k \in 0..(ChunkSize - 1)
  PROVE  ByteAt(rows, c * ChunkSize + k) =
           IF c \in DOMAIN rows THEN (IF k + 1 <= Len(rows[c]) THEN rows[c][k + 1] ELSE 0) ELSE 0
<1>1. (c * ChunkSize + k) \div ChunkSize = c /\ (c * ChunkSize + k) % ChunkSize = k
  BY ChunkOf
<1>. DEFINE p == c * ChunkSize + k
<1>2. p \div ChunkSize = c /\ p % ChunkSize = k
  BY <1>1
<1>. HIDE DEF p
<1>3. ByteAt(rows, p) = IF c \in DOMAIN rows THEN (IF k + 1 <= Len(rows[c]) THEN rows[c][k + 1] ELSE 0) ELSE 0
  BY <1>2 DEF ByteAt
<1>. QED BY <1>3 DEF p

\* A run of zeros.
LEMMA ZerosIs ==
  ASSUME NEW n \in Nat
  PROVE  Zeros(n) \in Seq(Bytes) /\ Len(Zeros(n)) = n /\ \A j \in 1..n : Zeros(n)[j] = 0
<1>1. Zeros(n) \in [1..n -> Bytes] /\ \A j \in 1..n : Zeros(n)[j] = 0
  BY DEF Zeros, Bytes
<1>. QED BY <1>1

\* The read of one row gives the bytes of its chunk, up to the end of the chunk or of
\* what is wanted.
LEMMA ReadRowIs ==
  ASSUME NEW rows, RowsOK(rows), NEW c \in Nat, NEW skip \in 0..(ChunkSize - 1), NEW left \in Nat \ {0}
  PROVE  Holds(ReadRow(rows, c, skip, left), rows, c * ChunkSize + skip, MinOf(ChunkSize - skip, left))
<1>. DEFINE cc == c * ChunkSize
            len == MinOf(ChunkSize - skip, left)
            s == ReadRow(rows, c, skip, left)
            At0(k) == IF c \in DOMAIN rows THEN (IF k + 1 <= Len(rows[c]) THEN rows[c][k + 1] ELSE 0) ELSE 0
<1>1. cc \in Nat
  BY MulMono
<1>2. len \in Nat /\ len <= ChunkSize - skip /\ len <= left
  BY ChunkSizeAssumption DEF MinOf
<1>3. \A j \in 1..len : ByteAt(rows, cc + skip + (j - 1)) = At0(skip + (j - 1))
  <2>1. SUFFICES ASSUME NEW j \in 1..len PROVE ByteAt(rows, cc + skip + (j - 1)) = At0(skip + (j - 1))
    OBVIOUS
  <2>. DEFINE k == skip + (j - 1)
  <2>2. k \in 0..(ChunkSize - 1) /\ cc + skip + (j - 1) = cc + k
    BY <1>1, <1>2, ChunkSizeAssumption
  <2>. HIDE DEF k
  <2>3. ByteAt(rows, cc + k) = At0(k)
    BY <2>2, ByteIs
  <2>. QED BY <2>2, <2>3 DEF k
<1>4. CASE c \notin DOMAIN rows \/ skip >= Len(rows[c])
  <2>1. s = Zeros(len)
    BY <1>4 DEF ReadRow
  <2>2. s \in Seq(Bytes) /\ Len(s) = len /\ \A j \in 1..len : s[j] = 0
    BY <1>2, <2>1, ZerosIs
  <2>3. \A j \in 1..len : At0(skip + (j - 1)) = 0
    <3>1. CASE c \notin DOMAIN rows
      BY <3>1
    <3>2. CASE c \in DOMAIN rows
      <4>1. Len(rows[c]) \in Nat /\ skip >= Len(rows[c])
        BY <1>4, <3>2 DEF RowsOK
      <4>. DEFINE l == Len(rows[c])
      <4>. HIDE DEF l
      <4>2. \A j \in 1..len : ~(skip + (j - 1) + 1 <= l)
        BY <1>2, <4>1 DEF l
      <4>. QED BY <3>2, <4>2 DEF l
    <3>. QED BY <3>1, <3>2
  <2>. HIDE DEF s, len, At0
  <2>. QED BY <1>3, <2>2, <2>3 DEF Holds, s, cc, len
<1>5. CASE c \in DOMAIN rows /\ skip < Len(rows[c])
  <2>. DEFINE row == rows[c]
              l == Len(row)
              take == MinOf(l - skip, left)
              rest == MinOf(ChunkSize - (skip + take), left - take)
              stored == SubSeq(row, skip + 1, skip + take)
  <2>1. row \in Seq(Bytes) /\ l \in Nat /\ l <= ChunkSize /\ skip < l
    BY <1>5 DEF RowsOK
  <2>2. s = stored \o Zeros(rest)
    <3>1. ~(c \notin DOMAIN rows \/ skip >= Len(rows[c]))
      BY <1>5, <2>1
    <3>. QED BY <3>1, Zenon DEF ReadRow
  <2>. HIDE DEF row, l
  <2>3. /\ take \in Nat \ {0} /\ take <= l - skip /\ take <= left
        /\ rest \in Nat /\ take + rest = len
        /\ rest # 0 => take = l - skip
    BY <2>1, ChunkSizeAssumption DEF MinOf
  <2>. HIDE DEF take, rest, len, s
  <2>4. skip + 1 \in 1..l /\ skip + take \in (skip + 1)..l
    BY <2>1, <2>3
  <2>5. stored \in Seq(Bytes) /\ Len(stored) = take /\ \A j \in 1..take : stored[j] = row[skip + j]
    <3>1. \A a \in 1..Len(row) : \A b \in a..Len(row) :
            /\ SubSeq(row, a, b) \in Seq(Bytes) /\ Len(SubSeq(row, a, b)) = b - a + 1
            /\ \A j \in 1..(b - a + 1) : SubSeq(row, a, b)[j] = row[a + j - 1]
      BY <2>1
    <3>. DEFINE a == skip + 1
                b == skip + take
    <3>2. a \in 1..Len(row) /\ b \in a..Len(row) /\ b - a + 1 = take /\ \A j \in 1..take : a + j - 1 = skip + j
      BY <2>3, <2>4 DEF l
    <3>. HIDE DEF a, b
    <3>3. /\ SubSeq(row, a, b) \in Seq(Bytes) /\ Len(SubSeq(row, a, b)) = take
          /\ \A j \in 1..take : SubSeq(row, a, b)[j] = row[skip + j]
      BY <3>1, <3>2
    <3>. QED BY <3>3 DEF a, b
  <2>6. Zeros(rest) \in Seq(Bytes) /\ Len(Zeros(rest)) = rest /\ \A j \in 1..rest : Zeros(rest)[j] = 0
    BY <2>3, ZerosIs
  <2>. DEFINE z == Zeros(rest)
  <2>. HIDE DEF stored, z
  <2>7. /\ s \in Seq(Bytes) /\ Len(s) = len
        /\ \A j \in 1..len : s[j] = IF j <= take THEN stored[j] ELSE z[j - take]
    <3>1. s = stored \o z /\ z \in Seq(Bytes) /\ Len(z) = rest
      BY <2>2, <2>6 DEF z
    <3>2. /\ s \in Seq(Bytes) /\ Len(s) = Len(stored) + Len(z)
          /\ \A j \in 1..(Len(stored) + Len(z)) : s[j] = IF j <= Len(stored) THEN stored[j] ELSE z[j - Len(stored)]
      BY <2>5, <3>1, ConcatProperties
    <3>. QED BY <2>3, <2>5, <3>1, <3>2
  <2>8. \A j \in 1..len : s[j] = At0(skip + (j - 1))
    <3>1. SUFFICES ASSUME NEW j \in 1..len PROVE s[j] = At0(skip + (j - 1))
      OBVIOUS
    <3>2. skip + (j - 1) + 1 = skip + j /\ At0(skip + (j - 1)) = IF skip + j <= l THEN row[skip + j] ELSE 0
      <4>1. skip + (j - 1) + 1 = skip + j
        BY <1>2
      <4>. QED BY <1>5, <4>1 DEF row, l
    <3>. HIDE DEF At0
    <3>3. CASE j <= take
      <4>1. j \in 1..take /\ skip + j <= l
        BY <1>2, <2>1, <2>3, <3>3
      <4>. QED BY <2>5, <2>7, <3>2, <3>3, <4>1
    <3>4. CASE ~(j <= take)
      <4>1. j - take \in 1..rest /\ ~(skip + j <= l)
        BY <1>2, <2>1, <2>3, <3>4
      <4>2. z[j - take] = 0
        BY <2>6, <4>1 DEF z
      <4>. QED BY <2>7, <3>2, <3>4, <4>1, <4>2
    <3>. QED BY <3>3, <3>4
  <2>. HIDE DEF At0
  <2>. QED BY <1>3, <2>7, <2>8 DEF Holds, s, cc, len
<1>6. c \in DOMAIN rows => Len(rows[c]) \in Nat
  BY DEF RowsOK
<1>. QED BY <1>4, <1>5, <1>6

\* The steps of a read: one row after the other.
ReadStep(rows, first, off, want, sofar, k) ==
    sofar \o ReadRow(rows, first + k - 1, IF k = 1 THEN off % ChunkSize ELSE 0, want - Len(sofar))

\* A read as a run of them, from the first chunk to the last.
Reading(rows, size, off, n) ==
    LET want == MinOf(n, size - off)
        first == off \div ChunkSize
        last == (off + want - 1) \div ChunkSize
    IN  /\ last + 1 - first \in Nat
        /\ \E U : /\ U[0] = <<>>
                  /\ \A k \in 1..(last + 1 - first) : U[k] = ReadStep(rows, first, off, want, U[k - 1], k)
                  /\ pread(rows, size, off, n) = U[last + 1 - first]

\* That is what pread does.
LEMMA ReadSteps ==
  ASSUME NEW rows, NEW size \in Nat, NEW off \in Nat, NEW n \in Nat \ {0}, off < size
  PROVE  Reading(rows, size, off, n)
<1>. DEFINE want == MinOf(n, size - off)
            first == off \div ChunkSize
            last == (off + want - 1) \div ChunkSize
            N == last + 1 - first
            G(g, m) == g = [k \in 0..m |-> IF k = 0 THEN <<>> ELSE ReadStep(rows, first, off, want, g[k - 1], k)]
            none == {m \in Nat : ~\E g : G(g, m)}
            U == CHOOSE g : G(g, N)
<1>1. want \in Nat \ {0}
  BY DEF MinOf
<1>2. N \in Nat
  <2>1. off + want - 1 \in Nat /\ off <= off + want - 1
    BY <1>1
  <2>. DEFINE e == off + want - 1
              ff == first * ChunkSize
              ll == last * ChunkSize
  <2>2. first \in Nat /\ off % ChunkSize \in 0..(ChunkSize - 1) /\ off = ff + (off % ChunkSize)
    BY DivMod
  <2>3. last \in Nat /\ e % ChunkSize \in 0..(ChunkSize - 1) /\ e = ll + (e % ChunkSize)
    BY <2>1, DivMod
  <2>4. ff \in Nat /\ ll \in Nat /\ (last < first => ll + ChunkSize <= ff)
    BY <2>2, <2>3, MulMono
  <2>. DEFINE r == off % ChunkSize
              t == e % ChunkSize
  <2>5. r \in 0..(ChunkSize - 1) /\ off = ff + r /\ t \in 0..(ChunkSize - 1) /\ e = ll + t /\ off <= e /\ e \in Nat
    BY <2>1, <2>2, <2>3
  <2>. HIDE DEF first, last, ff, ll, r, t, e
  <2>6. first <= last
    BY <2>2, <2>3, <2>4, <2>5, ChunkSizeAssumption
  <2>. QED BY <2>2, <2>3, <2>6
<1>3. pread(rows, size, off, n) = U[N]
  <2>1. ~(off >= size) /\ want # 0
    BY <1>1
  <2>. QED BY <2>1, Zenon DEF pread, ReadStep
<1>. HIDE DEF want, first, last, N
<1>4. ASSUME none # {} PROVE FALSE
  <2>1. PICK m \in none : \A j \in none : m <= j
    <3>1. none \subseteq Nat
      OBVIOUS
    <3>. HIDE DEF none
    <3>. QED BY <1>4, <3>1, LeastNat
  <2>2. CASE m = 0
    <3>1. G([k \in 0..0 |-> <<>>], 0)
      OBVIOUS
    <3>. QED BY <2>1, <2>2, <3>1
  <2>3. CASE m # 0
    <3>1. m - 1 \in Nat /\ ~(m <= m - 1)
      BY <2>1, <2>3
    <3>2. m - 1 \notin none
      BY <2>1, <3>1
    <3>3. PICK g : G(g, m - 1)
      BY <3>1, <3>2
    <3>. DEFINE h == [k \in 0..m |-> IF k = m THEN ReadStep(rows, first, off, want, g[m - 1], m) ELSE g[k]]
    <3>4. G(h, m)
      BY <2>3, <3>1, <3>3
    <3>. QED BY <2>1, <3>4
  <2>. QED BY <2>2, <2>3
<1>5. PICK g : G(g, N)
  BY <1>2, <1>4
<1>6. G(U, N)
  BY <1>5, Zenon
<1>. HIDE DEF U
<1>7. U[0] = <<>> /\ \A k \in 1..N : U[k] = ReadStep(rows, first, off, want, U[k - 1], k)
  BY <1>2, <1>6
<1>. QED BY <1>2, <1>3, <1>7, Zenon DEF Reading, want, first, last, N

\* Bytes that follow each other.
LEMMA HoldsConcat ==
  ASSUME NEW rows, NEW s, NEW t, NEW p \in Nat, NEW a \in Nat, NEW b \in Nat, NEW q, q = p + a,
         Holds(s, rows, p, a), Holds(t, rows, q, b)
  PROVE  Holds(s \o t, rows, p, a + b)
<1>1. /\ s \in Seq(Bytes) /\ Len(s) = a /\ t \in Seq(Bytes) /\ Len(t) = b
      /\ \A j \in 1..a : s[j] = ByteAt(rows, p + (j - 1))
      /\ \A j \in 1..b : t[j] = ByteAt(rows, q + (j - 1))
  BY DEF Holds
<1>. DEFINE u == s \o t
<1>2. /\ u \in Seq(Bytes) /\ Len(u) = Len(s) + Len(t)
      /\ \A j \in 1..(Len(s) + Len(t)) : u[j] = IF j <= Len(s) THEN s[j] ELSE t[j - Len(s)]
  BY <1>1, ConcatProperties
<1>. HIDE DEF u
<1>3. ASSUME NEW j \in 1..(a + b) PROVE u[j] = ByteAt(rows, p + (j - 1))
  <2>1. CASE j <= a
    <3>1. j \in 1..a /\ u[j] = s[j]
      BY <1>1, <1>2, <2>1
    <3>. QED BY <1>1, <3>1
  <2>2. CASE ~(j <= a)
    <3>1. j - a \in 1..b /\ u[j] = t[j - a] /\ q + (j - a - 1) = p + (j - 1)
      BY <1>1, <1>2, <2>2
    <3>2. t[j - a] = ByteAt(rows, q + (j - a - 1))
      BY <1>1, <3>1
    <3>. QED BY <3>1, <3>2
  <2>. QED BY <2>1, <2>2
<1>4. Holds(u, rows, p, a + b)
  BY <1>1, <1>2, <1>3 DEF Holds
<1>. QED BY <1>4 DEF u

\* A read returns the bytes from its offset on, as many as are wanted and there are.
LEMMA PreadHolds ==
  ASSUME NEW rows, RowsOK(rows), NEW size \in Nat, NEW off \in Nat, NEW n \in Nat \ {0}, off < size
  PROVE  Holds(pread(rows, size, off, n), rows, off, MinOf(n, size - off))
<1>. DEFINE want == MinOf(n, size - off)
            first == off \div ChunkSize
            last == (off + want - 1) \div ChunkSize
            N == last + 1 - first
            r == off % ChunkSize
            ff == first * ChunkSize
            e == off + want - 1
            ll == last * ChunkSize
            t == e % ChunkSize
            L(k) == IF k = 0 THEN 0 ELSE MinOf((first + k) * ChunkSize - off, want)
<1>1. N \in Nat /\ \E U : /\ U[0] = <<>>
                          /\ \A k \in 1..N : U[k] = ReadStep(rows, first, off, want, U[k - 1], k)
                          /\ pread(rows, size, off, n) = U[N]
  <2>1. Reading(rows, size, off, n)
    BY ReadSteps
  <2>. QED BY <2>1, Zenon DEF Reading
<1>2. PICK U : /\ U[0] = <<>>
               /\ \A k \in 1..N : U[k] = ReadStep(rows, first, off, want, U[k - 1], k)
               /\ pread(rows, size, off, n) = U[N]
  BY <1>1
<1>3. want \in Nat \ {0}
  BY DEF MinOf
<1>4. e \in Nat /\ off + want = e + 1
  BY <1>3
<1>5. first \in Nat /\ r \in 0..(ChunkSize - 1) /\ off = ff + r /\ ff \in Nat
  BY DivMod, MulMono
<1>6. last \in Nat /\ t \in 0..(ChunkSize - 1) /\ e = ll + t
  BY <1>4, DivMod
<1>7. ll \in Nat /\ (last + 1) * ChunkSize = ll + ChunkSize
  BY <1>6, MulMono
<1>8. N = last + 1 - first
  OBVIOUS
<1>9. \A k \in Nat \ {0} : L(k) = MinOf((first + k) * ChunkSize - off, want)
  OBVIOUS
<1>. HIDE DEF want, first, last, N, r, ff, e, ll, t
<1>. DEFINE P(k) == Holds(U[k], rows, off, L(k))
            bad == {k \in 0..N : ~P(k)}
<1>10. P(0)
  <2>1. L(0) = 0
    OBVIOUS
  <2>. HIDE DEF L
  <2>2. <<>> \in Seq(Bytes) /\ Len(<<>>) = 0
    OBVIOUS
  <2>. QED BY <1>2, <2>1, <2>2 DEF Holds
<1>11. ASSUME NEW k \in 1..N, P(k - 1) PROVE P(k)
  <2>. DEFINE c == first + k - 1
              cc == c * ChunkSize
              skip == IF k = 1 THEN r ELSE 0
              left == want - L(k - 1)
              a == L(k - 1)
              b == MinOf(ChunkSize - skip, left)
  <2>1. c \in Nat /\ c <= last /\ first + k = c + 1 /\ first + (k - 1) = c /\ k - 1 \in Nat /\ k \in Nat \ {0}
    BY <1>1, <1>5, <1>6, <1>8
  <2>2. cc \in Nat /\ (c + 1) * ChunkSize = cc + ChunkSize /\ cc <= ll
    BY <1>6, <2>1, MulMono DEF ll
  <2>3. L(k) = MinOf((cc + ChunkSize) - off, want)
    BY <1>9, <2>1, <2>2
  <2>4. a = IF k = 1 THEN 0 ELSE MinOf(cc - off, want)
    <3>1. CASE k = 1
      BY <3>1
    <3>2. CASE k # 1
      <4>1. k - 1 \in Nat \ {0}
        BY <2>1, <3>2
      <4>2. L(k - 1) = MinOf((first + (k - 1)) * ChunkSize - off, want)
        BY <1>9, <4>1
      <4>. QED BY <2>1, <3>2, <4>2
    <3>. QED BY <3>1, <3>2
  <2>5. k = 1 => cc = ff
    <3>1. k = 1 => c = first
      BY <1>5, <2>1
    <3>. QED BY <3>1 DEF ff
  <2>6. k # 1 => ff + ChunkSize <= cc
    <3>1. k # 1 => first < c
      BY <1>5, <2>1
    <3>. QED BY <1>5, <2>1, <3>1, MulMono DEF ff
  <2>. HIDE DEF L, cc
  <2>7. /\ a \in Nat /\ off + a = cc + skip /\ left \in Nat \ {0} /\ skip \in 0..(ChunkSize - 1)
    BY <1>3, <1>4, <1>5, <1>6, <1>7, <2>1, <2>2, <2>4, <2>5, <2>6, ChunkSizeAssumption DEF MinOf
  <2>8. b \in Nat /\ a + b = L(k)
    BY <1>3, <1>4, <1>5, <1>6, <1>7, <2>1, <2>2, <2>3, <2>7, ChunkSizeAssumption DEF MinOf
  <2>. HIDE DEF a, b, left, skip
  <2>9. Holds(U[k - 1], rows, off, a)
    BY <1>11 DEF a
  <2>10. Holds(ReadRow(rows, c, skip, left), rows, cc + skip, b)
    <3>. HIDE DEF c
    <3>. QED BY <2>1, <2>7, ReadRowIs DEF b, cc
  <2>11. U[k] = U[k - 1] \o ReadRow(rows, c, skip, left)
    <3>1. Len(U[k - 1]) = a
      BY <2>9 DEF Holds
    <3>2. left = want - Len(U[k - 1]) /\ skip = IF k = 1 THEN off % ChunkSize ELSE 0
      BY <3>1 DEF left, skip, a, r
    <3>3. U[k] = ReadStep(rows, first, off, want, U[k - 1], k)
      BY <1>2
    <3>. QED BY <3>2, <3>3, Zenon DEF ReadStep
  <2>12. Holds(U[k], rows, off, a + b)
    <3>. DEFINE x == ReadRow(rows, c, skip, left)
                q == cc + skip
    <3>. HIDE DEF x, q
    <3>1. Holds(U[k - 1], rows, off, a) /\ Holds(x, rows, q, b) /\ q = off + a
      BY <2>7, <2>9, <2>10 DEF x, q
    <3>2. Holds(U[k - 1] \o x, rows, off, a + b)
      BY <2>7, <2>8, <3>1, HoldsConcat
    <3>. QED BY <2>11, <3>2 DEF x
  <2>. QED BY <2>8, <2>12
<1>12. ASSUME bad # {} PROVE FALSE
  <2>1. PICK k \in bad : \A j \in bad : k <= j
    <3>1. bad \subseteq Nat
      BY <1>1
    <3>. HIDE DEF bad
    <3>. QED BY <1>12, <3>1, LeastNat
  <2>. HIDE DEF P
  <2>2. k # 0
    BY <1>10, <2>1
  <2>3. k \in 1..N /\ k - 1 \in 0..N /\ ~(k <= k - 1)
    BY <1>1, <2>1, <2>2
  <2>4. P(k - 1)
    BY <2>1, <2>3
  <2>. QED BY <1>11, <2>1, <2>3, <2>4
<1>13. P(N)
  BY <1>1, <1>12
<1>14. N # 0 /\ L(N) = want
  <2>1. N # 0 /\ first + N = last + 1 /\ N \in Nat \ {0}
    <3>1. first <= last
      <4>1. (last < first => ll + ChunkSize <= ff)
        BY <1>5, <1>6, MulMono DEF ll, ff
      <4>2. off <= e
        BY <1>3, <1>4
      <4>. QED BY <1>4, <1>5, <1>6, <1>7, <4>1, <4>2, ChunkSizeAssumption
    <3>. QED BY <1>1, <1>5, <1>6, <1>8, <3>1
  <2>2. L(N) = MinOf((ll + ChunkSize) - off, want)
    BY <1>7, <1>9, <2>1
  <2>. HIDE DEF L
  <2>3. L(N) = want
    BY <1>3, <1>4, <1>5, <1>6, <1>7, <2>2, ChunkSizeAssumption DEF MinOf
  <2>. QED BY <2>1, <2>3
<1>. HIDE DEF L
<1>15. Holds(U[N], rows, off, want)
  BY <1>13, <1>14
<1>. QED BY <1>2, <1>15 DEF want

\* The file as a sequence of bytes.
LEMMA ContentIs ==
  ASSUME NEW rows, RowsOK(rows), NEW size \in Nat
  PROVE  /\ Content(rows, size) \in Seq(Bytes) /\ Len(Content(rows, size)) = size
         /\ \A p \in 1..size : Content(rows, size)[p] = ByteAt(rows, p - 1)
<1>1. ASSUME NEW p \in 1..size PROVE ByteAt(rows, p - 1) \in Bytes
  <2>. DEFINE q == p - 1
              c == q \div ChunkSize
              k == q % ChunkSize
  <2>1. q \in Nat
    OBVIOUS
  <2>2. c \in Nat /\ k \in 0..(ChunkSize - 1)
    BY <2>1, DivMod
  <2>3. ByteAt(rows, q) = IF c \in DOMAIN rows THEN (IF k + 1 <= Len(rows[c]) THEN rows[c][k + 1] ELSE 0) ELSE 0
    BY DEF ByteAt
  <2>. HIDE DEF q, c, k
  <2>4. 0 \in Bytes
    BY DEF Bytes
  <2>5. c \in DOMAIN rows /\ k + 1 <= Len(rows[c]) => rows[c][k + 1] \in Bytes
    <3>1. SUFFICES ASSUME c \in DOMAIN rows, k + 1 <= Len(rows[c]) PROVE rows[c][k + 1] \in Bytes
      OBVIOUS
    <3>2. rows[c] \in Seq(Bytes) /\ Len(rows[c]) \in Nat
      BY <3>1 DEF RowsOK
    <3>3. k + 1 \in 1..Len(rows[c])
      BY <2>2, <3>1, <3>2, ChunkSizeAssumption
    <3>. QED BY <3>2, <3>3
  <2>6. ByteAt(rows, q) \in Bytes
    BY <2>3, <2>4, <2>5
  <2>. QED BY <2>6 DEF q
<1>. DEFINE s == Content(rows, size)
<1>2. s \in [1..size -> Bytes] /\ \A p \in 1..size : s[p] = ByteAt(rows, p - 1)
  BY <1>1 DEF Content
<1>. HIDE DEF s
<1>3. s \in Seq(Bytes) /\ Len(s) = size
  BY <1>2
<1>. QED BY <1>2, <1>3 DEF s

\* A read, chunk by chunk, is the part of the file it asks for.
LEMMA PreadIs ==
  ASSUME NEW rows, RowsOK(rows), NEW size \in Nat, NEW off \in Nat, NEW n \in Nat
  PROVE  pread(rows, size, off, n) = SubSeq(Content(rows, size), off + 1, MinOf(off + n, size))
<1>. DEFINE bytes == Content(rows, size)
            to == MinOf(off + n, size)
            part == SubSeq(bytes, off + 1, to)
<1>1. /\ bytes \in Seq(Bytes) /\ Len(bytes) = size
      /\ \A p \in 1..size : bytes[p] = ByteAt(rows, p - 1)
  BY ContentIs
<1>2. to \in Nat /\ to <= size
  BY DEF MinOf
<1>. HIDE DEF bytes
<1>3. CASE off >= size \/ n = 0
  <2>1. to < off + 1 /\ off + 1 \in Int /\ to \in Int
    BY <1>2, <1>3 DEF MinOf
  <2>. HIDE DEF to
  <2>2. part = <<>>
    BY <2>1, SubSeqEmpty
  <2>3. pread(rows, size, off, n) = <<>>
    <3>1. CASE off >= size
      BY <3>1, Zenon DEF pread
    <3>2. CASE ~(off >= size) /\ n = 0
      <4>1. MinOf(n, size - off) = 0
        BY <3>2 DEF MinOf
      <4>. QED BY <3>2, <4>1, Zenon DEF pread
    <3>. QED BY <1>3, <3>1, <3>2
  <2>. QED BY <2>2, <2>3 DEF to, bytes
<1>4. CASE off < size /\ n # 0
  <2>. DEFINE want == MinOf(n, size - off)
              s == pread(rows, size, off, n)
  <2>1. Holds(s, rows, off, want)
    BY <1>4, PreadHolds
  <2>2. want \in Nat \ {0} /\ to = off + want
    BY <1>4 DEF MinOf
  <2>. HIDE DEF want, to, s
  <2>3. s \in Seq(Bytes) /\ Len(s) = want /\ \A j \in 1..want : s[j] = ByteAt(rows, off + (j - 1))
    BY <2>1 DEF Holds
  <2>4. part \in Seq(Bytes) /\ Len(part) = want /\ \A j \in 1..want : part[j] = bytes[off + j]
    <3>. DEFINE m == off + 1
    <3>1. m \in Int /\ to \in Int /\ m <= to /\ (to - m) + 1 = want /\ \A j \in 1..want : (m + j) - 1 = off + j
      BY <2>2
    <3>2. \A j \in m..to : bytes[j] \in Bytes
      BY <1>1, <1>2, <3>1
    <3>. HIDE DEF m
    <3>3. /\ SubSeq(bytes, m, to) \in Seq(Bytes)
          /\ Len(SubSeq(bytes, m, to)) = IF m <= to THEN to - m + 1 ELSE 0
          /\ \A j \in 1..(to - m + 1) : SubSeq(bytes, m, to)[j] = bytes[m + j - 1]
      BY <3>1, <3>2, SubSeqProperties
    <3>4. to - m + 1 = want /\ \A j \in 1..want : m + j - 1 = off + j
      BY <2>2, <3>1
    <3>5. /\ SubSeq(bytes, m, to) \in Seq(Bytes) /\ Len(SubSeq(bytes, m, to)) = want
          /\ \A j \in 1..want : SubSeq(bytes, m, to)[j] = bytes[off + j]
      BY <3>1, <3>3, <3>4
    <3>. QED BY <3>5 DEF m
  <2>. HIDE DEF part
  <2>5. \A j \in 1..want : s[j] = part[j]
    <3>1. SUFFICES ASSUME NEW j \in 1..want PROVE s[j] = part[j]
      OBVIOUS
    <3>2. off + j \in 1..size /\ (off + j) - 1 = off + (j - 1)
      BY <1>2, <2>2
    <3>3. bytes[off + j] = ByteAt(rows, (off + j) - 1)
      BY <1>1, <3>2
    <3>. QED BY <2>3, <2>4, <3>2, <3>3
  <2>6. s = part
    BY <2>3, <2>4, <2>5, SeqEqual
  <2>. QED BY <2>6 DEF s, part, to, bytes
<1>. QED BY <1>3, <1>4

\* Reading chunk by chunk, over holes and short rows, gives the bytes of the file for every
\* offset and length, in every reachable state and whatever the chunk size.
THEOREM ReadsBack == Spec => []ReadsWhole
<1>1. Types /\ BytesInv => ReadsWhole
  <2>1. SUFFICES ASSUME Types, BytesInv, NEW i \in DOMAIN db.inode,
                        NEW off \in 0..(Len(Content(Rows(db, i), Size(db, i))) + 1),
                        NEW n \in 0..(Len(Content(Rows(db, i), Size(db, i))) + 1)
                 PROVE  pread(Rows(db, i), Size(db, i), off, n)
                          = SubSeq(Content(Rows(db, i), Size(db, i)), off + 1,
                                   MinOf(off + n, Len(Content(Rows(db, i), Size(db, i)))))
    BY Zenon DEF ReadsWhole
  <2>. DEFINE rows == Rows(db, i)
              size == Size(db, i)
  <2>2. size \in Nat
    BY <2>1 DEF Types, Tables, Size, InodeRow
  <2>3. RowsOK(rows)
    BY <2>1, RowsStored DEF BytesInv
  <2>. HIDE DEF rows, size
  <2>4. Len(Content(rows, size)) = size
    BY <2>2, <2>3, ContentIs
  <2>5. off \in Nat /\ n \in Nat
    BY <2>2, <2>4 DEF rows, size
  <2>6. pread(rows, size, off, n) = SubSeq(Content(rows, size), off + 1, MinOf(off + n, size))
    BY <2>2, <2>3, <2>5, PreadIs
  <2>. QED BY <2>4, <2>6 DEF rows, size
<1>. QED BY <1>1, BytesInvariant, PTL

-----------------------------------------------------------------------------
(* What writes and truncations do to the bytes of a file.                  *)

\* The byte at any position: the row of its chunk, or zero.
LEMMA ByteOf ==
  ASSUME NEW p \in Nat, NEW c, c = p \div ChunkSize, NEW k, k = (p % ChunkSize) + 1
  PROVE  /\ c \in Nat /\ c * ChunkSize \in Nat /\ k \in 1..ChunkSize /\ p = c * ChunkSize + (k - 1)
         /\ \A rows : ByteAt(rows, p) = IF c \in DOMAIN rows THEN (IF k <= Len(rows[c]) THEN rows[c][k] ELSE 0) ELSE 0
<1>. DEFINE q == p \div ChunkSize
            m == p % ChunkSize
<1>1. q \in Nat /\ m \in 0..(ChunkSize - 1) /\ p = q * ChunkSize + m
  BY DivMod
<1>2. c = q /\ k = m + 1
  OBVIOUS
<1>3. c * ChunkSize \in Nat
  BY <1>1, <1>2, MulMono
<1>4. \A rows : ByteAt(rows, p) = IF c \in DOMAIN rows THEN (IF k <= Len(rows[c]) THEN rows[c][k] ELSE 0) ELSE 0
  BY DEF ByteAt
<1>. HIDE DEF q, m
<1>5. k \in 1..ChunkSize /\ k - 1 = m
  BY <1>1, <1>2, ChunkSizeAssumption
<1>. QED BY <1>1, <1>2, <1>3, <1>4, <1>5

\* Past the end of a file its rows hold nothing.
LEMMA PastEnd ==
  ASSUME NEW rows, RowsOK(rows), NEW size \in Nat, RowsFit(rows, size), NEW p \in Nat, size <= p
  PROVE  ByteAt(rows, p) = 0
<1>. DEFINE c == p \div ChunkSize
            k == (p % ChunkSize) + 1
            cc == c * ChunkSize
            l == Len(rows[c])
<1>1. /\ c \in Nat /\ cc \in Nat /\ k \in 1..ChunkSize /\ p = cc + (k - 1)
      /\ ByteAt(rows, p) = IF c \in DOMAIN rows THEN (IF k <= l THEN rows[c][k] ELSE 0) ELSE 0
  <2>1. /\ c \in Nat /\ cc \in Nat /\ k \in 1..ChunkSize /\ p = cc + (k - 1)
        /\ \A r : ByteAt(r, p) = IF c \in DOMAIN r THEN (IF k <= Len(r[c]) THEN r[c][k] ELSE 0) ELSE 0
    BY ByteOf
  <2>. HIDE DEF c, k
  <2>. QED BY <2>1
<1>2. c \in DOMAIN rows => l \in Nat /\ cc + l <= size
  BY DEF RowsOK, RowsFit
<1>. HIDE DEF c, k, cc, l
<1>3. c \in DOMAIN rows => ~(k <= l)
  BY <1>1, <1>2, ChunkSizeAssumption
<1>. QED BY <1>1, <1>3

\* The chunk of a position that is written is touched.
LEMMA WrittenChunk ==
  ASSUME NEW off \in Nat, NEW len \in Nat \ {0}, NEW p \in Nat, off <= p, p < off + len
  PROVE  p \div ChunkSize \in Touched(off, len)
<1>. DEFINE e == off + len - 1
            a == off \div ChunkSize
            c == p \div ChunkSize
            b == e \div ChunkSize
            aa == a * ChunkSize
            cc == c * ChunkSize
            bb == b * ChunkSize
            r == off % ChunkSize
            s == p % ChunkSize
            t == e % ChunkSize
<1>1. e \in Nat /\ p <= e
  OBVIOUS
<1>2. a \in Nat /\ r \in 0..(ChunkSize - 1) /\ off = aa + r
  BY DivMod
<1>3. c \in Nat /\ s \in 0..(ChunkSize - 1) /\ p = cc + s
  BY DivMod
<1>4. b \in Nat /\ t \in 0..(ChunkSize - 1) /\ e = bb + t
  BY <1>1, DivMod
<1>5. aa \in Nat /\ bb \in Nat /\ cc \in Nat
      /\ (c < a => cc + ChunkSize <= aa) /\ (b < c => bb + ChunkSize <= cc)
  BY <1>2, <1>3, <1>4, MulMono
<1>6. Touched(off, len) = a..b
  BY DEF Touched
<1>. HIDE DEF e, a, b, c, aa, bb, cc, r, s, t
<1>7. a <= c
  BY <1>2, <1>3, <1>5, ChunkSizeAssumption
<1>8. c <= b
  BY <1>1, <1>3, <1>4, <1>5, ChunkSizeAssumption
<1>9. c \in a..b
  BY <1>2, <1>3, <1>4, <1>7, <1>8
<1>. QED BY <1>6, <1>9 DEF c

\* Rows with data laid over them: each chunk the data touches is long enough for what it held
\* and for the data.
Laid(new, rows, off, data) ==
    LET T == Touched(off, Len(data))
    IN  /\ DOMAIN new = DOMAIN rows \union T
        /\ \A c \in DOMAIN new : c \notin T => new[c] = rows[c]
        /\ \A c \in T : \E len \in Nat :
             /\ Len(RowOf(rows, c)) <= len
             /\ ChunkSize <= len \/ off + Len(data) <= c * ChunkSize + len
             /\ new[c] = [k \in 1..len |-> Overlaid(rows, c, k, off, data)]

\* They hold the data where it lies, and elsewhere what they held.
LEMMA LaidBytes ==
  ASSUME NEW rows, RowsOK(rows), NEW off \in Nat, NEW data \in Seq(Bytes), data # <<>>,
         NEW new, Laid(new, rows, off, data), NEW p \in Nat
  PROVE  ByteAt(new, p) = IF off <= p /\ p < off + Len(data) THEN data[p - off + 1] ELSE ByteAt(rows, p)
<1>. DEFINE n == Len(data)
            T == Touched(off, n)
            c == p \div ChunkSize
            k == (p % ChunkSize) + 1
            cc == c * ChunkSize
            in == off <= p /\ p < off + n
            old == RowOf(rows, c)
<1>1. n \in Nat \ {0}
  OBVIOUS
<1>2. /\ c \in Nat /\ cc \in Nat /\ k \in 1..ChunkSize /\ p = cc + (k - 1)
      /\ \A r : ByteAt(r, p) = IF c \in DOMAIN r THEN (IF k <= Len(r[c]) THEN r[c][k] ELSE 0) ELSE 0
  BY ByteOf
<1>3. in => c \in T
  BY <1>1, WrittenChunk
<1>4. DOMAIN new = DOMAIN rows \union T /\ (c \in DOMAIN new /\ c \notin T => new[c] = rows[c])
  BY DEF Laid
<1>5. c \in T => \E len \in Nat :
             /\ Len(old) <= len
             /\ ChunkSize <= len \/ off + n <= cc + len
             /\ new[c] = [j \in 1..len |-> Overlaid(rows, c, j, off, data)]
  BY DEF Laid
<1>6. ByteAt(rows, p) = IF k <= Len(old) THEN old[k] ELSE 0
  <2>1. k >= 1 /\ Len(<<>>) = 0
    BY <1>2
  <2>. QED BY <1>2, <2>1 DEF RowOf
<1>7. CASE c \notin T
  BY <1>2, <1>3, <1>4, <1>7
<1>8. CASE c \in T
  <2>1. PICK len \in Nat :
             /\ Len(old) <= len
             /\ ChunkSize <= len \/ off + n <= cc + len
             /\ new[c] = [j \in 1..len |-> Overlaid(rows, c, j, off, data)]
    BY <1>5, <1>8
  <2>2. ByteAt(new, p) = IF k <= Len(new[c]) THEN new[c][k] ELSE 0
    BY <1>2, <1>4, <1>8
  <2>3. Len(new[c]) = len
    <3>. DEFINE row == [j \in 1..len |-> Overlaid(rows, c, j, off, data)]
    <3>1. Len(row) = len
      BY <1>2, OverlaidType
    <3>2. new[c] = row
      BY <2>1
    <3>. HIDE DEF row
    <3>. QED BY <3>1, <3>2
  <2>4. Len(old) \in Nat
    BY DEF RowOf, RowsOK
  <2>5. CASE k <= len
    <3>1. k \in 1..len
      BY <1>2, <2>1, <2>5, ChunkSizeAssumption
    <3>2. new[c][k] = Overlaid(rows, c, k, off, data)
      <4>. DEFINE O(j) == Overlaid(rows, c, j, off, data)
      <4>1. new[c] = [j \in 1..len |-> O(j)]
        BY <2>1
      <4>. HIDE DEF O
      <4>2. new[c][k] = O(k)
        BY <3>1, <4>1
      <4>. QED BY <4>2 DEF O
    <3>3. cc + k - 1 = p
      BY <1>2, ChunkSizeAssumption
    <3>4. Overlaid(rows, c, k, off, data) =
            IF off <= cc + k - 1 /\ cc + k - 1 < off + Len(data) THEN data[(cc + k - 1) - off + 1]
            ELSE IF k <= Len(old) THEN old[k] ELSE 0
      BY Zenon DEF Overlaid
    <3>. HIDE DEF cc, c, k, old
    <3>5. Overlaid(rows, c, k, off, data) = IF in THEN data[p - off + 1] ELSE ByteAt(rows, p)
      BY <1>6, <3>3, <3>4
    <3>. QED BY <2>2, <2>3, <2>5, <3>2, <3>5
  <2>6. CASE ~(k <= len)
    <3>. HIDE DEF cc, c, k, old
    <3>1. ~(k <= Len(old))
      BY <1>2, <2>1, <2>4, <2>6, ChunkSizeAssumption
    <3>2. ~in
      BY <1>1, <1>2, <2>1, <2>6, ChunkSizeAssumption DEF n
    <3>. QED BY <1>6, <2>2, <2>3, <2>6, <3>1, <3>2
  <2>. QED BY <2>5, <2>6
<1>. QED BY <1>7, <1>8

\* A write through the open file.
LEMMA WriteLaid ==
  ASSUME NEW rows, RowsOK(rows), NEW off \in Nat, NEW data \in Seq(Bytes), data # <<>>
  PROVE  Laid(write_data_at_offset(rows, off, data), rows, off, data)
<1>. DEFINE n == Len(data)
            T == Touched(off, n)
            new == write_data_at_offset(rows, off, data)
            end(c) == MinOf(ChunkSize, off + n - c * ChunkSize)
            long(c) == MaxOf(Len(RowOf(rows, c)), end(c))
<1>1. n \in Nat \ {0}
  OBVIOUS
<1>2. /\ DOMAIN new = DOMAIN rows \union T
      /\ \A c \in DOMAIN new : new[c] = IF c \notin T THEN rows[c]
                                        ELSE [k \in 1..long(c) |-> Overlaid(rows, c, k, off, data)]
  BY DEF write_data_at_offset
<1>. HIDE DEF new, T, n
<1>3. ASSUME NEW c \in T
      PROVE  \E len \in Nat :
             /\ Len(RowOf(rows, c)) <= len
             /\ ChunkSize <= len \/ off + n <= c * ChunkSize + len
             /\ new[c] = [k \in 1..len |-> Overlaid(rows, c, k, off, data)]
  <2>. DEFINE cc == c * ChunkSize
              l == Len(RowOf(rows, c))
              m == long(c)
  <2>1. cc \in Nat /\ cc < off + n
    BY <1>1, TouchedChunks DEF T
  <2>2. l \in Nat
    BY DEF RowOf, RowsOK
  <2>3. m = MaxOf(l, MinOf(ChunkSize, off + n - cc))
    OBVIOUS
  <2>4. new[c] = [k \in 1..m |-> Overlaid(rows, c, k, off, data)]
    BY <1>2
  <2>. HIDE DEF cc, l, m
  <2>5. m \in Nat /\ l <= m /\ (ChunkSize <= m \/ off + n <= cc + m)
    BY <1>1, <2>1, <2>2, <2>3, ChunkSizeAssumption DEF MaxOf, MinOf
  <2>. QED BY <2>4, <2>5 DEF l, cc
<1>. QED BY <1>2, <1>3 DEF Laid, new, T, n

\* A write by path.
LEMMA PathLaid ==
  ASSUME NEW rows, RowsOK(rows), NEW size \in Nat, RowsFit(rows, size), NEW off \in Nat,
         NEW data \in Seq(Bytes), data # <<>>
  PROVE  Laid(path_pwrite(rows, size, off, data), rows, off, data)
<1>. DEFINE n == Len(data)
            T == Touched(off, n)
            new == path_pwrite(rows, size, off, data)
            last == ((off + n) - 1) \div ChunkSize
            oldEnd(c) == IF size > c * ChunkSize THEN MinOf(size - c * ChunkSize, ChunkSize) ELSE 0
            long(c) == IF c = last THEN MaxOf((off + n) - c * ChunkSize, oldEnd(c)) ELSE ChunkSize
<1>1. n \in Nat \ {0}
  OBVIOUS
<1>2. /\ DOMAIN new = DOMAIN rows \union T
      /\ \A c \in DOMAIN new : new[c] = IF c \notin T THEN rows[c]
                                        ELSE [k \in 1..long(c) |-> Overlaid(rows, c, k, off, data)]
  BY DEF path_pwrite
<1>. HIDE DEF new, T, n
<1>3. ASSUME NEW c \in T
      PROVE  \E len \in Nat :
             /\ Len(RowOf(rows, c)) <= len
             /\ ChunkSize <= len \/ off + n <= c * ChunkSize + len
             /\ new[c] = [k \in 1..len |-> Overlaid(rows, c, k, off, data)]
  <2>. DEFINE cc == c * ChunkSize
              l == Len(RowOf(rows, c))
              oe == IF size > cc THEN MinOf(size - cc, ChunkSize) ELSE 0
              m == long(c)
  <2>1. cc \in Nat /\ cc < off + n
    BY <1>1, TouchedChunks DEF T
  <2>2. l \in Nat /\ l <= ChunkSize /\ (l # 0 => cc + l <= size)
    BY ChunkSizeAssumption DEF RowOf, RowsOK, RowsFit
  <2>3. m = ChunkSize \/ m = MaxOf((off + n) - cc, oe)
    BY DEF last
  <2>4. new[c] = [k \in 1..m |-> Overlaid(rows, c, k, off, data)]
    BY <1>2
  <2>. HIDE DEF cc, l, m
  <2>5. m \in Nat /\ l <= m /\ (ChunkSize <= m \/ off + n <= cc + m)
    BY <1>1, <2>1, <2>2, <2>3, ChunkSizeAssumption DEF MaxOf, MinOf
  <2>. QED BY <2>4, <2>5 DEF l, cc
<1>. QED BY <1>2, <1>3 DEF Laid, new, T, n

\* A file with data laid over its rows is the file, written.
LEMMA ContentWritten ==
  ASSUME NEW rows, RowsOK(rows), NEW size \in Nat, RowsFit(rows, size), NEW off \in Nat,
         NEW data \in Seq(Bytes), data # <<>>, NEW new, Laid(new, rows, off, data)
  PROVE  Content(new, MaxOf(size, off + Len(data))) = Tree!Written(Content(rows, size), off, data)
<1>. DEFINE n == Len(data)
            old == Content(rows, size)
            m == MaxOf(size, off + n)
            B(p) == ByteAt(new, p - 1)
            W(p) == IF off < p /\ p <= off + n THEN data[p - off]
                    ELSE IF p <= Len(old) THEN old[p] ELSE 0
<1>1. n \in Nat
  OBVIOUS
<1>2. Len(old) = size /\ \A p \in 1..size : old[p] = ByteAt(rows, p - 1)
  BY ContentIs
<1>3. Tree!Written(old, off, data) = [p \in 1..m |-> W(p)]
  <2>1. (IF Len(old) >= off + n THEN Len(old) ELSE off + n) = m
    BY <1>2 DEF MaxOf
  <2>2. Tree!Written(old, off, data) = [p \in 1..(IF Len(old) >= off + n THEN Len(old) ELSE off + n) |-> W(p)]
    BY DEF Tree!Written
  <2>. HIDE DEF m, W, old, n
  <2>. QED BY <2>1, <2>2
<1>4. Content(new, m) = [p \in 1..m |-> B(p)]
  BY DEF Content
<1>5. m \in Nat
  BY <1>1 DEF MaxOf
<1>6. \A p \in 1..m : B(p) = W(p)
  <2>1. SUFFICES ASSUME NEW p \in 1..m PROVE B(p) = W(p)
    OBVIOUS
  <2>2. p - 1 \in Nat /\ p \in Nat
    BY <1>5
  <2>3. B(p) = IF off <= p - 1 /\ p - 1 < off + n THEN data[(p - 1) - off + 1] ELSE ByteAt(rows, p - 1)
    BY <2>2, LaidBytes
  <2>4. (off <= p - 1 <=> off < p) /\ (p - 1 < off + n <=> p <= off + n) /\ (p - 1) - off + 1 = p - off
    BY <1>1, <2>2
  <2>5. ~(p <= size) => ByteAt(rows, p - 1) = 0
    <3>1. ~(p <= size) => size <= p - 1
      BY <2>2
    <3>. QED BY <2>2, <3>1, PastEnd
  <2>6. p <= size => p \in 1..size
    BY <2>2
  <2>. HIDE DEF B, m, n, old
  <2>. QED BY <1>2, <2>3, <2>4, <2>5, <2>6
<1>. HIDE DEF B, W, m, old
<1>. QED BY <1>3, <1>4, <1>6 DEF m, old, n

\* A write through the open file, and a write by path.
LEMMA ContentWrites ==
  ASSUME NEW rows, RowsOK(rows), NEW size \in Nat, RowsFit(rows, size), NEW off \in Nat,
         NEW data \in Seq(Bytes), data # <<>>
  PROVE  LET end == MaxOf(size, off + Len(data))
             bytes == Tree!Written(Content(rows, size), off, data)
         IN  /\ Content(write_data_at_offset(rows, off, data), end) = bytes
             /\ Content(path_pwrite(rows, size, off, data), end) = bytes
<1>. DEFINE a == write_data_at_offset(rows, off, data)
            b == path_pwrite(rows, size, off, data)
<1>1. Laid(a, rows, off, data) /\ Laid(b, rows, off, data)
  BY WriteLaid, PathLaid
<1>. HIDE DEF a, b
<1>2. Content(a, MaxOf(size, off + Len(data))) = Tree!Written(Content(rows, size), off, data)
  BY <1>1, ContentWritten
<1>3. Content(b, MaxOf(size, off + Len(data))) = Tree!Written(Content(rows, size), off, data)
  BY <1>1, ContentWritten
<1>. QED BY <1>2, <1>3 DEF a, b

\* A new file, written by path.
LEMMA ContentFresh ==
  ASSUME NEW off \in Nat, NEW data \in Seq(Bytes), data # <<>>
  PROVE  Content(path_pwrite(NoRows, 0, off, data), off + Len(data)) = Tree!Written(<<>>, off, data)
<1>1. RowsOK(NoRows) /\ RowsFit(NoRows, 0) /\ 0 \in Nat
  BY NoRowsFit
<1>2. Content(path_pwrite(NoRows, 0, off, data), MaxOf(0, off + Len(data)))
        = Tree!Written(Content(NoRows, 0), off, data)
  BY <1>1, ContentWrites
<1>3. MaxOf(0, off + Len(data)) = off + Len(data)
  BY DEF MaxOf
<1>4. Content(NoRows, 0) = <<>>
  <2>1. Content(NoRows, 0) \in Seq(Bytes) /\ Len(Content(NoRows, 0)) = 0
    BY <1>1, ContentIs
  <2>. QED BY <2>1
<1>. QED BY <1>2, <1>3, <1>4

\* The file a plan writes.
LEMMA ContentBulk ==
  ASSUME NEW bytes \in Seq(Bytes)
  PROVE  Content(insert_bulk_file_chunks(bytes), Len(bytes)) = bytes
<1>. DEFINE n == Len(bytes)
            new == insert_bulk_file_chunks(bytes)
            s == Content(new, n)
<1>1. n \in Nat /\ RowsOK(new)
  BY BulkRows
<1>2. s \in Seq(Bytes) /\ Len(s) = n /\ \A p \in 1..n : s[p] = ByteAt(new, p - 1)
  BY <1>1, ContentIs
<1>3. /\ DOMAIN new = {k \in 0..n : k * ChunkSize < n}
      /\ \A c \in DOMAIN new : new[c] = SubSeq(bytes, c * ChunkSize + 1, MinOf((c + 1) * ChunkSize, n))
  BY DEF insert_bulk_file_chunks
<1>. HIDE DEF new, s
<1>4. ASSUME NEW p \in 1..n PROVE s[p] = bytes[p]
  <2>. DEFINE q == p - 1
              c == q \div ChunkSize
              k == (q % ChunkSize) + 1
              cc == c * ChunkSize
              to == MinOf((c + 1) * ChunkSize, n)
  <2>1. q \in Nat /\ q < n
    BY <1>1
  <2>2. /\ c \in Nat /\ cc \in Nat /\ k \in 1..ChunkSize /\ q = cc + (k - 1)
        /\ \A r : ByteAt(r, q) = IF c \in DOMAIN r THEN (IF k <= Len(r[c]) THEN r[c][k] ELSE 0) ELSE 0
    BY <2>1, ByteOf
  <2>3. (c + 1) * ChunkSize = cc + ChunkSize
    BY <2>2, MulMono
  <2>4. c <= cc
    <3>. HIDE DEF c
    <3>. QED BY <2>2, ChunkSizeAssumption
  <2>5. c \in DOMAIN new
    <3>1. cc < n /\ c \in 0..n
      <4>. HIDE DEF q, c, k, cc
      <4>. QED BY <1>1, <2>1, <2>2, <2>4, ChunkSizeAssumption
    <3>. QED BY <1>3, <3>1
  <2>6. new[c] = SubSeq(bytes, cc + 1, to)
    BY <1>3, <2>5
  <2>7. to \in Nat /\ to <= n /\ cc + k <= to /\ cc + k = p
    <3>1. to = MinOf(cc + ChunkSize, n)
      BY <2>3
    <3>2. p = q + 1
      BY <1>1
    <3>. HIDE DEF q, c, k, cc, to
    <3>. QED BY <1>1, <2>1, <2>2, <3>1, <3>2, ChunkSizeAssumption DEF MinOf
  <2>8. Len(new[c]) = to - cc /\ new[c][k] = bytes[p]
    <3>. DEFINE m == cc + 1
    <3>. HIDE DEF q, c, k, cc, to
    <3>1. m \in Int /\ to \in Int /\ m <= to /\ \A j \in m..to : bytes[j] \in Bytes
      BY <1>1, <2>2, <2>7, ChunkSizeAssumption
    <3>2. k \in 1..(to - m + 1) /\ m + k - 1 = p /\ to - m + 1 = to - cc
      BY <1>1, <2>2, <2>7, ChunkSizeAssumption
    <3>. HIDE DEF m
    <3>3. /\ Len(SubSeq(bytes, m, to)) = IF m <= to THEN to - m + 1 ELSE 0
          /\ \A j \in 1..(to - m + 1) : SubSeq(bytes, m, to)[j] = bytes[m + j - 1]
      BY <3>1, SubSeqProperties
    <3>. QED BY <2>6, <3>1, <3>2, <3>3 DEF m
  <2>9. k <= Len(new[c])
    <3>. HIDE DEF q, c, k, cc, to
    <3>. QED BY <1>1, <2>2, <2>7, <2>8, ChunkSizeAssumption
  <2>. QED BY <1>2, <2>2, <2>5, <2>8, <2>9
<1>5. s = bytes
  BY <1>1, <1>2, <1>4, SeqEqual
<1>. QED BY <1>5 DEF s, new, n

\* A truncation that knows the size of the file.
LEMMA ContentCut ==
  ASSUME NEW rows, RowsOK(rows), NEW size \in Nat, RowsFit(rows, size), NEW n \in Nat
  PROVE  Content(truncate_rows(rows, size, n), n) = Tree!Resized(Content(rows, size), n)
<1>. DEFINE new == truncate_rows(rows, size, n)
            old == Content(rows, size)
            last == (n - 1) \div ChunkSize
            rest == n % ChunkSize
            B(p) == ByteAt(new, p - 1)
            W(p) == IF p <= Len(old) THEN old[p] ELSE 0
<1>1. Len(old) = size /\ \A p \in 1..size : old[p] = ByteAt(rows, p - 1)
  BY ContentIs
<1>2. Tree!Resized(old, n) = [p \in 1..n |-> W(p)] /\ Content(new, n) = [p \in 1..n |-> B(p)]
  BY DEF Tree!Resized, Content
<1>3. ASSUME NEW p \in 1..n PROVE ByteAt(new, p - 1) = ByteAt(rows, p - 1)
  <2>1. CASE ~(n < size)
    <3>1. new = rows
      BY <1>3, <2>1 DEF truncate_rows
    <3>. QED BY <3>1
  <2>2. CASE n < size
    <3>. DEFINE q == p - 1
                c == q \div ChunkSize
                k == (q % ChunkSize) + 1
                cc == c * ChunkSize
                ll == last * ChunkSize
                keep == MinOf(Len(rows[c]), rest)
    <3>1. q \in Nat /\ q < n /\ n \in Nat \ {0}
      BY <1>3
    <3>2. /\ c \in Nat /\ cc \in Nat /\ k \in 1..ChunkSize /\ q = cc + (k - 1)
          /\ \A r : ByteAt(r, q) = IF c \in DOMAIN r THEN (IF k <= Len(r[c]) THEN r[c][k] ELSE 0) ELSE 0
      <4>1. q \in Nat
        BY <3>1
      <4>. HIDE DEF q
      <4>. QED BY <4>1, ByteOf, Zenon
    <3>3. /\ last \in Nat /\ ll \in Nat /\ rest \in 0..(ChunkSize - 1)
          /\ rest = 0 => ll + ChunkSize = n
          /\ rest > 0 => ll + rest = n
      BY <3>1, LastChunk
    <3>4. (last < c => ll + ChunkSize <= cc) /\ (c = last => cc = ll)
      BY <3>2, <3>3, MulMono
    <3>5. new = [x \in {y \in DOMAIN rows : y <= last} |->
                   IF x = last /\ rest > 0 THEN SubSeq(rows[x], 1, MinOf(Len(rows[x]), rest)) ELSE rows[x]]
      BY <2>2, <3>1 DEF truncate_rows
    <3>6. c <= last /\ (c = last /\ rest > 0 => k <= rest)
      <4>. HIDE DEF new, q, c, k, cc, ll, last, rest
      <4>. QED BY <3>1, <3>2, <3>3, <3>4, ChunkSizeAssumption
    <3>7. /\ c \in DOMAIN new <=> c \in DOMAIN rows
          /\ c \in DOMAIN rows /\ ~(c = last /\ rest > 0) => new[c] = rows[c]
          /\ c \in DOMAIN rows /\ c = last /\ rest > 0 => new[c] = SubSeq(rows[c], 1, keep)
      <4>. HIDE DEF new, q, c, k, cc, ll, last, rest
      <4>. QED BY <3>5, <3>6
    <3>8. ASSUME c \in DOMAIN rows, c = last, rest > 0
          PROVE  /\ k <= Len(new[c]) <=> k <= Len(rows[c])
                 /\ k <= Len(rows[c]) => new[c][k] = rows[c][k]
      <4>1. rows[c] \in Seq(Bytes) /\ Len(rows[c]) \in Nat
        BY <3>8 DEF RowsOK
      <4>2. new[c] = SubSeq(rows[c], 1, keep)
        BY <3>7, <3>8
      <4>. DEFINE l == Len(rows[c])
                  one == 1
      <4>. HIDE DEF new, q, c, k, cc, ll, last, rest
      <4>3. keep \in Int /\ keep >= 0 /\ one \in Int /\ \A j \in one..keep : rows[c][j] \in Bytes
        BY <3>3, <4>1, ChunkSizeAssumption DEF MinOf
      <4>4. keep <= l /\ (k <= keep <=> k <= l)
        BY <3>2, <3>3, <3>6, <3>8, <4>1, ChunkSizeAssumption DEF MinOf
      <4>. HIDE DEF keep, l, one
      <4>5. /\ Len(SubSeq(rows[c], one, keep)) = IF one <= keep THEN keep - one + 1 ELSE 0
            /\ \A j \in 1..(keep - one + 1) : SubSeq(rows[c], one, keep)[j] = rows[c][one + j - 1]
        BY <4>3, SubSeqProperties
      <4>6. Len(new[c]) = keep
        BY <4>2, <4>3, <4>5 DEF one
      <4>7. k <= keep => k \in 1..(keep - one + 1) /\ one + k - 1 = k
        BY <3>2, <4>3, ChunkSizeAssumption DEF one
      <4>8. k <= keep => new[c][k] = rows[c][k]
        BY <4>2, <4>5, <4>7 DEF one
      <4>. QED BY <4>4, <4>6, <4>8 DEF l
    <3>. HIDE DEF new, c, k, cc, ll, last, rest
    <3>9. ByteAt(new, q) = ByteAt(rows, q)
      BY <3>2, <3>3, <3>7, <3>8
    <3>. QED BY <3>9 DEF q
  <2>. QED BY <2>1, <2>2
<1>. HIDE DEF new
<1>4. \A p \in 1..n : B(p) = W(p)
  <2>1. SUFFICES ASSUME NEW p \in 1..n PROVE B(p) = W(p)
    OBVIOUS
  <2>2. B(p) = ByteAt(rows, p - 1) /\ p - 1 \in Nat /\ p \in Nat
    BY <1>3
  <2>3. ~(p <= size) => ByteAt(rows, p - 1) = 0
    <3>1. ~(p <= size) => size <= p - 1
      BY <2>2
    <3>. QED BY <2>2, <3>1, PastEnd
  <2>4. p <= size => p \in 1..size
    BY <2>2
  <2>. HIDE DEF B, old
  <2>. QED BY <1>1, <2>2, <2>3, <2>4
<1>. HIDE DEF B, W, old
<1>. QED BY <1>2, <1>4 DEF old, new

-----------------------------------------------------------------------------
(* The tables as a tree.                                                   *)

\* Tables in order.
Good(d) == Tables(d) /\ Intact(d) /\ Stored(d) /\ Fits(d) /\ d.next <= MaxInode + 1

\* Inode j is, and says, what it did.
Same(d, d2, j) ==
    /\ j \in DOMAIN d.inode /\ j \in DOMAIN d2.inode
    /\ d2.inode[j].kind = d.inode[j].kind /\ d2.inode[j].size = d.inode[j].size
    /\ Rows(d2, j) = Rows(d, j)

\* Nothing but inode i changes, and it keeps its kind.
Others(d, d2, i) ==
    /\ \A j \in DOMAIN d2.inode : j # i => Same(d, d2, j)
    /\ i \in DOMAIN d.inode /\ i \in DOMAIN d2.inode => d2.inode[i].kind = d.inode[i].kind

\* What has a name, and the bytes of a file.
Named(d) == {d.dentry[e] : e \in DOMAIN d.dentry}
BytesOf(d, i) == Content(Rows(d, i), Size(d, i))

\* What a named inode says.
LEMMA SaysIs ==
  ASSUME NEW d, Tables(d), Intact(d), Stored(d)
  PROVE  /\ DOMAIN Says(d) = Named(d)
         /\ \A i \in Named(d) : /\ i \in DOMAIN d.inode /\ i \in 2..(d.next - 1) /\ NamesOf(d, i) # {}
                                /\ Says(d)[i] = IF IsDir(d, i) THEN Directory ELSE BytesOf(d, i)
                                /\ Says(d)[i] = Directory <=> IsDir(d, i)
         /\ \A i : NamesOf(d, i) # {} => i \in Named(d)
<1>1. DOMAIN Says(d) = Named(d)
  BY DEF Says, Named
<1>2. \A i : NamesOf(d, i) # {} => i \in Named(d)
  BY DEF NamesOf, Named
<1>3. ASSUME NEW i \in Named(d)
      PROVE  /\ i \in DOMAIN d.inode /\ i \in 2..(d.next - 1) /\ NamesOf(d, i) # {}
             /\ Says(d)[i] = IF IsDir(d, i) THEN Directory ELSE BytesOf(d, i)
             /\ Says(d)[i] = Directory <=> IsDir(d, i)
  <2>1. PICK e \in DOMAIN d.dentry : i = d.dentry[e]
    BY DEF Named
  <2>2. i \in DOMAIN d.inode /\ i \in 2..(d.next - 1) /\ NamesOf(d, i) # {}
    BY <2>1 DEF Intact, Tables, NamesOf
  <2>3. Says(d)[i] = IF IsDir(d, i) THEN Directory ELSE BytesOf(d, i)
    BY <2>2 DEF Says, Named, BytesOf
  <2>4. BytesOf(d, i) # Directory
    <3>. DEFINE b == BytesOf(d, i)
    <3>1. Size(d, i) \in Nat /\ RowsOK(Rows(d, i))
      BY <2>2, RowsStored DEF Size, Tables, InodeRow
    <3>2. b \in Seq(Bytes)
      BY <3>1, ContentIs DEF BytesOf
    <3>. HIDE DEF b
    <3>3. b = Directory => Len(b) = 1 /\ b[1] = -1
      BY DEF Directory
    <3>4. Len(b) = 1 => b[1] \in Bytes
      BY <3>2
    <3>5. -1 \notin Bytes
      BY DEF Bytes
    <3>. QED BY <3>3, <3>4, <3>5 DEF b
  <2>. QED BY <2>2, <2>3, <2>4
<1>. QED BY <1>1, <1>2, <1>3

\* The directories of the tree are those a client can name.
LEMMA TreeDirs ==
  ASSUME Good(db)
  PROVE  /\ Tree!Live = Named(db)
         /\ \A i : Tree!IsDir(i) <=> Present(db, i)
         /\ \A i \in Named(db) : Tree!IsDir(i) <=> IsDir(db, i)
         /\ \A i : Tree!IsEmpty(i) <=> Children(db, i) = {}
         /\ \A e \in Slot(db.next) : Present(db, e[1]) => e \in Tree!Slots
         /\ Root \notin Named(db)
<1>1. /\ Tables(db) /\ Intact(db) /\ Stored(db) /\ db.next \in Nat /\ db.next <= MaxInode + 1 /\ MaxInode \in Nat
  BY BoundsAssumption DEF Good, Tables
<1>2. /\ \A i \in Named(db) : /\ i \in 2..(db.next - 1) /\ NamesOf(db, i) # {}
                              /\ Says(db)[i] = Directory <=> IsDir(db, i)
      /\ \A i : NamesOf(db, i) # {} => i \in Named(db)
  BY <1>1, SaysIs
<1>3. Tree!Live = Named(db)
  BY DEF Tree!Live, Named
<1>4. Root \notin Named(db)
  BY <1>2 DEF Root
<1>5. \A i : Tree!IsDir(i) <=> Present(db, i)
  BY <1>2, <1>3 DEF Tree!IsDir, Present
<1>6. \A i \in Named(db) : Tree!IsDir(i) <=> IsDir(db, i)
  BY <1>2, <1>4, <1>5 DEF Present
<1>7. \A i : Tree!IsEmpty(i) <=> Children(db, i) = {}
  BY DEF Tree!IsEmpty, Children
<1>8. ASSUME NEW e \in Slot(db.next), Present(db, e[1]) PROVE e \in Tree!Slots
  <2>1. e[1] \in 1..(db.next - 1) /\ e[2] \in Names /\ e = <<e[1], e[2]>>
    BY DEF Slot
  <2>2. e[1] \in 1..MaxInode
    BY <1>1, <2>1
  <2>. QED BY <1>5, <1>8, <2>1, <2>2 DEF Tree!Slots
<1>. QED BY <1>3, <1>4, <1>5, <1>6, <1>7, <1>8

\* What is the same says the same.
LEMMA SaysSame ==
  ASSUME NEW d, Good(d), NEW d2, Good(d2), NEW j \in Named(d), j \in Named(d2), Same(d, d2, j)
  PROVE  Says(d2)[j] = Says(d)[j]
<1>1. Says(d)[j] = IF IsDir(d, j) THEN Directory ELSE BytesOf(d, j)
  BY SaysIs DEF Good
<1>2. Says(d2)[j] = IF IsDir(d2, j) THEN Directory ELSE BytesOf(d2, j)
  BY SaysIs DEF Good
<1>3. (IsDir(d, j) <=> IsDir(d2, j)) /\ Rows(d2, j) = Rows(d, j) /\ Size(d2, j) = Size(d, j)
  BY DEF Same, IsDir, Size
<1>. QED BY <1>1, <1>2, <1>3 DEF BytesOf

\* The next state of the tree.
LEMMA SaysPrime == Says(db)' = Says(db') /\ Named(db)' = Named(db') /\ (Good(db)' <=> Good(db'))
BY DEF Says, Named, Good, Tables, IsDb, Slot, Intact, Stored, Fits, IsDir, Rows, Size, Content, ByteAt,
       NamesOf, Children, RowsOK, RowsFit, InodeRow

\* A step that shows nothing.
LEMMA TreeStutter ==
  ASSUME Good(db), Good(db'), db'.dentry = db.dentry, \A j \in Named(db) : Same(db, db', j)
  PROVE  UNCHANGED Tree!treeVars
<1>1. Named(db') = Named(db)
  BY DEF Named
<1>2. DOMAIN Says(db) = Named(db) /\ DOMAIN Says(db') = Named(db)
  BY <1>1, SaysIs DEF Good
<1>3. \A j \in Named(db) : Says(db')[j] = Says(db)[j]
  BY <1>1, SaysSame
<1>4. Says(db) = [j \in Named(db) |-> Says(db)[j]] /\ Says(db') = [j \in Named(db') |-> Says(db')[j]]
  BY DEF Says, Named
<1>5. Says(db') = Says(db)
  BY <1>1, <1>3, <1>4
<1>6. Says(db)' = Says(db)
  BY <1>5, SaysPrime
<1>7. db.dentry' = db.dentry
  OBVIOUS
<1>. QED BY <1>6, <1>7 DEF Tree!treeVars

\* What every step of the tree has to show: who is named, and that what is not the step's
\* business says what it said.
LEMMA TreeKeep ==
  ASSUME Good(db), Good(db'), NEW i, \A j \in Named(db) : j \in Named(db') /\ j # i => Same(db, db', j)
  PROVE  /\ Tree!SaysNamed
         /\ \A j \in Named(db) : j \in Named(db') /\ j # i => Says(db)'[j] = Says(db)[j]
<1>1. DOMAIN Says(db') = Named(db')
  BY SaysIs DEF Good
<1>2. Says(db)' = Says(db')
  BY SaysPrime
<1>3. Tree!SaysNamed
  BY <1>1, <1>2 DEF Tree!SaysNamed, Named
<1>4. \A j \in Named(db) : j \in Named(db') /\ j # i => Says(db')[j] = Says(db)[j]
  BY SaysSame
<1>. QED BY <1>2, <1>3, <1>4

\* A name is added to the tree.
AddsName(d, d2, e, i) ==
    /\ d2.dentry = [x \in DOMAIN d.dentry \union {e} |-> IF x = e THEN i ELSE d.dentry[x]]
    /\ e \in Slot(d.next) /\ e \notin DOMAIN d.dentry /\ Present(d, e[1])

\* It names one thing more, or again.
LEMMA NamedMore ==
  ASSUME NEW d, NEW d2, NEW e, NEW i, AddsName(d, d2, e, i)
  PROVE  Named(d2) = Named(d) \union {i}
<1>1. \A x \in DOMAIN d.dentry : x # e
  BY DEF AddsName
<1>2. /\ DOMAIN d2.dentry = DOMAIN d.dentry \union {e} /\ d2.dentry[e] = i
      /\ \A x \in DOMAIN d.dentry : d2.dentry[x] = d.dentry[x]
  BY <1>1 DEF AddsName
<1>. QED BY <1>2 DEF Named

\* A new file or directory.
LEMMA TreeCreate ==
  ASSUME Good(db), Good(db'), NEW e, NEW i \in 2..(db'.next - 1), AddsName(db, db', e, i), NamesOf(db, i) = {},
         \A j \in Named(db) : Same(db, db', j),
         \/ IsDir(db', i)
         \/ BytesOf(db', i) = <<>>
         \/ \E off \in Offsets, data \in Payloads : BytesOf(db', i) = Tree!Written(<<>>, off, data)
  PROVE  Tree!Next
<1>1. Named(db') = Named(db) \union {i}
  BY NamedMore
<1>2. i \notin Named(db)
  BY DEF Named, NamesOf
<1>3. Tree!SaysNamed /\ \A j \in Named(db) : Says(db)'[j] = Says(db)[j]
  BY <1>1, <1>2, TreeKeep
<1>4. i \in 1..MaxInode /\ i # Root
  BY BoundsAssumption DEF Good, Tables, Root
<1>5. e \in Tree!Slots /\ Tree!Live = Named(db)
  BY TreeDirs DEF AddsName
<1>6. Says(db)'[i] = IF IsDir(db', i) THEN Directory ELSE BytesOf(db', i)
  <2>1. Says(db')[i] = IF IsDir(db', i) THEN Directory ELSE BytesOf(db', i)
    BY <1>1, SaysIs DEF Good
  <2>. QED BY <2>1, SaysPrime
<1>7. Says(db)'[i] \in {Directory, <<>>} \union {Tree!Written(<<>>, off, data) : off \in Offsets, data \in Payloads}
  BY <1>6
<1>8. Tree!Keep(Tree!Live)
  BY <1>3, <1>5 DEF Tree!Keep
<1>9. e \notin DOMAIN db.dentry
      /\ db.dentry' = [x \in DOMAIN db.dentry \union {e} |-> IF x = e THEN i ELSE db.dentry[x]]
  BY DEF AddsName
<1>10. Tree!Create(e, i)
  BY <1>2, <1>4, <1>5, <1>7, <1>8, <1>9 DEF Tree!Create
<1>. QED BY <1>3, <1>4, <1>5, <1>10 DEF Tree!Next

\* A second name.
LEMMA TreeLink ==
  ASSUME Good(db), Good(db'), NEW e, NEW i, AddsName(db, db', e, i), i \in Named(db), ~IsDir(db, i),
         \A j \in Named(db) : Same(db, db', j)
  PROVE  Tree!Next
<1>1. Tree!SaysNamed /\ \A j \in Named(db) : j \in Named(db') /\ j # None => Says(db)'[j] = Says(db)[j]
  BY TreeKeep
<1>2. Named(db') = Named(db)
  BY NamedMore
<1>3. \A j \in Named(db) : j # None
  BY SaysIs DEF Good, None
<1>4. e \in Tree!Slots /\ Tree!Live = Named(db) /\ ~Tree!IsDir(i)
  BY TreeDirs DEF AddsName
<1>5. Tree!Keep(Tree!Live)
  BY <1>1, <1>2, <1>3, <1>4 DEF Tree!Keep
<1>6. e \notin DOMAIN db.dentry
      /\ db.dentry' = [x \in DOMAIN db.dentry \union {e} |-> IF x = e THEN i ELSE db.dentry[x]]
  BY DEF AddsName
<1>7. Tree!Link(e, i)
  BY <1>4, <1>5, <1>6 DEF Tree!Link
<1>8. i \in 1..MaxInode
  <2>1. i \in 2..(db.next - 1)
    BY SaysIs DEF Good
  <2>. QED BY <2>1, BoundsAssumption DEF Good, Tables
<1>. QED BY <1>1, <1>4, <1>7, <1>8 DEF Tree!Next

\* A name goes.
LEMMA TreeRemove ==
  ASSUME Good(db), Good(db'), NEW e \in DOMAIN db.dentry,
         db'.dentry = [x \in DOMAIN db.dentry \ {e} |-> db.dentry[x]],
         IsDir(db, db.dentry[e]) => Children(db, db.dentry[e]) = {},
         \A j \in Named(db') : Same(db, db', j)
  PROVE  Tree!Next
<1>1. Named(db') \subseteq Named(db)
  BY DEF Named
<1>2. Tree!SaysNamed /\ \A j \in Named(db) : j \in Named(db') /\ j # None => Says(db)'[j] = Says(db)[j]
  BY TreeKeep
<1>3. \A j \in Named(db) : j # None
  BY SaysIs DEF Good, None
<1>4. Tree!Keep({db'.dentry[x] : x \in DOMAIN db'.dentry})
  BY <1>1, <1>2, <1>3 DEF Tree!Keep, Named
<1>5. db.dentry[e] \in Named(db)
  BY DEF Named
<1>6. Tree!IsDir(db.dentry[e]) => Tree!IsEmpty(db.dentry[e])
  BY <1>5, TreeDirs
<1>7. Tree!Remove(e)
  BY <1>4, <1>6 DEF Tree!Remove
<1>. QED BY <1>2, <1>7 DEF Tree!Next

\* A name moves.
LEMMA TreeRename ==
  ASSUME Good(db), Good(db'), NEW e \in DOMAIN db.dentry, NEW f \in Slot(db.next), e # f, Present(db, f[1]),
         f \in DOMAIN db.dentry => /\ IsDir(db, db.dentry[e]) <=> IsDir(db, db.dentry[f])
                                   /\ IsDir(db, db.dentry[f]) => Children(db, db.dentry[f]) = {},
         db'.dentry = [x \in (DOMAIN db.dentry \ {e}) \union {f} |-> IF x = f THEN db.dentry[e] ELSE db.dentry[x]],
         \A j \in Named(db') : Same(db, db', j)
  PROVE  Tree!Next
<1>1. Named(db') \subseteq Named(db)
  BY DEF Named
<1>2. Tree!SaysNamed /\ \A j \in Named(db) : j \in Named(db') /\ j # None => Says(db)'[j] = Says(db)[j]
  BY TreeKeep
<1>3. \A j \in Named(db) : j # None
  BY SaysIs DEF Good, None
<1>4. Tree!Keep({db'.dentry[x] : x \in DOMAIN db'.dentry})
  BY <1>1, <1>2, <1>3 DEF Tree!Keep, Named
<1>5. db.dentry[e] \in Named(db) /\ (f \in DOMAIN db.dentry => db.dentry[f] \in Named(db))
  BY DEF Named
<1>6. f \in DOMAIN db.dentry => /\ Tree!IsDir(db.dentry[e]) <=> Tree!IsDir(db.dentry[f])
                                /\ Tree!IsDir(db.dentry[f]) => Tree!IsEmpty(db.dentry[f])
  BY <1>5, TreeDirs
<1>7. Tree!Rename(e, f)
  BY <1>4, <1>6 DEF Tree!Rename
<1>8. f \in Tree!Slots
  BY TreeDirs
<1>. QED BY <1>2, <1>7, <1>8 DEF Tree!Next

\* The bytes of a file change.
LEMMA TreeChange ==
  ASSUME Good(db), Good(db'), NEW i \in Named(db), ~IsDir(db, i), ~IsDir(db', i), db'.dentry = db.dentry,
         \A j \in Named(db) : j # i => Same(db, db', j),
         \/ \E off \in Offsets, data \in Payloads : BytesOf(db', i) = Tree!Written(BytesOf(db, i), off, data)
         \/ \E n \in Sizes : BytesOf(db', i) = Tree!Resized(BytesOf(db, i), n)
  PROVE  Tree!Next
<1>1. Named(db') = Named(db)
  BY DEF Named
<1>2. Tree!SaysNamed /\ \A j \in Named(db) : j # i => Says(db)'[j] = Says(db)[j]
  BY <1>1, TreeKeep
<1>3. Tree!Live = Named(db) /\ ~Tree!IsDir(i)
  BY TreeDirs
<1>4. Tree!Keep(Tree!Live \ {i})
  BY <1>2, <1>3 DEF Tree!Keep
<1>5. Says(db)[i] = BytesOf(db, i)
  BY SaysIs DEF Good
<1>6. Says(db)'[i] = BytesOf(db', i)
  <2>1. Says(db')[i] = BytesOf(db', i)
    BY <1>1, SaysIs DEF Good
  <2>. QED BY <2>1, SaysPrime
<1>7. db.dentry' = db.dentry
  OBVIOUS
<1>8. Tree!Change(i)
  BY <1>3, <1>4, <1>5, <1>6, <1>7 DEF Tree!Change
<1>. QED BY <1>2, <1>3, <1>8 DEF Tree!Next

-----------------------------------------------------------------------------
(* A tree made at once.                                                    *)

\* What the entries of a plan have made of the files of d0: those it had stay as they were or,
\* if they are files with a name, say what the plan writes; the new ones are directories, or
\* empty, or say what the plan writes.
SaidAt(d0, d, i) ==
    IF i < d0.next
      THEN Same(d0, d, i) \/ /\ i \in DOMAIN d0.inode /\ ~IsDir(d0, i) /\ ~IsDir(d, i)
                             /\ NamesOf(d0, i) # {} /\ BytesOf(d, i) \in Planned
      ELSE IsDir(d, i) \/ BytesOf(d, i) \in {<<>>} \union Planned
Said(d0, d) == \A i \in DOMAIN d.inode : SaidAt(d0, d, i)

\* A tree is made at once.
LEMMA TreeMaterialize ==
  ASSUME Good(db), Good(db'), Extends(db, db'), Said(db, db')
  PROVE  Tree!Next
<1>. DEFINE n == db.next
            new == DOMAIN db'.dentry \ DOMAIN db.dentry
<1>1. n \in Nat \ {0, 1} /\ db'.next \in Nat /\ db'.next <= MaxInode + 1 /\ MaxInode \in Nat /\ n <= db'.next
  BY BoundsAssumption DEF Good, Tables, Extends
<1>2. \A i \in Named(db) : /\ i \in DOMAIN db.inode /\ i \in 2..(n - 1)
                           /\ Says(db)[i] = IF IsDir(db, i) THEN Directory ELSE BytesOf(db, i)
  BY SaysIs DEF Good
<1>3. \A i \in Named(db') : /\ i \in DOMAIN db'.inode /\ i \in 2..(db'.next - 1)
                            /\ Says(db')[i] = IF IsDir(db', i) THEN Directory ELSE BytesOf(db', i)
  BY SaysIs DEF Good
<1>4. Named(db) \subseteq Named(db')
  BY DEF Named, Extends
<1>5. Tree!Live = Named(db) /\ Root \notin Named(db)
      /\ (\A i : Tree!IsDir(i) <=> Present(db, i)) /\ (\A i \in Named(db) : Tree!IsDir(i) <=> IsDir(db, i))
  BY TreeDirs
<1>6. \A e \in DOMAIN db.dentry : e \in DOMAIN db'.dentry /\ db'.dentry[e] = db.dentry[e]
  BY DEF Extends
<1>7. ASSUME NEW e \in new
      PROVE  /\ db'.dentry[e] \in (1..MaxInode) \ (Named(db) \union {Root})
             /\ e[2] \in Names
             /\ Tree!IsDir(e[1]) \/ \E f \in new : db'.dentry[f] = e[1] /\ Says(db')[e[1]] = Directory
             /\ \A f \in new : db'.dentry[f] = db'.dentry[e] => f = e
             /\ Says(db')[db'.dentry[e]] \in {Directory, <<>>} \union Planned
  <2>. DEFINE i == db'.dentry[e]
              p == e[1]
  <2>1. i \in n..(db'.next - 1) /\ i \in Named(db')
    BY <1>7 DEF Extends, Named
  <2>2. i \in (1..MaxInode) \ (Named(db) \union {Root})
    BY <1>1, <1>2, <2>1 DEF Root
  <2>3. e \in Slot(db'.next) /\ IsDir(db', p)
    BY DEF Good, Tables, Intact
  <2>4. e[2] \in Names /\ p \in 1..(db'.next - 1)
    BY <2>3 DEF Slot
  <2>5. Tree!IsDir(p) \/ \E f \in new : db'.dentry[f] = p /\ Says(db')[p] = Directory
    <3>1. CASE p = Root
      BY <1>5, <3>1 DEF Present
    <3>2. CASE p # Root
      <4>1. NamesOf(db', p) # {}
        <5>1. Children(db', p) # {}
          BY DEF Children
        <5>. QED BY <2>3, <3>2, <5>1 DEF Good, Intact, IsDir
      <4>2. PICK f \in DOMAIN db'.dentry : db'.dentry[f] = p
        BY <4>1 DEF NamesOf
      <4>3. p \in Named(db') /\ Says(db')[p] = Directory
        <5>1. p \in Named(db')
          BY <4>2 DEF Named
        <5>. QED BY <1>3, <2>3, <5>1
      <4>4. CASE f \in new
        BY <4>2, <4>3, <4>4
      <4>5. CASE f \in DOMAIN db.dentry
        <5>1. db.dentry[f] = p /\ p \in Named(db)
          BY <1>6, <4>2, <4>5 DEF Named
        <5>2. IsDir(db, p)
          <6>1. p \in DOMAIN db.inode
            BY <1>2, <5>1
          <6>2. db'.inode[p].kind = db.inode[p].kind
            BY <6>1 DEF Extends
          <6>. QED BY <2>3, <6>1, <6>2 DEF IsDir
        <5>. QED BY <1>5, <5>1, <5>2
      <4>. QED BY <4>2, <4>4, <4>5
    <3>. QED BY <3>1, <3>2
  <2>6. i \in DOMAIN db'.inode /\ i # Root
    BY <1>3, <2>1, <2>2
  <2>7. ASSUME NEW f \in new, db'.dentry[f] = i PROVE f = e
    <3>1. e \in NamesOf(db', i) /\ f \in NamesOf(db', i)
      BY <2>7 DEF NamesOf
    <3>2. CASE IsDir(db', i)
      BY <2>6, <3>1, <3>2 DEF Good, Intact
    <3>3. CASE ~IsDir(db', i)
      <4>1. i \in Files(db') /\ i >= n
        BY <1>1, <2>1, <2>6, <3>3 DEF Files
      <4>2. PICK x : NamesOf(db', i) = {x}
        BY <4>1 DEF Extends
      <4>. QED BY <3>1, <4>2
    <3>. QED BY <3>2, <3>3
  <2>8. Says(db')[i] \in {Directory, <<>>} \union Planned
    <3>1. ~(i < n)
      BY <1>1, <2>1
    <3>2. IsDir(db', i) \/ BytesOf(db', i) \in {<<>>} \union Planned
      BY <2>6, <3>1 DEF Said, SaidAt
    <3>. QED BY <1>3, <2>1, <3>2
  <2>. QED BY <2>2, <2>4, <2>5, <2>7, <2>8
<1>8. ASSUME NEW o \in Named(db)
      PROVE  Says(db')[o] = Says(db)[o] \/ (~Tree!IsDir(o) /\ Says(db')[o] \in Planned)
  <2>1. o \in Named(db') /\ o \in DOMAIN db'.inode /\ o < n
    BY <1>1, <1>2, <1>3, <1>4
  <2>2. CASE Same(db, db', o)
    BY <2>1, <2>2, SaysSame
  <2>3. CASE ~IsDir(db, o) /\ ~IsDir(db', o) /\ BytesOf(db', o) \in Planned
    BY <1>3, <1>5, <2>1, <2>3
  <2>. QED BY <2>1, <2>2, <2>3 DEF Said, SaidAt
<1>9. Tree!SaysNamed
  <2>1. DOMAIN Says(db') = Named(db')
    BY SaysIs DEF Good
  <2>2. DOMAIN Says(db)' = Named(db')
    BY <2>1, SaysPrime
  <2>. QED BY <2>2 DEF Tree!SaysNamed, Named
<1>10. Tree!Materialize
  <2>1. Says(db)' = Says(db')
    BY SaysPrime
  <2>. QED BY <1>5, <1>6, <1>7, <1>8, <2>1 DEF Tree!Materialize
<1>. QED BY <1>9, <1>10 DEF Tree!Next

-----------------------------------------------------------------------------
(* Which inodes a statement changes.                                       *)

\* One change after the other.
LEMMA OthersTrans ==
  ASSUME NEW d, NEW d2, NEW d3, Others(d, d2, None), Others(d2, d3, None), Tables(d2), Tables(d3)
  PROVE  Others(d, d3, None)
<1>1. \A j \in DOMAIN d3.inode : j # None
  BY DEF Tables, None
<1>2. \A j \in DOMAIN d2.inode : j # None
  BY DEF Tables, None
<1>. QED BY <1>1, <1>2 DEF Others, Same

\* Names and links say nothing about any inode; rows and inodes only of their own.
LEMMA OthersEdits ==
  ASSUME NEW d, Tables(d)
  PROVE  /\ \A e \in Slot(d.next), i \in 2..(d.next - 1) : Others(d, InsertDentry(d, e, i), None)
         /\ \A e : Others(d, DeleteDentry(d, e), None)
         /\ \A i : \A n \in Int : Others(d, AddLinks(d, i, n), None)
         /\ \A i : Others(d, [d EXCEPT !.inode[i].nlink = 2], None)
         /\ \A i : Others(d, DeleteData(d, i), i)
         /\ \A i : Others(d, DeleteInode(d, i), None)
<1>0. None \notin DOMAIN d.inode
  BY DEF Tables, None
<1>1. ASSUME NEW e \in Slot(d.next), NEW i \in 2..(d.next - 1) PROVE Others(d, InsertDentry(d, e, i), None)
  <2>. DEFINE d2 == InsertDentry(d, e, i)
  <2>1. d2.inode = d.inode /\ d2.data = d.data
    BY InsertDentryEffect
  <2>. HIDE DEF d2
  <2>2. Others(d, d2, None)
    BY <2>1 DEF Others, Same, Rows
  <2>. QED BY <2>2 DEF d2
<1>2. ASSUME NEW e PROVE Others(d, DeleteDentry(d, e), None)
  <2>. DEFINE d2 == DeleteDentry(d, e)
  <2>1. d2.inode = d.inode /\ d2.data = d.data
    BY DeleteDentryEffect
  <2>. HIDE DEF d2
  <2>2. Others(d, d2, None)
    BY <2>1 DEF Others, Same, Rows
  <2>. QED BY <2>2 DEF d2
<1>3. ASSUME NEW i, NEW n \in Int PROVE Others(d, AddLinks(d, i, n), None)
  <2>. DEFINE d2 == AddLinks(d, i, n)
  <2>1. /\ d2.data = d.data /\ DOMAIN d2.inode = DOMAIN d.inode
        /\ \A j \in DOMAIN d.inode : /\ d2.inode[j].kind = d.inode[j].kind
                                     /\ d2.inode[j].size = d.inode[j].size
    BY AddLinksEffect
  <2>. HIDE DEF d2
  <2>2. Others(d, d2, None)
    BY <1>0, <2>1 DEF Others, Same, Rows
  <2>. QED BY <2>2 DEF d2
<1>4. ASSUME NEW i PROVE Others(d, [d EXCEPT !.inode[i].nlink = 2], None)
  <2>. DEFINE row == [d.inode[i] EXCEPT !.nlink = 2]
              d2 == [d EXCEPT !.inode[i].nlink = 2]
  <2>1. d2 = [inode |-> [d.inode EXCEPT ![i] = row], dentry |-> d.dentry, data |-> d.data, next |-> d.next]
    BY DEF Tables, IsDb
  <2>2. i \in DOMAIN d.inode => row.kind = d.inode[i].kind /\ row.size = d.inode[i].size
    BY DEF Tables, InodeRow
  <2>. HIDE DEF d2, row
  <2>3. /\ d2.data = d.data /\ DOMAIN d2.inode = DOMAIN d.inode
        /\ \A j \in DOMAIN d.inode : d2.inode[j].kind = d.inode[j].kind /\ d2.inode[j].size = d.inode[j].size
    BY <2>1, <2>2
  <2>4. Others(d, d2, None)
    BY <1>0, <2>3 DEF Others, Same, Rows
  <2>. QED BY <2>4 DEF d2
<1>5. ASSUME NEW i PROVE Others(d, DeleteData(d, i), i)
  <2>. DEFINE d2 == DeleteData(d, i)
  <2>1. /\ d2.inode = d.inode /\ DOMAIN d2.data = DOMAIN d.data \ {i}
        /\ \A j \in DOMAIN d.data \ {i} : d2.data[j] = d.data[j]
    BY DeleteDataEffect
  <2>. HIDE DEF d2
  <2>2. Others(d, d2, i)
    BY <2>1 DEF Others, Same, Rows
  <2>. QED BY <2>2 DEF d2
<1>6. ASSUME NEW i PROVE Others(d, DeleteInode(d, i), None)
  <2>. DEFINE d2 == DeleteInode(d, i)
  <2>1. /\ d2.data = d.data /\ DOMAIN d2.inode = DOMAIN d.inode \ {i}
        /\ \A j \in DOMAIN d.inode \ {i} : d2.inode[j] = d.inode[j]
    BY DeleteInodeEffect
  <2>. HIDE DEF d2
  <2>2. Others(d, d2, None)
    BY <1>0, <2>1 DEF Others, Same, Rows
  <2>. QED BY <2>2 DEF d2
<1>. QED BY <1>1, <1>2, <1>3, <1>4, <1>5, <1>6

\* A new inode, by itself.
LEMMA OthersMake ==
  ASSUME NEW d, Tables(d), NEW kind \in Kinds, NEW nlink \in Int, NEW size \in Nat,
         NEW d2, d2 = InsertInode(d, kind, nlink, size)
  PROVE  Others(d, d2, d.next) /\ Rows(d2, d.next) = NoRows /\ Size(d2, d.next) = size
<1>0. d.next \notin DOMAIN d.inode /\ d.next \notin DOMAIN d.data
  BY DEF Tables
<1>1. /\ d2.data = d.data
      /\ DOMAIN d2.inode = DOMAIN d.inode \union {d.next} /\ d.next \notin DOMAIN d.inode
      /\ d2.inode[d.next] = [kind |-> kind, nlink |-> nlink, size |-> size]
      /\ \A j \in DOMAIN d.inode : d2.inode[j] = d.inode[j]
  BY InsertInodeEffect
<1>2. Others(d, d2, d.next)
  BY <1>0, <1>1 DEF Others, Same, Rows
<1>3. Rows(d2, d.next) = NoRows /\ Size(d2, d.next) = size
  BY <1>0, <1>1 DEF Rows, Size
<1>. QED BY <1>2, <1>3

\* A new inode with its name.
LEMMA OthersCreate ==
  ASSUME NEW d, Tables(d), NEW kind \in Kinds, NEW nlink \in Int, NEW size \in Nat,
         NEW e \in Slot(d.next), NEW d2, d2 = Created(d, kind, nlink, size, e)
  PROVE  /\ Others(d, d2, d.next) /\ Rows(d2, d.next) = NoRows /\ Size(d2, d.next) = size
         /\ d.next \in DOMAIN d2.inode /\ d2.inode[d.next].kind = kind
         /\ d2.dentry = Put(d.dentry, e, d.next)
<1>. DEFINE d1 == InsertInode(d, kind, nlink, size)
<1>1. /\ Tables(d1)
      /\ d1.next = d.next + 1 /\ d1.dentry = d.dentry
      /\ DOMAIN d1.inode = DOMAIN d.inode \union {d.next}
      /\ d1.inode[d.next] = [kind |-> kind, nlink |-> nlink, size |-> size]
  BY InsertInodeEffect
<1>2. d2 = InsertDentry(d1, e, d.next) /\ d1 = InsertInode(d, kind, nlink, size)
  BY DEF Created
<1>. HIDE DEF d1
<1>3. Others(d, d1, d.next) /\ Rows(d1, d.next) = NoRows /\ Size(d1, d.next) = size
  BY <1>2, OthersMake
<1>4. e \in Slot(d1.next) /\ d.next \in 2..(d1.next - 1)
  BY <1>1 DEF Tables, Slot
<1>5. d2.inode = d1.inode /\ d2.data = d1.data
  <2>1. InsertDentry(d1, e, d.next).inode = d1.inode /\ InsertDentry(d1, e, d.next).data = d1.data
    BY <1>1, <1>4, InsertDentryEffect
  <2>. QED BY <1>2, <2>1
<1>6. d2.dentry = Put(d1.dentry, e, d.next)
  BY <1>1, <1>2 DEF InsertDentry, Tables, IsDb
<1>7. Others(d, d2, d.next) /\ Rows(d2, d.next) = NoRows /\ Size(d2, d.next) = size
  BY <1>3, <1>5 DEF Others, Same, Rows, Size
<1>. QED BY <1>1, <1>5, <1>6, <1>7

\* The rows and the size of one file, and nothing else.
StoredAs(d, d2, i, rows, n) ==
    /\ Others(d, d2, i) /\ Tables(d2)
    /\ d2.next = d.next /\ d2.dentry = d.dentry /\ DOMAIN d2.inode = DOMAIN d.inode
    /\ \A j \in DOMAIN d.inode : d2.inode[j].kind = d.inode[j].kind
    /\ Rows(d2, i) = rows
    /\ i \in DOMAIN d.inode => Size(d2, i) = n

\* A file is written.
LEMMA OthersStore ==
  ASSUME NEW d, Tables(d), NEW i \in 2..(d.next - 1), NEW rows, NEW n \in Nat,
         NEW d2, d2 = SetSize(SetRows(d, i, rows), i, n)
  PROVE  StoredAs(d, d2, i, rows, n)
<1>. DEFINE d1 == SetRows(d, i, rows)
<1>1. /\ Tables(d1) /\ d1.inode = d.inode /\ d1.next = d.next /\ d1.dentry = d.dentry
      /\ DOMAIN d1.data = DOMAIN d.data \union {i} /\ d1.data[i] = rows
      /\ \A j \in DOMAIN d.data : j # i => d1.data[j] = d.data[j]
  BY SetRowsEffect
<1>0. d2 = SetSize(d1, i, n)
  OBVIOUS
<1>. HIDE DEF d1
<1>2. /\ Tables(d2) /\ d2.next = d1.next /\ d2.dentry = d1.dentry
      /\ d2.data = d1.data /\ DOMAIN d2.inode = DOMAIN d1.inode
      /\ \A j \in DOMAIN d1.inode : d2.inode[j].kind = d1.inode[j].kind
      /\ \A j \in DOMAIN d1.inode : d2.inode[j].size = IF j = i THEN n ELSE d1.inode[j].size
  BY <1>0, <1>1, SetSizeEffect
<1>3. Others(d, d2, i)
  BY <1>1, <1>2 DEF Others, Same, Rows
<1>4. Rows(d2, i) = rows /\ (i \in DOMAIN d.inode => Size(d2, i) = n)
  BY <1>1, <1>2 DEF Rows, Size
<1>. QED BY <1>1, <1>2, <1>3, <1>4 DEF StoredAs

\* rename: what it replaces goes or stays as it was.
LEMMA OthersMove ==
  ASSUME NEW d, Tables(d), NEW e \in Slot(d.next), NEW f \in Slot(d.next), NEW dir \in BOOLEAN
  PROVE  /\ Others(d, Moved(Replaced(d, f), e, f, dir), None)
         /\ e \in DOMAIN d.dentry /\ e # f =>
              Moved(Replaced(d, f), e, f, dir).dentry
                = [x \in (DOMAIN d.dentry \ {e}) \union {f} |-> IF x = f THEN d.dentry[e] ELSE d.dentry[x]]
<1>. DEFINE r == Replaced(d, f)
            d4 == Moved(r, e, f, dir)
<1>0. Others(d, d, None)
  BY DEF Others, Same, Tables, None
<1>1. Others(d, r, None)
  <2>1. CASE f \in DOMAIN d.dentry
    <3>. DEFINE j == d.dentry[f]
                d1 == DeleteDentry(d, f)
                d2 == AddLinks(d1, j, -1)
                d3 == DeleteData(d2, j)
    <3>1. Tables(d1) /\ Others(d, d1, None)
      BY DeleteDentryEffect, OthersEdits
    <3>. HIDE DEF d1, j
    <3>2. Tables(d2) /\ Others(d1, d2, None)
      BY <3>1, AddLinksEffect, OthersEdits
    <3>. HIDE DEF d2
    <3>3. Tables(d3) /\ d3.inode = d2.inode /\ Others(d2, d3, j)
      BY <3>2, DeleteDataEffect, OthersEdits
    <3>. DEFINE x == DeleteInode(d3, j)
    <3>. HIDE DEF d3
    <3>4. Tables(x) /\ DOMAIN x.inode = DOMAIN d3.inode \ {j} /\ Others(d3, x, None)
      BY <3>3, DeleteInodeEffect, OthersEdits
    <3>5. r = d2 \/ r = x
      BY <2>1 DEF Replaced, Purged, d3, d2, d1, j
    <3>. HIDE DEF x
    <3>6. Others(d, d2, None)
      BY <3>1, <3>2, OthersTrans
    <3>7. Others(d2, x, None)
      <4>1. \A i \in DOMAIN x.inode : i # j /\ i # None
        BY <3>4 DEF Tables, None
      <4>. QED BY <3>3, <3>4, <4>1 DEF Others, Same
    <3>8. Others(d, x, None)
      BY <3>2, <3>4, <3>6, <3>7, OthersTrans
    <3>. HIDE DEF r
    <3>. QED BY <3>5, <3>6, <3>8
  <2>2. CASE f \notin DOMAIN d.dentry
    BY <1>0, <2>2 DEF Replaced
  <2>. QED BY <2>1, <2>2
<1>2. /\ Tables(r) /\ r.next = d.next
      /\ f \notin DOMAIN d.dentry => r = d
      /\ f \in DOMAIN d.dentry =>
           /\ DOMAIN r.dentry = DOMAIN d.dentry \ {f}
           /\ \A x \in DOMAIN d.dentry \ {f} : r.dentry[x] = d.dentry[x]
  BY ReplacedEffect, ZenonT(40)
<1>. HIDE DEF r
<1>. DEFINE d1 == DeleteDentry(r, e)
            m == IF e \in DOMAIN r.dentry THEN InsertDentry(d1, f, r.dentry[e]) ELSE r
            a == AddLinks(m, e[1], -1)
            b == AddLinks(a, f[1], 1)
<1>3. Tables(d1) /\ Others(r, d1, None) /\ d1.next = r.next
  BY <1>2, DeleteDentryEffect, OthersEdits
<1>4. d1.dentry = Without(r.dentry, e)
  BY <1>2 DEF DeleteDentry, Tables, IsDb
<1>. HIDE DEF d1
<1>5. Tables(m) /\ Others(r, m, None)
  <2>1. CASE e \in DOMAIN r.dentry
    <3>1. r.dentry[e] \in 2..(d1.next - 1) /\ f \in Slot(d1.next)
      BY <1>2, <1>3, <2>1 DEF Tables
    <3>2. Tables(InsertDentry(d1, f, r.dentry[e])) /\ Others(d1, InsertDentry(d1, f, r.dentry[e]), None)
      BY <1>3, <3>1, InsertDentryEffect, OthersEdits
    <3>3. Others(r, InsertDentry(d1, f, r.dentry[e]), None)
      BY <1>3, <3>2, OthersTrans
    <3>. QED BY <2>1, <3>2, <3>3
  <2>2. CASE e \notin DOMAIN r.dentry
    <3>1. Others(r, r, None)
      BY <1>2 DEF Others, Same, Tables, None
    <3>. QED BY <1>2, <2>2, <3>1
  <2>. QED BY <2>1, <2>2
<1>6. e \in DOMAIN r.dentry => m.dentry = Put(d1.dentry, f, r.dentry[e])
  BY <1>3 DEF InsertDentry, Tables, IsDb
<1>7. d4 = m \/ d4 = b
  BY DEF Moved, d1
<1>. HIDE DEF m, d4
<1>8. Tables(a) /\ Others(m, a, None) /\ a.dentry = m.dentry
  BY <1>5, AddLinksEffect, OthersEdits
<1>. HIDE DEF a
<1>9. Tables(b) /\ Others(a, b, None) /\ b.dentry = a.dentry
  BY <1>8, AddLinksEffect, OthersEdits
<1>. HIDE DEF b
<1>10. Others(d, m, None)
  BY <1>1, <1>2, <1>5, OthersTrans
<1>11. Others(d, a, None)
  BY <1>10, <1>5, <1>8, OthersTrans
<1>12. Others(d, b, None)
  BY <1>11, <1>8, <1>9, OthersTrans
<1>13. Others(d, d4, None) /\ d4.dentry = m.dentry
  BY <1>7, <1>8, <1>9, <1>10, <1>12
<1>14. ASSUME e \in DOMAIN d.dentry, e # f
       PROVE  d4.dentry = [x \in (DOMAIN d.dentry \ {e}) \union {f} |-> IF x = f THEN d.dentry[e] ELSE d.dentry[x]]
  <2>1. e \in DOMAIN r.dentry /\ r.dentry[e] = d.dentry[e]
    BY <1>2, <1>14
  <2>2. /\ (DOMAIN r.dentry \ {e}) \union {f} = (DOMAIN d.dentry \ {e}) \union {f}
        /\ \A x \in DOMAIN r.dentry : r.dentry[x] = d.dentry[x]
    BY <1>2, <1>14
  <2>3. d4.dentry = Put(Without(r.dentry, e), f, r.dentry[e])
    BY <1>4, <1>6, <1>13, <2>1
  <2>4. Put(Without(r.dentry, e), f, r.dentry[e])
          = [x \in (DOMAIN r.dentry \ {e}) \union {f} |-> IF x = f THEN r.dentry[e] ELSE r.dentry[x]]
    BY DEF Put, Without
  <2>. DEFINE S == (DOMAIN d.dentry \ {e}) \union {f}
  <2>5. \A x \in S : (IF x = f THEN r.dentry[e] ELSE r.dentry[x]) = (IF x = f THEN d.dentry[e] ELSE d.dentry[x])
    BY <2>1, <2>2
  <2>. QED BY <2>2, <2>3, <2>4, <2>5
<1>. QED BY <1>13, <1>14 DEF d4, r

-----------------------------------------------------------------------------
(* What a plan writes.                                                     *)

\* Nothing has been written yet.
LEMMA SaidSelf ==
  ASSUME NEW d, Tables(d)
  PROVE  Said(d, d)
BY DEF Said, SaidAt, Same, Tables

\* What is left as it was says what it said.
LEMMA SaidSame ==
  ASSUME NEW d0, NEW d, NEW d2, NEW j, Same(d, d2, j), SaidAt(d0, d, j)
  PROVE  SaidAt(d0, d2, j)
<1>1. (IsDir(d, j) <=> IsDir(d2, j)) /\ BytesOf(d2, j) = BytesOf(d, j)
  BY DEF Same, IsDir, BytesOf, Size
<1>2. Same(d0, d, j) => Same(d0, d2, j)
  BY DEF Same
<1>. QED BY <1>1, <1>2 DEF SaidAt

\* A file of a plan is written.
LEMMA FilledBytes ==
  ASSUME NEW d, Tables(d), NEW i \in 2..(d.next - 1), i \in DOMAIN d.inode, ~IsDir(d, i), NEW bytes \in Seq(Bytes),
         NEW d2, d2 = SetSize(SetRows(d, i, insert_bulk_file_chunks(bytes)), i, Len(bytes))
  PROVE  Others(d, d2, i) /\ ~IsDir(d2, i) /\ BytesOf(d2, i) = bytes
<1>1. ASSUME NEW rows, NEW n \in Nat, d2 = SetSize(SetRows(d, i, rows), i, n), Content(rows, n) = bytes
      PROVE  Others(d, d2, i) /\ ~IsDir(d2, i) /\ BytesOf(d2, i) = bytes
  <2>1. /\ Others(d, d2, i) /\ DOMAIN d2.inode = DOMAIN d.inode
        /\ \A j \in DOMAIN d.inode : d2.inode[j].kind = d.inode[j].kind
        /\ Rows(d2, i) = rows /\ Size(d2, i) = n
    <3>1. StoredAs(d, d2, i, rows, n)
      BY <1>1, OthersStore, Zenon
    <3>. QED BY <3>1 DEF StoredAs
  <2>. QED BY <1>1, <2>1 DEF BytesOf, IsDir
<1>2. Content(insert_bulk_file_chunks(bytes), Len(bytes)) = bytes /\ Len(bytes) \in Nat
  BY ContentBulk
<1>. QED BY <1>1, <1>2

\* The bytes of a plan's file, where there may be such a file.
LEMMA SaidFill ==
  ASSUME NEW d0, Tables(d0), NEW d, Tables(d), Said(d0, d), NEW x, x.bytes \in Seq(Bytes),
         x.write => x.bytes \in Planned,
         NEW i \in 2..(d.next - 1), i \in DOMAIN d.inode, ~IsDir(d, i),
         i < d0.next => i \in DOMAIN d0.inode /\ ~IsDir(d0, i) /\ NamesOf(d0, i) # {}
  PROVE  Said(d0, FillFile(d, i, x))
<1>1. CASE ~x.write
  BY <1>1 DEF FillFile
<1>2. CASE x.write
  <2>. DEFINE bytes == x.bytes
              d2 == SetSize(SetRows(d, i, insert_bulk_file_chunks(bytes)), i, Len(bytes))
  <2>1. FillFile(d, i, x) = d2
    BY <1>2 DEF FillFile
  <2>2. Others(d, d2, i) /\ ~IsDir(d2, i) /\ BytesOf(d2, i) = bytes
    <3>. HIDE DEF bytes
    <3>1. d2 = SetSize(SetRows(d, i, insert_bulk_file_chunks(bytes)), i, Len(bytes)) /\ bytes \in Seq(Bytes)
      BY DEF bytes
    <3>. HIDE DEF d2
    <3>. QED BY <3>1, FilledBytes
  <2>. HIDE DEF d2
  <2>4. BytesOf(d2, i) \in Planned /\ ~IsDir(d2, i)
    BY <1>2, <2>2
  <2>5. SaidAt(d0, d2, i)
    BY <2>4 DEF SaidAt
  <2>6. \A j \in DOMAIN d2.inode : j # i => SaidAt(d0, d2, j)
    BY <2>2, SaidSame DEF Others, Said, Same
  <2>7. Said(d0, d2)
    BY <2>5, <2>6 DEF Said
  <2>. QED BY <2>1, <2>7
<1>. QED BY <1>1, <1>2

\* One entry of a plan that finds nothing out of date.
LEMMA SaidEntry ==
  ASSUME NEW d0, Tables(d0), Intact(d0), CacheOK(cache, d0.next), NEW r, Progress(d0, r),
         NEW x \in PlanEntries, x.write => x.kind = "file" /\ x.bytes \in Planned,
         ~r.stale => Said(d0, r.db), ~BulkEntry(r, x).stale
  PROVE  Said(d0, BulkEntry(r, x).db)
<1>. DEFINE d == r.db
            path == x.path
            p == resolve_path(d, Parent(path))
            i == resolve_path(d, path)
            e == <<p, path[Len(path)]>>
            fits == /\ IsDir(d, p)
                    /\ i # None => i \in DOMAIN d.inode /\ d.inode[i].kind = x.kind
            late == Outdated(d, path) \/ ~Present(d, p)
            d2 == IF i = None THEN create_bulk_entry(d, x, p) ELSE FillFile(d, i, x)
            r2 == [ok |-> TRUE, stale |-> r.stale \/ late, db |-> d2]
<1>1. BulkEntry(r, x) = IF ~r.ok \/ ~fits THEN [r EXCEPT !.ok = FALSE] ELSE r2
  BY DEF BulkEntry
<1>2. path \in Seq(Names) /\ path # <<>> /\ x.kind \in {"dir", "file"} /\ x.bytes \in Seq(Bytes)
  BY DEF PlanEntries
<1>3. /\ Tables(d) /\ d0.next \in Nat /\ d.next \in Nat \ {0, 1} /\ d0.next <= d.next /\ IsResult(r)
      /\ ~r.stale => Intact(d) /\ Extends(d0, d)
  BY DEF Progress, Tables
<1>4. /\ p # None => p \in 1..(d.next - 1) /\ e \in Slot(d.next)
      /\ i # None => i \in 2..(d.next - 1)
      /\ i # None /\ ~Outdated(d, path) => Points(d, e, i)
  <2>. HIDE DEF d, path
  <2>. QED BY <1>2, <1>3, Resolved
<1>5. CASE ~r.ok \/ ~fits
  <2>1. BulkEntry(r, x) = [r EXCEPT !.ok = FALSE]
    BY <1>1, <1>5
  <2>2. [r EXCEPT !.ok = FALSE].db = d /\ [r EXCEPT !.ok = FALSE].stale = r.stale
    <3>. DEFINE a == r.ok
                b == r.stale
                no == FALSE
    <3>1. r = [ok |-> a, stale |-> b, db |-> d]
      BY <1>3, Zenon DEF IsResult
    <3>. HIDE DEF a, b, d, no
    <3>2. [r EXCEPT !.ok = no].db = d /\ [r EXCEPT !.ok = no].stale = b
      BY <3>1
    <3>. QED BY <3>2 DEF no, b
  <2>. QED BY <2>1, <2>2
<1>6. CASE r.ok /\ fits
  <2>1. BulkEntry(r, x) = r2
    BY <1>1, <1>6
  <2>2. r2.db = d2 /\ r2.stale = (r.stale \/ late)
    <3>. HIDE DEF d2, late, d
    <3>. QED OBVIOUS
  <2>3. p # None /\ ~r.stale /\ ~late
    <3>1. p # None
      BY <1>3, <1>6 DEF IsDir, Tables, None
    <3>2. r.stale \in BOOLEAN
      BY DEF Progress
    <3>. HIDE DEF late, d2, d, p, i
    <3>. QED BY <2>1, <2>2, <3>1, <3>2
  <2>4. Said(d0, d) /\ Extends(d0, d) /\ (i # None => Points(d, e, i))
    BY <1>3, <1>4, <2>3
  <2>. HIDE DEF late, r2
  <2>5. CASE i # None
    <3>1. d2 = FillFile(d, i, x) /\ i \in 2..(d.next - 1) /\ i \in DOMAIN d.inode /\ d.inode[i].kind = x.kind
      BY <1>4, <1>6, <2>5
    <3>2. CASE ~x.write
      BY <2>1, <2>2, <2>4, <3>1, <3>2 DEF FillFile
    <3>3. CASE x.write
      <4>. HIDE DEF d2, d, i, e
      <4>1. ~IsDir(d, i)
        BY <3>1, <3>3 DEF IsDir
      <4>2. ASSUME i < d0.next PROVE i \in DOMAIN d0.inode /\ ~IsDir(d0, i) /\ NamesOf(d0, i) # {}
        <5>1. i \in DOMAIN d0.inode
          BY <1>3, <2>4, <3>1, <4>2 DEF Extends
        <5>2. d.inode[i].kind = d0.inode[i].kind
          BY <2>4, <5>1 DEF Extends
        <5>3. e \in DOMAIN d0.dentry /\ d0.dentry[e] = i
          BY <1>3, <2>4, <2>5, <4>2 DEF Extends, Points
        <5>. QED BY <3>1, <4>1, <5>1, <5>2, <5>3 DEF IsDir, NamesOf
      <4>3. Said(d0, FillFile(d, i, x))
        BY <1>2, <1>3, <2>4, <3>1, <4>1, <4>2, SaidFill
      <4>. QED BY <2>1, <2>2, <3>1, <4>3
    <3>. QED BY <3>2, <3>3
  <2>6. CASE i = None
    <3>. DEFINE nl == IF x.kind = "dir" THEN 2 ELSE 1
                made == Created(d, x.kind, nl, 0, e)
                n == d.next
    <3>1. d2 = IF x.kind = "dir" THEN AddLinks(made, p, 1) ELSE FillFile(made, n, x)
      BY <2>6 DEF create_bulk_entry, Created
    <3>2. x.kind \in Kinds /\ nl \in Int /\ e \in Slot(d.next)
      BY <1>2, <1>4, <2>3 DEF Kinds
    <3>. HIDE DEF d2, d, i, e, p, nl, n
    <3>3. Tables(made) /\ made.next = n + 1
      <4>1. 0 \in Nat
        OBVIOUS
      <4>. DEFINE kind == x.kind
      <4>. HIDE DEF kind
      <4>2. Tables(Created(d, kind, nl, 0, e)) /\ Created(d, kind, nl, 0, e).next = d.next + 1
        BY <1>3, <3>2, <4>1, MakeTables DEF kind
      <4>. QED BY <4>2 DEF kind, n
    <3>4. /\ Others(d, made, n) /\ Rows(made, n) = NoRows /\ Size(made, n) = 0
          /\ n \in DOMAIN made.inode /\ made.inode[n].kind = x.kind
      <4>1. 0 \in Nat
        OBVIOUS
      <4>. DEFINE kind == x.kind
                  c == Created(d, kind, nl, 0, e)
      <4>. HIDE DEF kind
      <4>3. c = Created(d, kind, nl, 0, e) /\ kind \in Kinds
        BY <3>2 DEF kind
      <4>. HIDE DEF c
      <4>2. /\ Others(d, c, d.next) /\ Rows(c, d.next) = NoRows /\ Size(c, d.next) = 0
            /\ d.next \in DOMAIN c.inode /\ c.inode[d.next].kind = kind
        BY <1>3, <3>2, <4>1, <4>3, OthersCreate
      <4>. QED BY <4>2 DEF kind, n, c
    <3>. HIDE DEF made
    <3>5. Said(d0, made)
      <4>1. BytesOf(made, n) = <<>>
        <5>1. Content(NoRows, 0) \in Seq(Bytes) /\ Len(Content(NoRows, 0)) = 0
          BY NoRowsFit, ContentIs
        <5>2. Content(NoRows, 0) = <<>>
          BY <5>1
        <5>. QED BY <3>4, <5>2 DEF BytesOf
      <4>0. ~(n < d0.next)
        BY <1>3 DEF n
      <4>2. SaidAt(d0, made, n)
        BY <4>0, <4>1 DEF SaidAt
      <4>3. \A j \in DOMAIN made.inode : j # n => SaidAt(d0, made, j)
        BY <2>4, <3>4, SaidSame DEF Others, Said, Same
      <4>. QED BY <4>2, <4>3 DEF Said
    <3>6. Said(d0, d2)
      <4>1. CASE x.kind = "dir"
        <5>1. d2 = AddLinks(made, p, 1) /\ 1 \in Int
          BY <3>1, <4>1
        <5>2. Others(made, d2, None) /\ Tables(d2)
          BY <3>3, <5>1, OthersEdits, AddLinksEffect
        <5>3. \A j \in DOMAIN d2.inode : j # None
          BY <5>2 DEF Tables, None
        <5>. QED BY <3>5, <5>2, <5>3, SaidSame DEF Others, Said, Same
      <4>2. CASE x.kind # "dir"
        <5>1. d2 = FillFile(made, n, x)
          BY <3>1, <4>2
        <5>2. n \in 2..(made.next - 1) /\ ~(n < d0.next)
          BY <1>3, <3>3 DEF n
        <5>3. ~IsDir(made, n)
          BY <3>4, <4>2 DEF IsDir
        <5>4. Said(d0, FillFile(made, n, x))
          BY <1>2, <3>3, <3>4, <3>5, <5>2, <5>3, SaidFill
        <5>. QED BY <5>1, <5>4
      <4>. QED BY <4>1, <4>2
    <3>. QED BY <2>1, <2>2, <3>6
  <2>. QED BY <2>5, <2>6
<1>7. r.ok \in BOOLEAN
  BY DEF Progress
<1>. QED BY <1>5, <1>6, <1>7

\* A plan that finds nothing out of date, by induction on its entries.
LEMMA SaidPlan ==
  ASSUME Tables(db), Intact(db), CacheOK(cache, db.next), NEW plan \in Plans, ~BulkResult(plan).stale
  PROVE  Said(db, BulkResult(plan).db)
<1>. DEFINE start == [ok |-> TRUE, stale |-> FALSE, db |-> db]
            N == Len(plan)
            P(r) == Progress(db, r) /\ (~r.stale => Said(db, r.db))
<1>1. N \in Nat /\ \A k \in 1..N : plan[k] \in PlanEntries
  BY BulkSteps
<1>2. PICK B : /\ B[0] = start
               /\ \A k \in 1..N : B[k] = BulkEntry(B[k - 1], plan[k])
               /\ BulkResult(plan) = B[N]
  BY BulkSteps, Zenon
<1>3. P(start)
  <2>1. start.ok = TRUE /\ start.stale = FALSE /\ start.db = db
        /\ IsResult(start)
    BY DEF IsResult
  <2>. HIDE DEF start
  <2>2. db.next <= db.next
    BY DEF Tables
  <2>. QED BY <2>1, <2>2, ExtendsSelf, SaidSelf DEF Progress
<1>4. \A k \in 1..N : plan[k].write => plan[k].kind = "file" /\ plan[k].bytes \in Planned
  <2>1. plan \in Seq(PlanEntries) /\ DOMAIN plan = 1..N
    BY ClientsAssumption
  <2>2. \A k \in DOMAIN plan : plan[k].write => plan[k].kind = "file"
    BY ClientsAssumption
  <2>3. \A k \in DOMAIN plan : plan[k].write => plan[k].bytes \in Planned
    BY DEF Planned
  <2>. QED BY <2>1, <2>2, <2>3
<1>. HIDE DEF start, N
<1>. DEFINE bad == {k \in 0..N : ~P(B[k])}
<1>5. ASSUME bad # {} PROVE FALSE
  <2>1. PICK k \in bad : \A j \in bad : k <= j
    <3>1. bad \subseteq Nat
      BY <1>1
    <3>. HIDE DEF bad
    <3>. QED BY <1>5, <3>1, LeastNat
  <2>2. k # 0
    <3>. HIDE DEF P
    <3>. QED BY <1>2, <1>3, <2>1
  <2>3. k \in 1..N /\ k - 1 \in 0..N /\ ~(k <= k - 1)
    BY <1>1, <2>1, <2>2
  <2>4. P(B[k - 1])
    <3>. HIDE DEF P
    <3>. QED BY <2>1, <2>3
  <2>5. P(BulkEntry(B[k - 1], plan[k]))
    <3>. DEFINE b == B[k - 1]
                x == plan[k]
    <3>1. Progress(db, b) /\ (~b.stale => Said(db, b.db))
      BY <2>4
    <3>2. x \in PlanEntries /\ (x.write => x.kind = "file" /\ x.bytes \in Planned)
      BY <1>1, <1>4, <2>3
    <3>. HIDE DEF b, x
    <3>3. Progress(db, BulkEntry(b, x))
      BY <3>1, <3>2, BulkEntryOK
    <3>4. ~BulkEntry(b, x).stale => Said(db, BulkEntry(b, x).db)
      BY <3>1, <3>2, SaidEntry
    <3>. QED BY <3>3, <3>4 DEF b, x
  <2>6. P(B[k])
    <3>. HIDE DEF P
    <3>. QED BY <1>2, <2>3, <2>5
  <2>. HIDE DEF P
  <2>. QED BY <2>1, <2>6
<1>6. P(B[N])
  <2>. HIDE DEF P
  <2>. QED BY <1>1, <1>5
<1>. QED BY <1>2, <1>6

-----------------------------------------------------------------------------
(* Steps of the tree.                                                      *)

\* What the refinement needs beside names and bytes: what the mount holds open, or truncates,
\* is not a directory; a truncation asks for one of the sizes; and what it is still making
\* is empty.
Held ==
    /\ handle \in DOMAIN db.inode => ~IsDir(db, handle)
    /\ At("mount", "cut") => /\ op["mount"].to \in Sizes
                             /\ op["mount"].i \in DOMAIN db.inode => ~IsDir(db, op["mount"].i)
    /\ Making(op["mount"]) => Size(db, op["mount"].i) = 0
Bounded == db.next <= MaxInode + 1
HeldInv == Bounded /\ (Sound => Held)

\* Everything a step outside the windows starts from.
InOrder ==
    /\ Types /\ Good(db) /\ Held
    /\ Whole(db, op["mount"], op["sdk"]) /\ Hidden(cache, op["mount"], op["sdk"])

\* A step writes, or makes, at most inode i, or it makes a whole tree.
Touches(d, d2, i) == Others(d, d2, i) /\ (i \in DOMAIN d2.inode => i \in DOMAIN d.inode \/ i = d.next)
Confined ==
    \/ Said(db, db') /\ Extends(db, db')
    \/ \E i : /\ Touches(db, db', i)
              /\ Making(op["mount"]) /\ op'["mount"] = op["mount"] => i # op["mount"].i
\* The step is one of the tree, or does not show in it.
Shown == Tree!Next \/ UNCHANGED Tree!treeVars

\* The windows stay open, and inodes stay within their bound.
LEMMA TornGrows ==
  ASSUME [Next]_vars
  PROVE  torn \subseteq torn'
<1>1. CASE \/ UNCHANGED vars
           \/ \E i \in DOMAIN db.inode : open(i)
           \/ release
           \/ \E e \in Slots : create_file(e) \/ mkdir(e) \/ mknod(e) \/ unlink(e) \/ rmdir(e)
           \/ \E i \in DOMAIN db.inode, e \in Slots : link(i, e)
           \/ \E e, f \in Slots : rename(e, f)
           \/ \E off \in Offsets, data \in Payloads : pwrite(off, data)
           \/ \E n \in Sizes : truncate(n)
  BY <1>1 DEF vars, open, release, create_file, mkdir, mknod, unlink, rmdir, link, rename, pwrite, truncate, Tear
<1>2. \A kind, cond : Tear(kind, cond) => torn \subseteq torn'
  BY DEF Tear
<1>3. CASE \/ \E path \in Paths : read_file(path) \/ remove(path)
           \/ \E path \in Paths, off \in Offsets, data \in Payloads : write_path(path, off, data)
           \/ \E plan \in Plans : bulk_materialize_tree(plan)
           \/ Crash
  BY <1>2, <1>3 DEF read_file, remove, write_path, bulk_materialize_tree, Crash
<1>4. ASSUME NEW a \in Actors,
             \/ AddName(a) \/ AddCount(a) \/ AddParent(a)
             \/ DropName(a) \/ DropCount(a) \/ DropParent(a)
             \/ Purge(a) \/ DropInode(a)
             \/ Move(a) \/ Cut(a)
      PROVE  torn \subseteq torn'
  BY <1>2, <1>4 DEF AddName, AddCount, AddParent, DropName, DropCount, DropParent, Purge, DropInode, Move, Cut
<1>. QED BY <1>1, <1>3, <1>4 DEF Next

\* Names and links only.
LEMMA TouchesNone ==
  ASSUME Types, Types', Others(db, db', None)
  PROVE  Confined
<1>1. None \notin DOMAIN db'.inode
  BY DEF Types, Tables, None
<1>2. Making(op["mount"]) => None # op["mount"].i
  BY DEF Making, Types, MountOps, AddOps, DropOps, MoveOps, CutOps, None
<1>3. Touches(db, db', None)
  BY <1>1 DEF Touches
<1>. QED BY <1>2, <1>3 DEF Confined

\* Nothing at all.
LEMMA TouchesNothing ==
  ASSUME Types, Types', db' = db
  PROVE  Confined /\ UNCHANGED Tree!treeVars
<1>1. Others(db, db, None)
  BY DEF Others, Same, Types, Tables, None
<1>2. Confined
  BY <1>1, TouchesNone
<1>3. Says(db') = Says(db)
  OBVIOUS
<1>. QED BY <1>2, <1>3, SaysPrime DEF Tree!treeVars

\* What a name stands for exists, and is none of what changes.
LEMMA SameNamed ==
  ASSUME NEW d, Good(d)
  PROVE  /\ None \notin Named(d) /\ d.next \notin Named(d)
         /\ \A d0, i, j : Others(d0, d, i) /\ j \in Named(d) /\ j # i => Same(d0, d, j)
<1>1. \A j \in Named(d) : j \in DOMAIN d.inode /\ j \in 2..(d.next - 1)
  BY SaysIs DEF Good
<1>2. d.next \in Nat
  BY DEF Good, Tables
<1>. QED BY <1>1, <1>2 DEF Others, None

\* Links only.
LEMMA TouchesLinks ==
  ASSUME Types, Types', Good(db), Good(db'), Others(db, db', None), db'.dentry = db.dentry
  PROVE  Confined /\ Shown
<1>1. Confined
  BY TouchesNone
<1>2. Named(db') = Named(db)
  BY DEF Named
<1>3. \A j \in Named(db) : Same(db, db', j)
  BY <1>2, SameNamed
<1>. QED BY <1>1, <1>3, TreeStutter DEF Shown

\* Where the mount's operation and the next one stand.
LEMMA NoMaking ==
  ASSUME Types, op["mount"] = Idle \/ ~Making(op["mount"]), NEW i, Touches(db, db', i)
  PROVE  Confined
BY DEF Confined, Making

\* An empty file.
LEMMA EmptyFile ==
  ASSUME NEW d, Good(d), NEW i, Size(d, i) = 0
  PROVE  BytesOf(d, i) = <<>>
<1>. DEFINE b == BytesOf(d, i)
<1>1. RowsOK(Rows(d, i)) /\ 0 \in Nat
  BY RowsStored DEF Good
<1>2. b \in Seq(Bytes) /\ Len(b) = 0
  BY <1>1, ContentIs DEF BytesOf
<1>. HIDE DEF b
<1>3. b = <<>>
  BY <1>2
<1>. QED BY <1>3 DEF b

\* What is new gets its name.
LEMMA ShownCreate ==
  ASSUME Good(db), Good(db'), NEW e, NEW i \in 2..(db'.next - 1), NEW k, k \in {i, None}, AddsName(db, db', e, i),
         NamesOf(db, i) = {}, Others(db, db', k),
         \/ IsDir(db', i)
         \/ Size(db', i) = 0
         \/ \E off \in Offsets, data \in Payloads : BytesOf(db', i) = Tree!Written(<<>>, off, data)
  PROVE  Shown
<1>1. \A j \in Named(db) : j # i
  BY DEF NamesOf, Named
<1>2. None \notin Named(db') /\ Named(db') = Named(db) \union {i}
  BY SameNamed, NamedMore
<1>3. \A j \in Named(db) : Same(db, db', j)
  BY <1>1, <1>2, SameNamed
<1>4. Size(db', i) = 0 => BytesOf(db', i) = <<>>
  BY EmptyFile
<1>. QED BY <1>3, <1>4, TreeCreate DEF Shown

\* The operations of the mount that make an inode.
LEMMA StepMakes ==
  ASSUME InOrder, Types', Good(db'), Sound', NEW e \in Slots, create_file(e) \/ mkdir(e) \/ mknod(e)
  PROVE  Confined /\ Shown
<1>1. /\ Types /\ Tables(db) /\ Good(db) /\ db.next \in Nat \ {0, 1}
      /\ e \in Slot(db.next) /\ e \notin DOMAIN db.dentry /\ op["mount"] = Idle
  BY SlotType DEF InOrder, Types, Tables, create_file, mkdir, mknod, Begins
<1>2. "file" \in Kinds /\ "dir" \in Kinds /\ "node" \in Kinds /\ 0 \in Int /\ 1 \in Int /\ 0 \in Nat
  BY DEF Kinds
<1>3. Others(db, db', db.next) => Confined
  BY <1>1 DEF Confined, Touches, Making
<1>4. CASE create_file(e)
  <2>1. db' = Created(db, "file", 1, 0, e) /\ Present(db, e[1])
    BY <1>4 DEF create_file, Created, Tear, Sound
  <2>2. /\ Others(db, db', db.next) /\ Size(db', db.next) = 0
        /\ db'.dentry = Put(db.dentry, e, db.next)
    BY <1>1, <1>2, <2>1, OthersCreate
  <2>3. db'.next = db.next + 1
    BY <1>1, <2>1 DEF Created, InsertDentry, InsertInode, Tables, IsDb
  <2>4. db.next \in 2..(db'.next - 1)
    BY <1>1, <2>3
  <2>5. AddsName(db, db', e, db.next)
    BY <1>1, <2>1, <2>2 DEF AddsName, Put
  <2>6. NamesOf(db, db.next) = {}
    BY <1>1 DEF NamesOf, Tables
  <2>7. Shown
    BY <1>1, <2>2, <2>4, <2>5, <2>6, ShownCreate
  <2>. QED BY <1>3, <2>2, <2>7
<1>5. ASSUME NEW kind \in Kinds, db' = InsertInode(db, kind, 0, 0) PROVE Confined /\ Shown
  <2>1. Others(db, db', db.next)
    BY <1>1, <1>2, <1>5, OthersMake
  <2>2. db'.dentry = db.dentry
    BY <1>5 DEF InsertInode
  <2>3. Named(db') = Named(db)
    BY <2>2 DEF Named
  <2>4. \A j \in Named(db) : Same(db, db', j)
    BY <1>1, <2>1, <2>3, SameNamed
  <2>. QED BY <1>1, <1>3, <2>1, <2>2, <2>4, TreeStutter DEF Shown
<1>6. CASE mkdir(e) \/ mknod(e)
  BY <1>2, <1>5, <1>6 DEF mkdir, mknod
<1>. QED BY <1>4, <1>6

\* The statements that add a name.
LEMMA StepAdds ==
  ASSUME InOrder, Types', Good(db'), Sound', NEW a \in Actors, AddName(a) \/ AddCount(a) \/ AddParent(a)
  PROVE  Confined /\ Shown
<1>. DEFINE o == op["mount"]
<1>1. Types /\ Tables(db) /\ Good(db) /\ Held
  BY DEF InOrder, Types
<1>2. a = "mount" /\ o \in AddOps(db.next) /\ o # Idle /\ op[a] = o
  BY <1>1, WhoIsWhere DEF AddName, AddCount, AddParent, At
<1>3. o.e \in Slot(db.next) /\ o.i \in 2..(db.next - 1) /\ o.do \in {"mkdir", "mknod", "link"}
  BY <1>2 DEF AddOps
<1>4. AddOK(db, o)
  BY <1>2, <1>3 DEF InOrder, Whole, OpOK
<1>5. CASE AddName(a)
  <2>1. /\ o.at = "name"
        /\ o.e \in DOMAIN db.dentry => db' = db
        /\ o.e \notin DOMAIN db.dentry =>
             /\ db' = InsertDentry(db, o.e, o.i)
             /\ Present(db, o.e[1]) /\ (o.do = "link" => NamesOf(db, o.i) # {})
    BY <1>2, <1>5 DEF AddName, At, Sound
  <2>2. CASE o.e \in DOMAIN db.dentry
    BY <1>1, <2>1, <2>2, TouchesNothing DEF Shown
  <2>3. CASE o.e \notin DOMAIN db.dentry
    <3>. DEFINE e == o.e
                i == o.i
    <3>1. db' = InsertDentry(db, e, i) /\ e \in Slot(db.next) /\ i \in 2..(db.next - 1)
      BY <1>3, <2>1, <2>3
    <3>2. Present(db, e[1]) /\ e \notin DOMAIN db.dentry /\ (o.do = "link" => NamesOf(db, i) # {})
      BY <2>1, <2>3
    <3>3. /\ o.do = "mkdir" /\ i \in DOMAIN db.inode => IsDir(db, i)
          /\ o.do = "link" => ~IsDir(db, i)
          /\ o.do # "link" => i \in DOMAIN db.inode /\ NamesOf(db, i) = {} /\ Size(db, i) = 0
      BY <1>1, <1>2, <1>3, <1>4, <2>1 DEF AddOK, Making, Held
    <3>. HIDE DEF e, i
    <3>4. db'.next = db.next /\ db'.inode = db.inode /\ db'.data = db.data
      BY <1>1, <3>1, InsertDentryEffect
    <3>5. db'.dentry = Put(db.dentry, e, i)
      BY <1>1, <3>1 DEF InsertDentry, Tables, IsDb
    <3>6. AddsName(db, db', e, i)
      BY <3>1, <3>2, <3>5 DEF AddsName, Put
    <3>7. Others(db, db', None)
      BY <1>1, <3>1, OthersEdits
    <3>8. CASE o.do = "link"
      <4>1. i \in Named(db) /\ ~IsDir(db, i)
        BY <3>2, <3>3, <3>8 DEF Named, NamesOf
      <4>2. Named(db') = Named(db) \union {i} /\ None \notin Named(db')
        BY <3>6, NamedMore, SameNamed
      <4>3. \A j \in Named(db) : Same(db, db', j)
        BY <3>7, <4>2, SameNamed
      <4>. QED BY <1>1, <3>6, <3>7, <4>1, <4>3, TouchesNone, TreeLink DEF Shown
    <3>9. CASE o.do # "link"
      <4>1. i \in 2..(db'.next - 1) /\ NamesOf(db, i) = {} /\ Size(db', i) = 0
        BY <3>1, <3>3, <3>4, <3>9 DEF Size
      <4>2. Shown
        BY <1>1, <3>6, <3>7, <4>1, ShownCreate
      <4>. QED BY <1>1, <3>7, <4>2, TouchesNone
    <3>. QED BY <3>8, <3>9
  <2>. QED BY <2>2, <2>3
<1>6. CASE AddCount(a)
  <2>. DEFINE i == op[a].i
  <2>1. db' = [db EXCEPT !.inode[i].nlink = 2] \/ db' = AddLinks(db, i, 1)
    BY <1>6 DEF AddCount
  <2>. HIDE DEF i
  <2>2. Others(db, AddLinks(db, i, 1), None) /\ AddLinks(db, i, 1).dentry = db.dentry
    BY <1>1, OthersEdits, AddLinksEffect
  <2>3. Others(db, [db EXCEPT !.inode[i].nlink = 2], None)
    BY <1>1, OthersEdits
  <2>4. [db EXCEPT !.inode[i].nlink = 2].dentry = db.dentry
    BY <1>1 DEF Tables, IsDb
  <2>. QED BY <1>1, <2>1, <2>2, <2>3, <2>4, TouchesLinks
<1>7. CASE AddParent(a)
  <2>. DEFINE i == op[a].e[1]
  <2>1. db' = AddLinks(db, i, 1)
    BY <1>7 DEF AddParent
  <2>. HIDE DEF i
  <2>2. Others(db, AddLinks(db, i, 1), None) /\ AddLinks(db, i, 1).dentry = db.dentry
    BY <1>1, OthersEdits, AddLinksEffect
  <2>. QED BY <1>1, <2>1, <2>2, TouchesLinks
<1>. QED BY <1>5, <1>6, <1>7

\* The statements that drop a name.
LEMMA StepDrops ==
  ASSUME InOrder, Types', Good(db'), Sound', NEW a \in Actors,
         DropName(a) \/ DropCount(a) \/ DropParent(a) \/ Purge(a) \/ DropInode(a)
  PROVE  Confined /\ Shown
<1>. DEFINE o == op[a]
            e == o.e
            i == o.i
<1>1. Types /\ Tables(db) /\ Good(db) /\ Intact(db)
  BY DEF InOrder, Types, Good
<1>2. o \in DropOps(db.next) /\ o # Idle
  BY <1>1, WhoIsWhere DEF DropName, DropCount, DropParent, Purge, DropInode, At
<1>3. e \in Slot(db.next) /\ i \in 2..(db.next - 1) /\ o.do \in {"unlink", "rmdir", "remove"} /\ o.dir \in BOOLEAN
  BY <1>2 DEF DropOps
<1>4. PICK b \in Actors : a # b /\ Actors \ {a} = {b}
  BY DEF Actors
<1>5. (a = "mount" /\ b = "sdk") \/ (a = "sdk" /\ b = "mount")
  BY <1>4 DEF Actors
<1>6. Whole(db, o, op[b]) /\ op[b] \in MountOps(db.next)
  BY <1>1, <1>5, WholeSym, WhoIsWhere DEF InOrder
<1>7. DropOK(db, o)
  BY <1>2, <1>3, <1>6 DEF Whole, OpOK
<1>8. CASE DropName(a)
  <2>1. db' = DeleteDentry(db, e) /\ Points(db, e, i) /\ (o.dir => Children(db, i) = {})
    BY <1>8 DEF DropName, Tear, Sound
  <2>2. e \in DOMAIN db.dentry /\ db.dentry[e] = i /\ i \in DOMAIN db.inode /\ (o.dir <=> IsDir(db, i))
    BY <1>1, <1>7, <2>1 DEF Points, Intact, DropOK
  <2>. HIDE DEF e, i, o
  <2>3. db'.dentry = Without(db.dentry, e)
    BY <1>1, <2>1 DEF DeleteDentry, Tables, IsDb
  <2>4. Others(db, db', None)
    BY <1>1, <2>1, OthersEdits
  <2>5. \A j \in Named(db') : Same(db, db', j)
    BY <2>4, SameNamed
  <2>6. db'.dentry = [x \in DOMAIN db.dentry \ {e} |-> db.dentry[x]]
    BY <2>3 DEF Without
  <2>7. Tree!Next
    BY <1>1, <2>1, <2>2, <2>5, <2>6, TreeRemove
  <2>. QED BY <1>1, <2>4, <2>7, TouchesNone DEF Shown
<1>9. CASE DropCount(a) \/ DropParent(a)
  <2>1. \E k : db' = AddLinks(db, k, -1)
    BY <1>9 DEF DropCount, DropParent
  <2>2. \A k : Others(db, AddLinks(db, k, -1), None) /\ AddLinks(db, k, -1).dentry = db.dentry
    BY <1>1, OthersEdits, AddLinksEffect
  <2>. QED BY <1>1, <2>1, <2>2, TouchesLinks
<1>10. CASE Purge(a)
  <2>1. /\ o.at = "purge"
        /\ db' = db \/ (get_link_count(db, i) = 0 /\ db' = DeleteData(db, i))
        /\ ~(At(b, "count") /\ op[b].i = i)
    BY <1>4, <1>10 DEF Purge, At, Tear, Sound
  <2>2. CASE db' = db
    BY <1>1, <2>2, TouchesNothing DEF Shown
  <2>3. CASE get_link_count(db, i) = 0 /\ db' = DeleteData(db, i)
    <3>1. NamesOf(db, i) = {}
      <4>1. Adds(op[b], i) = 0
        BY <2>1 DEF Adds, At
      <4>. QED BY <1>1, <1>2, <1>6, <2>1, <2>3, <4>1, NoLinkNoName
    <3>2. Making(op["mount"]) => i # op["mount"].i
      <4>1. CASE a = "mount"
        BY <1>3, <4>1 DEF Making
      <4>2. CASE a = "sdk"
        BY <1>2, <4>2 DEF InOrder, Hidden
      <4>. QED BY <1>5, <4>1, <4>2
    <3>. HIDE DEF i, e, o
    <3>3. db'.dentry = db.dentry /\ db'.inode = db.inode
      BY <1>1, <2>3, DeleteDataEffect
    <3>4. Others(db, db', i)
      BY <1>1, <2>3, OthersEdits
    <3>5. Confined
      BY <3>2, <3>3, <3>4 DEF Confined, Touches
    <3>6. Named(db') = Named(db) /\ i \notin Named(db)
      BY <3>1, <3>3 DEF Named, NamesOf
    <3>7. \A j \in Named(db) : Same(db, db', j)
      BY <3>4, <3>6, SameNamed
    <3>. QED BY <1>1, <3>3, <3>5, <3>7, TreeStutter DEF Shown
  <2>. QED BY <2>1, <2>2, <2>3
<1>11. CASE DropInode(a)
  <2>1. db' = DeleteInode(db, i)
    BY <1>11 DEF DropInode
  <2>. HIDE DEF i, e, o
  <2>2. Others(db, db', None) /\ db'.dentry = db.dentry
    BY <1>1, <2>1, OthersEdits, DeleteInodeEffect
  <2>. QED BY <1>1, <2>2, TouchesLinks
<1>. QED BY <1>8, <1>9, <1>10, <1>11

\* One file is written.
LEMMA StoreStep ==
  ASSUME InOrder, Types', Good(db'), NEW i \in 2..(db.next - 1), NEW rows, NEW n \in Nat,
         db' = SetSize(SetRows(db, i, rows), i, n),
         i \in Named(db) =>
           /\ ~IsDir(db, i)
           /\ \/ \E off \in Offsets, data \in Payloads : Content(rows, n) = Tree!Written(BytesOf(db, i), off, data)
              \/ \E k \in Sizes : Content(rows, n) = Tree!Resized(BytesOf(db, i), k)
  PROVE  Touches(db, db', i) /\ Shown
<1>1. Tables(db) /\ Good(db)
  BY DEF InOrder, Types
<1>2. /\ Others(db, db', i) /\ db'.dentry = db.dentry /\ DOMAIN db'.inode = DOMAIN db.inode
      /\ \A j \in DOMAIN db.inode : db'.inode[j].kind = db.inode[j].kind
      /\ Rows(db', i) = rows
      /\ i \in DOMAIN db.inode => Size(db', i) = n
  <2>1. StoredAs(db, db', i, rows, n)
    BY <1>1, OthersStore, Zenon
  <2>. QED BY <2>1 DEF StoredAs
<1>3. Touches(db, db', i)
  BY <1>2 DEF Touches
<1>4. Named(db') = Named(db)
  BY <1>2 DEF Named
<1>5. \A j \in Named(db) : j # i => Same(db, db', j)
  BY <1>2, <1>4, SameNamed
<1>6. CASE i \in Named(db)
  <2>1. i \in DOMAIN db.inode
    BY <1>1, <1>6, SaysIs DEF Good
  <2>2. ~IsDir(db, i) /\ ~IsDir(db', i)
    BY <1>2, <1>6, <2>1 DEF IsDir
  <2>3. BytesOf(db', i) = Content(rows, n)
    BY <1>2, <2>1 DEF BytesOf
  <2>4. \/ \E off \in Offsets, data \in Payloads : BytesOf(db', i) = Tree!Written(BytesOf(db, i), off, data)
        \/ \E k \in Sizes : BytesOf(db', i) = Tree!Resized(BytesOf(db, i), k)
    BY <1>6, <2>3
  <2>5. Tree!Next
    BY <1>1, <1>2, <1>5, <1>6, <2>2, <2>4, TreeChange
  <2>. QED BY <1>3, <2>5 DEF Shown
<1>7. CASE i \notin Named(db)
  BY <1>1, <1>2, <1>3, <1>5, <1>7, TreeStutter DEF Shown
<1>. QED BY <1>6, <1>7

\* The rows and the size of what has a name.
LEMMA NamedRows ==
  ASSUME InOrder
  PROVE  /\ \A i : RowsOK(Rows(db, i)) /\ Size(db, i) \in Nat
         /\ \A i \in DOMAIN db.inode : RowsFit(Rows(db, i), Size(db, i))
         /\ \A i \in Named(db) : i \in DOMAIN db.inode
<1>1. Good(db) /\ Tables(db)
  BY DEF InOrder, Good
<1>2. \A i : RowsOK(Rows(db, i))
  BY <1>1, RowsStored DEF Good
<1>3. \A i : Size(db, i) \in Nat
  BY <1>1 DEF Size, Tables, InodeRow
<1>4. \A i \in DOMAIN db.inode : RowsFit(Rows(db, i), Size(db, i))
  BY <1>1 DEF Good, Fits
<1>5. \A i \in Named(db) : i \in DOMAIN db.inode
  BY <1>1, SaysIs DEF Good
<1>. QED BY <1>2, <1>3, <1>4, <1>5

\* The transactions of rename and truncate.
LEMMA StepMoves ==
  ASSUME InOrder, Types', Good(db'), Sound', NEW a \in Actors, Move(a) \/ Cut(a)
  PROVE  Confined /\ Shown
<1>. DEFINE o == op["mount"]
<1>1. Types /\ Tables(db) /\ Good(db) /\ Held /\ Intact(db)
  BY DEF InOrder, Types, Good
<1>2. /\ a = "mount" /\ op[a] = o /\ o # Idle
      /\ Move(a) => o \in MoveOps(db.next)
      /\ Cut(a) => o \in CutOps(db.next)
  BY <1>1, WhoIsWhere DEF Move, Cut, At
<1>3. CASE Move(a)
  <2>. DEFINE e == o.e
              f == o.f
              dir == o.dir
              d2 == Moved(Replaced(db, f), e, f, dir)
  <2>1. /\ MayReplace(db, f, dir) => db' = d2 /\ Points(db, e, o.i) /\ Present(db, f[1])
        /\ ~MayReplace(db, f, dir) => db' = db
    BY <1>2, <1>3 DEF Move, Tear, Sound
  <2>2. o.do = "rename" /\ e \in Slot(db.next) /\ f \in Slot(db.next) /\ dir \in BOOLEAN
    BY <1>2, <1>3 DEF MoveOps
  <2>3. e # f /\ (o.i \in DOMAIN db.inode => (dir <=> IsDir(db, o.i)))
    BY <1>2, <2>2 DEF InOrder, Whole, OpOK, MoveOK
  <2>4. CASE ~MayReplace(db, f, dir)
    BY <1>1, <2>1, <2>4, TouchesNothing DEF Shown
  <2>5. CASE MayReplace(db, f, dir)
    <3>1. e \in DOMAIN db.dentry /\ (dir <=> IsDir(db, db.dentry[e])) /\ Present(db, f[1]) /\ db' = d2
      BY <1>1, <2>1, <2>3, <2>5 DEF Points, Intact
    <3>2. f \in DOMAIN db.dentry => /\ IsDir(db, db.dentry[e]) <=> IsDir(db, db.dentry[f])
                                    /\ IsDir(db, db.dentry[f]) => Children(db, db.dentry[f]) = {}
      BY <2>5, <3>1 DEF MayReplace
    <3>. HIDE DEF e, f, dir
    <3>3. /\ Others(db, db', None)
          /\ db'.dentry = [x \in (DOMAIN db.dentry \ {e}) \union {f} |-> IF x = f THEN db.dentry[e] ELSE db.dentry[x]]
      BY <1>1, <2>2, <2>3, <3>1, OthersMove
    <3>4. \A j \in Named(db') : Same(db, db', j)
      BY <3>3, SameNamed
    <3>. HIDE DEF d2
    <3>5. Tree!Next
      BY <1>1, <2>2, <2>3, <3>1, <3>2, <3>3, <3>4, TreeRename
    <3>. QED BY <1>1, <3>3, <3>5, TouchesNone DEF Shown
  <2>. QED BY <2>4, <2>5
<1>4. CASE Cut(a)
  <2>. DEFINE i == o.i
              to == o.to
              seen == o.seen
              rows == truncate_rows(Rows(db, i), seen, to)
  <2>1. db' = SetSize(SetRows(db, i, rows), i, to) /\ Size(db, i) = seen /\ o.at = "cut"
    BY <1>2, <1>4 DEF Cut, Tear, Sound, At
  <2>2. i \in 2..(db.next - 1) /\ to \in Nat /\ seen \in Nat
    BY <1>2, <1>4 DEF CutOps
  <2>3. to \in Sizes /\ (i \in DOMAIN db.inode => ~IsDir(db, i)) /\ ~Making(o)
    BY <1>1, <1>2, <2>1 DEF Held, At, Making
  <2>. HIDE DEF i, to, seen
  <2>4. i \in Named(db) => ~IsDir(db, i) /\ Content(rows, to) = Tree!Resized(BytesOf(db, i), to)
    BY <2>1, <2>2, <2>3, NamedRows, ContentCut DEF BytesOf
  <2>. HIDE DEF rows, o
  <2>5. Touches(db, db', i) /\ Shown
    BY <2>1, <2>2, <2>3, <2>4, StoreStep
  <2>. QED BY <1>1, <2>3, <2>5, NoMaking DEF o
<1>. QED BY <1>3, <1>4

\* The mount writes.
LEMMA StepPwrite ==
  ASSUME InOrder, Types', Good(db'), NEW off \in Offsets, NEW data \in Payloads, pwrite(off, data)
  PROVE  Confined /\ Shown
<1>. DEFINE i == handle
            rows == write_data_at_offset(Rows(db, i), off, data)
            end == MaxOf(Size(db, i), off + Len(data))
<1>1. Types /\ Good(db) /\ Held
  BY DEF InOrder
<1>2. db' = SetSize(SetRows(db, i, rows), i, end) /\ i # None /\ op["mount"] = Idle
  BY DEF pwrite, Begins
<1>3. i \in 2..(db.next - 1) /\ (i \in DOMAIN db.inode => ~IsDir(db, i))
  BY <1>1, <1>2 DEF Types, Held
<1>4. off \in Nat /\ data \in Seq(Bytes) /\ data # <<>> /\ off + Len(data) \in Nat
  BY ClientsAssumption
<1>5. end \in Nat
  BY <1>4, NamedRows DEF MaxOf
<1>6. i \in Named(db) => ~IsDir(db, i) /\ Content(rows, end) = Tree!Written(BytesOf(db, i), off, data)
  BY <1>3, <1>4, NamedRows, ContentWrites DEF BytesOf
<1>. HIDE DEF rows, end
<1>7. Touches(db, db', i) /\ Shown
  BY <1>2, <1>3, <1>5, <1>6, StoreStep
<1>. QED BY <1>1, <1>2, <1>7, NoMaking

\* The SDK program writes by path.
LEMMA StepWrites ==
  ASSUME InOrder, Types', Good(db'), Sound', NEW path \in Paths, NEW off \in Offsets, NEW data \in Payloads,
         write_path(path, off, data)
  PROVE  Confined /\ Shown
<1>. DEFINE i == resolve_path(db, path)
            p == resolve_path(db, Parent(path))
            e == <<p, path[Len(path)]>>
            end == off + Len(data)
            rows == path_pwrite(Rows(db, i), Size(db, i), off, data)
            fresh == path_pwrite(NoRows, 0, off, data)
            size == MaxOf(Size(db, i), end)
            made == Created(db, "file", 1, end, e)
            n == db.next
<1>1. Types /\ Tables(db) /\ Good(db) /\ CacheOK(cache, db.next) /\ db.next \in Nat \ {0, 1} /\ db.next <= db.next
  BY DEF InOrder, Types, Tables
<1>2. path \in Seq(Names) /\ path # <<>>
  BY ClientsAssumption
<1>3. off \in Nat /\ data \in Seq(Bytes) /\ data # <<>> /\ end \in Nat
  BY ClientsAssumption
<1>4. /\ p # None /\ ~Outdated(db, path) /\ Present(db, p) /\ ~IsDir(db, i)
      /\ db' = IF i # None THEN SetSize(SetRows(db, i, rows), i, size) ELSE SetRows(made, n, fresh)
  BY DEF write_path, Created, Tear, Sound
<1>5. /\ e \in Slot(db.next) /\ e[1] = p
      /\ i # None => i \in 2..(db.next - 1) /\ Points(db, e, i)
      /\ i = None => e \notin DOMAIN db.dentry
  <2>1. /\ p # None => p \in 1..(db.next - 1) /\ e \in Slot(db.next)
        /\ i # None => i \in 2..(db.next - 1) /\ p # None
        /\ i # None /\ ~Outdated(db, path) => Points(db, e, i)
        /\ i = None => e \notin DOMAIN db.dentry
    BY <1>1, <1>2, Resolved
  <2>. QED BY <1>4, <2>1
<1>6. Content(fresh, end) = Tree!Written(<<>>, off, data)
  BY <1>3, ContentFresh
<1>7. i \in Named(db) => Content(rows, size) = Tree!Written(BytesOf(db, i), off, data)
  <2>. HIDE DEF i
  <2>1. i \in Named(db) => RowsOK(Rows(db, i)) /\ Size(db, i) \in Nat /\ RowsFit(Rows(db, i), Size(db, i))
    BY NamedRows
  <2>. QED BY <1>3, <2>1, ContentWrites DEF BytesOf
<1>8. size \in Nat
  BY <1>3, NamedRows DEF MaxOf
<1>9. Making(op["mount"]) => op["mount"].i # n /\ NamesOf(db, op["mount"].i) = {}
  <2>1. op["mount"] \in MountOps(db.next) /\ OpOK(db, op["mount"])
    BY <1>1 DEF Types, InOrder, Whole
  <2>2. Making(op["mount"]) => op["mount"] \in AddOps(db.next)
    BY <2>1 DEF Making, MountOps, AddOps, DropOps, MoveOps, CutOps, Idle
  <2>. QED BY <1>1, <2>1, <2>2 DEF OpOK, AddOK, Making, AddOps
<1>. HIDE DEF i, p, e, end, rows, fresh, size, made
<1>10. CASE i # None
  <2>1. db' = SetSize(SetRows(db, i, rows), i, size) /\ i \in 2..(db.next - 1)
    BY <1>4, <1>5, <1>10
  <2>2. Touches(db, db', i) /\ Shown
    BY <1>4, <1>7, <1>8, <2>1, StoreStep
  <2>3. NamesOf(db, i) # {}
    BY <1>5, <1>10 DEF Points, NamesOf
  <2>. QED BY <1>9, <2>2, <2>3 DEF Confined
<1>11. CASE i = None
  <2>1. "file" \in Kinds /\ 1 \in Int
    BY DEF Kinds
  <2>2. Tables(made) /\ made.next = n + 1
    BY <1>1, <1>3, <1>5, <2>1, MakeTables, ZenonT(40) DEF made
  <2>3. /\ Others(db, made, n) /\ Rows(made, n) = NoRows /\ Size(made, n) = end
        /\ n \in DOMAIN made.inode /\ made.inode[n].kind = "file"
        /\ made.dentry = Put(db.dentry, e, n)
    BY <1>1, <1>3, <1>5, <2>1, OthersCreate DEF made
  <2>4. n \in 2..(made.next - 1) /\ db' = SetRows(made, n, fresh)
    BY <1>1, <1>4, <1>11, <2>2
  <2>5. /\ db'.next = made.next /\ db'.dentry = made.dentry /\ db'.inode = made.inode
        /\ DOMAIN db'.data = DOMAIN made.data \union {n} /\ db'.data[n] = fresh
        /\ \A j \in DOMAIN made.data : j # n => db'.data[j] = made.data[j]
    BY <2>2, <2>4, SetRowsEffect
  <2>6. n \notin DOMAIN db.inode /\ NamesOf(db, n) = {}
    BY <1>1 DEF Tables, NamesOf
  <2>7. Rows(db', n) = fresh /\ Size(db', n) = end
    BY <2>3, <2>5 DEF Rows, Size
  <2>8. Others(db, db', n)
    BY <2>3, <2>5, <2>6 DEF Others, Same, Rows
  <2>9. AddsName(db, db', e, n)
    BY <1>4, <1>5, <1>11, <2>3, <2>5 DEF AddsName, Put
  <2>10. BytesOf(db', n) = Tree!Written(<<>>, off, data)
    BY <1>6, <2>7 DEF BytesOf
  <2>11. n \in 2..(db'.next - 1)
    BY <2>4, <2>5
  <2>12. Shown
    BY <1>1, <2>6, <2>8, <2>9, <2>10, <2>11, ShownCreate
  <2>13. Touches(db, db', n)
    BY <2>8 DEF Touches
  <2>. QED BY <1>9, <2>12, <2>13 DEF Confined
<1>. QED BY <1>10, <1>11

\* The SDK program makes a tree at once.
LEMMA StepBulk ==
  ASSUME InOrder, Types', Good(db'), Sound', NEW plan \in Plans, bulk_materialize_tree(plan)
  PROVE  Confined /\ Shown
<1>1. Tables(db) /\ Good(db) /\ Intact(db) /\ CacheOK(cache, db.next)
  BY DEF InOrder, Types, Good
<1>. DEFINE r == BulkResult(plan)
<1>2. db' = r.db /\ ~r.stale
  BY DEF bulk_materialize_tree, Tear, Sound
<1>3. Extends(db, r.db)
  BY <1>1, <1>2, BulkResultOK DEF Progress
<1>4. Said(db, r.db)
  BY <1>1, <1>2, SaidPlan
<1>. HIDE DEF r
<1>5. Extends(db, db') /\ Said(db, db')
  BY <1>2, <1>3, <1>4
<1>. QED BY <1>1, <1>5, TreeMaterialize DEF Confined, Shown

\* Inodes stay within their bound.
LEMMA BoundedStep ==
  ASSUME Types, Bounded, [Next]_vars
  PROVE  Bounded'
<1>1. Tables(db) /\ db.next \in Nat /\ MaxInode \in Nat
  BY BoundsAssumption DEF Types, Tables
<1>2. CASE db' = db
  BY <1>2 DEF Bounded
<1>3. ASSUME NEW e \in Slots, create_file(e) \/ mkdir(e) \/ mknod(e) PROVE Bounded'
  <2>1. db.next <= MaxInode
    BY <1>3 DEF create_file, mkdir, mknod, Room
  <2>2. \/ db' = InsertDentry(InsertInode(db, "file", 1, 0), e, db.next)
        \/ db' = InsertInode(db, "dir", 0, 0)
        \/ db' = InsertInode(db, "node", 0, 0)
    BY <1>3 DEF create_file, mkdir, mknod
  <2>3. db'.next = db.next + 1
    BY <1>1, <2>2 DEF InsertDentry, InsertInode, Tables, IsDb
  <2>. QED BY <1>1, <2>1, <2>3 DEF Bounded
<1>4. ASSUME NEW path \in Paths, NEW off \in Offsets, NEW data \in Payloads, write_path(path, off, data) PROVE Bounded'
  <2>1. db.next <= MaxInode
    BY <1>4 DEF write_path, Room
  <2>2. \/ \E i, rows, n : db' = SetSize(SetRows(db, i, rows), i, n)
        \/ \E n, e, rows : db' = SetRows(InsertDentry(InsertInode(db, "file", 1, n), e, db.next), db.next, rows)
    BY <1>4 DEF write_path
  <2>3. db'.next = db.next \/ db'.next = db.next + 1
    BY <1>1, <2>2 DEF SetSize, SetRows, InsertDentry, InsertInode, Tables, IsDb
  <2>. QED BY <1>1, <2>1, <2>3 DEF Bounded
<1>5. ASSUME NEW plan \in Plans, bulk_materialize_tree(plan) PROVE Bounded'
  BY <1>5 DEF bulk_materialize_tree, Bounded
<1>6. ASSUME db'.next = db.next PROVE Bounded'
  BY <1>6 DEF Bounded
<1>7. ASSUME NEW off \in Offsets, NEW data \in Payloads, pwrite(off, data) PROVE Bounded'
  <2>1. \E i, rows, n : db' = SetSize(SetRows(db, i, rows), i, n)
    BY <1>7 DEF pwrite
  <2>2. db'.next = db.next
    BY <1>1, <2>1 DEF SetSize, SetRows, Tables, IsDb
  <2>. QED BY <1>6, <2>2
<1>8. ASSUME NEW a \in Actors,
             \/ AddName(a) \/ AddCount(a) \/ AddParent(a)
             \/ DropName(a) \/ DropCount(a) \/ DropParent(a)
             \/ Purge(a) \/ DropInode(a) \/ Cut(a)
      PROVE  Bounded'
  <2>1. \/ db' = db
        \/ \E e, i : db' = InsertDentry(db, e, i)
        \/ \E i : db' = [db EXCEPT !.inode[i].nlink = 2]
        \/ \E i, n : db' = AddLinks(db, i, n)
        \/ \E e : db' = DeleteDentry(db, e)
        \/ \E i : db' = DeleteData(db, i)
        \/ \E i : db' = DeleteInode(db, i)
        \/ \E i, rows, n : db' = SetSize(SetRows(db, i, rows), i, n)
    BY <1>8 DEF AddName, AddCount, AddParent, DropName, DropCount, DropParent, Purge, DropInode, Cut
  <2>2. db'.next = db.next
    BY <1>1, <2>1 DEF InsertDentry, AddLinks, DeleteDentry, DeleteData, DeleteInode, SetSize, SetRows, Tables, IsDb
  <2>. QED BY <1>6, <2>2
<1>9. ASSUME NEW a \in Actors, Move(a) PROVE Bounded'
  <2>. DEFINE o == op[a]
  <2>1. o.e \in Slot(db.next) /\ o.f \in Slot(db.next) /\ o.dir \in BOOLEAN
    BY <1>9, WhoIsWhere DEF Move, MoveOps
  <2>2. db' = db \/ db' = Moved(Replaced(db, o.f), o.e, o.f, o.dir)
    BY <1>9 DEF Move
  <2>. HIDE DEF o
  <2>3. Tables(Replaced(db, o.f)) /\ Replaced(db, o.f).next = db.next
    BY <1>1, <2>1, ReplacedEffect
  <2>4. Moved(Replaced(db, o.f), o.e, o.f, o.dir).next = db.next
    <3>. DEFINE r == Replaced(db, o.f)
                e == o.e
                f == o.f
                dir == o.dir
    <3>1. Tables(r) /\ r.next = db.next /\ e \in Slot(r.next) /\ f \in Slot(r.next) /\ dir \in BOOLEAN
      BY <2>1, <2>3
    <3>. HIDE DEF r, e, f, dir
    <3>2. Moved(r, e, f, dir).next = r.next
      BY <3>1, MovedEffect, ZenonT(40)
    <3>. QED BY <3>1, <3>2 DEF r, e, f, dir
  <2>. QED BY <1>6, <2>2, <2>4
<1>10. CASE \/ UNCHANGED vars
            \/ \E i \in DOMAIN db.inode : open(i)
            \/ release
            \/ \E e \in Slots : unlink(e) \/ rmdir(e)
            \/ \E i \in DOMAIN db.inode, e \in Slots : link(i, e)
            \/ \E e, f \in Slots : rename(e, f)
            \/ \E n \in Sizes : truncate(n)
            \/ \E path \in Paths : read_file(path) \/ remove(path)
            \/ Crash
  <2>1. db' = db
    BY <1>10 DEF vars, open, release, unlink, rmdir, link, rename, truncate, read_file, remove, Crash
  <2>. QED BY <1>2, <2>1
<1>. QED BY <1>3, <1>4, <1>5, <1>7, <1>8, <1>9, <1>10 DEF Next

\* Every step is a step of the tree, or invisible.
LEMMA TreeStep ==
  ASSUME InOrder, Types', Good(db'), Sound', [Next]_vars
  PROVE  Confined /\ Shown
<1>1. CASE \/ UNCHANGED vars
           \/ \E i \in DOMAIN db.inode : open(i)
           \/ release
           \/ \E e \in Slots : unlink(e) \/ rmdir(e)
           \/ \E i \in DOMAIN db.inode, e \in Slots : link(i, e)
           \/ \E e, f \in Slots : rename(e, f)
           \/ \E n \in Sizes : truncate(n)
           \/ \E path \in Paths : read_file(path) \/ remove(path)
           \/ Crash
  <2>1. db' = db
    BY <1>1 DEF vars, open, release, unlink, rmdir, link, rename, truncate, read_file, remove, Crash
  <2>2. Types
    BY DEF InOrder
  <2>. QED BY <2>1, <2>2, TouchesNothing DEF Shown
<1>2. ASSUME NEW e \in Slots, create_file(e) \/ mkdir(e) \/ mknod(e) PROVE Confined /\ Shown
  BY <1>2, StepMakes
<1>3. ASSUME NEW off \in Offsets, NEW data \in Payloads, pwrite(off, data) PROVE Confined /\ Shown
  BY <1>3, StepPwrite
<1>4. ASSUME NEW path \in Paths, NEW off \in Offsets, NEW data \in Payloads, write_path(path, off, data)
      PROVE  Confined /\ Shown
  BY <1>4, StepWrites
<1>5. ASSUME NEW plan \in Plans, bulk_materialize_tree(plan) PROVE Confined /\ Shown
  BY <1>5, StepBulk
<1>6. ASSUME NEW a \in Actors, AddName(a) \/ AddCount(a) \/ AddParent(a) PROVE Confined /\ Shown
  BY <1>6, StepAdds
<1>7. ASSUME NEW a \in Actors, DropName(a) \/ DropCount(a) \/ DropParent(a) \/ Purge(a) \/ DropInode(a)
      PROVE  Confined /\ Shown
  BY <1>7, StepDrops
<1>8. ASSUME NEW a \in Actors, Move(a) \/ Cut(a) PROVE Confined /\ Shown
  BY <1>8, StepMoves
<1>. QED BY <1>1, <1>2, <1>3, <1>4, <1>5, <1>6, <1>7, <1>8 DEF Next

\* What the mount goes on with.
LEMMA MountGoesOn ==
  ASSUME Types, [Next]_vars
  PROVE  \/ op'["mount"] = op["mount"]
         \/ ~Making(op'["mount"]) /\ (op'["mount"] # Idle => op'["mount"].at # "cut")
         \/ /\ \E e \in Slots : mkdir(e) \/ mknod(e)
            /\ op'["mount"].i = db.next /\ op'["mount"].at = "name"
         \/ \E n \in Sizes : truncate(n) /\ op'["mount"].i = handle /\ op'["mount"].to = n /\ op'["mount"].at = "cut"
<1>. DEFINE m == op["mount"]
            m2 == op'["mount"]
            Done == ~Making(m2) /\ (m2 # Idle => m2.at # "cut")
            Makes == (\E e \in Slots : mkdir(e) \/ mknod(e)) /\ m2.i = db.next /\ m2.at = "name"
            Cuts == \E n \in Sizes : truncate(n) /\ m2.i = handle /\ m2.to = n /\ m2.at = "cut"
            Goal == m2 = m \/ Done \/ Makes \/ Cuts
<1>0. SUFFICES Goal
  OBVIOUS
<1>1. DOMAIN op = Actors /\ "mount" \in Actors
  BY DEF Types, Actors
<1>2. CASE \/ UNCHANGED vars
           \/ \E i \in DOMAIN db.inode : open(i)
           \/ release
           \/ \E e \in Slots : create_file(e)
           \/ \E off \in Offsets, data \in Payloads : pwrite(off, data)
           \/ \E path \in Paths : read_file(path)
           \/ \E path \in Paths, off \in Offsets, data \in Payloads : write_path(path, off, data)
           \/ \E plan \in Plans : bulk_materialize_tree(plan)
  BY <1>2 DEF vars, open, release, create_file, pwrite, read_file, write_path, bulk_materialize_tree
<1>3. ASSUME NEW e \in Slots, unlink(e) PROVE Done
  BY <1>3, MountTurn DEF unlink, Making
<1>4. ASSUME NEW e \in Slots, rmdir(e) PROVE Done
  BY <1>4, MountTurn DEF rmdir, Making
<1>5. ASSUME NEW i \in DOMAIN db.inode, NEW e \in Slots, link(i, e) PROVE Done
  BY <1>5, MountTurn DEF link, Making
<1>6. ASSUME NEW e \in Slots, NEW f \in Slots, rename(e, f) PROVE Done
  BY <1>6, MountTurn DEF rename, Making
<1>7. ASSUME NEW e \in Slots, mkdir(e) \/ mknod(e) PROVE m2.i = db.next /\ m2.at = "name"
  BY <1>7, MountTurn DEF mkdir, mknod
<1>8. ASSUME NEW n \in Sizes, truncate(n) PROVE m2.i = handle /\ m2.to = n /\ m2.at = "cut"
  BY <1>8, MountTurn DEF truncate
<1>9. ASSUME NEW path \in Paths, remove(path) PROVE m2 = m
  BY <1>9, SdkTurn DEF remove
<1>10. CASE Crash
  BY <1>1, <1>10 DEF Crash, Making
<1>11. ASSUME NEW a \in Actors,
              \/ AddName(a) \/ AddCount(a) \/ AddParent(a)
              \/ DropName(a) \/ DropCount(a) \/ DropParent(a)
              \/ Purge(a) \/ DropInode(a)
              \/ Move(a) \/ Cut(a)
       PROVE  m2 = m \/ Done
  <2>1. CASE a # "mount"
    BY <1>1, <1>11, <2>1 DEF AddName, AddCount, AddParent, DropName, DropCount, DropParent, Purge, DropInode,
                             Move, Cut, Go, Leave
  <2>2. CASE a = "mount"
    <3>1. Leave(a) => Done
      BY <1>1, <2>2 DEF Leave, Making
    <3>2. ASSUME NEW p, Go(a, p), p \in {"count", "addparent"}, m \in AddOps(db.next) PROVE Done
      <4>. DEFINE x == [m EXCEPT !.at = p]
      <4>1. x.at = p
        BY <3>2, Onward
      <4>2. m2 = x
        BY <1>1, <2>2, <3>2 DEF Go
      <4>. QED BY <3>2, <4>1, <4>2 DEF Making
    <3>3. ASSUME NEW p, Go(a, p), p \in {"uncount", "dropparent", "purge", "inode"}, m \in DropOps(db.next) PROVE Done
      <4>. DEFINE x == [m EXCEPT !.at = p]
      <4>1. x.at = p
        BY <3>3, Onward
      <4>2. m2 = x
        BY <1>1, <2>2, <3>3 DEF Go
      <4>. QED BY <3>3, <4>1, <4>2 DEF Making
    <3>4. /\ \A p \in {"name", "count", "addparent"} : At(a, p) => m \in AddOps(db.next)
          /\ \A p \in {"drop", "uncount", "dropparent", "purge", "inode"} : At(a, p) => m \in DropOps(db.next)
      BY <2>2, WhoIsWhere
    <3>. HIDE DEF Done
    <3>5. CASE AddName(a) \/ AddCount(a) \/ AddParent(a)
      BY <3>1, <3>2, <3>4, <3>5 DEF AddName, AddCount, AddParent
    <3>6. CASE DropName(a) \/ DropCount(a) \/ DropParent(a) \/ Purge(a) \/ DropInode(a)
      BY <3>1, <3>3, <3>4, <3>6 DEF DropName, DropCount, DropParent, Purge, DropInode
    <3>7. CASE Move(a) \/ Cut(a)
      BY <3>1, <3>7 DEF Move, Cut
    <3>. QED BY <1>11, <3>5, <3>6, <3>7
  <2>. QED BY <2>1, <2>2
<1>12. ASSUME NEW e \in Slots, create_file(e) \/ mkdir(e) \/ mknod(e) \/ unlink(e) \/ rmdir(e) PROVE Goal
  BY <1>2, <1>3, <1>4, <1>7, <1>12
<1>13. CASE \E n \in Sizes : truncate(n)
  BY <1>8, <1>13
<1>. HIDE DEF m, m2, Done, Makes, Cuts
<1>14. m2 = m \/ Done => Goal
  OBVIOUS
<1>. HIDE DEF Goal
<1>. QED BY <1>2, <1>5, <1>6, <1>9, <1>10, <1>11, <1>12, <1>13, <1>14 DEF Next

\* What the handle stands for after a step.
LEMMA HandleGoesOn ==
  ASSUME [Next]_vars
  PROVE  \/ handle' = handle \/ handle' = None
         \/ db' = db /\ IsFile(db, handle')
         \/ handle' = db.next /\ \E e \in Slots : create_file(e)
<1>1. ASSUME NEW a \in Actors,
             \/ AddName(a) \/ AddCount(a) \/ AddParent(a)
             \/ DropName(a) \/ DropCount(a) \/ DropParent(a)
             \/ Purge(a) \/ DropInode(a)
             \/ Move(a) \/ Cut(a)
      PROVE  handle' = handle
  BY <1>1 DEF AddName, AddCount, AddParent, DropName, DropCount, DropParent, Purge, DropInode, Move, Cut
<1>2. ASSUME NEW i \in DOMAIN db.inode, open(i) PROVE db' = db /\ IsFile(db, handle')
  BY <1>2 DEF open
<1>3. ASSUME NEW e \in Slots, create_file(e) PROVE handle' = handle \/ handle' = db.next
  BY <1>3 DEF create_file
<1>4. CASE release \/ Crash
  BY <1>4 DEF release, Crash
<1>5. CASE \/ UNCHANGED vars
           \/ \E e \in Slots : mkdir(e) \/ mknod(e) \/ unlink(e) \/ rmdir(e)
           \/ \E i \in DOMAIN db.inode, e \in Slots : link(i, e)
           \/ \E e, f \in Slots : rename(e, f)
           \/ \E off \in Offsets, data \in Payloads : pwrite(off, data)
           \/ \E n \in Sizes : truncate(n)
           \/ \E path \in Paths : read_file(path) \/ remove(path)
           \/ \E path \in Paths, off \in Offsets, data \in Payloads : write_path(path, off, data)
           \/ \E plan \in Plans : bulk_materialize_tree(plan)
  BY <1>5 DEF vars, mkdir, mknod, unlink, rmdir, link, rename, pwrite, truncate, read_file, remove, write_path,
              bulk_materialize_tree
<1>. QED BY <1>1, <1>2, <1>3, <1>4, <1>5 DEF Next

\* An inode keeps its kind as long as it lives, and its number is never used again.
LEMMA KindKept ==
  ASSUME Types, Confined, NEW j \in 1..(db.next - 1), j \in DOMAIN db'.inode
  PROVE  j \in DOMAIN db.inode /\ (IsDir(db', j) <=> IsDir(db, j))
<1>1. db.next \in Nat
  BY DEF Types, Tables
<1>2. CASE Extends(db, db')
  BY <1>2 DEF Extends, IsDir
<1>3. ASSUME NEW i, Touches(db, db', i) PROVE j \in DOMAIN db.inode /\ (IsDir(db', j) <=> IsDir(db, j))
  <2>1. j # db.next
    BY <1>1
  <2>. QED BY <1>3, <2>1 DEF Touches, Others, Same, IsDir
<1>. QED BY <1>2, <1>3 DEF Confined

\* What the mount holds, cuts or makes stays what it is.
LEMMA HeldStep ==
  ASSUME InOrder, Types', Whole(db', op'["mount"], op'["sdk"]), Confined, [Next]_vars
  PROVE  Held'
<1>. DEFINE m == op["mount"]
            m2 == op'["mount"]
<1>1. Types /\ Tables(db) /\ Good(db) /\ Held /\ db.next \in Nat \ {0, 1} /\ m \in MountOps(db.next)
  BY DEF InOrder, Types, Tables
<1>2. "file" \in Kinds /\ "dir" \in Kinds /\ "node" \in Kinds /\ 0 \in Int /\ 1 \in Int /\ 0 \in Nat
  BY DEF Kinds
<1>3. handle' \in DOMAIN db'.inode => ~IsDir(db', handle')
  <2>1. CASE handle' = None
    BY <2>1 DEF Types, Tables, None
  <2>2. CASE handle' = handle /\ handle # None
    <3>1. handle \in 1..(db.next - 1)
      BY <1>1, <2>2 DEF Types
    <3>. QED BY <1>1, <2>2, <3>1, KindKept DEF Held
  <2>3. CASE db' = db /\ IsFile(db, handle')
    BY <2>3 DEF IsFile, IsDir
  <2>4. ASSUME NEW e \in Slots, create_file(e), handle' = db.next PROVE ~IsDir(db', handle')
    <3>1. e \in Slot(db.next)
      BY <1>1, SlotType
    <3>2. db' = Created(db, "file", 1, 0, e)
      BY <2>4 DEF create_file, Created
    <3>3. db'.inode[db.next].kind = "file"
      <4>. DEFINE d2 == Created(db, "file", 1, 0, e)
      <4>1. Tables(db) /\ "file" \in Kinds /\ 1 \in Int /\ 0 \in Nat
        BY <1>1, <1>2
      <4>. HIDE DEF d2
      <4>2. d2.inode[db.next].kind = "file"
        BY <3>1, <4>1, OthersCreate DEF d2
      <4>. QED BY <3>2, <4>2 DEF d2
    <3>. QED BY <2>4, <3>3 DEF IsDir
  <2>. QED BY <2>1, <2>2, <2>3, <2>4, HandleGoesOn
<1>4. ASSUME Making(m2) PROVE Size(db', m2.i) = 0
  <2>1. m2 # Idle /\ m2.at = "name"
    BY <1>4 DEF Making
  <2>2. CASE m2 = m
    <3>1. m \in AddOps(db.next) /\ NamesOf(db, m.i) = {} /\ Size(db, m.i) = 0
      <4>1. m \in AddOps(db.next)
        BY <1>1, <1>4, <2>2 DEF Making, MountOps, AddOps, DropOps, MoveOps, CutOps, Idle
      <4>2. AddOK(db, m)
        BY <1>4, <2>2 DEF InOrder, Whole, OpOK, Making
      <4>. QED BY <1>1, <1>4, <2>2, <4>1, <4>2 DEF Held, AddOK
    <3>2. m.i \in 1..(db.next - 1) /\ m.i < db.next
      BY <1>1, <3>1 DEF AddOps
    <3>3. m.i \in DOMAIN db'.inode
      BY <1>4, <2>2 DEF Whole, OpOK, AddOK, Making
    <3>4. Same(db, db', m.i)
      <4>1. CASE Said(db, db')
        BY <3>1, <3>2, <3>3, <4>1 DEF Said, SaidAt
      <4>2. ASSUME NEW i, Touches(db, db', i), i # m.i PROVE Same(db, db', m.i)
        BY <3>3, <4>2 DEF Touches, Others
      <4>. QED BY <1>4, <2>2, <4>1, <4>2 DEF Confined
    <3>. QED BY <2>2, <3>1, <3>4 DEF Same, Size
  <2>3. ASSUME NEW e \in Slots, mkdir(e) \/ mknod(e), m2.i = db.next PROVE Size(db', m2.i) = 0
    <3>1. db' = InsertInode(db, "dir", 0, 0) \/ db' = InsertInode(db, "node", 0, 0)
      BY <2>3 DEF mkdir, mknod
    <3>2. Size(db', db.next) = 0
      BY <1>1, <1>2, <3>1, OthersMake
    <3>. QED BY <2>3, <3>2
  <2>. HIDE DEF m, m2
  <2>4. m2 = m \/ ((\E e \in Slots : mkdir(e) \/ mknod(e)) /\ m2.i = db.next)
    BY <1>1, <1>4, <2>1, MountGoesOn DEF m, m2
  <2>. QED BY <2>2, <2>3, <2>4
<1>5. ASSUME m2 # Idle, m2.at = "cut"
      PROVE  m2.to \in Sizes /\ (m2.i \in DOMAIN db'.inode => ~IsDir(db', m2.i))
  <2>1. CASE m2 = m
    <3>1. m.to \in Sizes /\ (m.i \in DOMAIN db.inode => ~IsDir(db, m.i))
      BY <1>1, <1>5, <2>1 DEF Held, At
    <3>2. m.i \in 1..(db.next - 1)
      BY <1>1, <1>5, <2>1, WhoIsWhere DEF At, CutOps, Actors
    <3>. QED BY <1>1, <2>1, <3>1, <3>2, KindKept
  <2>2. ASSUME NEW n \in Sizes, truncate(n), m2.i = handle, m2.to = n
        PROVE  m2.to \in Sizes /\ (m2.i \in DOMAIN db'.inode => ~IsDir(db', m2.i))
    BY <1>1, <2>2 DEF truncate, Held
  <2>. HIDE DEF m, m2
  <2>3. m2 = m \/ \E n \in Sizes : truncate(n) /\ m2.i = handle /\ m2.to = n
    BY <1>1, <1>5, MountGoesOn DEF m, m2
  <2>. QED BY <2>1, <2>2, <2>3
<1>. QED BY <1>3, <1>4, <1>5 DEF Held, At, Making, Size, IsDir

\* In a state outside the windows everything is in order.
LEMMA OrderIs ==
  ASSUME Types, NamesInv, BytesInv, HeldInv, Sound
  PROVE  InOrder
BY DEF InOrder, Good, Types, NamesInv, BytesInv, HeldInv, Whole, Bounded

\* Every step keeps it, and shows in the tree or not at all.
LEMMA RefinementStep ==
  ASSUME Types, Types', NamesInv, NamesInv', BytesInv, BytesInv', HeldInv, [Next]_vars
  PROVE  HeldInv' /\ (Sound' => Shown)
<1>1. Bounded'
  BY BoundedStep DEF HeldInv
<1>2. ASSUME Sound' PROVE Held' /\ Shown
  <2>1. Sound
    BY <1>2, TornGrows DEF Sound
  <2>2. InOrder
    BY <2>1, OrderIs
  <2>3. Whole(db', op'["mount"], op'["sdk"])
    BY <1>2 DEF NamesInv
  <2>4. Good(db')
    <3>1. Good(db)'
      BY <1>1, <1>2 DEF Good, Types, NamesInv, BytesInv, Bounded, Whole
    <3>. QED BY <3>1, SaysPrime
  <2>5. Confined /\ Shown
    BY <1>2, <2>2, <2>4, TreeStep
  <2>6. Held'
    BY <2>2, <2>3, <2>5, HeldStep
  <2>. QED BY <2>5, <2>6
<1>. QED BY <1>1, <1>2 DEF HeldInv

\* The empty database.
LEMMA HeldInit ==
  ASSUME Init
  PROVE  HeldInv /\ Tree!Init
<1>1. op["mount"] = Idle /\ handle = None /\ db = EmptyDb
  BY DEF Init, Actors
<1>2. db.next = 2 /\ DOMAIN db.inode = {Root} /\ db.dentry = <<>>
  BY <1>1 DEF EmptyDb, Root
<1>3. Bounded
  BY <1>2, BoundsAssumption DEF Bounded
<1>4. Held
  BY <1>1, <1>2 DEF Held, At, Making, None, Root
<1>5. Says(db) = <<>>
  <2>1. DOMAIN db.dentry = {}
    BY <1>2
  <2>. QED BY <2>1 DEF Says
<1>. QED BY <1>2, <1>3, <1>4, <1>5 DEF HeldInv, Tree!Init

\* The tables of AgentFS, seen as a tree of names and bytes, change only as FileTree says:
\* each statement, of operations of the mount and of the SDK program interleaved and cut
\* short by crashes in any way, is one step of FileTree or leaves names and bytes alone,
\* until one of the windows "stale" and "count" is entered.
THEOREM FilesystemRefined == Spec => Implements
<1>. DEFINE Inv == Types /\ NamesInv /\ BytesInv
<1>1. Init => HeldInv /\ Tree!Init
  BY HeldInit
<1>2. Inv /\ Inv' /\ HeldInv /\ [Next]_vars => HeldInv'
  BY RefinementStep
<1>3. Inv /\ Inv' /\ HeldInv /\ [Next]_vars
        => [Tree!Next \/ torn' \cap {"stale", "count"} # {}]_(Tree!treeVars)
  <2>1. SUFFICES ASSUME Inv, Inv', HeldInv, [Next]_vars
                 PROVE  Sound' => Shown
    <3>1. Types' => (~Sound' => torn' \cap {"stale", "count"} # {})
      BY DEF Types, Sound
    <3>. QED BY <3>1 DEF Shown
  <2>. QED BY <2>1, RefinementStep
<1>4. Spec => []Inv
  BY AgentFSInvariant, BytesInvariant, PTL
<1>. HIDE DEF Inv
<1>5. Spec => []HeldInv
  BY <1>1, <1>2, <1>4, PTL DEF Spec
<1>. QED BY <1>1, <1>3, <1>4, <1>5, PTL DEF Spec, Implements
=============================================================================
