----------------------------- MODULE OverlayFS -----------------------------
(***************************************************************************)
(* OverlayFS: copy-on-write over a read-only base                          *)
(* (appfs/sdk/rust/src/filesystem/overlayfs.rs), under a FUSE mount.       *)
(*                                                                         *)
(* The kernel sends one request at a time and, entry and attribute         *)
(* timeouts being Duration::MAX, uses the inode numbers it was given until *)
(* it changes the entry itself.  An operation is one action; its commits   *)
(* to the database are kept in a log, and a crash leaves a proper prefix   *)
(* of them.  The delta layer is AgentFS, each of its operations taken as   *)
(* one commit; the base is HostFS, whose inode numbers are counted from 2  *)
(* in each session, in the order of first lookup.                          *)
(*                                                                         *)
(* `torn` records the windows the code leaves open, when one is entered:   *)
(*   "path"    a request goes through an inode whose recorded path is no   *)
(*             longer the kernel's (after a rename or a hard link);        *)
(*   "origin"  an origin stored in an earlier session is taken for an      *)
(*             inode number of this one;                                   *)
(*   "listing" readdir_plus gives a base inode to an entry that delta has; *)
(*   "dir"     a directory that the base has a part in is renamed, or      *)
(*             replaced by a rename;                                       *)
(*   "shadow"  a request fails after its commits, in a directory that      *)
(*             stands where the base has a file;                           *)
(*   "crash"   a crash between two commits that belong together.           *)
(***************************************************************************)
EXTENDS Naturals, Sequences, FiniteSets
LOCAL INSTANCE FiniteSetsExt

CONSTANTS
    Names,          \* names in a directory
    Base,           \* the base tree: path -> Dir or what the file says
    Dir, Empty,     \* what a directory, a new file says
    Values,         \* what writes make a file say
    MaxDepth,       \* bound: length of paths
    MaxOps,         \* bound: requests that change something
    MaxSessions     \* bound: mounts

Root == 1
None == 0

VARIABLES
    fs,         \* the overlay: its tables, its maps, the base's inode numbers
    dcache,     \* the kernel's entries: path -> overlay inode
    torn,       \* the windows entered
    ops,        \* requests so far
    sessions    \* mounts so far

vars == <<fs, dcache, torn, ops, sessions>>

Put(f, k, v) == [x \in DOMAIN f \union {k} |-> IF x = k THEN v ELSE f[x]]
Without(f, ks) == [x \in DOMAIN f \ ks |-> f[x]]
Front(p) == SubSeq(p, 1, Len(p) - 1)
Last(p) == p[Len(p)]
IsPrefix(p, q) == Len(p) <= Len(q) /\ SubSeq(q, 1, Len(p)) = p

-----------------------------------------------------------------------------
(* The overlay after OverlayFS::new and load, over persistent tables.      *)

NewTables ==
    [dent |-> <<>>, node |-> [i \in {Root} |-> Dir], nextd |-> 2, white |-> {}, origin |-> <<>>]

Mounted(t) ==
    [dent |-> t.dent, node |-> t.node, nextd |-> t.nextd, white |-> t.white, origin |-> t.origin,
     info |-> [i \in {Root} |-> [layer |-> "delta", u |-> 1, path |-> <<>>]],
     rev |-> [k \in {<<"delta", 1>>} |-> Root],
     pmap |-> [p \in {<<>>} |-> Root],
     next |-> 2,
     bnum |-> [p \in {<<>>} |-> 1], nextb |-> 2,    \* HostFS
     fresh |-> {},                                  \* origins stored in this session
     log |-> <<>>, open |-> FALSE, failed |-> FALSE]

Tables(s) == [dent |-> s.dent, node |-> s.node, nextd |-> s.nextd,
              white |-> s.white, origin |-> s.origin]
Commit(s) == [s EXCEPT !.log = Append(@, [tables |-> Tables(s), open |-> s.open])]
\* A commit that a crash must not separate from a later one.
CommitOpen(s) == Commit([s EXCEPT !.open = TRUE])
CommitClosed(s) == Commit([s EXCEPT !.open = FALSE])
Fail(s) == [s EXCEPT !.failed = TRUE]

-----------------------------------------------------------------------------
(* The base.                                                               *)

\* base.lookup of an existing path numbers it.
Number(s, p) ==
    IF p \in DOMAIN s.bnum THEN s
    ELSE [s EXCEPT !.bnum = Put(@, p, s.nextb), !.nextb = @ + 1]
BasePath(s, u) == CHOOSE p \in DOMAIN s.bnum : s.bnum[p] = u
InBase(p) == p = <<>> \/ p \in DOMAIN Base
Known(s, u) == \E p \in DOMAIN s.bnum : s.bnum[p] = u

\* openat below a file, and O_DIRECTORY on one, are errors, not absences (ENOTDIR).
BaseFile(p) == p \in DOMAIN Base /\ Base[p] # Dir
Shadowed(p) == \E k \in 1..Len(p) : BaseFile(SubSeq(p, 1, k))

\* A walk from the root numbers what it meets, up to the first name missing.
BaseWalk(s, path) ==
    LET W[k \in 0..Len(path)] ==
            IF k = 0 THEN s
            ELSE IF InBase(SubSeq(path, 1, k)) THEN Number(W[k - 1], SubSeq(path, 1, k)) ELSE W[k - 1]
    IN  W[Len(path)]

-----------------------------------------------------------------------------
(* The delta.                                                              *)

Child(s, d, n) == IF <<d, n>> \in DOMAIN s.dent THEN s.dent[<<d, n>>] ELSE None
IsDirNode(s, d) == d \in DOMAIN s.node /\ s.node[d] = Dir
DeltaWalk(s, path) ==
    LET W[k \in 0..Len(path)] == IF k = 0 THEN Root ELSE Child(s, W[k - 1], path[k])
    IN  W[Len(path)]
NewNode(s, d, n, says) ==
    [s EXCEPT !.dent = Put(@, <<d, n>>, s.nextd), !.node = Put(@, s.nextd, says),
              !.nextd = @ + 1]
DropEntry(s, d, n) ==
    LET i == s.dent[<<d, n>>]
        dent == Without(s.dent, {<<d, n>>})
    IN  [s EXCEPT !.dent = dent,
                  !.node = IF \E e \in DOMAIN dent : dent[e] = i THEN @ ELSE Without(@, {i})]

-----------------------------------------------------------------------------
(* Whiteouts, origins and the inode maps.                                  *)

is_whiteout(s, path) == \E k \in 1..Len(path) : SubSeq(path, 1, k) \in s.white
create_whiteout(s, path) == Commit([s EXCEPT !.white = @ \union {path}])
remove_whiteout(s, path) ==
    IF path \in s.white THEN CommitOpen([s EXCEPT !.white = @ \ {path}]) ELSE s

add_origin_mapping(s, d, b) ==
    Commit([s EXCEPT !.origin = Put(@, d, b), !.fresh = @ \union {d}])

\* An answer: the overlay after it, the inode or None, whether it rests on an origin of
\* an earlier session, and whether it is an error.
Found(s, ino) == [s |-> s, ino |-> ino, alias |-> FALSE, err |-> FALSE]
Missed(s, err) == [s |-> s, ino |-> None, alias |-> FALSE, err |-> err]

\* Mutant: a number is given out twice.
get_or_create_overlay_ino_Reuses(s, layer, u, path) ==
    IF <<layer, u>> \in DOMAIN s.rev THEN Found(s, s.rev[<<layer, u>>])
    ELSE Found([s EXCEPT !.info = Put(@, s.next, [layer |-> layer, u |-> u, path |-> path]),
                         !.rev = Put(@, <<layer, u>>, s.next),
                         !.pmap = Put(@, path, s.next)], s.next)

get_or_create_overlay_ino(s, layer, u, path) ==
    IF <<layer, u>> \in DOMAIN s.rev THEN Found(s, s.rev[<<layer, u>>])
    ELSE Found([s EXCEPT !.info = Put(@, s.next, [layer |-> layer, u |-> u, path |-> path]),
                         !.rev = Put(@, <<layer, u>>, s.next),
                         !.pmap = Put(@, path, s.next),
                         !.next = @ + 1], s.next)

refresh_overlay_mapping(s, ino, layer, u, path) ==
    LET old == s.info[ino].path
        kept == IF old \in DOMAIN s.pmap /\ s.pmap[old] = ino
                  THEN Without(s.pmap, {old}) ELSE s.pmap
    IN  [s EXCEPT !.info[ino] = [layer |-> layer, u |-> u, path |-> path],
                  !.rev = Put(@, <<layer, u>>, ino),
                  !.pmap = Put(kept, path, ino)]

\* Mutant: a directory copied up keeps its base inode.
promote_to_delta_Never(s, path, d) == s

promote_to_delta(s, path, d) ==
    IF path \in DOMAIN s.pmap /\ s.info[s.pmap[path]].layer = "base"
      THEN LET ino == s.pmap[path]
           IN  [s EXCEPT !.info[ino].layer = "delta", !.info[ino].u = d,
                         !.rev = Put(Without(@, {<<"base", s.info[ino].u>>}), <<"delta", d>>, ino)]
      ELSE s

\* The inode of the parent in delta, or None.
resolve_delta_parent(s, inf) ==
    IF inf.layer = "delta" THEN inf.u
    ELSE LET W[k \in 0..Len(inf.path)] ==
                 IF k = 0 THEN Root
                 ELSE LET c == Child(s, W[k - 1], inf.path[k])
                      IN  IF IsDirNode(s, c) THEN c ELSE None
         IN  W[Len(inf.path)]

\* A new node at the end of a path of delta: its number is s.nextd.
Made(s, path, says) == NewNode(s, DeltaWalk(s, Front(path)), Last(path), says)
Say(s, d, says) == [s EXCEPT !.node[d] = says]

\* One directory on the way to a path of delta, and the base directory b reached beside
\* it, which stays behind where the base lacks a component.
DirMade(s, path, b) ==
    IF InBase(b)
      THEN promote_to_delta(add_origin_mapping(Commit(Made(s, path, Dir)), s.nextd, s.bnum[b]),
                            path, s.nextd)
      ELSE Commit(Made(s, path, Dir))
DirThere(s, path, b) ==
    IF DeltaWalk(s, path) = None THEN DirMade(s, path, b)
    ELSE IF IsDirNode(s, DeltaWalk(s, path)) THEN s ELSE Fail(s)
Beside(s, b, n) ==
    IF InBase(Append(b, n)) THEN [s |-> Number(s, Append(b, n)), b |-> Append(b, n)]
    ELSE [s |-> s, b |-> b]
EnsureDir(r, path) ==
    IF r.s.failed THEN r
    ELSE IF BaseFile(r.b) THEN [r EXCEPT !.s = Fail(remove_whiteout(@, path))]
    ELSE [Beside(r.s, r.b, Last(path)) EXCEPT
              !.s = DirThere(remove_whiteout(@, path), path, Append(r.b, Last(path)))]
ensure_parent_dirs(s, path) ==
    LET E[k \in 0..(Len(path) - 1)] ==
            IF k = 0 THEN [s |-> s, b |-> <<>>] ELSE EnsureDir(E[k - 1], SubSeq(path, 1, k))
    IN  E[Len(path) - 1].s

\* copy_up: [s, d], the delta inode of the copy.
Copied(s, path, b, says) ==
    IF s.failed THEN [s |-> s, d |-> None]
    ELSE [d |-> s.nextd,
          s |-> add_origin_mapping(
                    IF says = Dir THEN Commit(Made(s, path, Dir))
                    ELSE CommitClosed(Say(CommitOpen(Made(s, path, Empty)), s.nextd, says)),
                    s.nextd, b)]
copy_up(s, path, b) ==
    IF DeltaWalk(s, path) # None THEN [s |-> s, d |-> DeltaWalk(s, path)]
    ELSE IF ~Known(s, b) THEN [s |-> Fail(s), d |-> None]
    ELSE Copied(ensure_parent_dirs(s, path), path, b, Base[BasePath(s, b)])

\* Mutant: the inode keeps naming the base after the copy.
UpdateMapping_Keeps(c, ino) == c

UpdateMapping(c, ino) ==
    IF c.s.failed THEN c
    ELSE [c EXCEPT !.s.info[ino].layer = "delta", !.s.info[ino].u = c.d,
                   !.s.rev = Put(@, <<"delta", c.d>>, ino)]
copy_up_and_update_mapping(s, ino) ==
    UpdateMapping(copy_up(s, s.info[ino].path, s.info[ino].u), ino)

\* The delta inode to change, copied up first if it is the base's.
InDelta(s, ino) ==
    IF s.info[ino].layer = "delta" THEN [s |-> s, d |-> s.info[ino].u]
    ELSE copy_up_and_update_mapping(s, ino)

-----------------------------------------------------------------------------
(* lookup and the listings.                                                *)

\* An origin of an earlier session, which may be another file's number in this one.
Alias(s, d) == d \in DOMAIN s.origin /\ d \notin s.fresh

DeltaChild(s, inf, n) ==
    IF resolve_delta_parent(s, inf) = None THEN None
    ELSE Child(s, resolve_delta_parent(s, inf), n)
\* The base directory behind an inode: by number, or by walking its path.
BaseDir(s, inf) == IF inf.layer = "base" THEN BasePath(s, inf.u) ELSE inf.path
Walked(s, inf) == IF inf.layer = "base" THEN s ELSE BaseWalk(s, inf.path)

\* An entry of delta goes by the inode its origin had, if that is still in the maps.
DeltaEntry(got, d, path) ==
    IF d \in DOMAIN got.s.origin /\ <<"base", got.s.origin[d]>> \in DOMAIN got.s.rev
      THEN LET ex == got.s.rev[<<"base", got.s.origin[d]>>]
           IN  [got EXCEPT !.s = refresh_overlay_mapping(got.s, ex, "delta", d, path),
                           !.ino = ex, !.alias = Alias(got.s, d)]
      ELSE got
BaseEntry(s, bpath, path) == get_or_create_overlay_ino(s, "base", s.bnum[bpath], path)
LookupIn(s, inf, n, path, d, bpath) ==
    IF is_whiteout(s, path) THEN Missed(s, FALSE)
    ELSE IF d # None THEN DeltaEntry(get_or_create_overlay_ino(s, "delta", d, path), d, path)
    ELSE IF InBase(bpath) THEN BaseEntry(Number(Walked(s, inf), bpath), bpath, path)
    ELSE Missed(Walked(s, inf), Shadowed(BaseDir(s, inf)))
lookup(s, parent, n) ==
    LET inf == s.info[parent]
    IN  LookupIn(s, inf, n, Append(inf.path, n), DeltaChild(s, inf, n), Append(BaseDir(s, inf), n))

Hidden(s, inf, n) == is_whiteout(s, Append(inf.path, n))
BaseNames(s, inf) == {n \in Names : InBase(Append(BaseDir(s, inf), n)) /\ ~Hidden(s, inf, n)}
DeltaNames(s, inf) ==
    {n \in Names : inf.layer = "delta" /\ Child(s, inf.u, n) # None /\ ~Hidden(s, inf, n)}

readdir(s, ino) == BaseNames(s, s.info[ino]) \union DeltaNames(s, s.info[ino])

\* Both listings fail in a directory that stands where the base has a file.
ListingFails(s, ino) == Shadowed(BaseDir(s, s.info[ino]))

\* readdir_plus: [s, ino, alias], the inode of each entry; delta overrides base.
Listed(r, n, got) == [s |-> got.s, ino |-> Put(r.ino, n, got.ino), alias |-> r.alias \/ got.alias]
AddBaseEntry(r, n, inf, bpath) ==
    Listed(r, n, BaseEntry(Number(r.s, bpath), bpath, Append(inf.path, n)))
AddDeltaEntry(r, n, inf, d) ==
    Listed([r EXCEPT !.alias = @ \/ Alias(r.s, d)], n,
           IF d \in DOMAIN r.s.origin
             THEN get_or_create_overlay_ino(r.s, "base", r.s.origin[d], Append(inf.path, n))
             ELSE get_or_create_overlay_ino(r.s, "delta", d, Append(inf.path, n)))
WithBase(s, inf) ==
    FoldSet(LAMBDA n, r : AddBaseEntry(r, n, inf, Append(BaseDir(s, inf), n)),
            [s |-> Walked(s, inf), ino |-> <<>>, alias |-> FALSE], BaseNames(s, inf))
WithDelta(r, inf) ==
    FoldSet(LAMBDA n, q : AddDeltaEntry(q, n, inf, Child(q.s, inf.u, n)), r, DeltaNames(r.s, inf))
readdir_plus(s, ino) == WithDelta(WithBase(s, s.info[ino]), s.info[ino])

-----------------------------------------------------------------------------
(* What is there, by path: a fresh mount would show it.                    *)

AllPaths == UNION {[1..k -> Names] : k \in 1..MaxDepth}
Stored(s, p) == DeltaWalk(s, p) # None
Exists(s, p) == ~is_whiteout(s, p) /\ (Stored(s, p) \/ InBase(p))
SaysAt(s, p) == IF Stored(s, p) THEN s.node[DeltaWalk(s, p)] ELSE Base[p]
Visible(s, p) ==
    \A k \in 1..Len(p) : /\ Exists(s, SubSeq(p, 1, k))
                         /\ k < Len(p) => SaysAt(s, SubSeq(p, 1, k)) = Dir
View(s) == [p \in {q \in AllPaths : Visible(s, q)} |-> SaysAt(s, p)]
IsDirAt(p) == p = <<>> \/ (Visible(fs, p) /\ SaysAt(fs, p) = Dir)

-----------------------------------------------------------------------------
(* Requests.  The kernel has the parent's entry, and has looked the name   *)
(* up first: it asks to create what is not there and to change what is.    *)

Init ==
    /\ fs = Mounted(NewTables)
    /\ dcache = [p \in {<<>>} |-> Root]
    /\ torn = {}
    /\ ops = 0 /\ sessions = 1

Strays(p) == fs.info[dcache[p]].path # p
TornBy(stray, alias) ==
    (IF stray THEN {"path"} ELSE {}) \union (IF alias THEN {"origin"} ELSE {})
Settled(s) == [s EXCEPT !.log = <<>>, !.open = FALSE, !.failed = FALSE]
Fresh(t) == fs' = Mounted(t) /\ dcache' = [p \in {<<>>} |-> Root] /\ sessions' = sessions + 1

\* The request ends, or the process dies between two of its commits.
Ends(s, entries, tears) ==
    /\ ops' = ops + 1
    /\ \/ /\ fs' = Settled(s)
          /\ dcache' = IF s.failed THEN dcache ELSE entries
          /\ torn' = torn \union tears
          /\ UNCHANGED sessions
       \/ /\ sessions < MaxSessions
          /\ \E k \in 1..(Len(s.log) - 1) :
                /\ Fresh(s.log[k].tables)
                /\ torn' = torn \union tears \union (IF s.log[k].open THEN {"crash"} ELSE {})

Lookup(p) ==
    /\ Front(p) \in DOMAIN dcache /\ IsDirAt(Front(p)) /\ p \notin DOMAIN dcache
    /\ LET l == lookup(fs, dcache[Front(p)], Last(p))
       IN  /\ l.ino # None
           /\ fs' = l.s
           /\ dcache' = Put(dcache, p, l.ino)
           /\ torn' = torn \union TornBy(Strays(Front(p)), l.alias)
    /\ UNCHANGED <<ops, sessions>>

\* An inode of the base for a path that delta has.
Demoted(s, ino) == s.info[ino].layer = "base" /\ Stored(s, s.info[ino].path)

ReadDirPlus(p) ==
    /\ p \in DOMAIN dcache /\ IsDirAt(p) /\ Len(p) < MaxDepth
    /\ LET r == readdir_plus(fs, dcache[p])
       IN  /\ fs' = r.s
           /\ dcache' = [q \in DOMAIN dcache \union {Append(p, n) : n \in DOMAIN r.ino} |->
                            IF q # <<>> /\ Front(q) = p /\ Last(q) \in DOMAIN r.ino
                              THEN r.ino[Last(q)] ELSE dcache[q]]
           /\ ~ListingFails(fs, dcache[p])
           /\ torn' = torn \union TornBy(Strays(p), r.alias)
                          \union (IF \E n \in DOMAIN r.ino : Demoted(r.s, r.ino[n])
                                    THEN {"listing"} ELSE {})
    /\ UNCHANGED <<ops, sessions>>

\* chmod, chown, utimens and open: the copy-up, which shows nothing.
Touch(p) ==
    /\ ops < MaxOps /\ p \in DOMAIN dcache \ {<<>>}
    /\ ~is_whiteout(fs, fs.info[dcache[p]].path)
    /\ fs.info[dcache[p]].layer = "base"
    /\ Ends(copy_up_and_update_mapping(fs, dcache[p]).s, dcache, TornBy(Strays(p), FALSE))

\* open and a write that replaces what the file says.
Write(p, v) ==
    /\ ops < MaxOps /\ p \in DOMAIN dcache \ {<<>>} /\ ~IsDirAt(p)
    /\ ~is_whiteout(fs, fs.info[dcache[p]].path)
    /\ \E c \in {InDelta(fs, dcache[p])} :
          /\ c.s.failed \/ c.d \in DOMAIN c.s.node
          /\ Ends(IF c.s.failed THEN c.s ELSE Commit(Say(c.s, c.d, v)),
                  dcache, TornBy(Strays(p), FALSE))

\* Where an operation puts an entry: the delta parent, or None, once the whiteout of the
\* path is gone and the directories above it are in delta.
Placed(s, parent) == [s |-> s, at |-> resolve_delta_parent(s, parent)]
Place(s, parent, path) ==
    IF s.failed THEN [s |-> s, at |-> None]
    ELSE Placed(ensure_parent_dirs(remove_whiteout(s, path), path), parent)

\* mkdir, create_file, mknod and symlink.
NewEntry(r, n, path, says) ==
    IF r.s.failed \/ r.at = None \/ Child(r.s, r.at, n) # None THEN Missed(Fail(r.s), TRUE)
    ELSE get_or_create_overlay_ino(Commit(NewNode(r.s, r.at, n, says)), "delta", r.s.nextd, path)
Create(p, says) ==
    /\ ops < MaxOps
    /\ Front(p) \in DOMAIN dcache /\ IsDirAt(Front(p)) /\ p \notin DOMAIN dcache
    /\ \E parent \in {fs.info[dcache[Front(p)]]} :
       \E path \in {Append(parent.path, Last(p))} :
       \E l \in {lookup(fs, dcache[Front(p)], Last(p))} :
          /\ l.ino = None /\ ~l.err
          /\ \E made \in {NewEntry(Place(l.s, parent, path), Last(p), path, says)} :
                Ends(made.s, Put(dcache, p, made.ino), TornBy(Strays(Front(p)), FALSE))

\* A whiteout, if something still shows at the path; the lookup may fail.
Whited(l, path) ==
    IF l.err THEN Fail(l.s) ELSE IF l.ino # None THEN create_whiteout(l.s, path) ELSE l.s
HideBase(s, parent, n) == Whited(lookup(s, parent, n), Append(s.info[parent].path, n))

\* Mutant: the base is hidden only if delta had nothing to remove.
Removed_Delta(s, parent, n) ==
    IF DeltaChild(s, s.info[parent], n) = None THEN HideBase(s, parent, n)
    ELSE Commit(DropEntry(s, resolve_delta_parent(s, s.info[parent]), n))

\* What unlink and rmdir do once they may: the entry of delta, then the base's.
Dropped(s, parent, n) ==
    IF DeltaChild(s, s.info[parent], n) = None THEN s
    ELSE IF InBase(Append(s.info[parent].path, n))
      THEN CommitOpen(DropEntry(s, resolve_delta_parent(s, s.info[parent]), n))
      ELSE Commit(DropEntry(s, resolve_delta_parent(s, s.info[parent]), n))
Removed(s, parent, n) == HideBase(Dropped(s, parent, n), parent, n)
Shadow(s) == IF s.failed THEN {"shadow"} ELSE {}

Unlink(p) ==
    /\ ops < MaxOps /\ p \in DOMAIN dcache \ {<<>>} /\ ~IsDirAt(p)
    /\ \E l \in {lookup(fs, dcache[Front(p)], Last(p))} :
          /\ l.ino # None
          /\ \E s \in {Removed(l.s, dcache[Front(p)], Last(p))} :
                Ends(s, Without(dcache, {p}), TornBy(Strays(Front(p)), l.alias) \union Shadow(s))

Rmdir(p) ==
    /\ ops < MaxOps /\ p \in DOMAIN dcache \ {<<>>} /\ IsDirAt(p)
    /\ \E l \in {lookup(fs, dcache[Front(p)], Last(p))} :
          /\ l.ino # None
          /\ ~ListingFails(l.s, l.ino) /\ readdir(l.s, l.ino) = {}
          /\ \E s \in {Removed(l.s, dcache[Front(p)], Last(p))} :
                Ends(s, Without(dcache, {p}),
                     TornBy(Strays(Front(p)) \/ Strays(p), l.alias) \union Shadow(s))

\* link: the copy-up leaves the inode where it was in the maps.
LinkSource(s, inf) ==
    IF inf.layer = "delta" THEN [s |-> s, d |-> inf.u] ELSE copy_up(s, inf.path, inf.u)
Linked(r, n, d) ==
    IF r.s.failed \/ r.at = None \/ d \notin DOMAIN r.s.node THEN Fail(r.s)
    ELSE Commit([r.s EXCEPT !.dent = Put(@, <<r.at, n>>, d)])
Link(p, q) ==
    /\ ops < MaxOps /\ p \in DOMAIN dcache \ {<<>>} /\ ~IsDirAt(p)
    /\ Front(q) \in DOMAIN dcache /\ IsDirAt(Front(q)) /\ q \notin DOMAIN dcache
    /\ \E to \in {fs.info[dcache[Front(q)]]} :
       \E l \in {lookup(fs, dcache[Front(q)], Last(q))} :
          /\ l.ino = None /\ ~l.err
          /\ \E c \in {LinkSource(l.s, fs.info[dcache[p]])} :
                Ends(Linked(Place(c.s, to, Append(to.path, Last(q))), Last(q), c.d),
                     Put(dcache, q, dcache[p]), TornBy(Strays(p) \/ Strays(Front(q)), FALSE))

\* The base has something below p.
BaseBelow(p) == \E r \in DOMAIN Base : IsPrefix(p, r) /\ r # p

MovedEntries(p, q) ==
    LET below == {r \in DOMAIN dcache : IsPrefix(p, r)}
        keep == {r \in DOMAIN dcache : ~IsPrefix(p, r) /\ ~IsPrefix(q, r)}
    IN  [r \in keep \union {q \o SubSeq(x, Len(p) + 1, Len(x)) : x \in below} |->
            IF r \in keep THEN dcache[r] ELSE dcache[p \o SubSeq(r, Len(q) + 1, Len(r))]]

\* rename in delta.
Refused(s, from, n, to, m) ==
    \/ Child(s, from, n) = None
    \/ /\ Child(s, to, m) # None
       /\ \/ IsDirNode(s, Child(s, to, m)) # IsDirNode(s, Child(s, from, n))
          \/ \E x \in Names : Child(s, Child(s, to, m), x) # None
MoveNode(s, from, n, to, m, i) ==
    [(IF Child(s, to, m) # None THEN DropEntry(s, to, m) ELSE s)
        EXCEPT !.dent = Put(Without(@, {<<from, n>>}), <<to, m>>, i)]

RenameSource(s, src, path) == IF src.layer = "base" THEN copy_up(s, path, src.u).s ELSE s
RenameInDelta(s, from, n, to, m, oldpath) ==
    IF s.failed \/ from = None \/ to = None \/ Refused(s, from, n, to, m) THEN Fail(s)
    ELSE IF InBase(oldpath) THEN CommitOpen(MoveNode(s, from, n, to, m, Child(s, from, n)))
    ELSE Commit(MoveNode(s, from, n, to, m, Child(s, from, n)))
Renamed(r, old, n, m, oldpath) ==
    RenameInDelta(r.s, resolve_delta_parent(r.s, old), n, r.at, m, oldpath)

Rename(p, q) ==
    /\ ops < MaxOps /\ p \in DOMAIN dcache \ {<<>>} /\ q # <<>> /\ ~IsPrefix(p, q)
    /\ Len(q) + (IF IsDirAt(p) THEN 1 ELSE 0) <= MaxDepth
    /\ Front(q) \in DOMAIN dcache /\ IsDirAt(Front(q))
    /\ q \in DOMAIN dcache \/ \E k \in {lookup(fs, dcache[Front(q)], Last(q))} :
                                  k.ino = None /\ ~k.err
    /\ q \in DOMAIN dcache => (IsDirAt(p) <=> IsDirAt(q)) /\ dcache[p] # dcache[q]
    /\ \E old \in {fs.info[dcache[Front(p)]]}, new \in {fs.info[dcache[Front(q)]]} :
       \E l \in {lookup(fs, dcache[Front(p)], Last(p))} :
          /\ l.ino # None
          /\ \E c \in {RenameSource(l.s, l.s.info[l.ino], Append(old.path, Last(p)))} :
             \E r \in {Renamed(Place(c, new, Append(new.path, Last(q))),
                               old, Last(p), Last(q), Append(old.path, Last(p)))} :
             \E s \in {IF r.failed THEN r ELSE HideBase(r, dcache[Front(p)], Last(p))} :
                Ends(s, MovedEntries(p, q),
                     TornBy(Strays(Front(p)) \/ Strays(Front(q)) \/ Strays(p), l.alias)
                       \union (IF r.failed THEN {} ELSE Shadow(s))
                       \union (IF IsDirAt(p) /\ (BaseBelow(p) \/ BaseBelow(q)) THEN {"dir"} ELSE {}))

\* Unmount, or a crash between two requests, and a new mount.
Remount ==
    /\ sessions < MaxSessions
    /\ Fresh(Tables(fs))
    /\ UNCHANGED <<torn, ops>>

Next ==
    \/ \E p \in AllPaths : \/ Lookup(p) \/ Touch(p) \/ Unlink(p) \/ Rmdir(p)
                           \/ \E says \in {Dir, Empty} : Create(p, says)
                           \/ \E v \in Values : Write(p, v)
                           \/ \E q \in AllPaths : Link(p, q) \/ Rename(p, q)
    \/ \E p \in AllPaths \union {<<>>} : ReadDirPlus(p)
    \/ Remount

Spec == Init /\ [][Next]_vars

-----------------------------------------------------------------------------
(* Properties.                                                             *)

Whole == torn = {}

\* What an inode answers: getattr, without the attributes.
Gone == "gone"
Stat(s, ino) ==
    LET inf == s.info[ino]
    IN  IF is_whiteout(s, inf.path) THEN Gone
        ELSE IF inf.layer = "delta"
          THEN (IF inf.u \in DOMAIN s.node THEN s.node[inf.u] ELSE Gone)
          ELSE (IF Known(s, inf.u) /\ InBase(BasePath(s, inf.u)) /\ BasePath(s, inf.u) # <<>>
                  THEN Base[BasePath(s, inf.u)] ELSE Gone)

\* The tables, the maps and the kernel's entries have their shape.
TypeOK ==
    /\ \A e \in DOMAIN fs.dent : fs.dent[e] \in DOMAIN fs.node /\ IsDirNode(fs, e[1])
    /\ \A i \in DOMAIN fs.node : i \in 1..(fs.nextd - 1)
                                 /\ fs.node[i] \in {Dir, Empty} \union Values
                                                   \union {Base[p] : p \in DOMAIN Base}
    /\ DOMAIN fs.info = 1..(fs.next - 1)
    /\ \A k \in DOMAIN fs.rev : fs.rev[k] \in DOMAIN fs.info
    /\ \A p \in DOMAIN dcache : dcache[p] \in DOMAIN fs.info
    /\ fs.log = <<>> /\ ~fs.failed
    /\ torn \subseteq {"path", "origin", "listing", "dir", "shadow", "crash"}

\* Outside the windows, copy-ups, whiteouts, mounts and crashes do not show: the merged
\* tree changes only as the requests say.
Merged == INSTANCE UnionTree WITH view <- View(fs)
Implements ==
    Merged!Init /\ [][torn' # {} \/ View(fs)' = View(fs) \/ Merged!Next]_(View(fs))

\* The inode the kernel holds for a path answers for what is at that path, through
\* copy-ups and promotions of the directories above it.
KernelAgrees ==
    Whole => \A p \in DOMAIN dcache \ {<<>>} : ~Strays(p) =>
        Visible(fs, p) /\ Stat(fs, dcache[p]) = SaysAt(fs, p)

\* A lookup through the directory inode the kernel holds finds exactly what is there, and a
\* listing names exactly that.  Only where the directory stands over a file of the base
\* are absences, and listings, errors: what is there is still found.
LookupAgrees ==
    Whole => \A p \in DOMAIN dcache : IsDirAt(p) /\ ~Strays(p) /\ Len(p) < MaxDepth =>
        /\ ListingFails(fs, dcache[p]) <=> Shadowed(p)
        /\ \A n \in Names :
            LET l == lookup(fs, dcache[p], n)
                there == Visible(fs, Append(p, n))
            IN  /\ l.ino # None <=> there
                /\ l.err <=> Shadowed(p) /\ ~there
                /\ n \in readdir(fs, dcache[p]) <=> there
                /\ there /\ ~l.alias /\ l.s.info[l.ino].path = Append(p, n)
                      => Stat(l.s, l.ino) = SaysAt(fs, Append(p, n))

=============================================================================
