------------------------------ MODULE FileTree ------------------------------
(***************************************************************************)
(* What a filesystem promises its clients, one atomic step per operation:  *)
(* names in directories that stand for objects, and files that are         *)
(* sequences of bytes.  An object lives as long as it has a name; nothing  *)
(* but a write or a truncation changes what a named file says.             *)
(***************************************************************************)
EXTENDS Naturals, Sequences

CONSTANTS
    Names,      \* names in a directory
    Objects,    \* objects that may ever exist, the root included
    Root,       \* the root directory
    Dir,        \* what a directory says
    Offsets,    \* positions writes start at
    Payloads,   \* what writes put there
    Sizes,      \* sizes truncations ask for
    Contents    \* what the files of a tree made at once say

VARIABLES
    names,      \* the object behind each <<directory, name>>
    says        \* Dir or the bytes of each named object

treeVars == <<names, says>>

Live == {names[e] : e \in DOMAIN names}
IsDir(o) == o = Root \/ (o \in Live /\ says[o] = Dir)
IsEmpty(o) == \A e \in DOMAIN names : e[1] # o
Slots == {d \in Objects : IsDir(d)} \X Names

Written(bytes, off, data) ==
    [p \in 1..(IF Len(bytes) >= off + Len(data) THEN Len(bytes) ELSE off + Len(data)) |->
        IF off < p /\ p <= off + Len(data) THEN data[p - off]
        ELSE IF p <= Len(bytes) THEN bytes[p] ELSE 0]
Resized(bytes, n) == [p \in 1..n |-> IF p <= Len(bytes) THEN bytes[p] ELSE 0]

\* Every object that still has a name says what it said.
Keep(objects) == \A o \in objects : says'[o] = says[o]
SaysNamed == DOMAIN says' = {names'[e] : e \in DOMAIN names'}

Init == names = <<>> /\ says = <<>>

\* A new object, empty or with a first write.
Create(e, o) ==
    /\ e \notin DOMAIN names /\ o \notin Live /\ o # Root
    /\ names' = [x \in DOMAIN names \union {e} |-> IF x = e THEN o ELSE names[x]]
    /\ says'[o] \in {Dir, <<>>} \union {Written(<<>>, off, data) : off \in Offsets, data \in Payloads}
    /\ Keep(Live)

\* A tree of new objects at once; files it meets on the way may be written too.
Materialize ==
    LET new == DOMAIN names' \ DOMAIN names
    IN  /\ \A e \in DOMAIN names : e \in DOMAIN names' /\ names'[e] = names[e]
        /\ \A e \in new :
             /\ names'[e] \in Objects \ (Live \union {Root})
             /\ e[2] \in Names
             /\ IsDir(e[1]) \/ \E f \in new : names'[f] = e[1] /\ says'[e[1]] = Dir
             /\ \A f \in new : names'[f] = names'[e] => f = e
             /\ says'[names'[e]] \in {Dir, <<>>} \union Contents
        /\ \A o \in Live : says'[o] = says[o] \/ (~IsDir(o) /\ says'[o] \in Contents)

\* A second name for a file.
Link(e, o) ==
    /\ e \notin DOMAIN names /\ o \in Live /\ ~IsDir(o)
    /\ names' = [x \in DOMAIN names \union {e} |-> IF x = e THEN o ELSE names[x]]
    /\ Keep(Live)

\* A file, or an empty directory, loses a name.
Remove(e) ==
    /\ e \in DOMAIN names
    /\ IsDir(names[e]) => IsEmpty(names[e])
    /\ names' = [x \in DOMAIN names \ {e} |-> names[x]]
    /\ Keep({names'[x] : x \in DOMAIN names'})

\* A name moves, taking the place of a file or of an empty directory.
Rename(e, f) ==
    /\ e \in DOMAIN names /\ e # f
    /\ f \in DOMAIN names =>
         /\ IsDir(names[e]) <=> IsDir(names[f])
         /\ IsDir(names[f]) => IsEmpty(names[f])
    /\ names' = [x \in (DOMAIN names \ {e}) \union {f} |-> IF x = f THEN names[e] ELSE names[x]]
    /\ Keep({names'[x] : x \in DOMAIN names'})

\* The bytes of one file change.
Change(o) ==
    /\ o \in Live /\ ~IsDir(o)
    /\ UNCHANGED names
    /\ \/ \E off \in Offsets, data \in Payloads : says'[o] = Written(says[o], off, data)
       \/ \E n \in Sizes : says'[o] = Resized(says[o], n)
    /\ Keep(Live \ {o})

Next ==
    /\ SaysNamed
    /\ \/ Materialize
       \/ \E e \in Slots, o \in Objects : Create(e, o) \/ Link(e, o)
       \/ \E e \in DOMAIN names : Remove(e)
       \/ \E e \in DOMAIN names, f \in Slots : Rename(e, f)
       \/ \E o \in Live : Change(o)

Spec == Init /\ [][Next]_treeVars
=============================================================================
