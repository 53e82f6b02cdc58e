----------------------------- MODULE UnionTree -----------------------------
(***************************************************************************)
(* What a copy-on-write overlay promises: a tree that starts as the base   *)
(* and then changes only as its clients ask.  Layers, copies and whiteouts *)
(* do not show.                                                            *)
(***************************************************************************)
EXTENDS Naturals, Sequences

CONSTANTS
    Base,       \* the base tree: what each path says
    Names,      \* names in a directory
    Dir,        \* what a directory says
    Empty,      \* what a new file says
    Values      \* what files may be made to say

VARIABLE view   \* what each visible path says

IsPrefix(p, q) == Len(p) <= Len(q) /\ SubSeq(q, 1, Len(p)) = p
IsDir(p) == p = <<>> \/ (p \in DOMAIN view /\ view[p] = Dir)
Parent(p) == SubSeq(p, 1, Len(p) - 1)
Below(p) == {q \in DOMAIN view : IsPrefix(p, q) /\ q # p}
Rest(p, q) == SubSeq(q, Len(p) + 1, Len(q))

Init == view = Base

\* One new path.
Create(p) ==
    /\ p \notin DOMAIN view /\ p # <<>> /\ IsDir(Parent(p))
    /\ view'[p] \in {Dir, Empty}
    /\ DOMAIN view' = DOMAIN view \union {p}
    /\ \A q \in DOMAIN view : view'[q] = view[q]

\* A second path for a file.
Link(p, q) ==
    /\ p \in DOMAIN view /\ ~IsDir(p) /\ q \notin DOMAIN view /\ IsDir(Parent(q))
    /\ view' = [r \in DOMAIN view \union {q} |-> IF r = q THEN view[p] ELSE view[r]]

\* A file says something new, under each of its paths.
Write(p, v) ==
    /\ p \in DOMAIN view /\ ~IsDir(p)
    /\ DOMAIN view' = DOMAIN view
    /\ view'[p] = v
    /\ \A q \in DOMAIN view \ {p} : view'[q] = view[q] \/ (view[q] = view[p] /\ view'[q] = v)

Remove(p) ==
    /\ p \in DOMAIN view /\ Below(p) = {}
    /\ view' = [q \in DOMAIN view \ {p} |-> view[q]]

\* A path moves with everything below it.
Move(p, q) ==
    /\ p \in DOMAIN view /\ ~IsPrefix(p, q) /\ IsDir(Parent(q))
    /\ q \in DOMAIN view => (IsDir(p) <=> IsDir(q)) /\ Below(q) = {}
    /\ LET moved == Below(p) \union {p}
           stay == DOMAIN view \ (moved \union {q})
       IN  /\ DOMAIN view' = stay \union {q \o Rest(p, r) : r \in moved}
           /\ \A r \in stay : view'[r] = view[r]
           /\ \A r \in moved : view'[q \o Rest(p, r)] = view[r]

Next ==
    \/ \E p \in DOMAIN view' \ DOMAIN view : Create(p) \/ \E q \in DOMAIN view : Link(q, p)
    \/ \E p \in DOMAIN view : \/ Remove(p)
                              \/ \E v \in Values : Write(p, v)
                              \/ \E q \in DOMAIN view' : Move(p, q)

Spec == Init /\ [][Next]_view
=============================================================================
