-------------------------- MODULE ActionSinkProofs --------------------------
(***************************************************************************)
(* Proofs about ActionSink: its types; that no cursor, in memory or on     *)
(* disk, passes a committed request that was not consumed; that requests   *)
(* are handed over in the order of their lines; that a payload is whole    *)
(* lines and says what they say; and that a retry or a replay reads the    *)
(* same requests.  They hold for any sinks, any writes of the clients, any *)
(* lengths, limits of the multiline recovery and sizes of the boundary     *)
(* probe, and any number of retries, errors, failed commits and crashes.   *)
(***************************************************************************)
EXTENDS ActionSink, SequenceTheorems, WellFoundedInduction, TLAPS

\* NUL bytes stand at the start of lines.
NulsAtStart(b) == \A i \in 2..Len(b) : b[i] = "nul" => b[i - 1] \in {"nl", "nul"}
AtStart(b, p) == p = 0 \/ b[p] \in {"nl", "nul"}

\* A committed one-line request at position p of b, and what is to be done below an offset.
LineOfRequest(b, p) ==
    p + 2 <= Len(b) /\ b[p + 1] = "req" /\ b[p + 2] = "nl" /\ AtStart(b, p)
Below(b, finished, offset) ==
    \A p \in 0..MaxLen : LineOfRequest(b, p) /\ p + 2 <= offset => RequestOf(p) \in finished

\* A cursor that is at the start of a line of b, remembers the bytes before it, and
\* has left no request behind.
GoodCursor(b, finished, c) ==
    /\ c.offset <= Len(b)
    /\ AtStart(b, c.offset)
    /\ c.probe = <<>> \/ c.probe = boundary_probe_from_bytes(b, c.offset)
    /\ Below(b, finished, c.offset)

Extends(b, a) == Len(a) <= Len(b) /\ \A i \in 1..Len(a) : b[i] = a[i]

Shape ==
    /\ TypeOK
    /\ \A s \in Sinks : NulsAtStart(bytes[s])
    /\ pc = "line" => cursor.offset <= Len(snap) /\ NulsAtStart(snap)

\* Inductive, together with Shape: while clients only append, every copy of every
\* cursor is good, the working one for the bytes that were read.
OrderInv ==
    AppendOnly =>
    /\ \A s \in Sinks :
         /\ GoodCursor(bytes[s], done[s], cursorFile[s])
         /\ GoodCursor(bytes[s], done[s], cursors[s])
         /\ GoodCursor(bytes[s], done[s], next[s])
         /\ \A x \in submitted[s] : x.off <= Len(bytes[s]) /\ Below(bytes[s], done[s], x.off)
    /\ pc = "read" => GoodCursor(bytes[Sink], done[Sink], cursor)
    /\ pc = "line" => Extends(bytes[Sink], snap) /\ GoodCursor(snap, done[Sink], cursor)

-----------------------------------------------------------------------------
(* Lines.                                                                  *)

\* Every set of naturals that is not empty has a least element: what the inductions
\* below rest on.
LEMMA LeastNat ==
  ASSUME NEW T, T \subseteq Nat, T # {}
  PROVE  \E x \in T : \A y \in T : x <= y
<1>. DEFINE R == {ss \in Nat \X Nat : ss[1] < ss[2]}
<1>1. IsWellFoundedOn(R, Nat)
  BY NatLessThanWellFounded DEF OpToRel
<1>2. PICK x \in T : \A y \in T : ~(<<y, x>> \in R)
  <2>. HIDE DEF R
  <2>. QED BY <1>1, WFMin, Zenon
<1>3. \A y \in T : <<y, x>> \in R <=> y < x
  OBVIOUS
<1>. HIDE DEF R
<1>4. \A y \in T : ~(y < x)
  BY <1>2, <1>3
<1>. QED BY <1>4

\* SkipNul stops at the first symbol that is no NUL, or at the end.
LEMMA SkipNulOK ==
  ASSUME NEW b \in Seq(Symbols), NEW from \in Nat, from <= Len(b)
  PROVE  /\ SkipNul(b, from) \in from..Len(b)
         /\ \A i \in (from + 1)..SkipNul(b, from) : b[i] = "nul"
         /\ SkipNul(b, from) < Len(b) => b[SkipNul(b, from) + 1] # "nul"
<1>. DEFINE Q(p) == /\ \A i \in (from + 1)..p : b[i] = "nul"
                    /\ p < Len(b) => b[p + 1] # "nul"
            T == {p \in from..Len(b) : p < Len(b) => b[p + 1] # "nul"}
<1>0. Len(b) \in Nat
  OBVIOUS
<1>1. Len(b) \in T /\ T \subseteq Nat
  BY <1>0
<1>2. PICK p \in T : \A y \in T : p <= y
  <2>. HIDE DEF T
  <2>. QED BY <1>1, LeastNat
<1>3. ASSUME NEW i \in (from + 1)..p PROVE b[i] = "nul"
  <2>1. i - 1 \in from..Len(b) /\ ~(p <= i - 1) /\ (i - 1) + 1 = i /\ i - 1 < Len(b)
    BY <1>0, <1>2
  <2>2. i - 1 \notin T
    BY <1>2, <2>1
  <2>. QED BY <2>1, <2>2
<1>4. p \in from..Len(b) /\ Q(p)
  BY <1>2, <1>3
<1>. HIDE DEF Q
<1>5. \E q \in from..Len(b) : Q(q)
  BY <1>4
<1>6. LET q == CHOOSE q \in from..Len(b) : Q(q) IN q \in from..Len(b) /\ Q(q)
  BY <1>5
<1>. QED BY <1>6 DEF SkipNul, Q

\* A line ends at its first line feed; its body is what lies before.
LEMMA LineOK ==
  ASSUME NEW b \in Seq(Symbols), NEW p \in Nat, p <= Len(b), HasLine(b, p)
  PROVE  /\ LineEnd(b, p) \in (p + 1)..Len(b)
         /\ b[LineEnd(b, p)] = "nl"
         /\ \A i \in (p + 1)..(LineEnd(b, p) - 1) : b[i] # "nl"
         /\ LineBody(b, p) \in Seq(Symbols \ {"nl"})
         /\ Len(LineBody(b, p)) = LineEnd(b, p) - 1 - p
         /\ \A i \in 1..(LineEnd(b, p) - 1 - p) : LineBody(b, p)[i] = b[p + i]
<1>. DEFINE Q(e) == b[e] = "nl" /\ \A i \in (p + 1)..(e - 1) : b[i] # "nl"
            T == {e \in (p + 1)..Len(b) : b[e] = "nl"}
<1>0. Len(b) \in Nat /\ \A i \in 1..Len(b) : b[i] \in Symbols
  OBVIOUS
<1>1. T # {} /\ T \subseteq Nat
  BY <1>0 DEF HasLine
<1>2. PICK e \in T : \A y \in T : e <= y
  <2>. HIDE DEF T
  <2>. QED BY <1>1, LeastNat
<1>3. ASSUME NEW i \in (p + 1)..(e - 1) PROVE b[i] # "nl"
  <2>1. i \notin T /\ i \in (p + 1)..Len(b)
    BY <1>0, <1>2
  <2>. QED BY <2>1
<1>4. e \in (p + 1)..Len(b) /\ Q(e)
  BY <1>2, <1>3
<1>. HIDE DEF Q
<1>5. LET q == CHOOSE q \in (p + 1)..Len(b) : Q(q) IN q \in (p + 1)..Len(b) /\ Q(q)
  BY <1>4
<1>6. LineEnd(b, p) \in (p + 1)..Len(b) /\ Q(LineEnd(b, p))
  BY <1>5 DEF LineEnd, Q
<1>. DEFINE end == LineEnd(b, p)
<1>. HIDE DEF end
<1>7. end \in (p + 1)..Len(b) /\ Q(end)
  BY <1>6 DEF end
<1>8. /\ SubSeq(b, p + 1, end - 1) \in Seq(Symbols) /\ Len(SubSeq(b, p + 1, end - 1)) = end - 1 - p
      /\ \A i \in 1..(end - 1 - p) : SubSeq(b, p + 1, end - 1)[i] = b[p + i]
  BY <1>0, <1>7
<1>9. \A i \in 1..(end - 1 - p) : b[p + i] \in Symbols \ {"nl"}
  BY <1>0, <1>7 DEF Q
<1>10. LineBody(b, p) = SubSeq(b, p + 1, end - 1)
  BY DEF LineBody, end
<1>11. LineBody(b, p) \in Seq(Symbols \ {"nl"})
  BY <1>8, <1>9, <1>10
<1>. QED BY <1>7, <1>8, <1>10, <1>11 DEF Q, end

\* Within a line that does not begin with NUL there is none.
LEMMA NoNulInside ==
  ASSUME NEW b \in Seq(Symbols), NulsAtStart(b), NEW p \in Nat, NEW e \in Nat, e <= Len(b),
         p < e, b[p + 1] # "nul", \A i \in (p + 1)..(e - 1) : b[i] # "nl"
  PROVE  \A i \in (p + 1)..(e - 1) : b[i] # "nul"
<1>. DEFINE T == {i \in (p + 1)..(e - 1) : b[i] = "nul"}
<1>. SUFFICES ASSUME T # {} PROVE FALSE
  OBVIOUS
<1>1. T \subseteq Nat
  OBVIOUS
<1>2. PICK i \in T : \A y \in T : i <= y
  <2>. HIDE DEF T
  <2>. QED BY <1>1, LeastNat
<1>3. i \in 2..Len(b) /\ i - 1 \in (p + 1)..(e - 1) /\ i - 1 \notin T
  BY <1>2
<1>4. b[i - 1] \in {"nl", "nul"}
  BY <1>2, <1>3 DEF NulsAtStart
<1>. QED BY <1>3, <1>4

-----------------------------------------------------------------------------
(* Joined lines.                                                           *)

\* What the loop of classify_multiline_json_payload has: it is at the end of a line,
\* and a request among the lines joined so far would show in the payload.
MergeState ==
    [st : {"loop", "eof", "break", "recovered"}, pos : Nat, merged : Seq(PayloadSymbols),
     alone : BOOLEAN]
HasRequest(p) == \E j \in 1..Len(p) : p[j] = "req"
Merged(b, off, m) ==
    /\ m \in MergeState
    /\ off < m.pos /\ m.pos <= Len(b) /\ b[m.pos] = "nl"
    /\ (\E i \in (off + 1)..m.pos : b[i] = "req") => HasRequest(m.merged)
    /\ m.st = "recovered" => ~HasRequest(m.merged)

\* A payload with a joint that is JSON holds no whole request.
LEMMA JoinedJson ==
  ASSUME NEW x \in Seq(PayloadSymbols), NEW y \in Seq(PayloadSymbols), IsJson(x \o <<"esc">> \o y)
  PROVE  ~HasRequest(x \o <<"esc">> \o y)
<1>. DEFINE z == x \o <<"esc">> \o y
<1>1. z[Len(x) + 1] = "esc" /\ Len(z) = Len(x) + 1 + Len(y) /\ Len(x) \in Nat /\ Len(y) \in Nat
  OBVIOUS
<1>. HIDE DEF z
<1>2. z # <<"req">>
  BY <1>1
<1>3. /\ Len(z) >= 2 /\ z[1] = "frag" /\ z[Len(z)] = "frag"
      /\ \A i \in 2..(Len(z) - 1) : z[i] \in {"text", "esc"}
  BY <1>2 DEF IsJson, z
<1>4. \A j \in 1..Len(z) : j = 1 \/ j = Len(z) \/ j \in 2..(Len(z) - 1)
  BY <1>1
<1>. QED BY <1>3, <1>4 DEF HasRequest, z

\* The body of a line that can be decoded is part of a payload.
LEMMA BodyType ==
  ASSUME NEW b \in Seq(Symbols), NEW p \in Nat, p <= Len(b), HasLine(b, p),
         ~Undecodable(LineBody(b, p))
  PROVE  LineBody(b, p) \in Seq(PayloadSymbols)
<1>. DEFINE body == LineBody(b, p)
<1>1. body \in Seq(Symbols \ {"nl"})
  BY LineOK
<1>. HIDE DEF body
<1>2. \A i \in 1..Len(body) : body[i] # "bin"
  BY DEF Undecodable, body
<1>3. \A i \in 1..Len(body) : body[i] \in PayloadSymbols
  BY <1>1, <1>2 DEF PayloadSymbols
<1>4. body \in Seq(PayloadSymbols)
  BY <1>1, <1>3
<1>. QED BY <1>4 DEF body

\* One more line.
LEMMA MergeLineOK ==
  ASSUME NEW b \in Seq(Symbols), NEW off \in Nat, NEW m, Merged(b, off, m)
  PROVE  Merged(b, off, MergeLine(b, m))
<1>. DEFINE p == SkipNul(b, m.pos)
            body == LineBody(b, p)
            alone == m.alone \/ IsJson(body)
            joined == m.merged \o <<"esc">> \o body
            more == [st |-> IF IsJson(joined) THEN "recovered" ELSE "loop",
                     pos |-> LineEnd(b, p), merged |-> joined, alone |-> alone]
<1>1. m \in MergeState /\ m.pos \in Nat /\ m.merged \in Seq(PayloadSymbols) /\ m.pos <= Len(b)
  BY DEF Merged, MergeState
<1>2. /\ p \in Nat /\ p <= Len(b) /\ m.pos <= p
      /\ \A i \in (m.pos + 1)..p : b[i] = "nul"
  BY <1>1, SkipNulOK
<1>3. alone \in BOOLEAN
  BY <1>1 DEF MergeState
<1>4. ASSUME NEW n, n \in {[m EXCEPT !.st = "eof"], [m EXCEPT !.st = "break"],
                           [m EXCEPT !.st = "break", !.alone = alone]}
      PROVE  Merged(b, off, n)
  <2>. HIDE DEF alone
  <2>1. n \in MergeState /\ n.pos = m.pos /\ n.merged = m.merged /\ n.st # "recovered"
    BY <1>1, <1>3, <1>4 DEF MergeState
  <2>. QED BY <2>1 DEF Merged
<1>5. ASSUME HasLine(b, p), ~Undecodable(body) PROVE Merged(b, off, more)
  <2>1. /\ LineEnd(b, p) \in (p + 1)..Len(b) /\ b[LineEnd(b, p)] = "nl"
        /\ Len(body) = LineEnd(b, p) - 1 - p
        /\ \A i \in 1..(LineEnd(b, p) - 1 - p) : body[i] = b[p + i]
    BY <1>2, <1>5, LineOK
  <2>2. body \in Seq(PayloadSymbols)
    BY <1>2, <1>5, BodyType
  <2>3. IsJson(joined) => ~HasRequest(joined)
    BY <1>1, <2>2, JoinedJson
  <2>. DEFINE end == LineEnd(b, p)
  <2>. HIDE DEF p, body, alone, end
  <2>4. joined \in Seq(PayloadSymbols) /\ Len(joined) = Len(m.merged) + 1 + Len(body)
    BY <1>1, <2>2 DEF PayloadSymbols
  <2>5. /\ \A j \in 1..Len(m.merged) : joined[j] = m.merged[j]
        /\ \A j \in 1..Len(body) : joined[Len(m.merged) + 1 + j] = body[j]
    BY <1>1, <2>2
  <2>6. off < end /\ end <= Len(b) /\ b[end] = "nl" /\ end \in Nat
    BY <1>1, <1>2, <2>1 DEF Merged, end
  <2>7. ASSUME NEW i \in (off + 1)..end, b[i] = "req" PROVE HasRequest(joined)
    <3>1. CASE i <= m.pos
      <4>1. i \in (off + 1)..m.pos
        BY <1>1, <3>1
      <4>2. HasRequest(m.merged)
        BY <2>7, <4>1 DEF Merged
      <4>3. PICK j \in 1..Len(m.merged) : m.merged[j] = "req"
        BY <4>2 DEF HasRequest
      <4>4. j \in 1..Len(joined) /\ joined[j] = "req"
        BY <1>1, <2>2, <2>4, <2>5, <4>3
      <4>. QED BY <4>4 DEF HasRequest
    <3>2. CASE m.pos < i
      <4>1. i \notin (m.pos + 1)..p /\ i # end
        BY <1>2, <2>6, <2>7
      <4>2. i - p \in 1..(end - 1 - p) /\ p + (i - p) = i
        BY <1>1, <1>2, <2>6, <3>2, <4>1
      <4>3. i - p \in 1..Len(body) /\ body[i - p] = "req"
        BY <2>1, <2>7, <4>2 DEF end
      <4>4. Len(m.merged) + 1 + (i - p) \in 1..Len(joined)
        BY <1>1, <2>2, <2>4, <4>3
      <4>. QED BY <2>5, <4>3, <4>4 DEF HasRequest
    <3>. QED BY <1>1, <3>1, <3>2
  <2>. HIDE DEF joined
  <2>8. more \in MergeState /\ more.pos = end /\ more.merged = joined
        /\ (more.st = "recovered" => IsJson(joined))
    BY <1>3, <2>4, <2>6 DEF MergeState, end
  <2>. QED BY <2>3, <2>6, <2>7, <2>8 DEF Merged
<1>. HIDE DEF p, body, alone, joined, more
<1>6. MergeLine(b, m) = IF m.st # "loop" THEN m
        ELSE IF ~HasLine(b, p) THEN [m EXCEPT !.st = "eof"]
        ELSE IF Undecodable(body) THEN [m EXCEPT !.st = "break"]
        ELSE IF Len(joined) > MaxRecoveryBytes THEN [m EXCEPT !.st = "break", !.alone = alone]
        ELSE more
  BY DEF MergeLine, p, body, alone, joined, more
<1>. QED BY <1>4, <1>5, <1>6

\* The loop is a function of the number of lines joined.
LEMMA MergeLoopSteps ==
  ASSUME NEW b \in Seq(Symbols), NEW payload, NEW lineEnd
  PROVE  \E f : /\ f[1] = [st |-> "loop", pos |-> lineEnd, merged |-> payload, alone |-> FALSE]
                /\ \A k \in 2..MaxRecoveryLines : f[k] = MergeLine(b, f[k - 1])
                /\ f[MaxRecoveryLines] = MergeLoop(b, payload, lineEnd)
<1>. DEFINE start == [st |-> "loop", pos |-> lineEnd, merged |-> payload, alone |-> FALSE]
            N == MaxRecoveryLines
            F[k \in 1..N] == IF k = 1 THEN start ELSE MergeLine(b, F[k - 1])
<1>1. N \in Nat \ {0}
  BY BoundsAssumption
<1>. HIDE DEF start, N
<1>2. F = [k \in 1..N |-> IF k = 1 THEN start ELSE MergeLine(b, F[k - 1])]
  <2>. DEFINE G(g, n) == g = [k \in 1..n |-> IF k = 1 THEN start ELSE MergeLine(b, g[k - 1])]
              none == {n \in Nat \ {0} : ~\E g : G(g, n)}
  <2>1. ASSUME none # {} PROVE FALSE
    <3>1. PICK n \in none : \A m \in none : n <= m
      <4>1. none \subseteq Nat
        OBVIOUS
      <4>. HIDE DEF none
      <4>. QED BY <2>1, <4>1, LeastNat
    <3>2. CASE n = 1
      <4>1. G([k \in 1..1 |-> start], 1)
        OBVIOUS
      <4>. QED BY <3>1, <3>2, <4>1
    <3>3. CASE n # 1
      <4>1. n - 1 \in Nat \ {0} /\ ~(n <= n - 1)
        BY <3>1, <3>3
      <4>2. n - 1 \notin none
        BY <3>1, <4>1
      <4>3. PICK g : G(g, n - 1)
        BY <4>1, <4>2
      <4>. DEFINE h == [k \in 1..n |-> IF k = n THEN MergeLine(b, g[n - 1]) ELSE g[k]]
      <4>4. G(h, n)
        BY <3>3, <4>1, <4>3
      <4>. QED BY <3>1, <4>4
    <3>. QED BY <3>2, <3>3
  <2>2. PICK g : G(g, N)
    BY <1>1, <2>1
  <2>3. G(CHOOSE h : G(h, N), N)
    BY <2>2, Zenon
  <2>. QED BY <2>3
<1>3. F[N] = MergeLoop(b, payload, lineEnd)
  BY DEF N, start, MergeLoop
<1>. HIDE DEF F
<1>4. F[1] = start /\ \A k \in 2..N : F[k] = MergeLine(b, F[k - 1])
  BY <1>1, <1>2
<1>. QED BY <1>3, <1>4 DEF N, start

\* It keeps what a line keeps.
LEMMA MergeLoopOK ==
  ASSUME NEW b \in Seq(Symbols), NEW off \in Nat, NEW payload \in Seq(PayloadSymbols),
         NEW lineEnd \in Nat, off < lineEnd, lineEnd <= Len(b), b[lineEnd] = "nl",
         (\E i \in (off + 1)..lineEnd : b[i] = "req") => HasRequest(payload)
  PROVE  Merged(b, off, MergeLoop(b, payload, lineEnd))
<1>. DEFINE start == [st |-> "loop", pos |-> lineEnd, merged |-> payload, alone |-> FALSE]
            N == MaxRecoveryLines
<1>1. PICK f : /\ f[1] = start
               /\ \A k \in 2..N : f[k] = MergeLine(b, f[k - 1])
               /\ f[N] = MergeLoop(b, payload, lineEnd)
  BY MergeLoopSteps
<1>2. start \in MergeState /\ start.pos = lineEnd /\ start.merged = payload /\ start.st = "loop"
  BY DEF MergeState
<1>3. N \in Nat \ {0}
  BY BoundsAssumption
<1>. HIDE DEF start, N
<1>4. Merged(b, off, start)
  BY <1>2 DEF Merged
<1>. DEFINE bad == {k \in 1..N : ~Merged(b, off, f[k])}
<1>5. ASSUME bad # {} PROVE FALSE
  <2>1. PICK k \in bad : \A j \in bad : k <= j
    <3>1. bad \subseteq Nat
      BY <1>3
    <3>. HIDE DEF bad
    <3>. QED BY <1>5, <3>1, LeastNat
  <2>2. CASE k = 1
    BY <1>1, <1>4, <2>1, <2>2
  <2>3. CASE k # 1
    <3>1. k - 1 \in 1..N /\ ~(k <= k - 1) /\ k \in 2..N
      BY <1>3, <2>1, <2>3
    <3>2. Merged(b, off, f[k - 1])
      BY <2>1, <3>1
    <3>3. Merged(b, off, f[k])
      BY <1>1, <3>1, <3>2, MergeLineOK
    <3>. QED BY <2>1, <3>3
  <2>. QED BY <2>2, <2>3
<1>6. Merged(b, off, f[N])
  BY <1>3, <1>5
<1>. QED BY <1>1, <1>6

-----------------------------------------------------------------------------
(* The line at the working cursor.                                         *)

\* Where the working cursor is after the leading NULs.
LEMMA AfterNulsOK ==
  ASSUME Shape, pc = "line"
  PROVE  /\ snap \in Seq(Symbols) /\ NulsAtStart(snap) /\ cursor \in CursorState
         /\ AfterNuls \in CursorState
         /\ AfterNuls.offset \in cursor.offset..Len(snap)
         /\ \A i \in (cursor.offset + 1)..AfterNuls.offset : snap[i] = "nul"
         /\ AfterNuls.offset < Len(snap) => snap[AfterNuls.offset + 1] # "nul"
         /\ AfterNuls = cursor \/ AfterNuls = MovedTo(AfterNuls.offset)
<1>. DEFINE p == SkipNul(snap, cursor.offset)
<1>1. /\ snap \in Seq(Symbols) /\ NulsAtStart(snap) /\ cursor \in CursorState
      /\ cursor.offset \in Nat /\ cursor.offset <= Len(snap)
  BY DEF Shape, TypeOK, CursorState
<1>2. /\ p \in cursor.offset..Len(snap)
      /\ \A i \in (cursor.offset + 1)..p : snap[i] = "nul"
      /\ p < Len(snap) => snap[p + 1] # "nul"
  BY <1>1, SkipNulOK
<1>. HIDE DEF p
<1>3. MovedTo(p) \in CursorState /\ MovedTo(p).offset = p
  <2>1. boundary_probe_from_bytes(snap, p) \in Seq(Symbols)
    BY <1>1, <1>2, BoundsAssumption DEF boundary_probe_from_bytes, Min2
  <2>. QED BY <1>1, <1>2, <2>1 DEF MovedTo, CursorState
<1>4. AfterNuls = IF p = cursor.offset THEN cursor ELSE MovedTo(p)
  BY DEF AfterNuls, p
<1>5. AfterNuls.offset = p
  BY <1>3, <1>4
<1>. QED BY <1>1, <1>2, <1>3, <1>4, <1>5

\* The line at the working cursor.
LEMMA BodyOK ==
  ASSUME Shape, AtLine
  PROVE  /\ snap \in Seq(Symbols)
         /\ AfterNuls.offset \in Nat /\ AfterNuls.offset < Len(snap)
         /\ LineEnd(snap, AfterNuls.offset) \in (AfterNuls.offset + 1)..Len(snap)
         /\ snap[LineEnd(snap, AfterNuls.offset)] = "nl"
         /\ \A i \in (AfterNuls.offset + 1)..(LineEnd(snap, AfterNuls.offset) - 1) :
                snap[i] \notin {"nl", "nul"}
         /\ Body \in Seq(Symbols \ {"nl"})
         /\ Len(Body) = LineEnd(snap, AfterNuls.offset) - 1 - AfterNuls.offset
         /\ \A i \in 1..(LineEnd(snap, AfterNuls.offset) - 1 - AfterNuls.offset) :
                Body[i] = snap[AfterNuls.offset + i]
         /\ ~Undecodable(Body) => Body \in Seq(PayloadSymbols)
<1>. DEFINE off == AfterNuls.offset
            end == LineEnd(snap, off)
<1>1. pc = "line" /\ HasLine(snap, off)
  BY DEF AtLine
<1>2. /\ snap \in Seq(Symbols) /\ NulsAtStart(snap) /\ cursor \in CursorState
      /\ off \in cursor.offset..Len(snap) /\ (off < Len(snap) => snap[off + 1] # "nul")
  BY <1>1, AfterNulsOK
<1>. HIDE DEF off
<1>3. off \in Nat /\ off <= Len(snap)
  BY <1>2 DEF CursorState
<1>4. /\ end \in (off + 1)..Len(snap) /\ snap[end] = "nl"
      /\ \A i \in (off + 1)..(end - 1) : snap[i] # "nl"
      /\ Body \in Seq(Symbols \ {"nl"}) /\ Len(Body) = end - 1 - off
      /\ \A i \in 1..(end - 1 - off) : Body[i] = snap[off + i]
      /\ ~Undecodable(Body) => Body \in Seq(PayloadSymbols)
  BY <1>1, <1>2, <1>3, LineOK, BodyType DEF Body, off
<1>. HIDE DEF end
<1>5. off < Len(snap) /\ end \in Nat /\ end <= Len(snap) /\ off < end
  BY <1>2, <1>3, <1>4
<1>6. \A i \in (off + 1)..(end - 1) : snap[i] # "nul"
  BY <1>2, <1>3, <1>4, <1>5, NoNulInside
<1>. QED BY <1>2, <1>3, <1>4, <1>5, <1>6 DEF off, end

\* A line is read as its own body, or it is joined with others that hold no request.
LEMMA MultilineOK ==
  ASSUME Shape, AtLine, ~Undecodable(Body)
  PROVE  /\ Multiline.end \in (AfterNuls.offset + 1)..Len(snap)
         /\ snap[Multiline.end] = "nl"
         /\ Multiline.merged \in Seq(PayloadSymbols)
         /\ \/ Multiline.merged = Body /\ Multiline.end = LineEnd(snap, AfterNuls.offset)
            \/ \A i \in (AfterNuls.offset + 1)..Multiline.end : snap[i] # "req"
<1>. DEFINE off == AfterNuls.offset
            end == LineEnd(snap, off)
<1>1. /\ snap \in Seq(Symbols) /\ off \in Nat /\ off < Len(snap)
      /\ end \in (off + 1)..Len(snap) /\ snap[end] = "nl"
      /\ Body \in Seq(PayloadSymbols) /\ Len(Body) = end - 1 - off
      /\ \A i \in 1..(end - 1 - off) : Body[i] = snap[off + i]
  BY BodyOK
<1>. DEFINE plain == [kind |-> "none", merged |-> Body, end |-> end]
            whole == classify_multiline_json_payload(snap, Body, end)
            m == MergeLoop(snap, Body, end)
<1>4. Multiline \in {plain, whole}
  BY DEF Multiline
<1>. HIDE DEF off, end, m
<1>5. \/ whole.end = end /\ whole.merged = Body
      \/ m.st = "recovered" /\ whole.end = m.pos /\ whole.merged = m.merged
  BY DEF classify_multiline_json_payload, m
<1>. HIDE DEF whole
<1>6. plain.end = end /\ plain.merged = Body
  OBVIOUS
<1>. HIDE DEF plain
<1>7. CASE Multiline.end = end /\ Multiline.merged = Body
  BY <1>1, <1>7 DEF off, end
<1>8. CASE m.st = "recovered" /\ Multiline.end = m.pos /\ Multiline.merged = m.merged
  <2>1. ASSUME NEW i \in (off + 1)..end, snap[i] = "req" PROVE HasRequest(Body)
    <3>1. i - off \in 1..(end - 1 - off) /\ off + (i - off) = i
      BY <1>1, <2>1
    <3>. QED BY <1>1, <2>1, <3>1 DEF HasRequest
  <2>2. Merged(snap, off, m)
    BY <1>1, <2>1, MergeLoopOK DEF m
  <2>3. m.pos \in Nat /\ off < m.pos /\ m.pos <= Len(snap) /\ snap[m.pos] = "nl"
        /\ m.merged \in Seq(PayloadSymbols)
    BY <2>2 DEF Merged, MergeState
  <2>4. \A i \in (off + 1)..m.pos : snap[i] # "req"
    BY <1>8, <2>2 DEF Merged
  <2>5. off < Len(snap) /\ m.pos \in (off + 1)..Len(snap)
    BY <1>1, <2>3
  <2>. QED BY <1>1, <1>8, <2>3, <2>4, <2>5 DEF off, end
<1>. QED BY <1>4, <1>5, <1>6, <1>7, <1>8

-----------------------------------------------------------------------------
(* Cursors.                                                                *)

\* A boundary probe is a sequence of symbols, and does not change when the sink grows.
LEMMA ProbeOK ==
  ASSUME NEW a \in Seq(Symbols), NEW b \in Seq(Symbols), NEW p \in Nat
  PROVE  /\ boundary_probe_from_bytes(a, p) \in Seq(Symbols)
         /\ Extends(b, a) /\ p <= Len(a) =>
              boundary_probe_from_bytes(b, p) = boundary_probe_from_bytes(a, p)
<1>. DEFINE lo(e) == IF e > ProbeWindow THEN e - ProbeWindow + 1 ELSE 1
<1>0. ProbeWindow \in Nat \ {0} /\ Len(a) \in Nat /\ Len(b) \in Nat
  BY BoundsAssumption
<1>1. ASSUME NEW e \in Nat, NEW s \in Seq(Symbols), e <= Len(s)
      PROVE  SubSeq(s, lo(e), e) \in Seq(Symbols)
  BY <1>0, <1>1
<1>2. boundary_probe_from_bytes(a, p) \in Seq(Symbols)
  <2>1. Min2(p, Len(a)) \in Nat /\ Min2(p, Len(a)) <= Len(a)
    BY <1>0 DEF Min2
  <2>. QED BY <1>1, <2>1 DEF boundary_probe_from_bytes
<1>3. ASSUME Extends(b, a), p <= Len(a)
      PROVE  boundary_probe_from_bytes(b, p) = boundary_probe_from_bytes(a, p)
  <2>1. Min2(p, Len(a)) = p /\ Min2(p, Len(b)) = p /\ p <= Len(b)
    BY <1>0, <1>3 DEF Min2, Extends
  <2>2. lo(p) \in Nat \ {0}
    BY <1>0
  <2>. DEFINE l == lo(p)
  <2>3. /\ boundary_probe_from_bytes(b, p) = SubSeq(b, l, p)
        /\ boundary_probe_from_bytes(a, p) = SubSeq(a, l, p)
    BY <2>1 DEF boundary_probe_from_bytes
  <2>4. \A i \in l..p : a[i] = b[i]
    BY <1>0, <1>3, <2>2 DEF Extends
  <2>. HIDE DEF l
  <2>5. l \in Nat \ {0}
    BY <2>2 DEF l
  <2>6. SubSeq(b, l, p) = SubSeq(a, l, p)
    BY <1>0, <1>3, <2>1, <2>4, <2>5
  <2>. QED BY <2>3, <2>6
<1>. QED BY <1>2, <1>3

\* What is done below an offset stays done when the sink grows.
LEMMA BelowGrows ==
  ASSUME NEW a \in Seq(Symbols), NEW b \in Seq(Symbols), Extends(b, a), NEW f, NEW g, f \subseteq g,
         NEW o \in Nat, o <= Len(a), Below(a, f, o)
  PROVE  Below(b, g, o)
<1>0. MaxLen \in Nat /\ Len(a) \in Nat /\ Len(b) \in Nat
  BY BoundsAssumption
<1>1. ASSUME NEW p \in 0..MaxLen, LineOfRequest(b, p), p + 2 <= o PROVE RequestOf(p) \in g
  <2>1. p + 2 <= Len(a) /\ b[p + 1] = a[p + 1] /\ b[p + 2] = a[p + 2] /\ (p = 0 \/ b[p] = a[p])
    BY <1>0, <1>1 DEF Extends
  <2>2. LineOfRequest(a, p)
    BY <1>1, <2>1 DEF LineOfRequest, AtStart
  <2>. QED BY <1>1, <2>2 DEF Below
<1>. QED BY <1>1 DEF Below

\* So does a good cursor.
LEMMA GoodGrows ==
  ASSUME NEW a \in Seq(Symbols), NEW b \in Seq(Symbols), Extends(b, a), NEW f, NEW g, f \subseteq g,
         NEW c \in CursorState, GoodCursor(a, f, c)
  PROVE  GoodCursor(b, g, c)
<1>0. c.offset \in Nat /\ Len(a) \in Nat /\ Len(b) \in Nat
  BY DEF CursorState
<1>1. c.offset <= Len(b) /\ c.offset <= Len(a)
  BY <1>0 DEF GoodCursor, Extends
<1>2. AtStart(b, c.offset)
  BY <1>0, <1>1 DEF GoodCursor, AtStart, Extends
<1>3. c.probe = <<>> \/ c.probe = boundary_probe_from_bytes(b, c.offset)
  BY <1>0, <1>1, ProbeOK DEF GoodCursor
<1>4. Below(b, g, c.offset)
  BY <1>0, <1>1, BelowGrows DEF GoodCursor
<1>. QED BY <1>1, <1>2, <1>3, <1>4 DEF GoodCursor

\* Every sequence extends itself, and what is appended to it.
LEMMA ExtendsAppend ==
  ASSUME NEW a \in Seq(Symbols), NEW b \in Seq(Symbols), NEW x \in Seq(Symbols), Extends(b, a)
  PROVE  Extends(b \o x, a) /\ Extends(a, a)
<1>1. Len(b \o x) = Len(b) + Len(x) /\ \A i \in 1..Len(b) : (b \o x)[i] = b[i]
  OBVIOUS
<1>. HIDE DEF Extends
<1>2. \A i \in 1..Len(a) : i \in 1..Len(b) /\ b[i] = a[i]
  BY DEF Extends
<1>. QED BY <1>1, <1>2 DEF Extends

\* The cursor a sink starts with is good for whatever the sink holds.
LEMMA DefaultGood ==
  ASSUME NEW b \in Seq(Symbols), NEW f
  PROVE  DefaultCursor \in CursorState /\ GoodCursor(b, f, DefaultCursor)
<1>1. <<>> \in Seq(Symbols)
  OBVIOUS
<1>2. DefaultCursor.offset = 0 /\ DefaultCursor.probe = <<>> /\ DefaultCursor \in CursorState
  BY <1>1 DEF DefaultCursor, CursorState
<1>3. Below(b, f, 0)
  BY BoundsAssumption DEF Below
<1>. QED BY <1>2, <1>3 DEF GoodCursor, AtStart

\* NUL bytes stay at the start of lines when a client writes.
LEMMA NulsWritten ==
  ASSUME NEW b \in Seq(Symbols), NulsAtStart(b), NEW x \in Chunks,
         x[1] = "nul" => \A i \in {Len(b)} \ {0} : b[i] \in {"nl", "nul"}
  PROVE  b \o x \in Seq(Symbols) /\ NulsAtStart(b \o x)
<1>1. x \in Seq(Symbols) /\ x # <<>> /\ NulsAtStart(x)
  BY ChunksAssumption DEF NulsAtStart
<1>. DEFINE z == b \o x
<1>2. /\ z \in Seq(Symbols) /\ Len(z) = Len(b) + Len(x) /\ Len(b) \in Nat /\ Len(x) \in Nat \ {0}
      /\ \A i \in 1..Len(b) : z[i] = b[i]
      /\ \A i \in 1..Len(x) : z[Len(b) + i] = x[i]
  BY <1>1
<1>. HIDE DEF z
<1>3. ASSUME NEW i \in 2..Len(z), z[i] = "nul" PROVE z[i - 1] \in {"nl", "nul"}
  <2>1. CASE i <= Len(b)
    BY <1>2, <1>3, <2>1 DEF NulsAtStart
  <2>2. CASE i = Len(b) + 1
    <3>1. z[i] = x[1] /\ Len(b) \in 1..Len(b) /\ i - 1 = Len(b)
      BY <1>2, <2>2
    <3>2. Len(b) \in {Len(b)} \ {0} /\ x[1] = "nul"
      BY <1>2, <1>3, <3>1
    <3>3. b[Len(b)] \in {"nl", "nul"}
      BY <3>2
    <3>. QED BY <1>2, <3>1, <3>3
  <2>3. CASE i > Len(b) + 1
    <3>1. i - Len(b) \in 2..Len(x) /\ i = Len(b) + (i - Len(b)) /\ i - 1 = Len(b) + (i - Len(b) - 1)
          /\ i - Len(b) - 1 \in 1..Len(x) /\ i - Len(b) \in 1..Len(x)
      BY <1>2, <2>3
    <3>2. x[i - Len(b)] = "nul" /\ z[i - 1] = x[i - Len(b) - 1]
      BY <1>2, <1>3, <3>1
    <3>. QED BY <1>1, <3>1, <3>2 DEF NulsAtStart
  <2>. QED BY <1>2, <2>1, <2>2, <2>3
<1>. QED BY <1>2, <1>3 DEF NulsAtStart, z

\* The same of a truncation.
LEMMA NulsTruncated ==
  ASSUME NEW b \in Seq(Symbols), NulsAtStart(b), NEW k \in 0..(Len(b) - 1)
  PROVE  SubSeq(b, 1, k) \in Seq(Symbols) /\ NulsAtStart(SubSeq(b, 1, k))
<1>1. /\ SubSeq(b, 1, k) \in Seq(Symbols) /\ Len(SubSeq(b, 1, k)) = k /\ Len(b) \in Nat
      /\ \A i \in 1..k : SubSeq(b, 1, k)[i] = b[i]
  OBVIOUS
<1>. QED BY <1>1 DEF NulsAtStart

\* Skipping NULs passes no request.
LEMMA NulsGood ==
  ASSUME Shape, pc = "line", NEW f, GoodCursor(snap, f, cursor)
  PROVE  GoodCursor(snap, f, AfterNuls)
<1>. DEFINE off == AfterNuls.offset
<1>1. /\ snap \in Seq(Symbols) /\ cursor \in CursorState /\ off \in cursor.offset..Len(snap)
      /\ \A i \in (cursor.offset + 1)..off : snap[i] = "nul"
      /\ AfterNuls = cursor \/ AfterNuls = MovedTo(off)
  BY AfterNulsOK
<1>. HIDE DEF off
<1>2. cursor.offset \in Nat /\ off \in Nat /\ Len(snap) \in Nat /\ MaxLen \in Nat
  BY <1>1, BoundsAssumption DEF CursorState
<1>3. CASE AfterNuls = cursor
  BY <1>3
<1>4. CASE AfterNuls = MovedTo(off) /\ off # cursor.offset
  <2>1. AfterNuls.offset = off /\ AfterNuls.probe = boundary_probe_from_bytes(snap, off)
    BY <1>4 DEF MovedTo
  <2>2. AtStart(snap, off)
    BY <1>1, <1>2, <1>4 DEF AtStart
  <2>3. ASSUME NEW p \in 0..MaxLen, LineOfRequest(snap, p), p + 2 <= off PROVE RequestOf(p) \in f
    <3>1. p + 2 \notin (cursor.offset + 1)..off
      BY <1>1, <2>3 DEF LineOfRequest
    <3>2. p + 2 <= cursor.offset
      BY <1>2, <2>3, <3>1
    <3>. QED BY <2>3, <3>2 DEF GoodCursor, Below
  <2>. QED BY <1>1, <1>2, <2>1, <2>2, <2>3 DEF GoodCursor, Below
<1>5. CASE AfterNuls = MovedTo(off) /\ off = cursor.offset
  <2>1. AfterNuls.offset = off /\ AfterNuls.probe = boundary_probe_from_bytes(snap, off)
    BY <1>5 DEF MovedTo
  <2>. QED BY <1>5, <2>1 DEF GoodCursor
<1>. QED BY <1>1, <1>3, <1>4, <1>5

\* The cursor moves past a line, or past joined lines without a request: the only request
\* it passes is the line itself.
LEMMA PassOK ==
  ASSUME Shape, AtLine, NEW f, GoodCursor(snap, f, cursor), NEW g, f \subseteq g,
         NEW e \in (AfterNuls.offset + 1)..Len(snap), snap[e] = "nl",
         \/ e = LineEnd(snap, AfterNuls.offset)
         \/ \A i \in (AfterNuls.offset + 1)..e : snap[i] # "req",
         Body = <<"req">> /\ e = AfterNuls.offset + 2 => RequestOf(AfterNuls.offset) \in g
  PROVE  GoodCursor(snap, g, MovedTo(e))
<1>. DEFINE off == AfterNuls.offset
            end == LineEnd(snap, off)
<1>1. /\ snap \in Seq(Symbols) /\ off \in Nat /\ off < Len(snap)
      /\ end \in (off + 1)..Len(snap)
      /\ \A i \in (off + 1)..(end - 1) : snap[i] \notin {"nl", "nul"}
      /\ Body \in Seq(Symbols \ {"nl"}) /\ Len(Body) = end - 1 - off
      /\ \A i \in 1..(end - 1 - off) : Body[i] = snap[off + i]
  BY BodyOK
<1>2. AtStart(snap, off) /\ Below(snap, f, off)
  BY NulsGood DEF AtLine, GoodCursor
<1>3. e = end \/ \A i \in (off + 1)..e : snap[i] # "req"
  OBVIOUS
<1>4. Body = <<"req">> /\ e = off + 2 => RequestOf(off) \in g
  OBVIOUS
<1>5. e \in (off + 1)..Len(snap) /\ e \in Nat /\ Len(snap) \in Nat /\ MaxLen \in Nat
  BY <1>1, BoundsAssumption
<1>. HIDE DEF off, end
<1>6. ASSUME NEW p \in 0..MaxLen, LineOfRequest(snap, p), p + 2 <= e PROVE RequestOf(p) \in g
  <2>0. snap[p + 1] = "req" /\ snap[p + 2] = "nl" /\ AtStart(snap, p) /\ p \in Nat
    BY <1>5, <1>6 DEF LineOfRequest
  <2>1. CASE p + 2 <= off
    BY <1>2, <1>6, <2>1 DEF Below
  <2>2. CASE p + 2 > off
    <3>1. p + 1 # off
      BY <1>2, <2>0 DEF AtStart
    <3>2. p >= off /\ p + 1 \in (off + 1)..e
      BY <1>1, <1>5, <1>6, <2>0, <2>2, <3>1
    <3>3. e = end
      BY <1>3, <2>0, <3>2
    <3>4. p + 2 = end
      BY <1>1, <1>6, <2>0, <3>2, <3>3
    <3>5. p = off
      <4>1. p \notin (off + 1)..(end - 1) \/ snap[p] \notin {"nl", "nul"}
        BY <1>1
      <4>. QED BY <1>1, <2>0, <3>2, <3>4, <4>1 DEF AtStart
    <3>6. Len(Body) = 1 /\ Body[1] = "req"
      BY <1>1, <2>0, <3>4, <3>5
    <3>7. Body = <<"req">>
      BY <1>1, <3>6
    <3>. QED BY <1>4, <3>3, <3>4, <3>5, <3>7
  <2>. QED BY <1>1, <2>0, <2>1, <2>2
<1>7. MovedTo(e).offset = e /\ MovedTo(e).probe = boundary_probe_from_bytes(snap, e)
  BY DEF MovedTo
<1>. QED BY <1>5, <1>6, <1>7 DEF GoodCursor, Below, AtStart

\* A cursor at a position of the bytes read.
LEMMA MovedType ==
  ASSUME snap \in Seq(Symbols), NEW p \in Nat
  PROVE  MovedTo(p) \in CursorState /\ MovedTo(p).offset = p
BY ProbeOK DEF MovedTo, CursorState

-----------------------------------------------------------------------------
(* Types.                                                                  *)

\* The sink being drained is one of the sinks.
LEMMA SinkType == at \in 1..Len(SinkOrder) => Sink \in Sinks
BY SinkOrderAssumption DEF Sink

\* The end of process_action_sink.
LEMMA EndSinkType ==
  ASSUME TypeOK, NEW c \in CursorState, EndSink(c)
  PROVE  /\ next' \in [Sinks -> CursorState] /\ dirty' \in BOOLEAN
         /\ at' \in 1..Len(SinkOrder) /\ pc' \in {"stat", "commit", "idle"}
         /\ snap' \in Seq(Symbols) /\ cursor' \in CursorState
<1>1. next \in [Sinks -> CursorState] /\ at \in 1..Len(SinkOrder) /\ dirty \in BOOLEAN
  BY DEF TypeOK
<1>2. Len(SinkOrder) \in Nat
  BY SinkOrderAssumption
<1>3. next' \in [Sinks -> CursorState] /\ at' \in 1..Len(SinkOrder) /\ pc' \in {"stat", "commit", "idle"}
  <2>1. next' = [next EXCEPT ![Sink] = c] /\ at' = IF at = Len(SinkOrder) THEN at ELSE at + 1
    BY DEF EndSink
  <2>2. pc' \in {"stat", "commit", "idle"}
    BY DEF EndSink
  <2>3. next' \in [Sinks -> CursorState]
    BY <1>1, <2>1
  <2>. QED BY <1>1, <1>2, <2>1, <2>2, <2>3
<1>4. dirty' \in BOOLEAN
  BY DEF EndSink
<1>5. <<>> \in Seq(Symbols)
  OBVIOUS
<1>6. cursor' \in CursorState /\ snap' \in Seq(Symbols)
  BY <1>5, DefaultGood DEF EndSink
<1>. QED BY <1>3, <1>4, <1>6

\* What a handler is given.
LEMMA RequestType ==
  ASSUME Shape, AtRequest
  PROVE  /\ Request \in Submission /\ Request.off = AfterNuls.offset /\ AfterNuls.offset <= Len(snap)
         /\ MovedTo(Multiline.end) \in CursorState /\ MovedTo(Multiline.end).offset <= Len(snap)
         /\ AfterNuls \in CursorState
<1>1. AtLine /\ pc = "line" /\ ~Undecodable(Body)
  BY DEF AtRequest, AtLine
<1>2. AfterNuls.offset \in Nat /\ AfterNuls.offset < Len(snap) /\ snap \in Seq(Symbols)
  BY <1>1, BodyOK
<1>3. Multiline.end \in (AfterNuls.offset + 1)..Len(snap) /\ Multiline.merged \in Seq(PayloadSymbols)
  BY <1>1, MultilineOK
<1>4. Multiline.end \in Nat /\ Multiline.end <= Len(snap) /\ AfterNuls.offset <= Len(snap)
  BY <1>2, <1>3
<1>5. MovedTo(Multiline.end) \in CursorState /\ MovedTo(Multiline.end).offset = Multiline.end
  BY <1>2, <1>4, MovedType
<1>6. AfterNuls \in CursorState
  BY <1>1, AfterNulsOK
<1>. QED BY <1>2, <1>3, <1>4, <1>5, <1>6 DEF Request, Submission

\* Clients write and truncate.
LEMMA ShapeClients ==
  ASSUME Shape, UNCHANGED vars \/ (\E s \in Sinks, x \in Chunks : Write(s, x)) \/ \E s \in Sinks : Truncate(s)
  PROVE  Shape'
<1>0. TypeOK /\ bytes \in [Sinks -> Seq(Symbols)] /\ \A s \in Sinks : NulsAtStart(bytes[s])
  BY DEF Shape, TypeOK
<1>1. CASE UNCHANGED vars
  BY <1>0, <1>1 DEF vars, Shape, TypeOK
<1>2. ASSUME NEW s \in Sinks, NEW b \in Seq(Symbols), NulsAtStart(b), bytes' = [bytes EXCEPT ![s] = b],
             truncates' \in 0..MaxTruncates,
             UNCHANGED <<fileVars, forgotten, cursors, pc, submitted, done, faults, retries, drainVars>>
      PROVE  Shape'
  <2>1. bytes' \in [Sinks -> Seq(Symbols)] /\ \A t \in Sinks : NulsAtStart(bytes'[t])
    BY <1>0, <1>2
  <2>2. TypeOK'
    BY <1>0, <1>2, <2>1 DEF TypeOK, fileVars, drainVars
  <2>. QED BY <1>2, <2>1, <2>2 DEF Shape, drainVars
<1>3. ASSUME NEW s \in Sinks, NEW x \in Chunks, Write(s, x) PROVE Shape'
  <2>1. bytes[s] \o x \in Seq(Symbols) /\ NulsAtStart(bytes[s] \o x)
    BY <1>0, <1>3, NulsWritten DEF Write
  <2>. QED BY <1>0, <1>2, <1>3, <2>1 DEF Write, TypeOK
<1>4. ASSUME NEW s \in Sinks, Truncate(s) PROVE Shape'
  <2>1. PICK k \in 0..(Len(bytes[s]) - 1) : bytes' = [bytes EXCEPT ![s] = SubSeq(bytes[s], 1, k)]
    BY <1>4 DEF Truncate
  <2>2. SubSeq(bytes[s], 1, k) \in Seq(Symbols) /\ NulsAtStart(SubSeq(bytes[s], 1, k))
    BY <1>0, NulsTruncated
  <2>3. truncates' \in 0..MaxTruncates
    BY <1>0, <1>4, BoundsAssumption DEF Truncate, TypeOK
  <2>4. UNCHANGED <<fileVars, forgotten, cursors, pc, submitted, done, faults, retries, drainVars>>
    BY <1>4 DEF Truncate
  <2>. QED BY <1>2, <2>1, <2>2, <2>3, <2>4
<1>. QED BY <1>1, <1>3, <1>4

\* A sink is looked at, read, or left.
LEMMA ShapeDrain ==
  ASSUME Shape, BeginDrain \/ Stat \/ Read \/ SinkUnreadable
  PROVE  Shape'
<1>0. /\ TypeOK /\ Sink \in Sinks /\ \A s \in Sinks : NulsAtStart(bytes[s])
      /\ bytes \in [Sinks -> Seq(Symbols)] /\ next \in [Sinks -> CursorState]
  BY SinkType DEF Shape, TypeOK
<1>1. next[Sink] \in CursorState /\ bytes[Sink] \in Seq(Symbols) /\ NulsAtStart(bytes[Sink])
  BY <1>0
<1>2. \A c : \A len \in Nat : Truncated(c, len) \in CursorState
  <2>1. <<>> \in Seq(Symbols)
    OBVIOUS
  <2>. QED BY <2>1 DEF Truncated, CursorState
<1>3. CASE BeginDrain
  <2>1. 1 \in 1..Len(SinkOrder)
    BY SinkOrderAssumption
  <2>. QED BY <1>0, <1>3, <2>1 DEF BeginDrain, sinkVars, fileVars, Shape, TypeOK, States
<1>4. CASE Stat
  <2>1. UNCHANGED <<sinkVars, fileVars, forgotten, cursors, submitted, done, faults, retries>>
    BY <1>4 DEF Stat
  <2>2. \/ EndSink(next[Sink])
        \/ /\ cursor' \in {Truncated(next[Sink], Len(bytes[Sink])), next[Sink]}
           /\ pc' = "read" /\ UNCHANGED <<next, dirty, at, snap>>
    BY <1>4 DEF Stat
  <2>3. CASE EndSink(next[Sink])
    <3>1. /\ next' \in [Sinks -> CursorState] /\ dirty' \in BOOLEAN
          /\ at' \in 1..Len(SinkOrder) /\ pc' \in {"stat", "commit", "idle"}
          /\ snap' \in Seq(Symbols) /\ cursor' \in CursorState
      BY <1>0, <1>1, <2>3, EndSinkType
    <3>. QED BY <1>0, <2>1, <3>1 DEF sinkVars, fileVars, Shape, TypeOK, States
  <2>4. CASE cursor' \in {Truncated(next[Sink], Len(bytes[Sink])), next[Sink]}
             /\ pc' = "read" /\ UNCHANGED <<next, dirty, at, snap>>
    <3>1. cursor' \in CursorState
      BY <1>1, <1>2, <2>4
    <3>. QED BY <1>0, <2>1, <2>4, <3>1 DEF sinkVars, fileVars, Shape, TypeOK, States
  <2>. QED BY <2>2, <2>3, <2>4
<1>5. CASE Read
  <2>1. /\ snap' = bytes[Sink] /\ cursor' = CheckedCursor(cursor, bytes[Sink]) /\ pc' = "line"
        /\ UNCHANGED <<sinkVars, fileVars, forgotten, cursors, next, dirty, at, submitted, done,
                       faults, retries>>
    BY <1>5 DEF Read
  <2>2. cursor \in CursorState /\ cursor.offset \in Nat
    BY <1>0 DEF TypeOK, CursorState
  <2>. DEFINE b == bytes[Sink]
              over == [offset |-> Len(b), probe |-> boundary_probe_from_bytes(b, Len(b)), pendingEof |-> 0]
  <2>3. over \in CursorState /\ over.offset = Len(b)
    <3>1. Len(b) \in Nat /\ b \in Seq(Symbols)
      BY <1>1
    <3>2. boundary_probe_from_bytes(b, Len(b)) \in Seq(Symbols)
      BY <3>1, ProbeOK
    <3>. QED BY <3>1, <3>2 DEF CursorState
  <2>4. cursor' = Truncated(cursor, Len(b)) \/ cursor' = over \/ (cursor' = cursor /\ ~(cursor.offset > Len(b)))
    BY <2>1 DEF CheckedCursor
  <2>5. Truncated(cursor, Len(b)).offset = Len(b)
    BY DEF Truncated
  <2>6. cursor' \in CursorState /\ cursor'.offset <= Len(b)
    <3>. HIDE DEF over, b
    <3>1. b \in Seq(Symbols) /\ Len(b) \in Nat
      BY <1>1 DEF b
    <3>. QED BY <1>2, <2>2, <2>3, <2>4, <2>5, <3>1
  <2>. QED BY <1>0, <1>1, <2>1, <2>6 DEF sinkVars, fileVars, Shape, TypeOK, States
<1>6. CASE SinkUnreadable
  <2>1. /\ next' \in [Sinks -> CursorState] /\ dirty' \in BOOLEAN
        /\ at' \in 1..Len(SinkOrder) /\ pc' \in {"stat", "commit", "idle"}
        /\ snap' \in Seq(Symbols) /\ cursor' \in CursorState
    BY <1>0, <1>1, <1>6, EndSinkType DEF SinkUnreadable
  <2>2. faults' \in 0..MaxFaults
    BY <1>0, <1>6, BoundsAssumption DEF SinkUnreadable, TypeOK
  <2>. QED BY <1>0, <1>6, <2>1, <2>2 DEF SinkUnreadable, sinkVars, fileVars, Shape, TypeOK, States
<1>. QED BY <1>3, <1>4, <1>5, <1>6

\* A line is skipped, deferred or handled.
LEMMA ShapeLine ==
  ASSUME Shape, SinkExhausted \/ DeferMultiline \/ SkipLine \/ HandleConsumed \/ HandleRetryPending
                \/ HandleInvalidRetry
  PROVE  Shape'
<1>0. /\ TypeOK /\ Sink \in Sinks /\ \A s \in Sinks : NulsAtStart(bytes[s])
      /\ submitted \in [Sinks -> SUBSET Submission] /\ done \in [Sinks -> SUBSET Submission]
  BY SinkType DEF Shape, TypeOK
<1>1. pc = "line" /\ snap \in Seq(Symbols) /\ NulsAtStart(snap) /\ AfterNuls \in CursorState
  BY AfterNulsOK DEF SinkExhausted, DeferMultiline, SkipLine, HandleConsumed, HandleRetryPending,
                     HandleInvalidRetry, AtRequest, AtLine
<1>2. ASSUME NEW c \in CursorState, EndSink(c), submitted' \in [Sinks -> SUBSET Submission],
             retries' \in 0..MaxRetries,
             UNCHANGED <<sinkVars, fileVars, forgotten, cursors, done, faults>>
      PROVE  Shape'
  <2>1. /\ next' \in [Sinks -> CursorState] /\ dirty' \in BOOLEAN
        /\ at' \in 1..Len(SinkOrder) /\ pc' \in {"stat", "commit", "idle"}
        /\ snap' \in Seq(Symbols) /\ cursor' \in CursorState
    BY <1>0, <1>2, EndSinkType
  <2>. QED BY <1>0, <1>2, <2>1 DEF sinkVars, fileVars, Shape, TypeOK, States
<1>3. ASSUME cursor' \in CursorState, cursor'.offset <= Len(snap),
             submitted' \in [Sinks -> SUBSET Submission], done' \in [Sinks -> SUBSET Submission],
             UNCHANGED <<sinkVars, fileVars, forgotten, cursors, next, dirty, pc, at, snap,
                         faults, retries>>
      PROVE  Shape'
  BY <1>0, <1>1, <1>3 DEF sinkVars, fileVars, Shape, TypeOK
<1>4. CASE SinkExhausted
  BY <1>0, <1>1, <1>2, <1>4 DEF SinkExhausted, TypeOK
<1>5. \A n \in Nat : [AfterNuls EXCEPT !.pendingEof = n] \in CursorState
  BY <1>1 DEF CursorState
<1>6. CASE DeferMultiline
  <2>1. [AfterNuls EXCEPT !.pendingEof = Len(snap)] \in CursorState
    <3>1. Len(snap) \in Nat
      BY <1>1
    <3>. QED BY <1>5, <3>1
  <2>. QED BY <1>0, <1>2, <1>6, <2>1 DEF DeferMultiline, TypeOK
<1>7. CASE SkipLine
  <2>1. AtLine
    BY <1>7 DEF SkipLine
  <2>2. LineEnd(snap, AfterNuls.offset) \in Nat /\ LineEnd(snap, AfterNuls.offset) <= Len(snap)
    BY <2>1, BodyOK
  <2>3. ~Undecodable(Body) => Multiline.end \in Nat /\ Multiline.end <= Len(snap)
    BY <2>1, BodyOK, MultilineOK
  <2>4. PICK e \in Nat : e <= Len(snap) /\ cursor' = MovedTo(e)
    BY <1>7, <2>2, <2>3 DEF SkipLine, InvalidPayload
  <2>5. cursor' \in CursorState /\ cursor'.offset <= Len(snap)
    BY <1>1, <2>4, MovedType
  <2>. QED BY <1>0, <1>3, <1>7, <2>5 DEF SkipLine
<1>8. CASE HandleConsumed
  <2>1. /\ Request \in Submission /\ cursor' \in CursorState /\ cursor'.offset <= Len(snap)
    BY <1>8, RequestType DEF HandleConsumed
  <2>2. submitted' \in [Sinks -> SUBSET Submission] /\ done' \in [Sinks -> SUBSET Submission]
    BY <1>0, <1>8, <2>1 DEF HandleConsumed
  <2>. QED BY <1>3, <1>8, <2>1, <2>2 DEF HandleConsumed
<1>9. CASE HandleRetryPending
  <2>1. Request \in Submission
    BY <1>9, RequestType DEF HandleRetryPending
  <2>2. submitted' \in [Sinks -> SUBSET Submission] /\ retries' \in 0..MaxRetries
    BY <1>0, <1>9, <2>1, BoundsAssumption DEF HandleRetryPending, TypeOK
  <2>. QED BY <1>2, <1>5, <1>9, <2>2 DEF HandleRetryPending
<1>10. CASE HandleInvalidRetry
  <2>1. submitted' = submitted /\ retries' \in 0..MaxRetries
    BY <1>0, <1>10, BoundsAssumption DEF HandleInvalidRetry, TypeOK
  <2>2. [AfterNuls EXCEPT !.pendingEof = 0] \in CursorState
    BY <1>5
  <2>. QED BY <1>0, <1>1, <1>2, <1>10, <2>1, <2>2 DEF HandleInvalidRetry
<1>. QED BY <1>4, <1>6, <1>7, <1>8, <1>9, <1>10

\* The drain fails, is committed, or is lost with the process.
LEMMA ShapeEnds ==
  ASSUME Shape, HandleError \/ Commit \/ CommitError \/ Crash \/ Restart
  PROVE  Shape'
<1>0. /\ TypeOK /\ Sink \in Sinks /\ \A s \in Sinks : NulsAtStart(bytes[s])
      /\ cursors \in [Sinks -> CursorState]
  BY SinkType DEF Shape, TypeOK
<1>1. 1 \in 1..Len(SinkOrder) /\ <<>> \in Seq(Symbols) /\ DefaultCursor \in CursorState
  <2>1. 1 \in 1..Len(SinkOrder)
    BY SinkOrderAssumption
  <2>2. <<>> \in Seq(Symbols)
    OBVIOUS
  <2>. QED BY <2>1, <2>2, DefaultGood
<1>2. NoCursors \in [Sinks -> CursorState]
  BY <1>1 DEF NoCursors
<1>3. CASE HandleError
  <2>1. AtRequest => Request \in Submission
    BY RequestType
  <2>2. faults' \in 0..MaxFaults
    BY <1>0, <1>3, BoundsAssumption DEF HandleError, TypeOK
  <2>3. submitted \in [Sinks -> SUBSET Submission]
    BY <1>0 DEF TypeOK
  <2>4. submitted' \in [Sinks -> SUBSET Submission]
    BY <1>3, <2>1, <2>3 DEF HandleError
  <2>. QED BY <1>0, <1>1, <1>3, <2>2, <2>4 DEF HandleError, Abort, sinkVars, fileVars, Shape, TypeOK, States
<1>4. CASE Commit
  BY <1>0, <1>4 DEF Commit, sinkVars, drainVars, Shape, TypeOK, States
<1>5. CASE CommitError
  <2>1. faults' \in 0..MaxFaults
    BY <1>0, <1>5, BoundsAssumption DEF CommitError, TypeOK
  <2>2. cursorFile' \in [Sinks -> CursorState]
    BY <1>0, <1>2, <1>5 DEF CommitError, fileVars, TypeOK
  <2>3. lost' \in BOOLEAN
    BY <1>0, <1>5 DEF CommitError, fileVars, TypeOK
  <2>. QED BY <1>0, <1>1, <1>5, <2>1, <2>2, <2>3 DEF CommitError, Abort, sinkVars, Shape, TypeOK, States
<1>6. CASE Crash
  <2>1. faults' \in 0..MaxFaults
    BY <1>0, <1>6, BoundsAssumption DEF Crash, TypeOK
  <2>. QED BY <1>0, <1>1, <1>2, <1>6, <2>1 DEF Crash, sinkVars, fileVars, Shape, TypeOK, States
<1>7. CASE Restart
  <2>1. forgotten' \in BOOLEAN
    BY <1>7 DEF Restart
  <2>. QED BY <1>0, <1>7, <2>1 DEF Restart, sinkVars, fileVars, drainVars, Shape, TypeOK, States
<1>. QED BY <1>3, <1>4, <1>5, <1>6, <1>7

\* Every step keeps the types.
LEMMA ShapeStep == Shape /\ [Next]_vars => Shape'
BY ShapeClients, ShapeDrain, ShapeLine, ShapeEnds DEF Next

-----------------------------------------------------------------------------
(* Order.                                                                  *)

\* Good cursors and submitted requests while sinks grow and requests are consumed.
LEMMA OrderGrows ==
  ASSUME Shape, Shape', NEW s \in Sinks, Extends(bytes'[s], bytes[s]), done[s] \subseteq done'[s]
  PROVE  /\ \A c \in CursorState :
              GoodCursor(bytes[s], done[s], c) => GoodCursor(bytes'[s], done'[s], c)
         /\ \A o \in Nat : o <= Len(bytes[s]) /\ Below(bytes[s], done[s], o) =>
              o <= Len(bytes'[s]) /\ Below(bytes'[s], done'[s], o)
<1>1. bytes[s] \in Seq(Symbols) /\ bytes'[s] \in Seq(Symbols)
  BY DEF Shape, TypeOK
<1>2. \A c \in CursorState :
        GoodCursor(bytes[s], done[s], c) => GoodCursor(bytes'[s], done'[s], c)
  BY <1>1, GoodGrows
<1>3. Len(bytes[s]) \in Nat /\ Len(bytes'[s]) \in Nat /\ Len(bytes[s]) <= Len(bytes'[s])
  BY <1>1 DEF Extends
<1>4. ASSUME NEW o \in Nat, o <= Len(bytes[s]), Below(bytes[s], done[s], o)
      PROVE  o <= Len(bytes'[s]) /\ Below(bytes'[s], done'[s], o)
  BY <1>1, <1>3, <1>4, BelowGrows
<1>. QED BY <1>2, <1>4

\* Clients write.
LEMMA OrderWrite ==
  ASSUME Shape, Shape', OrderInv, AppendOnly', NEW s \in Sinks, NEW x \in Chunks, Write(s, x)
  PROVE  OrderInv'
<1>1. /\ bytes' = [bytes EXCEPT ![s] = bytes[s] \o x]
      /\ UNCHANGED <<truncates, cursorFile, cursors, pc, submitted, done, next, at, cursor, snap>>
  BY DEF Write, fileVars, drainVars
<1>2. /\ bytes \in [Sinks -> Seq(Symbols)] /\ Sink \in Sinks /\ snap \in Seq(Symbols) /\ x \in Seq(Symbols)
      /\ cursorFile \in [Sinks -> CursorState] /\ cursors \in [Sinks -> CursorState]
      /\ next \in [Sinks -> CursorState] /\ cursor \in CursorState
      /\ submitted \in [Sinks -> SUBSET Submission]
  BY SinkType, ChunksAssumption DEF Shape, TypeOK
<1>3. \A t \in Sinks : Extends(bytes'[t], bytes[t]) /\ done[t] \subseteq done'[t]
  BY <1>1, <1>2, ExtendsAppend DEF Extends
<1>4. /\ \A t \in Sinks : \A c \in CursorState :
           GoodCursor(bytes[t], done[t], c) => GoodCursor(bytes'[t], done'[t], c)
      /\ \A t \in Sinks : \A o \in Nat : o <= Len(bytes[t]) /\ Below(bytes[t], done[t], o) =>
           o <= Len(bytes'[t]) /\ Below(bytes'[t], done'[t], o)
  BY <1>3, OrderGrows
<1>5. AppendOnly
  BY <1>1 DEF AppendOnly
<1>6. Sink' = Sink
  BY <1>1 DEF Sink
<1>7. ASSUME NEW t \in Sinks
      PROVE  /\ GoodCursor(bytes'[t], done'[t], cursorFile'[t])
             /\ GoodCursor(bytes'[t], done'[t], cursors'[t])
             /\ GoodCursor(bytes'[t], done'[t], next'[t])
             /\ \A y \in submitted'[t] : y.off <= Len(bytes'[t]) /\ Below(bytes'[t], done'[t], y.off)
  <2>1. cursorFile[t] \in CursorState /\ cursors[t] \in CursorState /\ next[t] \in CursorState
        /\ \A y \in submitted[t] : y.off \in Nat
    BY <1>2 DEF Submission
  <2>. QED BY <1>1, <1>4, <1>5, <2>1 DEF OrderInv
<1>8. pc' = "read" => GoodCursor(bytes'[Sink], done'[Sink], cursor')
  BY <1>1, <1>2, <1>4, <1>5 DEF OrderInv
<1>9. pc' = "line" => Extends(bytes'[Sink], snap') /\ GoodCursor(snap', done'[Sink], cursor')
  <2>. SUFFICES ASSUME pc = "line" PROVE Extends(bytes'[Sink], snap) /\ GoodCursor(snap, done[Sink], cursor)
    BY <1>1
  <2>1. Extends(bytes[Sink], snap) /\ GoodCursor(snap, done[Sink], cursor)
    BY <1>5 DEF OrderInv
  <2>2. Extends(bytes'[Sink], snap)
    BY <1>1, <1>2, <2>1, ExtendsAppend
  <2>. QED BY <2>1, <2>2
<1>. QED BY <1>6, <1>7, <1>8, <1>9 DEF OrderInv

\* The end of process_action_sink with a good cursor.
LEMMA OrderEndSink ==
  ASSUME Shape, OrderInv, AppendOnly, NEW c, GoodCursor(bytes[Sink], done[Sink], c), EndSink(c),
         UNCHANGED <<bytes, cursorFile, cursors, done>>,
         \A s \in Sinks : \A y \in submitted'[s] :
             y \in submitted[s] \/ (y.off <= Len(bytes[s]) /\ Below(bytes[s], done[s], y.off))
  PROVE  OrderInv'
<1>1. next' = [next EXCEPT ![Sink] = c] /\ pc' \in {"stat", "commit", "idle"}
  BY DEF EndSink
<1>2. next \in [Sinks -> CursorState]
  BY DEF Shape, TypeOK
<1>3. \A s \in Sinks : GoodCursor(bytes[s], done[s], next'[s])
  BY <1>1, <1>2 DEF OrderInv
<1>4. \A s \in Sinks : \A y \in submitted'[s] : y.off <= Len(bytes[s]) /\ Below(bytes[s], done[s], y.off)
  BY DEF OrderInv
<1>5. \A s \in Sinks : GoodCursor(bytes[s], done[s], cursorFile[s]) /\ GoodCursor(bytes[s], done[s], cursors[s])
  BY DEF OrderInv
<1>. QED BY <1>1, <1>3, <1>4, <1>5 DEF OrderInv

\* A sink is looked at, read or left.
LEMMA OrderDrain ==
  ASSUME Shape, OrderInv, AppendOnly', BeginDrain \/ Stat \/ Read \/ SinkUnreadable
  PROVE  OrderInv'
<1>0. /\ Sink \in Sinks /\ bytes \in [Sinks -> Seq(Symbols)] /\ cursor \in CursorState
      /\ next \in [Sinks -> CursorState]
  BY SinkType DEF Shape, TypeOK
<1>1. UNCHANGED <<bytes, truncates, cursorFile, cursors, submitted, done>>
  BY DEF BeginDrain, Stat, Read, SinkUnreadable, sinkVars, fileVars
<1>2. AppendOnly
  BY <1>1 DEF AppendOnly
<1>3. GoodCursor(bytes[Sink], done[Sink], next[Sink])
  BY <1>0, <1>2 DEF OrderInv
<1>4. EndSink(next[Sink]) => OrderInv'
  BY <1>1, <1>2, <1>3, OrderEndSink
<1>5. CASE BeginDrain
  BY <1>1, <1>2, <1>5 DEF BeginDrain, OrderInv
<1>6. CASE Stat
  <2>1. next[Sink].offset \in Nat /\ next[Sink].offset <= Len(bytes[Sink]) /\ Len(bytes[Sink]) \in Nat
    BY <1>0, <1>3 DEF GoodCursor, CursorState
  <2>2. CASE ~EndSink(next[Sink])
    <3>1. cursor' = next[Sink] /\ pc' = "read" /\ UNCHANGED <<next, at>>
      BY <1>6, <2>1, <2>2 DEF Stat
    <3>2. Sink' = Sink
      BY <3>1 DEF Sink
    <3>. QED BY <1>1, <1>2, <1>3, <3>1, <3>2 DEF OrderInv
  <2>. QED BY <1>4, <2>2
<1>7. CASE Read
  <2>1. /\ pc = "read" /\ snap' = bytes[Sink] /\ cursor' = CheckedCursor(cursor, bytes[Sink]) /\ pc' = "line"
        /\ UNCHANGED <<next, at>>
    BY <1>7 DEF Read
  <2>2. GoodCursor(bytes[Sink], done[Sink], cursor)
    BY <1>2, <2>1 DEF OrderInv
  <2>3. cursor.offset \in Nat /\ cursor.offset <= Len(bytes[Sink]) /\ Len(bytes[Sink]) \in Nat
    BY <1>0, <2>2 DEF GoodCursor, CursorState
  <2>4. cursor' = cursor
    BY <2>1, <2>2, <2>3 DEF CheckedCursor, GoodCursor
  <2>5. Extends(bytes[Sink], bytes[Sink])
    BY <1>0 DEF Extends
  <2>6. Sink' = Sink
    BY <2>1 DEF Sink
  <2>. QED BY <1>1, <1>2, <2>1, <2>2, <2>4, <2>5, <2>6 DEF OrderInv
<1>8. CASE SinkUnreadable
  BY <1>4, <1>8 DEF SinkUnreadable
<1>. QED BY <1>5, <1>6, <1>7, <1>8

\* A line that is one request is read as that request.
LEMMA PlainRequest ==
  ASSUME Body = <<"req">>
  PROVE  /\ Multiline.merged = <<"req">> /\ IsJson(Multiline.merged) /\ ~Undecodable(Body)
         /\ Multiline.end = AfterNuls.offset + 2 => Request = RequestOf(AfterNuls.offset)
<1>1. IsJson(Body)
  BY DEF IsJson
<1>2. Multiline.merged = Body
  BY <1>1 DEF Multiline
<1>3. Len(Body) = 1 /\ Body[1] = "req"
  OBVIOUS
<1>4. ~Undecodable(Body)
  BY <1>3 DEF Undecodable
<1>5. Multiline.end = AfterNuls.offset + 2 => Request = RequestOf(AfterNuls.offset)
  BY <1>2 DEF Request, RequestOf
<1>. QED BY <1>1, <1>2, <1>4, <1>5

\* Where the working cursor is after the leading NULs, seen from the sink itself.
LEMMA OrderHere ==
  ASSUME Shape, OrderInv, AppendOnly, pc = "line"
  PROVE  /\ GoodCursor(bytes[Sink], done[Sink], AfterNuls)
         /\ AfterNuls.offset <= Len(bytes[Sink])
         /\ Below(bytes[Sink], done[Sink], AfterNuls.offset)
<1>1. /\ Sink \in Sinks /\ bytes[Sink] \in Seq(Symbols) /\ snap \in Seq(Symbols)
      /\ AfterNuls \in CursorState
  BY SinkType, AfterNulsOK DEF Shape, TypeOK
<1>2. Extends(bytes[Sink], snap) /\ GoodCursor(snap, done[Sink], cursor)
  BY DEF OrderInv
<1>3. GoodCursor(snap, done[Sink], AfterNuls)
  BY <1>2, NulsGood
<1>4. GoodCursor(bytes[Sink], done[Sink], AfterNuls)
  BY <1>1, <1>2, <1>3, GoodGrows
<1>. QED BY <1>4 DEF GoodCursor

\* A submission at the working cursor comes after everything that was to be consumed before.
LEMMA OrderSubmit ==
  ASSUME Shape, OrderInv, AppendOnly, pc = "line",
         submitted' = [submitted EXCEPT ![Sink] = submitted[Sink] \union {Request}]
  PROVE  \A s \in Sinks : \A y \in submitted'[s] :
             y \in submitted[s] \/ (y.off <= Len(bytes[s]) /\ Below(bytes[s], done[s], y.off))
<1>1. submitted \in [Sinks -> SUBSET Submission]
  BY DEF Shape, TypeOK
<1>2. Request.off = AfterNuls.offset
  BY DEF Request
<1>3. Request.off <= Len(bytes[Sink]) /\ Below(bytes[Sink], done[Sink], Request.off)
  BY <1>2, OrderHere
<1>4. ASSUME NEW s \in Sinks, NEW y \in submitted'[s], y \notin submitted[s] PROVE s = Sink /\ y = Request
  BY <1>1, <1>4
<1>. QED BY <1>3, <1>4

\* The drain leaves the sink at a line: nothing is left, or the line is deferred or retried.
LEMMA OrderLeave ==
  ASSUME Shape, OrderInv, AppendOnly',
         SinkExhausted \/ DeferMultiline \/ HandleRetryPending \/ HandleInvalidRetry
  PROVE  OrderInv'
<1>1. pc = "line" /\ UNCHANGED <<bytes, truncates, cursorFile, cursors, done>>
  BY DEF SinkExhausted, DeferMultiline, HandleRetryPending, HandleInvalidRetry, AtRequest, AtLine,
         sinkVars, fileVars
<1>2. AppendOnly
  BY <1>1 DEF AppendOnly
<1>3. GoodCursor(bytes[Sink], done[Sink], AfterNuls) /\ AfterNuls \in CursorState
  BY <1>1, <1>2, OrderHere, AfterNulsOK
<1>4. ASSUME NEW n PROVE GoodCursor(bytes[Sink], done[Sink], [AfterNuls EXCEPT !.pendingEof = n])
  <2>. DEFINE c == [AfterNuls EXCEPT !.pendingEof = n]
  <2>1. c.offset = AfterNuls.offset /\ c.probe = AfterNuls.probe
    BY <1>3 DEF CursorState
  <2>. HIDE DEF c
  <2>2. GoodCursor(bytes[Sink], done[Sink], c)
    BY <1>3, <2>1 DEF GoodCursor
  <2>. QED BY <2>2 DEF c
<1>5. CASE SinkExhausted
  <2>1. EndSink(AfterNuls) /\ submitted' = submitted
    BY <1>5 DEF SinkExhausted
  <2>. QED BY <1>1, <1>2, <1>3, <2>1, OrderEndSink
<1>6. CASE DeferMultiline
  <2>1. EndSink([AfterNuls EXCEPT !.pendingEof = Len(snap)]) /\ submitted' = submitted
    BY <1>6 DEF DeferMultiline
  <2>. QED BY <1>1, <1>2, <1>4, <2>1, OrderEndSink
<1>7. CASE HandleRetryPending
  <2>1. EndSink([AfterNuls EXCEPT !.pendingEof = 0])
        /\ submitted' = [submitted EXCEPT ![Sink] = submitted[Sink] \union {Request}]
    BY <1>7 DEF HandleRetryPending
  <2>2. \A s \in Sinks : \A y \in submitted'[s] :
             y \in submitted[s] \/ (y.off <= Len(bytes[s]) /\ Below(bytes[s], done[s], y.off))
    BY <1>1, <1>2, <2>1, OrderSubmit
  <2>. QED BY <1>1, <1>2, <1>4, <2>1, <2>2, OrderEndSink
<1>8. CASE HandleInvalidRetry
  <2>1. /\ EndSink(AfterNuls) \/ EndSink([AfterNuls EXCEPT !.pendingEof = 0])
        /\ submitted' = submitted
    BY <1>8 DEF HandleInvalidRetry
  <2>. QED BY <1>1, <1>2, <1>3, <1>4, <2>1, OrderEndSink
<1>. QED BY <1>5, <1>6, <1>7, <1>8

\* The cursor passes a line: it was consumed, or is not a request.
LEMMA PassLine ==
  ASSUME Shape, OrderInv, AppendOnly, SkipLine \/ HandleConsumed
  PROVE  GoodCursor(snap, done'[Sink], cursor')
<1>. DEFINE off == AfterNuls.offset
            end == LineEnd(snap, off)
<1>1. AtLine /\ pc = "line" /\ Sink \in Sinks /\ done \in [Sinks -> SUBSET Submission]
  BY SinkType DEF SkipLine, HandleConsumed, AtRequest, AtLine, Shape, TypeOK
<1>2. GoodCursor(snap, done[Sink], cursor)
  BY <1>1 DEF OrderInv
<1>3. end \in (off + 1)..Len(snap) /\ snap[end] = "nl"
  BY <1>1, BodyOK
<1>4. ~Undecodable(Body) =>
        /\ Multiline.end \in (off + 1)..Len(snap) /\ snap[Multiline.end] = "nl"
        /\ Multiline.end = end \/ \A i \in (off + 1)..Multiline.end : snap[i] # "req"
  BY <1>1, MultilineOK
<1>5. CASE HandleConsumed
  <2>1. /\ ~Undecodable(Body) /\ cursor' = MovedTo(Multiline.end)
        /\ done'[Sink] = done[Sink] \union {Request}
    BY <1>1, <1>5 DEF HandleConsumed, AtRequest
  <2>2. Body = <<"req">> /\ Multiline.end = off + 2 => RequestOf(off) \in done'[Sink]
    BY <2>1, PlainRequest
  <2>3. done[Sink] \subseteq done'[Sink]
    BY <2>1
  <2>. QED BY <1>1, <1>2, <1>4, <2>1, <2>2, <2>3, PassOK
<1>6. CASE SkipLine
  <2>0. <<>> # <<"req">>
    OBVIOUS
  <2>1. done' = done /\ Body # <<"req">>
    <3>1. done' = done /\ (Body = <<>> \/ Undecodable(Body) \/ ~IsJson(Multiline.merged))
      BY <1>6 DEF SkipLine, InvalidPayload
    <3>. QED BY <2>0, <3>1, PlainRequest
  <2>2. CASE cursor' = MovedTo(end)
    BY <1>1, <1>2, <1>3, <2>1, <2>2, PassOK
  <2>3. CASE ~Undecodable(Body) /\ cursor' = MovedTo(Multiline.end)
    BY <1>1, <1>2, <1>4, <2>1, <2>3, PassOK
  <2>. QED BY <1>6, <2>2, <2>3 DEF SkipLine, InvalidPayload
<1>. QED BY <1>5, <1>6

\* And everything else stays as it was.
LEMMA OrderPass ==
  ASSUME Shape, Shape', OrderInv, AppendOnly', SkipLine \/ HandleConsumed
  PROVE  OrderInv'
<1>1. /\ pc = "line" /\ UNCHANGED <<bytes, truncates, cursorFile, cursors, next, pc, at, snap>>
  BY DEF SkipLine, HandleConsumed, AtRequest, AtLine, sinkVars, fileVars
<1>2. AppendOnly
  BY <1>1 DEF AppendOnly
<1>3. Sink' = Sink
  BY <1>1 DEF Sink
<1>4. /\ Sink \in Sinks /\ bytes \in [Sinks -> Seq(Symbols)]
      /\ cursorFile \in [Sinks -> CursorState] /\ cursors \in [Sinks -> CursorState]
      /\ next \in [Sinks -> CursorState] /\ done \in [Sinks -> SUBSET Submission]
      /\ submitted \in [Sinks -> SUBSET Submission]
  BY SinkType DEF Shape, TypeOK
<1>5. /\ \A t \in Sinks : done[t] \subseteq done'[t]
      /\ \A s \in Sinks : \A y \in submitted'[s] :
             y \in submitted[s] \/ (y.off <= Len(bytes[s]) /\ Below(bytes[s], done[s], y.off))
  <2>1. CASE SkipLine
    BY <2>1 DEF SkipLine
  <2>2. CASE HandleConsumed
    <3>1. /\ submitted' = [submitted EXCEPT ![Sink] = submitted[Sink] \union {Request}]
          /\ done' = [done EXCEPT ![Sink] = done[Sink] \union {Request}]
      BY <2>2 DEF HandleConsumed
    <3>2. \A t \in Sinks : done[t] \subseteq done'[t]
      BY <1>4, <3>1
    <3>. QED BY <1>1, <1>2, <3>1, <3>2, OrderSubmit
  <2>. QED BY <2>1, <2>2
<1>6. \A t \in Sinks : Extends(bytes'[t], bytes[t])
  BY <1>1, <1>4 DEF Extends
<1>7. /\ \A t \in Sinks : \A c \in CursorState :
           GoodCursor(bytes[t], done[t], c) => GoodCursor(bytes'[t], done'[t], c)
      /\ \A t \in Sinks : \A o \in Nat : o <= Len(bytes[t]) /\ Below(bytes[t], done[t], o) =>
           o <= Len(bytes'[t]) /\ Below(bytes'[t], done'[t], o)
  BY <1>5, <1>6, OrderGrows
<1>8. submitted' \in [Sinks -> SUBSET Submission]
  BY DEF Shape, TypeOK
<1>9. ASSUME NEW t \in Sinks
      PROVE  /\ GoodCursor(bytes'[t], done'[t], cursorFile'[t])
             /\ GoodCursor(bytes'[t], done'[t], cursors'[t])
             /\ GoodCursor(bytes'[t], done'[t], next'[t])
             /\ \A y \in submitted'[t] : y.off <= Len(bytes'[t]) /\ Below(bytes'[t], done'[t], y.off)
  <2>1. /\ cursorFile[t] \in CursorState /\ cursors[t] \in CursorState /\ next[t] \in CursorState
        /\ \A y \in submitted'[t] : y.off \in Nat
    BY <1>4, <1>8 DEF Submission
  <2>2. \A y \in submitted'[t] : y.off <= Len(bytes[t]) /\ Below(bytes[t], done[t], y.off)
    BY <1>2, <1>5 DEF OrderInv
  <2>. QED BY <1>1, <1>2, <1>7, <2>1, <2>2 DEF OrderInv
<1>10. Extends(bytes'[Sink], snap') /\ GoodCursor(snap', done'[Sink], cursor')
  BY <1>1, <1>2, PassLine DEF OrderInv
<1>. QED BY <1>1, <1>3, <1>9, <1>10 DEF OrderInv

\* The drain fails, is committed, or is lost with the process.
LEMMA OrderEnds ==
  ASSUME Shape, OrderInv, AppendOnly', HandleError \/ Commit \/ CommitError \/ Crash \/ Restart
  PROVE  OrderInv'
<1>1. /\ UNCHANGED <<bytes, truncates, done>> /\ pc' \notin {"read", "line"}
  BY DEF HandleError, Commit, CommitError, Crash, Restart, Abort, sinkVars
<1>2. AppendOnly
  BY <1>1 DEF AppendOnly
<1>3. \A s \in Sinks :
        /\ GoodCursor(bytes[s], done[s], cursorFile[s])
        /\ GoodCursor(bytes[s], done[s], cursors[s])
        /\ GoodCursor(bytes[s], done[s], next[s])
        /\ GoodCursor(bytes[s], done[s], NoCursors[s])
  <2>1. \A s \in Sinks : bytes[s] \in Seq(Symbols) /\ NoCursors[s] = DefaultCursor
    BY DEF Shape, TypeOK, NoCursors
  <2>. QED BY <1>2, <2>1, DefaultGood DEF OrderInv
<1>4. \A s \in Sinks :
        /\ GoodCursor(bytes[s], done[s], cursorFile'[s])
        /\ GoodCursor(bytes[s], done[s], cursors'[s])
        /\ GoodCursor(bytes[s], done[s], next'[s])
  <2>1. /\ cursorFile' \in {cursorFile, next, NoCursors}
        /\ cursors' \in {cursors, next, cursorFile, NoCursors}
        /\ next' \in {next, cursors, NoCursors}
    BY DEF HandleError, Commit, CommitError, Crash, Restart, Abort, fileVars, drainVars
  <2>. QED BY <1>3, <2>1
<1>5. \A s \in Sinks : \A y \in submitted'[s] :
          y \in submitted[s] \/ (y.off <= Len(bytes[s]) /\ Below(bytes[s], done[s], y.off))
  <2>1. CASE submitted' = submitted
    BY <2>1
  <2>2. CASE submitted' # submitted
    <3>1. /\ pc = "line"
          /\ submitted' = [submitted EXCEPT ![Sink] = submitted[Sink] \union {Request}]
      BY <2>2 DEF HandleError, Commit, CommitError, Crash, Restart, AtRequest, AtLine
    <3>. QED BY <1>2, <3>1, OrderSubmit
  <2>. QED BY <2>1, <2>2
<1>6. \A s \in Sinks : \A y \in submitted'[s] : y.off <= Len(bytes[s]) /\ Below(bytes[s], done[s], y.off)
  BY <1>2, <1>5 DEF OrderInv
<1>. QED BY <1>1, <1>4, <1>6 DEF OrderInv

\* Every step keeps the order.
LEMMA OrderStep ==
  ASSUME Shape, Shape', OrderInv, [Next]_vars
  PROVE  OrderInv'
<1>. SUFFICES ASSUME AppendOnly' PROVE OrderInv'
  BY DEF OrderInv
<1>1. CASE UNCHANGED vars
  <2>1. UNCHANGED <<bytes, truncates, cursorFile, cursors, next, pc, at, cursor, snap, submitted, done>>
    BY <1>1 DEF vars
  <2>2. AppendOnly /\ Sink' = Sink
    BY <2>1 DEF AppendOnly, Sink
  <2>. QED BY <2>1, <2>2 DEF OrderInv
<1>2. ASSUME NEW s \in Sinks, Truncate(s) PROVE FALSE
  <2>1. truncates \in Nat /\ truncates' = truncates + 1 /\ truncates' = 0
    BY <1>2 DEF Truncate, Shape, TypeOK, AppendOnly
  <2>. QED BY <2>1
<1>. QED BY <1>1, <1>2, OrderWrite, OrderDrain, OrderLeave, OrderPass, OrderEnds DEF Next

-----------------------------------------------------------------------------
(* What joined lines say.                                                  *)

\* A symbol of a sink as a joined payload has it.
InPayload(x) == IF x = "nl" THEN "esc" ELSE x

\* Joined reads one symbol after the other.
LEMMA JoinedNext ==
  ASSUME NEW b \in Seq(Symbols), NEW off \in Nat, NEW k \in 0..Len(b)
  PROVE  /\ k <= off => Joined(b, off, k + 1) = <<>>
         /\ k > off => Joined(b, off, k + 1) = IF b[k] = "nul" THEN Joined(b, off, k)
                                               ELSE Append(Joined(b, off, k), InPayload(b[k]))
<1>. DEFINE N == Len(b)
            Val(g, i) == IF i <= off THEN <<>>
                         ELSE IF b[i] = "nul" THEN g[i - 1]
                         ELSE Append(g[i - 1], IF b[i] = "nl" THEN "esc" ELSE b[i])
            J[i \in 0..N] == IF i <= off THEN <<>>
                             ELSE IF b[i] = "nul" THEN J[i - 1]
                             ELSE Append(J[i - 1], IF b[i] = "nl" THEN "esc" ELSE b[i])
            G(g, n) == g = [i \in 0..n |-> Val(g, i)]
<1>0. N \in Nat
  OBVIOUS
<1>. HIDE DEF N
<1>1. J = [i \in 0..N |-> Val(J, i)]
  <2>. DEFINE none == {n \in Nat : ~\E g : G(g, n)}
  <2>1. ASSUME none # {} PROVE FALSE
    <3>1. PICK n \in none : \A m \in none : n <= m
      <4>1. none \subseteq Nat
        OBVIOUS
      <4>. HIDE DEF none
      <4>. QED BY <2>1, <4>1, LeastNat
    <3>2. CASE n = 0
      <4>1. G([i \in 0..0 |-> <<>>], 0)
        OBVIOUS
      <4>. QED BY <3>1, <3>2, <4>1
    <3>3. CASE n # 0
      <4>1. n - 1 \in Nat /\ ~(n <= n - 1)
        BY <3>1, <3>3
      <4>2. n - 1 \notin none
        BY <3>1, <4>1
      <4>3. PICK g : G(g, n - 1)
        BY <4>1, <4>2
      <4>. DEFINE h == [i \in 0..n |-> IF i = n THEN Val(g, n) ELSE g[i]]
      <4>4. ASSUME NEW i \in 0..n PROVE h[i] = Val(h, i)
        <5>1. CASE i = n
          <6>1. h[n - 1] = g[n - 1] /\ h[i] = Val(g, n)
            BY <4>1, <5>1
          <6>. QED BY <5>1, <6>1
        <5>2. CASE i # n
          <6>0. i \in 0..(n - 1)
            BY <3>1, <4>1, <5>2
          <6>1. i \in 0..(n - 1) /\ h[i] = g[i] /\ g[i] = Val(g, i)
            <7>. HIDE DEF Val
            <7>. QED BY <4>3, <5>2, <6>0
          <6>2. i > 0 => h[i - 1] = g[i - 1]
            BY <4>1, <6>1
          <6>3. i = 0 => i <= off
            OBVIOUS
          <6>. HIDE DEF h
          <6>. QED BY <6>1, <6>2, <6>3
        <5>. QED BY <5>1, <5>2
      <4>5. h = [i \in 0..n |-> h[i]]
        OBVIOUS
      <4>6. G(h, n)
        <5>. HIDE DEF h, Val
        <5>. QED BY <4>4, <4>5
      <4>. QED BY <3>1, <4>6
    <3>. QED BY <3>2, <3>3
  <2>2. PICK g : G(g, N)
    BY <1>0, <2>1
  <2>3. G(CHOOSE h : G(h, N), N)
    BY <2>2, Zenon
  <2>. QED BY <2>3
<1>2. \A e : Joined(b, off, e) = J[e - 1]
  BY DEF Joined, N
<1>. HIDE DEF J
<1>3. (k + 1) - 1 = k /\ k \in 0..N
  BY <1>0 DEF N
<1>4. J[k] = Val(J, k)
  BY <1>1, <1>3
<1>5. Joined(b, off, k + 1) = J[k] /\ Joined(b, off, k) = J[k - 1]
  BY <1>2, <1>3
<1>6. k <= off \/ k > off
  BY <1>3
<1>. QED BY <1>4, <1>5, <1>6 DEF InPayload

\* So it only reads the symbols before its end.
LEMMA JoinedLocal ==
  ASSUME NEW a \in Seq(Symbols), NEW b \in Seq(Symbols), Extends(b, a), NEW off \in Nat,
         NEW e \in 1..(Len(a) + 1)
  PROVE  Joined(b, off, e) = Joined(a, off, e)
<1>. DEFINE bad == {k \in 0..Len(a) : Joined(b, off, k + 1) # Joined(a, off, k + 1)}
<1>0. Len(a) \in Nat /\ Len(b) \in Nat /\ Len(a) <= Len(b) /\ bad \subseteq Nat
  BY DEF Extends
<1>1. ASSUME bad # {} PROVE FALSE
  <2>1. PICK k \in bad : \A j \in bad : k <= j
    <3>. HIDE DEF bad
    <3>. QED BY <1>0, <1>1, LeastNat
  <2>2. k \in 0..Len(a) /\ k \in 0..Len(b) /\ Joined(b, off, k + 1) # Joined(a, off, k + 1)
    BY <1>0, <2>1
  <2>3. k > off
    BY <1>0, <2>2, JoinedNext
  <2>4. k - 1 \in 0..Len(a) /\ ~(k <= k - 1) /\ (k - 1) + 1 = k /\ k \in 1..Len(a)
    BY <1>0, <2>2, <2>3
  <2>5. Joined(b, off, k) = Joined(a, off, k)
    BY <2>1, <2>4
  <2>6. b[k] = a[k]
    BY <2>4 DEF Extends
  <2>. QED BY <2>2, <2>3, <2>5, <2>6, JoinedNext
<1>2. e - 1 \in 0..Len(a) /\ (e - 1) + 1 = e
  BY <1>0
<1>. QED BY <1>1, <1>2

\* It grows with its end, and what it has said stays.
LEMMA JoinedGrows ==
  ASSUME NEW b \in Seq(Symbols), NEW off \in Nat, NEW l \in 0..Len(b), NEW k \in l..Len(b)
  PROVE  /\ Joined(b, off, l + 1) \in Seq(PayloadSymbols \union {"bin"})
         /\ Len(Joined(b, off, l + 1)) <= Len(Joined(b, off, k + 1))
         /\ \A j \in 1..Len(Joined(b, off, l + 1)) :
                Joined(b, off, k + 1)[j] = Joined(b, off, l + 1)[j]
<1>. DEFINE J(i) == Joined(b, off, i + 1)
            P == PayloadSymbols \union {"bin"}
            Q(i) == /\ J(i) \in Seq(P)
                    /\ i >= l => /\ Len(J(l)) <= Len(J(i))
                                 /\ \A j \in 1..Len(J(l)) : J(i)[j] = J(l)[j]
            bad == {i \in 0..Len(b) : ~Q(i)}
<1>0. Len(b) \in Nat /\ bad \subseteq Nat /\ l \in Nat /\ l <= Len(b) /\ k \in Nat
      /\ \A i \in 1..Len(b) : b[i] \in Symbols
  OBVIOUS
<1>1. ASSUME bad # {} PROVE FALSE
  <2>1. PICK i \in bad : \A j \in bad : i <= j
    <3>. HIDE DEF bad
    <3>. QED BY <1>0, <1>1, LeastNat
  <2>2. i \in 0..Len(b) /\ ~Q(i)
    BY <2>1
  <2>3. CASE i <= off
    <3>1. J(i) = <<>>
      BY <2>2, <2>3, JoinedNext
    <3>2. i >= l => J(l) = <<>>
      BY <1>0, <2>2, <2>3, JoinedNext
    <3>3. <<>> \in Seq(P) /\ Len(<<>>) = 0
      OBVIOUS
    <3>. HIDE DEF J, P
    <3>4. J(i) \in Seq(P)
      BY <3>1, <3>3
    <3>5. i >= l => Len(J(l)) <= Len(J(i)) /\ 1..Len(J(l)) = {}
      BY <3>1, <3>2, <3>3
    <3>. QED BY <2>2, <3>4, <3>5
  <2>4. CASE i > off
    <3>1. i - 1 \in 0..Len(b) /\ ~(i <= i - 1) /\ (i - 1) + 1 = i /\ i \in 1..Len(b)
      BY <1>0, <2>2, <2>4
    <3>2. Q(i - 1)
      <4>. HIDE DEF Q
      <4>. QED BY <2>1, <3>1
    <3>3. J(i) = J(i - 1) \/ J(i) = Append(J(i - 1), InPayload(b[i]))
      BY <2>2, <2>4, <3>1, JoinedNext
    <3>4. b[i] # "nul" => InPayload(b[i]) \in P
      BY <1>0, <3>1 DEF InPayload, PayloadSymbols, Symbols
    <3>5. b[i] = "nul" => InPayload(b[i]) \in P
      BY DEF InPayload, PayloadSymbols, Symbols
    <3>6. i >= l => i = l \/ i - 1 >= l
      BY <1>0, <2>2
    <3>. DEFINE x == J(i) y == J(i - 1) z == J(l) v == InPayload(b[i])
    <3>7. /\ y \in Seq(P) /\ (i - 1 >= l => Len(z) <= Len(y) /\ \A j \in 1..Len(z) : y[j] = z[j])
          /\ x = y \/ x = Append(y, v)
          /\ v \in P /\ (i = l => x = z)
      BY <3>2, <3>3, <3>4, <3>5
    <3>8. i - 1 >= l => z \in Seq(P)
      <4>1. i - 1 >= l => l \notin bad
        BY <1>0, <2>1, <2>2
      <4>2. i - 1 >= l => Q(l)
        <5>. HIDE DEF Q
        <5>. QED BY <1>0, <4>1
      <4>. QED BY <4>2
    <3>. HIDE DEF x, y, z, v
    <3>9. x \in Seq(P)
      <4>1. y \in Seq(P) /\ v \in P
        BY <3>7
      <4>2. Append(y, v) \in Seq(P)
        BY <4>1, AppendProperties
      <4>. QED BY <3>7, <4>1, <4>2
    <3>10. i >= l => Len(z) <= Len(x) /\ \A j \in 1..Len(z) : x[j] = z[j]
      <4>1. CASE i = l
        <5>1. x = z
          BY <3>7, <4>1
        <5>. QED BY <3>9, <5>1
      <4>2. CASE i - 1 >= l /\ x = y
        BY <3>7, <4>2
      <4>3. CASE i - 1 >= l /\ x = Append(y, v)
        <5>1. Len(x) = Len(y) + 1 /\ \A j \in 1..Len(y) : x[j] = y[j]
          BY <3>7, <4>3
        <5>2. Len(z) \in Nat /\ Len(y) \in Nat /\ Len(z) <= Len(y) /\ \A j \in 1..Len(z) : y[j] = z[j]
          BY <3>7, <3>8, <4>3
        <5>. QED BY <5>1, <5>2
      <4>. QED BY <3>6, <3>7, <4>1, <4>2, <4>3
    <3>. QED BY <2>2, <3>9, <3>10 DEF x, z
  <2>. QED BY <1>0, <2>2, <2>3, <2>4
<1>2. Q(k) /\ Q(l)
  <2>. HIDE DEF Q
  <2>. QED BY <1>0, <1>1
<1>. QED BY <1>0, <1>2

\* NULs between lines say nothing.
LEMMA JoinedNuls ==
  ASSUME NEW b \in Seq(Symbols), NEW off \in Nat, NEW l \in 0..Len(b), NEW k \in l..Len(b), off <= l,
         \A i \in (l + 1)..k : b[i] = "nul"
  PROVE  Joined(b, off, k + 1) = Joined(b, off, l + 1)
<1>. DEFINE bad == {i \in l..k : Joined(b, off, i + 1) # Joined(b, off, l + 1)}
<1>0. Len(b) \in Nat /\ bad \subseteq Nat /\ l \in Nat /\ k \in Nat /\ k <= Len(b)
  OBVIOUS
<1>1. ASSUME bad # {} PROVE FALSE
  <2>1. PICK i \in bad : \A j \in bad : i <= j
    <3>. HIDE DEF bad
    <3>. QED BY <1>0, <1>1, LeastNat
  <2>2. i # l /\ i \in l..k
    BY <2>1
  <2>3. i - 1 \in l..k /\ ~(i <= i - 1) /\ (i - 1) + 1 = i /\ i \in (l + 1)..k /\ i > off /\ i \in 0..Len(b)
    BY <1>0, <2>2
  <2>4. Joined(b, off, i) = Joined(b, off, l + 1)
    BY <2>1, <2>3
  <2>5. Joined(b, off, i + 1) = Joined(b, off, i)
    BY <2>3, JoinedNext
  <2>. QED BY <2>1, <2>4, <2>5
<1>2. k \in l..k
  BY <1>0
<1>. QED BY <1>1, <1>2

\* The last element of a part of a sequence.
LEMMA SubSeqLast ==
  ASSUME NEW R, NEW b \in Seq(R), NEW m \in 1..Len(b), NEW n \in m..Len(b)
  PROVE  SubSeq(b, m, n) = Append(SubSeq(b, m, n - 1), b[n]) /\ SubSeq(b, m, n - 1) \in Seq(R)
<1>1. SubSeq(b, m, n - 1) \in Seq(R)
  OBVIOUS
<1>2. SubSeq(b, m, n) = SubSeq(b, m, n - 1) \o <<b[n]>>
  BY SubSeqRecursiveSecond, Zenon
<1>3. b[n] \in R
  OBVIOUS
<1>4. Append(SubSeq(b, m, n - 1), b[n]) = SubSeq(b, m, n - 1) \o <<b[n]>>
  BY <1>1, <1>3, AppendIsConcat, Zenon
<1>. QED BY <1>1, <1>2, <1>4

\* A line without NULs says its body.
LEMMA JoinedBody ==
  ASSUME NEW b \in Seq(Symbols), NEW off \in Nat, NEW l \in 0..Len(b), NEW k \in l..Len(b), off <= l,
         \A i \in (l + 1)..k : b[i] \notin {"nl", "nul"}
  PROVE  Joined(b, off, k + 1) = Joined(b, off, l + 1) \o SubSeq(b, l + 1, k)
<1>. DEFINE J(i) == Joined(b, off, i + 1)
            P == PayloadSymbols \union {"bin"}
            bad == {i \in l..k : J(i) # J(l) \o SubSeq(b, l + 1, i)}
<1>0. Len(b) \in Nat /\ bad \subseteq Nat /\ l \in Nat /\ k \in Nat /\ k <= Len(b)
  OBVIOUS
<1>1. J(l) \in Seq(P)
  BY JoinedGrows
<1>2. ASSUME bad # {} PROVE FALSE
  <2>1. PICK i \in bad : \A j \in bad : i <= j
    <3>. HIDE DEF bad
    <3>. QED BY <1>0, <1>2, LeastNat
  <2>2. i \in l..k /\ J(i) # J(l) \o SubSeq(b, l + 1, i)
    BY <2>1
  <2>3. SubSeq(b, l + 1, l) = <<>>
    BY <1>0
  <2>4. i # l
    <3>. HIDE DEF J
    <3>. QED BY <1>1, <2>2, <2>3
  <2>5. i - 1 \in l..k /\ ~(i <= i - 1) /\ (i - 1) + 1 = i /\ i \in (l + 1)..k /\ i > off /\ i \in 0..Len(b)
        /\ i \in 1..Len(b)
    BY <1>0, <2>2, <2>4
  <2>6. i - 1 \notin bad
    BY <2>1, <2>5
  <2>7. J(i - 1) = J(l) \o SubSeq(b, l + 1, i - 1)
    <3>. HIDE DEF J
    <3>. QED BY <2>5, <2>6
  <2>8. J(i) = Append(J(i - 1), b[i])
    BY <2>5, JoinedNext DEF InPayload
  <2>9. SubSeq(b, l + 1, i) = Append(SubSeq(b, l + 1, i - 1), b[i]) /\ SubSeq(b, l + 1, i - 1) \in Seq(Symbols)
    <3>1. l + 1 \in 1..Len(b) /\ i \in (l + 1)..Len(b)
      BY <1>0, <2>5
    <3>. QED BY <3>1, SubSeqLast
  <2>10. b[i] \in Symbols
    BY <2>5
  <2>. DEFINE x == J(l) y == SubSeq(b, l + 1, i - 1) v == b[i]
  <2>. DEFINE R == P \union Symbols
  <2>11. x \in Seq(R) /\ y \in Seq(R) /\ v \in R
    BY <1>1, <2>9, <2>10
  <2>. HIDE DEF x, y, v, P, R, J, bad
  <2>12. Append(x \o y, v) = x \o Append(y, v)
    <3>. DEFINE lhs == Append(x \o y, v)
                rhs == x \o Append(y, v)
    <3>1. lhs \in Seq(R) /\ rhs \in Seq(R) /\ Len(lhs) = Len(x) + Len(y) + 1 /\ Len(rhs) = Len(x) + Len(y) + 1
          /\ Len(x) \in Nat /\ Len(y) \in Nat
      BY <2>11
    <3>0. Len(x) \in Nat /\ Len(y) \in Nat
      BY <3>1
    <3>. HIDE DEF lhs, rhs
    <3>2. ASSUME NEW j \in 1..(Len(x) + Len(y) + 1) PROVE lhs[j] = rhs[j]
      <4>1. CASE j <= Len(x)
        BY <2>11, <3>1, <4>1 DEF lhs, rhs
      <4>2. CASE Len(x) < j /\ j <= Len(x) + Len(y)
        <5>1. j - Len(x) \in 1..Len(y) /\ j \in 1..(Len(x) + Len(y)) /\ ~(j <= Len(x))
          BY <3>0, <3>2, <4>2
        <5>. QED BY <2>11, <3>1, <5>1 DEF lhs, rhs
      <4>3. CASE j = Len(x) + Len(y) + 1
        BY <2>11, <3>1, <4>3 DEF lhs, rhs
      <4>4. j <= Len(x) \/ (Len(x) < j /\ j <= Len(x) + Len(y)) \/ j = Len(x) + Len(y) + 1
        BY <3>0, <3>2
      <4>. QED BY <4>1, <4>2, <4>3, <4>4
    <3>3. lhs = rhs
      BY <3>1, <3>2
    <3>. QED BY <3>3 DEF lhs, rhs
  <2>. QED BY <2>2, <2>7, <2>8, <2>9, <2>12 DEF x, y, v
<1>3. k \in l..k
  BY <1>0
<1>. HIDE DEF J
<1>4. J(k) = J(l) \o SubSeq(b, l + 1, k)
  BY <1>2, <1>3
<1>. QED BY <1>4 DEF J

-----------------------------------------------------------------------------
(* What is read at a position.                                             *)

\* Where a line begins after its NULs, and what process_action_sink reads there.
Starts(b, p) == p < Len(b) /\ AtStart(b, p) /\ b[p + 1] # "nul"
ReadAt(b, p) ==
    LET body == LineBody(b, p)
        end == LineEnd(b, p)
    IN  IF ~IsJson(body) /\ has_odd_unescaped_quotes(body)
          THEN classify_multiline_json_payload(b, body, end)
          ELSE [kind |-> "none", merged |-> body, end |-> end]

\* A request is read there.
Taken(b, p) == HasLine(b, p) /\ ~Undecodable(LineBody(b, p)) /\ IsJson(ReadAt(b, p).merged)

\* A request, as it lies in the sink: one object, or two halves with text between them.
Span(b, p, e) ==
    /\ p + 2 <= e /\ e <= Len(b) /\ b[e] = "nl"
    /\ \/ b[p + 1] = "req" /\ e = p + 2
       \/ /\ b[p + 1] = "frag" /\ b[e - 1] = "frag" /\ p + 1 < e - 1
          /\ \A i \in (p + 2)..(e - 2) : b[i] \in {"text", "nl", "nul"}

\* The payload joined so far is what the lines joined so far say.
Says(b, off, m) ==
    /\ m.merged = Joined(b, off, m.pos)
    /\ m.st = "recovered" => IsJson(m.merged) /\ off + 1 < m.pos /\ b[m.pos - 1] # "nul"

\* One more line.
LEMMA MergeLineSays ==
  ASSUME NEW b \in Seq(Symbols), NulsAtStart(b), NEW off \in Nat, NEW m, Merged(b, off, m), Says(b, off, m)
  PROVE  Says(b, off, MergeLine(b, m))
<1>. DEFINE p == SkipNul(b, m.pos)
            body == LineBody(b, p)
            end == LineEnd(b, p)
            alone == m.alone \/ IsJson(body)
            joined == m.merged \o <<"esc">> \o body
            more == [st |-> IF IsJson(joined) THEN "recovered" ELSE "loop",
                     pos |-> end, merged |-> joined, alone |-> alone]
<1>1. /\ m \in MergeState /\ m.pos \in Nat /\ m.merged \in Seq(PayloadSymbols) /\ m.pos <= Len(b)
      /\ off < m.pos /\ b[m.pos] = "nl"
  BY DEF Merged, MergeState
<1>2. /\ p \in m.pos..Len(b) /\ p \in Nat /\ p <= Len(b)
      /\ \A i \in (m.pos + 1)..p : b[i] = "nul"
      /\ p < Len(b) => b[p + 1] # "nul"
  BY <1>1, SkipNulOK
<1>3. ASSUME NEW n, n \in {[m EXCEPT !.st = "eof"], [m EXCEPT !.st = "break"],
                           [m EXCEPT !.st = "break", !.alone = alone]}
      PROVE  Says(b, off, n)
  <2>. HIDE DEF alone
  <2>1. n.pos = m.pos /\ n.merged = m.merged /\ n.st # "recovered"
    BY <1>1, <1>3 DEF MergeState
  <2>. QED BY <2>1 DEF Says
<1>4. ASSUME HasLine(b, p), ~Undecodable(body) PROVE Says(b, off, more)
  <2>1. /\ end \in (p + 1)..Len(b) /\ b[end] = "nl"
        /\ \A i \in (p + 1)..(end - 1) : b[i] # "nl"
        /\ Len(body) = end - 1 - p
        /\ \A i \in 1..(end - 1 - p) : body[i] = b[p + i]
    BY <1>2, <1>4, LineOK
  <2>2. body \in Seq(PayloadSymbols)
    BY <1>2, <1>4, BodyType
  <2>3. body = SubSeq(b, p + 1, end - 1)
    BY DEF LineBody
  <2>. HIDE DEF p, body, end, alone
  <2>4. end \in Nat /\ end <= Len(b) /\ p < end /\ b[p + 1] # "nul" /\ end - 1 \in p..Len(b)
        /\ (end - 1) + 1 = end /\ p \in 0..Len(b) /\ m.pos \in 0..Len(b) /\ p < Len(b)
    BY <1>1, <1>2, <2>1
  <2>5. \A i \in (p + 1)..(end - 1) : b[i] \notin {"nl", "nul"}
    BY <1>2, <2>1, <2>4, NoNulInside
  <2>6. Joined(b, off, m.pos + 1) = Append(Joined(b, off, m.pos), "esc")
    BY <1>1, <2>4, JoinedNext DEF InPayload
  <2>7. Joined(b, off, p + 1) = Joined(b, off, m.pos + 1)
    BY <1>1, <1>2, <2>4, JoinedNuls
  <2>8. Joined(b, off, end) = Joined(b, off, p + 1) \o body
    <3>1. off <= p
      BY <1>1, <1>2
    <3>2. Joined(b, off, (end - 1) + 1) = Joined(b, off, p + 1) \o SubSeq(b, p + 1, end - 1)
      BY <2>4, <2>5, <3>1, JoinedBody
    <3>. QED BY <2>3, <2>4, <3>2
  <2>9. Append(m.merged, "esc") = m.merged \o <<"esc">>
    BY <1>1 DEF PayloadSymbols
  <2>10. joined = Joined(b, off, end)
    BY <2>6, <2>7, <2>8, <2>9 DEF Says
  <2>11. IsJson(joined) => off + 1 < end /\ b[end - 1] # "nul"
    <3>1. /\ Len(joined) = Len(m.merged) + 1 + Len(body) /\ Len(m.merged) \in Nat /\ Len(body) \in Nat
          /\ joined[Len(m.merged) + 1] = "esc"
      BY <1>1, <2>2
    <3>. HIDE DEF joined
    <3>2. ASSUME IsJson(joined) PROVE Len(body) # 0
      <4>1. joined # <<"req">>
        BY <3>1
      <4>2. joined[Len(joined)] = "frag"
        BY <3>2, <4>1 DEF IsJson
      <4>. QED BY <3>1, <4>2
    <3>3. Len(body) # 0 => end - 1 \in (p + 1)..(end - 1) /\ off + 1 < end
      BY <1>1, <1>2, <2>1, <2>4, <3>1
    <3>. QED BY <2>5, <3>2, <3>3
  <2>. HIDE DEF joined
  <2>12. more.pos = end /\ more.merged = joined /\ (more.st = "recovered" => IsJson(joined))
    OBVIOUS
  <2>. QED BY <2>10, <2>11, <2>12 DEF Says
<1>. HIDE DEF p, body, alone, joined, more
<1>5. MergeLine(b, m) = IF m.st # "loop" THEN m
        ELSE IF ~HasLine(b, p) THEN [m EXCEPT !.st = "eof"]
        ELSE IF Undecodable(body) THEN [m EXCEPT !.st = "break"]
        ELSE IF Len(joined) > MaxRecoveryBytes THEN [m EXCEPT !.st = "break", !.alone = alone]
        ELSE more
  BY DEF MergeLine, p, body, alone, joined, more
<1>. QED BY <1>3, <1>4, <1>5

\* A line, as its body and as Joined has it.
LEMMA LineSays ==
  ASSUME NEW b \in Seq(Symbols), NulsAtStart(b), NEW p \in Nat, Starts(b, p), HasLine(b, p)
  PROVE  /\ LineEnd(b, p) \in (p + 1)..Len(b) /\ b[LineEnd(b, p)] = "nl"
         /\ \A i \in (p + 1)..(LineEnd(b, p) - 1) : b[i] \notin {"nl", "nul"}
         /\ LineBody(b, p) \in Seq(Symbols \ {"nl"})
         /\ Len(LineBody(b, p)) = LineEnd(b, p) - 1 - p
         /\ \A i \in 1..(LineEnd(b, p) - 1 - p) : LineBody(b, p)[i] = b[p + i]
         /\ LineBody(b, p) = Joined(b, p, LineEnd(b, p))
<1>. DEFINE end == LineEnd(b, p)
            body == LineBody(b, p)
<1>0. p <= Len(b) /\ b[p + 1] # "nul"
  BY DEF Starts
<1>1. /\ end \in (p + 1)..Len(b) /\ b[end] = "nl"
      /\ \A i \in (p + 1)..(end - 1) : b[i] # "nl"
      /\ body \in Seq(Symbols \ {"nl"}) /\ Len(body) = end - 1 - p
      /\ \A i \in 1..(end - 1 - p) : body[i] = b[p + i]
  BY <1>0, LineOK
<1>2. body = SubSeq(b, p + 1, end - 1)
  BY DEF LineBody
<1>. HIDE DEF end, body
<1>3. end \in Nat /\ end <= Len(b) /\ p < end /\ end - 1 \in p..Len(b) /\ (end - 1) + 1 = end /\ p \in 0..Len(b)
  BY <1>0, <1>1
<1>4. \A i \in (p + 1)..(end - 1) : b[i] # "nul"
  BY <1>0, <1>1, <1>3, NoNulInside
<1>5. Joined(b, p, p + 1) = <<>>
  BY <1>3, JoinedNext
<1>6. Joined(b, p, (end - 1) + 1) = Joined(b, p, p + 1) \o SubSeq(b, p + 1, end - 1)
  <2>1. p <= p /\ \A i \in (p + 1)..(end - 1) : b[i] \notin {"nl", "nul"}
    BY <1>1, <1>4
  <2>. QED BY <1>3, <2>1, JoinedBody
<1>7. <<>> \o body = body
  BY <1>1
<1>8. body = Joined(b, p, end)
  BY <1>2, <1>3, <1>5, <1>6, <1>7
<1>. QED BY <1>1, <1>4, <1>8 DEF end, body

\* The loop says what the lines it joined say.
LEMMA MergeLoopSays ==
  ASSUME NEW b \in Seq(Symbols), NulsAtStart(b), NEW p \in Nat, Starts(b, p), HasLine(b, p),
         ~Undecodable(LineBody(b, p))
  PROVE  LET m == MergeLoop(b, LineBody(b, p), LineEnd(b, p)) IN Merged(b, p, m) /\ Says(b, p, m)
<1>. DEFINE end == LineEnd(b, p)
            body == LineBody(b, p)
            start == [st |-> "loop", pos |-> end, merged |-> body, alone |-> FALSE]
            N == MaxRecoveryLines
<1>1. /\ end \in (p + 1)..Len(b) /\ b[end] = "nl"
      /\ Len(body) = end - 1 - p
      /\ \A i \in 1..(end - 1 - p) : body[i] = b[p + i]
      /\ body = Joined(b, p, end)
  BY LineSays
<1>2. body \in Seq(PayloadSymbols)
  BY BodyType DEF Starts
<1>3. PICK f : /\ f[1] = start
               /\ \A k \in 2..N : f[k] = MergeLine(b, f[k - 1])
               /\ f[N] = MergeLoop(b, body, end)
  BY MergeLoopSteps
<1>. HIDE DEF end, body
<1>4. end \in Nat /\ p < end /\ end <= Len(b)
  BY <1>1
<1>5. ASSUME NEW i \in (p + 1)..end, b[i] = "req" PROVE HasRequest(body)
  <2>1. i - p \in 1..(end - 1 - p) /\ p + (i - p) = i
    BY <1>1, <1>4, <1>5
  <2>. QED BY <1>1, <1>5, <2>1 DEF HasRequest
<1>6. start \in MergeState /\ start.pos = end /\ start.merged = body /\ start.st = "loop"
  BY <1>2, <1>4 DEF MergeState
<1>7. N \in Nat \ {0}
  BY BoundsAssumption
<1>. HIDE DEF start, N
<1>8. Merged(b, p, start) /\ Says(b, p, start)
  BY <1>1, <1>4, <1>5, <1>6 DEF Merged, Says
<1>. DEFINE bad == {k \in 1..N : ~(Merged(b, p, f[k]) /\ Says(b, p, f[k]))}
<1>9. ASSUME bad # {} PROVE FALSE
  <2>1. PICK k \in bad : \A j \in bad : k <= j
    <3>1. bad \subseteq Nat
      BY <1>7
    <3>. HIDE DEF bad
    <3>. QED BY <1>9, <3>1, LeastNat
  <2>2. CASE k = 1
    BY <1>3, <1>8, <2>1, <2>2
  <2>3. CASE k # 1
    <3>1. k - 1 \in 1..N /\ ~(k <= k - 1) /\ k \in 2..N
      BY <1>7, <2>1, <2>3
    <3>2. Merged(b, p, f[k - 1]) /\ Says(b, p, f[k - 1])
      BY <2>1, <3>1
    <3>3. f[k] = MergeLine(b, f[k - 1])
      BY <1>3, <3>1
    <3>4. Merged(b, p, f[k]) /\ Says(b, p, f[k])
      BY <3>2, <3>3, MergeLineOK, MergeLineSays
    <3>. QED BY <2>1, <3>4
  <2>. QED BY <2>2, <2>3
<1>10. Merged(b, p, f[N]) /\ Says(b, p, f[N])
  BY <1>7, <1>9
<1>. QED BY <1>3, <1>10 DEF end, body

\* What is read is whole lines, and what is read of them is what they say.
LEMMA ReadSays ==
  ASSUME NEW b \in Seq(Symbols), NulsAtStart(b), NEW p \in Nat, Starts(b, p), HasLine(b, p),
         ~Undecodable(LineBody(b, p))
  PROVE  /\ ReadAt(b, p).end \in (p + 1)..Len(b)
         /\ b[ReadAt(b, p).end] = "nl"
         /\ ReadAt(b, p).merged = Joined(b, p, ReadAt(b, p).end)
         /\ IsJson(ReadAt(b, p).merged) => b[ReadAt(b, p).end - 1] # "nul" /\ p + 1 < ReadAt(b, p).end
         /\ ~IsJson(ReadAt(b, p).merged) => ReadAt(b, p).end = LineEnd(b, p)
<1>. DEFINE end == LineEnd(b, p)
            body == LineBody(b, p)
            m == MergeLoop(b, body, end)
            r == ReadAt(b, p)
<1>1. /\ end \in (p + 1)..Len(b) /\ b[end] = "nl"
      /\ \A i \in (p + 1)..(end - 1) : b[i] \notin {"nl", "nul"}
      /\ body \in Seq(Symbols \ {"nl"}) /\ Len(body) = end - 1 - p /\ body = Joined(b, p, end)
  BY LineSays
<1>2. Merged(b, p, m) /\ Says(b, p, m)
  BY MergeLoopSays
<1>3. \/ r.end = end /\ r.merged = body
      \/ m.st = "recovered" /\ r.end = m.pos /\ r.merged = m.merged
  <2>. DEFINE plain == [kind |-> "none", merged |-> body, end |-> end]
              c == classify_multiline_json_payload(b, body, end)
  <2>1. r = plain \/ r = c
    BY DEF ReadAt
  <2>. HIDE DEF r, m, body, end
  <2>2. plain.end = end /\ plain.merged = body
    OBVIOUS
  <2>3. \/ c.end = end /\ c.merged = body
        \/ m.st = "recovered" /\ c.end = m.pos /\ c.merged = m.merged
    BY DEF classify_multiline_json_payload, m
  <2>. HIDE DEF plain, c
  <2>. QED BY <2>1, <2>2, <2>3
<1>. HIDE DEF r, m, body, end
<1>4. CASE r.end = end /\ r.merged = body
  <2>1. IsJson(body) => Len(body) # 0
    <3>1. body = <<"req">> => Len(body) = 1
      OBVIOUS
    <3>2. ASSUME Len(body) = 0 PROVE ~IsJson(body)
      BY <3>1, <3>2 DEF IsJson
    <3>. QED BY <3>2
  <2>2. Len(body) # 0 => end - 1 \in (p + 1)..(end - 1) /\ p + 1 < end
    BY <1>1
  <2>. QED BY <1>1, <1>4, <2>1, <2>2 DEF r, end
<1>5. CASE m.st = "recovered" /\ r.end = m.pos /\ r.merged = m.merged
  <2>1. m.pos \in (p + 1)..Len(b) /\ b[m.pos] = "nl" /\ m.merged = Joined(b, p, m.pos)
        /\ IsJson(m.merged) /\ p + 1 < m.pos /\ b[m.pos - 1] # "nul"
    <3>1. m.pos \in Nat
      BY <1>2 DEF Merged, MergeState
    <3>. QED BY <1>2, <1>5, <3>1 DEF Merged, Says
  <2>. QED BY <1>5, <2>1 DEF r
<1>. QED BY <1>3, <1>4, <1>5

\* A request read at a position lies there as Span has it.
LEMMA TakenSpan ==
  ASSUME NEW b \in Seq(Symbols), NulsAtStart(b), NEW p \in Nat, Starts(b, p), Taken(b, p)
  PROVE  Span(b, p, ReadAt(b, p).end)
<1>. DEFINE e == ReadAt(b, p).end
            J(i) == Joined(b, p, i + 1)
<1>1. /\ e \in (p + 1)..Len(b) /\ b[e] = "nl" /\ IsJson(Joined(b, p, e))
      /\ b[e - 1] # "nul" /\ p + 1 < e
  BY ReadSays DEF Taken
<1>. HIDE DEF e
<1>2. /\ Len(b) \in Nat /\ e \in Nat /\ p + 2 <= e /\ e <= Len(b) /\ e - 1 \in 0..Len(b) /\ p \in 0..Len(b)
      /\ p + 1 \in 0..Len(b) /\ (e - 1) + 1 = e /\ e - 1 > p /\ \A i \in 1..Len(b) : b[i] \in Symbols
  BY <1>1
<1>3. b[p + 1] # "nul"
  BY DEF Starts
<1>4. J(e - 1) = Joined(b, p, e)
  BY <1>2
<1>5. J(p + 1) = <<InPayload(b[p + 1])>>
  <2>. DEFINE q == p + 1
  <2>1. Joined(b, p, p + 1) = <<>>
    BY <1>2, JoinedNext
  <2>2. q \in 0..Len(b) /\ q > p /\ b[q] # "nul" /\ Joined(b, p, q) = <<>>
    BY <1>2, <1>3, <2>1
  <2>. HIDE DEF q
  <2>3. Joined(b, p, q + 1) = Append(Joined(b, p, q), InPayload(b[q]))
    BY <2>2, JoinedNext
  <2>4. \A v : Append(<<>>, v) = <<v>>
    OBVIOUS
  <2>5. J(q) = <<InPayload(b[q])>>
    BY <2>2, <2>3, <2>4
  <2>. HIDE DEF J
  <2>. QED BY <2>5 DEF q
<1>6. \A l \in 0..Len(b) : \A k \in l..Len(b) :
        /\ J(l) \in Seq(PayloadSymbols \union {"bin"})
        /\ Len(J(l)) <= Len(J(k)) /\ \A j \in 1..Len(J(l)) : J(k)[j] = J(l)[j]
  BY JoinedGrows
<1>7. ASSUME NEW i \in (p + 1)..(e - 1), b[i] # "nul"
      PROVE  /\ Len(J(i)) = Len(J(i - 1)) + 1 /\ Len(J(i)) \in 1..Len(J(e - 1))
             /\ J(e - 1)[Len(J(i))] = InPayload(b[i])
  <2>1. i \in 0..Len(b) /\ i - 1 \in 0..Len(b) /\ (i - 1) + 1 = i /\ i > p /\ e - 1 \in i..Len(b)
    BY <1>2
  <2>2. J(i) = Append(J(i - 1), InPayload(b[i]))
    BY <1>7, <2>1, JoinedNext
  <2>3. J(i - 1) \in Seq(PayloadSymbols \union {"bin"}) /\ J(i) \in Seq(PayloadSymbols \union {"bin"})
        /\ Len(J(i)) <= Len(J(e - 1)) /\ \A j \in 1..Len(J(i)) : J(e - 1)[j] = J(i)[j]
    <3>1. i - 1 \in (i - 1)..Len(b)
      BY <1>2
    <3>. HIDE DEF J
    <3>. QED BY <1>6, <2>1, <3>1
  <2>. DEFINE x == J(i - 1) y == J(i) v == InPayload(b[i])
  <2>. HIDE DEF x, y, v
  <2>4. Len(y) = Len(x) + 1 /\ y[Len(y)] = v /\ Len(x) \in Nat
    BY <2>2, <2>3 DEF x, y, v
  <2>5. J(e - 1) \in Seq(PayloadSymbols \union {"bin"})
    <3>1. e - 1 \in (e - 1)..Len(b)
      BY <1>2
    <3>. HIDE DEF J
    <3>. QED BY <1>2, <1>6, <3>1
  <2>. QED BY <2>3, <2>4, <2>5 DEF x, y, v
<1>. DEFINE w == J(e - 1)
<1>8. /\ Len(J(p + 1)) = 1 /\ w[1] = InPayload(b[p + 1]) /\ Len(w) \in Nat /\ Len(w) >= 1
  <2>1. e - 1 \in (p + 1)..Len(b) /\ p + 1 \in (p + 1)..Len(b)
    BY <1>2
  <2>2. Len(J(p + 1)) = 1 /\ J(p + 1)[1] = InPayload(b[p + 1])
    BY <1>5
  <2>3. Len(J(p + 1)) <= Len(w) /\ \A j \in 1..Len(J(p + 1)) : w[j] = J(p + 1)[j]
    BY <1>2, <1>6, <2>1
  <2>4. w \in Seq(PayloadSymbols \union {"bin"})
    <3>1. e - 1 \in (e - 1)..Len(b)
      BY <1>2
    <3>. HIDE DEF J
    <3>. QED BY <1>2, <1>6, <3>1
  <2>. QED BY <2>2, <2>3, <2>4
<1>9. /\ Len(J(e - 1)) = Len(J(e - 2)) + 1 /\ w[Len(w)] = InPayload(b[e - 1])
  <2>1. e - 1 \in (p + 1)..(e - 1) /\ (e - 1) - 1 = e - 2
    BY <1>2
  <2>. HIDE DEF J
  <2>2. /\ Len(J(e - 1)) = Len(J((e - 1) - 1)) + 1
        /\ J(e - 1)[Len(J(e - 1))] = InPayload(b[e - 1])
    BY <1>1, <1>7, <2>1
  <2>. QED BY <2>1, <2>2
<1>10. \A i \in (p + 2)..(e - 2) : b[i] # "nul" => Len(J(i)) \in 2..(Len(w) - 1) /\ w[Len(J(i))] = InPayload(b[i])
  <2>. SUFFICES ASSUME NEW i \in (p + 2)..(e - 2), b[i] # "nul"
                PROVE  Len(J(i)) \in 2..(Len(w) - 1) /\ w[Len(J(i))] = InPayload(b[i])
    OBVIOUS
  <2>1. /\ i \in (p + 1)..(e - 1) /\ i - 1 \in (p + 1)..Len(b) /\ e - 2 \in i..Len(b) /\ i \in 0..Len(b)
        /\ p + 1 \in 0..Len(b)
    BY <1>2
  <2>. HIDE DEF J
  <2>2. Len(J(i)) = Len(J(i - 1)) + 1 /\ Len(J(i)) \in 1..Len(w) /\ w[Len(J(i))] = InPayload(b[i])
    BY <1>7, <2>1
  <2>3. Len(J(p + 1)) <= Len(J(i - 1)) /\ Len(J(i)) <= Len(J(e - 2))
    BY <1>6, <2>1
  <2>4. Len(J(i - 1)) \in Nat /\ Len(J(e - 2)) \in Nat
    <3>1. i - 1 \in 0..Len(b) /\ i - 1 \in (i - 1)..Len(b) /\ e - 2 \in 0..Len(b) /\ e - 2 \in (e - 2)..Len(b)
      BY <1>2
    <3>2. J(i - 1) \in Seq(PayloadSymbols \union {"bin"}) /\ J(e - 2) \in Seq(PayloadSymbols \union {"bin"})
      BY <1>6, <3>1
    <3>. QED BY <3>2
  <2>. HIDE DEF w
  <2>5. Len(w) = Len(J(e - 2)) + 1
    BY <1>9 DEF w
  <2>. DEFINE g == Len(J(i)) g1 == Len(J(i - 1)) g2 == Len(J(e - 2)) one == Len(J(p + 1)) n == Len(w)
  <2>. HIDE DEF g, g1, g2, one, n
  <2>6. one = 1 /\ g = g1 + 1 /\ g \in 1..n /\ one <= g1 /\ g <= g2 /\ n = g2 + 1 /\ g1 \in Nat /\ g2 \in Nat
    BY <1>8, <2>2, <2>3, <2>4, <2>5 DEF g, g1, g2, one, n
  <2>7. g \in 2..(n - 1)
    BY <2>6
  <2>. QED BY <2>2, <2>7 DEF g, n
<1>. HIDE DEF w
<1>11. IsJson(w)
  BY <1>1, <1>4 DEF w
<1>12. CASE w = <<"req">>
  <2>1. Len(w) = 1 /\ w[1] = "req"
    BY <1>12
  <2>2. b[p + 1] = "req"
    BY <1>8, <2>1 DEF InPayload
  <2>3. ASSUME p + 2 < e PROVE FALSE
    <3>1. p + 2 \in 2..Len(b) /\ (p + 2) - 1 = p + 1 /\ p + 2 \in (p + 1)..(e - 1)
      BY <1>2, <2>3
    <3>2. b[p + 2] # "nul"
      BY <2>2, <3>1 DEF NulsAtStart
    <3>3. Len(J(p + 2)) = Len(J(p + 1)) + 1 /\ Len(J(p + 2)) \in 1..Len(w)
      <4>. HIDE DEF J
      <4>1. Len(J(p + 2)) = Len(J((p + 2) - 1)) + 1 /\ Len(J(p + 2)) \in 1..Len(J(e - 1))
        BY <1>7, <3>1, <3>2
      <4>. QED BY <3>1, <4>1 DEF w
    <3>. QED BY <1>8, <2>1, <3>3
  <2>4. e = p + 2
    BY <1>2, <2>3
  <2>. QED BY <1>1, <1>2, <2>2, <2>4 DEF Span, e
<1>13. CASE w # <<"req">>
  <2>1. /\ Len(w) >= 2 /\ w[1] = "frag" /\ w[Len(w)] = "frag"
        /\ \A j \in 2..(Len(w) - 1) : w[j] \in {"text", "esc"}
    BY <1>11, <1>13 DEF IsJson
  <2>2. b[p + 1] = "frag" /\ b[e - 1] = "frag"
    BY <1>8, <1>9, <2>1 DEF InPayload
  <2>3. p + 1 < e - 1
    <3>1. e - 1 # p + 1
      BY <1>8, <2>1 DEF w
    <3>. QED BY <1>2, <3>1
  <2>4. \A i \in (p + 2)..(e - 2) : b[i] \in {"text", "nl", "nul"}
    <3>. SUFFICES ASSUME NEW i \in (p + 2)..(e - 2), b[i] # "nul" PROVE b[i] \in {"text", "nl"}
      OBVIOUS
    <3>1. InPayload(b[i]) \in {"text", "esc"}
      BY <1>10, <2>1
    <3>2. b[i] \in Symbols
      BY <1>2
    <3>. QED BY <3>1, <3>2 DEF InPayload, Symbols
  <2>. QED BY <1>1, <1>2, <2>2, <2>3, <2>4 DEF Span, e
<1>. QED BY <1>12, <1>13

-----------------------------------------------------------------------------
(* What is read at a position does not change when the sink grows.         *)

\* A line that is there stays; one that appears ends in what was appended.
LEMMA LineLocal ==
  ASSUME NEW b \in Seq(Symbols), NEW b2 \in Seq(Symbols), Extends(b2, b), NEW p \in Nat, p <= Len(b)
  PROVE  /\ HasLine(b, p) => /\ HasLine(b2, p) /\ LineEnd(b2, p) = LineEnd(b, p)
                             /\ LineBody(b2, p) = LineBody(b, p)
         /\ ~HasLine(b, p) /\ HasLine(b2, p) => LineEnd(b2, p) > Len(b)
<1>0. Len(b) \in Nat /\ Len(b2) \in Nat /\ Len(b) <= Len(b2) /\ p <= Len(b2)
      /\ \A i \in 1..Len(b) : b2[i] = b[i]
  BY DEF Extends
<1>1. ASSUME HasLine(b, p)
      PROVE  HasLine(b2, p) /\ LineEnd(b2, p) = LineEnd(b, p) /\ LineBody(b2, p) = LineBody(b, p)
  <2>1. HasLine(b2, p)
    BY <1>0, <1>1 DEF HasLine
  <2>. DEFINE e == LineEnd(b, p) e2 == LineEnd(b2, p)
  <2>2. /\ e \in (p + 1)..Len(b) /\ b[e] = "nl" /\ \A i \in (p + 1)..(e - 1) : b[i] # "nl"
        /\ e2 \in (p + 1)..Len(b2) /\ b2[e2] = "nl" /\ \A i \in (p + 1)..(e2 - 1) : b2[i] # "nl"
    BY <1>0, <1>1, <2>1, LineOK
  <2>3. LineBody(b, p) = SubSeq(b, p + 1, e - 1) /\ LineBody(b2, p) = SubSeq(b2, p + 1, e2 - 1)
    BY DEF LineBody
  <2>. HIDE DEF e, e2
  <2>4. e \in Nat /\ e2 \in Nat /\ p + 1 \in Nat
    BY <2>2
  <2>5. ~(e < e2)
    <3>1. e < e2 => e \in (p + 1)..(e2 - 1) /\ b2[e] = b[e]
      BY <1>0, <2>2, <2>4
    <3>. QED BY <2>2, <3>1
  <2>6. ~(e2 < e)
    <3>1. e2 < e => e2 \in (p + 1)..(e - 1) /\ b2[e2] = b[e2]
      BY <1>0, <2>2, <2>4
    <3>. QED BY <2>2, <3>1
  <2>7. e = e2
    BY <2>4, <2>5, <2>6
  <2>8. SubSeq(b2, p + 1, e - 1) = SubSeq(b, p + 1, e - 1)
    <3>. DEFINE lo == p + 1 hi == e - 1
    <3>1. lo \in Nat \ {0} /\ hi \in Int /\ hi <= Len(b) /\ \A i \in lo..hi : b2[i] = b[i]
      BY <1>0, <2>2, <2>4
    <3>. HIDE DEF lo, hi
    <3>2. SubSeq(b2, lo, hi) = SubSeq(b, lo, hi)
      BY <1>0, <3>1
    <3>. QED BY <3>2 DEF lo, hi
  <2>. QED BY <2>1, <2>3, <2>7, <2>8 DEF e, e2
<1>2. ASSUME ~HasLine(b, p), HasLine(b2, p) PROVE LineEnd(b2, p) > Len(b)
  <2>. DEFINE e2 == LineEnd(b2, p)
  <2>1. e2 \in (p + 1)..Len(b2) /\ b2[e2] = "nl"
    BY <1>0, <1>2, LineOK
  <2>. HIDE DEF e2
  <2>2. e2 \in (p + 1)..Len(b) => b[e2] = "nl"
    BY <1>0, <2>1
  <2>3. e2 \notin (p + 1)..Len(b)
    BY <1>2, <2>2 DEF HasLine
  <2>4. e2 > Len(b)
    BY <1>0, <2>1, <2>3
  <2>. QED BY <2>4 DEF e2
<1>. QED BY <1>1, <1>2

\* So do NULs that are followed by something else.
LEMMA SkipLocal ==
  ASSUME NEW b \in Seq(Symbols), NEW b2 \in Seq(Symbols), Extends(b2, b), NEW f \in Nat, f <= Len(b)
  PROVE  /\ SkipNul(b, f) < Len(b) => SkipNul(b2, f) = SkipNul(b, f)
         /\ SkipNul(b, f) <= SkipNul(b2, f)
<1>. DEFINE p == SkipNul(b, f) p2 == SkipNul(b2, f)
<1>0. Len(b) \in Nat /\ Len(b2) \in Nat /\ Len(b) <= Len(b2) /\ f <= Len(b2)
      /\ \A i \in 1..Len(b) : b2[i] = b[i]
  BY DEF Extends
<1>1. /\ p \in f..Len(b) /\ (\A i \in (f + 1)..p : b[i] = "nul") /\ (p < Len(b) => b[p + 1] # "nul")
      /\ p2 \in f..Len(b2) /\ (\A i \in (f + 1)..p2 : b2[i] = "nul") /\ (p2 < Len(b2) => b2[p2 + 1] # "nul")
  BY <1>0, SkipNulOK
<1>. HIDE DEF p, p2
<1>2. p \in Nat /\ p2 \in Nat
  BY <1>1
<1>3. ~(p2 < p)
  <2>1. p2 < p => p2 + 1 \in (f + 1)..p /\ p2 + 1 \in 1..Len(b) /\ p2 < Len(b2)
    BY <1>0, <1>1, <1>2
  <2>. QED BY <1>0, <1>1, <2>1
<1>4. p < Len(b) => ~(p < p2)
  <2>1. p < Len(b) /\ p < p2 => p + 1 \in (f + 1)..p2 /\ p + 1 \in 1..Len(b)
    BY <1>0, <1>1, <1>2
  <2>. QED BY <1>0, <1>1, <2>1
<1>5. (p < Len(b) => p2 = p) /\ p <= p2
  BY <1>2, <1>3, <1>4
<1>. QED BY <1>5 DEF p, p2

\* The loop over the shorter sink met its end; over the longer one it failed too, or went past it.
Late(b, m, m2) == m.st = "eof" /\ (m2.st \in {"eof", "break"} \/ m2.pos > Len(b))

\* One line.
LEMMA MergeLineLocal ==
  ASSUME NEW b \in Seq(Symbols), NEW b2 \in Seq(Symbols), Extends(b2, b), NEW off \in Nat,
         NEW m, Merged(b, off, m)
  PROVE  MergeLine(b2, m) = MergeLine(b, m) \/ Late(b, MergeLine(b, m), MergeLine(b2, m))
<1>0. Len(b) \in Nat /\ Len(b2) \in Nat /\ Len(b) <= Len(b2)
  BY DEF Extends
<1>1. m \in MergeState /\ m.pos \in Nat /\ m.pos <= Len(b) /\ m.pos <= Len(b2)
  BY <1>0 DEF Merged, MergeState
<1>. DEFINE p == SkipNul(b, m.pos) p2 == SkipNul(b2, m.pos)
<1>2. /\ p \in m.pos..Len(b) /\ p2 \in m.pos..Len(b2) /\ (p < Len(b) => p2 = p) /\ p <= p2
      /\ p \in Nat /\ p2 \in Nat
  BY <1>1, SkipLocal, SkipNulOK
<1>3. CASE m.st # "loop"
  BY <1>3 DEF MergeLine
<1>4. CASE m.st = "loop" /\ HasLine(b, p)
  <2>1. p < Len(b)
    <3>. HIDE DEF p
    <3>. QED BY <1>0, <1>2, <1>4 DEF HasLine
  <2>2. p2 = p
    BY <1>2, <2>1
  <2>3. p <= Len(b) /\ p \in Nat
    BY <1>2
  <2>. HIDE DEF p, p2
  <2>4. HasLine(b2, p) /\ LineEnd(b2, p) = LineEnd(b, p) /\ LineBody(b2, p) = LineBody(b, p)
    BY <1>4, <2>3, LineLocal
  <2>5. SkipNul(b, m.pos) = p /\ SkipNul(b2, m.pos) = p
    BY <2>2 DEF p, p2
  <2>. QED BY <1>4, <2>4, <2>5 DEF MergeLine
<1>5. CASE m.st = "loop" /\ ~HasLine(b, p)
  <2>1. MergeLine(b, m) = [m EXCEPT !.st = "eof"]
    BY <1>5 DEF MergeLine
  <2>2. [m EXCEPT !.st = "eof"].st = "eof"
    BY <1>1 DEF MergeState
  <2>3. CASE ~HasLine(b2, p2)
    <3>1. MergeLine(b2, m) = [m EXCEPT !.st = "eof"]
      BY <1>5, <2>3 DEF MergeLine
    <3>. QED BY <2>1, <3>1
  <2>4. CASE HasLine(b2, p2)
    <3>. DEFINE body == LineBody(b2, p2)
                alone == m.alone \/ IsJson(body)
                joined == m.merged \o <<"esc">> \o body
                more == [st |-> IF IsJson(joined) THEN "recovered" ELSE "loop",
                         pos |-> LineEnd(b2, p2), merged |-> joined, alone |-> alone]
    <3>1. LineEnd(b2, p2) > Len(b)
      <4>1. LineEnd(b2, p2) \in (p2 + 1)..Len(b2) /\ b2[LineEnd(b2, p2)] = "nl"
        <5>1. p2 <= Len(b2)
          BY <1>0, <1>2
        <5>. HIDE DEF p2
        <5>. QED BY <1>2, <2>4, <5>1, LineOK
      <4>. DEFINE e == LineEnd(b2, p2)
      <4>. HIDE DEF e, p, p2
      <4>2. e \in (p2 + 1)..Len(b2) /\ b2[e] = "nl"
        BY <4>1 DEF e
      <4>3. e \in 1..Len(b) => e \in (p + 1)..Len(b) /\ b[e] = "nl"
        BY <1>0, <1>2, <4>2 DEF Extends
      <4>4. e \notin 1..Len(b)
        BY <1>5, <4>3 DEF HasLine
      <4>5. e > Len(b)
        BY <1>0, <1>2, <4>2, <4>4
      <4>. QED BY <4>5 DEF e
    <3>2. MergeLine(b2, m) = IF Undecodable(body) THEN [m EXCEPT !.st = "break"]
                             ELSE IF Len(joined) > MaxRecoveryBytes
                               THEN [m EXCEPT !.st = "break", !.alone = alone]
                             ELSE more
      BY <1>5, <2>4 DEF MergeLine
    <3>3. [m EXCEPT !.st = "break"].st = "break" /\ [m EXCEPT !.st = "break", !.alone = alone].st = "break"
      <4>. HIDE DEF alone
      <4>. QED BY <1>1 DEF MergeState
    <3>4. more.pos = LineEnd(b2, p2)
      OBVIOUS
    <3>. HIDE DEF more, alone, joined, body, p, p2
    <3>5. MergeLine(b2, m).st = "break" \/ MergeLine(b2, m).pos > Len(b)
      BY <3>1, <3>2, <3>3, <3>4
    <3>. QED BY <2>1, <2>2, <3>5 DEF Late
  <2>. QED BY <2>3, <2>4
<1>. QED BY <1>3, <1>4, <1>5

\* One more line after that.
LEMMA LateStep ==
  ASSUME NEW b \in Seq(Symbols), NEW b2 \in Seq(Symbols), NEW off \in Nat, NEW m, NEW m2,
         Merged(b2, off, m2), Late(b, m, m2)
  PROVE  Late(b, MergeLine(b, m), MergeLine(b2, m2))
<1>0. Len(b) \in Nat /\ Len(b2) \in Nat
  OBVIOUS
<1>1. m2 \in MergeState /\ m2.pos \in Nat /\ m2.pos <= Len(b2)
  BY DEF Merged, MergeState
<1>2. m.st = "eof" /\ MergeLine(b, m) = m
  BY DEF Late, MergeLine
<1>3. CASE m2.st # "loop"
  <2>1. MergeLine(b2, m2) = m2
    BY <1>3 DEF MergeLine
  <2>. QED BY <1>2, <2>1
<1>4. CASE m2.st = "loop"
  <2>0. m2.pos > Len(b)
    BY <1>4 DEF Late
  <2>. DEFINE p == SkipNul(b2, m2.pos)
              body == LineBody(b2, p)
              alone == m2.alone \/ IsJson(body)
              joined == m2.merged \o <<"esc">> \o body
              more == [st |-> IF IsJson(joined) THEN "recovered" ELSE "loop",
                       pos |-> LineEnd(b2, p), merged |-> joined, alone |-> alone]
  <2>1. p \in m2.pos..Len(b2) /\ p \in Nat /\ p <= Len(b2)
    BY <1>1, SkipNulOK
  <2>2. HasLine(b2, p) => LineEnd(b2, p) \in (p + 1)..Len(b2)
    <3>. HIDE DEF p
    <3>. QED BY <2>1, LineOK
  <2>3. HasLine(b2, p) => LineEnd(b2, p) > Len(b)
    <3>. DEFINE e == LineEnd(b2, p)
    <3>. HIDE DEF e, p
    <3>1. HasLine(b2, p) => e \in (p + 1)..Len(b2)
      BY <2>2 DEF e
    <3>2. HasLine(b2, p) => e > Len(b)
      BY <1>0, <1>1, <2>0, <2>1, <3>1
    <3>. QED BY <3>2 DEF e
  <2>4. MergeLine(b2, m2) = IF ~HasLine(b2, p) THEN [m2 EXCEPT !.st = "eof"]
          ELSE IF Undecodable(body) THEN [m2 EXCEPT !.st = "break"]
          ELSE IF Len(joined) > MaxRecoveryBytes THEN [m2 EXCEPT !.st = "break", !.alone = alone]
          ELSE more
    BY <1>4 DEF MergeLine
  <2>5. /\ [m2 EXCEPT !.st = "break"].st = "break" /\ [m2 EXCEPT !.st = "break", !.alone = alone].st = "break"
        /\ [m2 EXCEPT !.st = "eof"].st = "eof"
    <3>. HIDE DEF alone
    <3>. QED BY <1>1 DEF MergeState
  <2>6. more.pos = LineEnd(b2, p)
    OBVIOUS
  <2>. HIDE DEF more, alone, joined, body, p
  <2>7. MergeLine(b2, m2).st \in {"eof", "break"} \/ MergeLine(b2, m2).pos > Len(b)
    BY <2>3, <2>4, <2>5, <2>6
  <2>. QED BY <1>2, <2>7 DEF Late
<1>. QED BY <1>3, <1>4

\* A sink that extends one with NULs in their place.
LEMMA StartsLocal ==
  ASSUME NEW b \in Seq(Symbols), NEW b2 \in Seq(Symbols), Extends(b2, b), NEW p \in Nat, p < Len(b)
  PROVE  Starts(b2, p) <=> Starts(b, p)
<1>0. Len(b) \in Nat /\ Len(b2) \in Nat /\ Len(b) <= Len(b2) /\ \A i \in 1..Len(b) : b2[i] = b[i]
  BY DEF Extends
<1>1. p + 1 \in 1..Len(b) /\ (p # 0 => p \in 1..Len(b)) /\ p < Len(b2)
  BY <1>0
<1>2. b2[p + 1] = b[p + 1] /\ (p # 0 => b2[p] = b[p])
  BY <1>0, <1>1
<1>. QED BY <1>1, <1>2 DEF Starts, AtStart

\* The loop.
LEMMA MergeLoopLocal ==
  ASSUME NEW b \in Seq(Symbols), NEW b2 \in Seq(Symbols), Extends(b2, b), NulsAtStart(b), NulsAtStart(b2),
         NEW p \in Nat, Starts(b, p), HasLine(b, p), ~Undecodable(LineBody(b, p))
  PROVE  LET m == MergeLoop(b, LineBody(b, p), LineEnd(b, p))
             m2 == MergeLoop(b2, LineBody(b, p), LineEnd(b, p))
         IN  m2 = m \/ Late(b, m, m2)
<1>. DEFINE end == LineEnd(b, p)
            body == LineBody(b, p)
            start == [st |-> "loop", pos |-> end, merged |-> body, alone |-> FALSE]
            N == MaxRecoveryLines
<1>0. Len(b) \in Nat /\ Len(b2) \in Nat /\ Len(b) <= Len(b2) /\ p < Len(b) /\ p <= Len(b)
      /\ \A i \in 1..Len(b) : b2[i] = b[i]
  BY DEF Extends, Starts
<1>1. /\ end \in (p + 1)..Len(b) /\ b[end] = "nl"
      /\ Len(body) = end - 1 - p
      /\ \A i \in 1..(end - 1 - p) : body[i] = b[p + i]
  BY LineSays
<1>2. body \in Seq(PayloadSymbols)
  BY <1>0, BodyType
<1>3. PICK f : /\ f[1] = start
               /\ \A k \in 2..N : f[k] = MergeLine(b, f[k - 1])
               /\ f[N] = MergeLoop(b, body, end)
  BY MergeLoopSteps
<1>4. PICK g : /\ g[1] = start
               /\ \A k \in 2..N : g[k] = MergeLine(b2, g[k - 1])
               /\ g[N] = MergeLoop(b2, body, end)
  BY MergeLoopSteps
<1>. HIDE DEF end, body
<1>5. end \in Nat /\ p < end /\ end <= Len(b) /\ end <= Len(b2) /\ b2[end] = "nl"
  BY <1>0, <1>1
<1>6. ASSUME NEW i \in (p + 1)..end, b[i] = "req" PROVE HasRequest(body)
  <2>1. i - p \in 1..(end - 1 - p) /\ p + (i - p) = i
    BY <1>1, <1>5, <1>6
  <2>. QED BY <1>1, <1>6, <2>1 DEF HasRequest
<1>7. start \in MergeState /\ start.pos = end /\ start.merged = body /\ start.st = "loop"
  BY <1>2, <1>5 DEF MergeState
<1>8. N \in Nat \ {0}
  BY BoundsAssumption
<1>. HIDE DEF start, N
<1>9. Merged(b, p, start)
  BY <1>1, <1>5, <1>6, <1>7 DEF Merged
<1>10. Merged(b2, p, start)
  <2>1. \A i \in (p + 1)..end : b2[i] = b[i]
    BY <1>0, <1>5
  <2>. QED BY <1>5, <1>6, <1>7, <2>1 DEF Merged
<1>. DEFINE Q(k) == /\ Merged(b, p, f[k]) /\ Merged(b2, p, g[k])
                    /\ g[k] = f[k] \/ Late(b, f[k], g[k])
            bad == {k \in 1..N : ~Q(k)}
<1>11. ASSUME bad # {} PROVE FALSE
  <2>1. PICK k \in bad : \A j \in bad : k <= j
    <3>1. bad \subseteq Nat
      BY <1>8
    <3>. HIDE DEF bad
    <3>. QED BY <1>11, <3>1, LeastNat
  <2>2. CASE k = 1
    BY <1>3, <1>4, <1>9, <1>10, <2>1, <2>2
  <2>3. CASE k # 1
    <3>1. k - 1 \in 1..N /\ ~(k <= k - 1) /\ k \in 2..N
      BY <1>8, <2>1, <2>3
    <3>2. Q(k - 1)
      <4>. HIDE DEF Q
      <4>. QED BY <2>1, <3>1
    <3>3. f[k] = MergeLine(b, f[k - 1]) /\ g[k] = MergeLine(b2, g[k - 1])
      BY <1>3, <1>4, <3>1
    <3>4. Merged(b, p, f[k]) /\ Merged(b2, p, g[k])
      BY <3>2, <3>3, MergeLineOK
    <3>5. g[k] = f[k] \/ Late(b, f[k], g[k])
      <4>1. CASE g[k - 1] = f[k - 1]
        BY <3>2, <3>3, <4>1, MergeLineLocal
      <4>2. CASE Late(b, f[k - 1], g[k - 1])
        BY <3>2, <3>3, <4>2, LateStep
      <4>. QED BY <3>2, <4>1, <4>2
    <3>. QED BY <2>1, <3>4, <3>5
  <2>. QED BY <2>2, <2>3
<1>12. Q(N)
  BY <1>8, <1>11
<1>. QED BY <1>3, <1>4, <1>12 DEF end, body

\* A request stays the same request, and one that lies in the shorter sink was there already.
LEMMA ReadLocal ==
  ASSUME NEW b \in Seq(Symbols), NEW b2 \in Seq(Symbols), Extends(b2, b), NulsAtStart(b), NulsAtStart(b2),
         NEW p \in Nat, Starts(b, p)
  PROVE  /\ Taken(b, p) => Taken(b2, p) /\ ReadAt(b2, p).end = ReadAt(b, p).end
         /\ Taken(b2, p) /\ ReadAt(b2, p).end <= Len(b) => Taken(b, p)
<1>0. Len(b) \in Nat /\ Len(b2) \in Nat /\ Len(b) <= Len(b2) /\ p < Len(b) /\ p <= Len(b)
      /\ \A i \in 1..Len(b) : b2[i] = b[i]
  BY DEF Extends, Starts
<1>1. Starts(b2, p)
  BY <1>0, StartsLocal
<1>2. ASSUME Taken(b2, p), ReadAt(b2, p).end <= Len(b) PROVE HasLine(b, p)
  <2>. DEFINE e == ReadAt(b2, p).end
  <2>1. e \in (p + 1)..Len(b2) /\ b2[e] = "nl" /\ e <= Len(b)
    BY <1>1, <1>2, ReadSays DEF Taken
  <2>. HIDE DEF e
  <2>2. e \in (p + 1)..Len(b) /\ e \in 1..Len(b)
    BY <1>0, <2>1
  <2>. QED BY <1>0, <2>1, <2>2 DEF HasLine
<1>3. ASSUME HasLine(b, p), ~Undecodable(LineBody(b, p))
      PROVE  \/ ReadAt(b2, p) = ReadAt(b, p)
             \/ /\ ~IsJson(ReadAt(b, p).merged)
                /\ IsJson(ReadAt(b2, p).merged) => ReadAt(b2, p).end > Len(b)
  <2>. DEFINE end == LineEnd(b, p)
              body == LineBody(b, p)
              m == MergeLoop(b, body, end)
              m2 == MergeLoop(b2, body, end)
              c == classify_multiline_json_payload(b, body, end)
              c2 == classify_multiline_json_payload(b2, body, end)
              plain == [kind |-> "none", merged |-> body, end |-> end]
  <2>1. LineEnd(b2, p) = end /\ LineBody(b2, p) = body
    BY <1>0, <1>3, LineLocal
  <2>2. m2 = m \/ Late(b, m, m2)
    BY <1>3, MergeLoopLocal
  <2>3. /\ ReadAt(b, p) = IF ~IsJson(body) /\ has_odd_unescaped_quotes(body) THEN c ELSE plain
        /\ ReadAt(b2, p) = IF ~IsJson(body) /\ has_odd_unescaped_quotes(body) THEN c2 ELSE plain
    BY <2>1 DEF ReadAt
  <2>. HIDE DEF end, body
  <2>4. m2 = m => c2 = c
    BY DEF classify_multiline_json_payload
  <2>5. m.st = "eof" => c.merged = body
    BY DEF classify_multiline_json_payload
  <2>6. m2.st \in {"eof", "break"} => c2.merged = body
    BY DEF classify_multiline_json_payload
  <2>7. c2.merged = body \/ c2.end = m2.pos
    BY DEF classify_multiline_json_payload
  <2>. HIDE DEF m, m2, c, c2, plain
  <2>8. CASE m2 = m
    BY <2>3, <2>4, <2>8
  <2>9. CASE Late(b, m, m2) /\ ~IsJson(body) /\ has_odd_unescaped_quotes(body)
    BY <2>3, <2>5, <2>6, <2>7, <2>9 DEF Late
  <2>. QED BY <2>2, <2>3, <2>8, <2>9
<1>4. HasLine(b, p) => HasLine(b2, p) /\ LineBody(b2, p) = LineBody(b, p)
  BY <1>0, LineLocal
<1>5. ASSUME Taken(b, p) PROVE Taken(b2, p) /\ ReadAt(b2, p).end = ReadAt(b, p).end
  BY <1>3, <1>4, <1>5 DEF Taken
<1>6. ASSUME Taken(b2, p), ReadAt(b2, p).end <= Len(b) PROVE Taken(b, p)
  <2>1. HasLine(b, p) /\ ~Undecodable(LineBody(b, p)) /\ IsJson(ReadAt(b2, p).merged)
    BY <1>2, <1>4, <1>6 DEF Taken
  <2>2. ~(ReadAt(b2, p).end > Len(b))
    <3>1. ReadAt(b2, p).end \in (p + 1)..Len(b2)
      BY <1>1, <1>6, ReadSays DEF Taken
    <3>. QED BY <1>0, <1>6, <3>1
  <2>3. ReadAt(b2, p) = ReadAt(b, p)
    BY <1>3, <2>1, <2>2
  <2>. QED BY <2>1, <2>3 DEF Taken
<1>. QED BY <1>5, <1>6

-----------------------------------------------------------------------------
(* Submissions and positions.                                              *)

\* A submission that is what is read at its offset.
ReadAs(b, x) ==
    /\ Starts(b, x.off) /\ Taken(b, x.off)
    /\ ReadAt(b, x.off).end = x.end /\ x.payload = Joined(b, x.off, x.end)

\* A position that is not inside a submission, submissions that share nothing, a position
\* inside one, and a position where no request will ever be read.
Apart(o, x) == x.end <= o \/ o <= x.off
Disjoint(S) == \A x, y \in S : x = y \/ x.end <= y.off \/ y.end <= x.off
Covered(S, p) == \E y \in S : y.off <= p /\ p < y.end
Dead(b, p) == \A c \in Seq(Symbols) : Extends(c, b) /\ NulsAtStart(c) => ~Taken(c, p)

\* From a committed offset k: a drain that starts there again meets the submissions again, and
\* no other request on its way to them.
SettledFrom(b, S, k) ==
    /\ \A x \in S : Apart(k, x)
    /\ \A x \in S : k <= x.off =>
          \A p \in k..(x.off - 1) : Starts(b, p) => Covered(S, p) \/ Dead(b, p)

\* A drain that read b has come from k to o, and what it passed was submitted or is no request.
PassedTo(b, S, k, o) ==
    /\ k <= o
    /\ \A x \in S : x.end <= Len(b) /\ Apart(o, x)
    /\ \A p \in k..(o - 1) : Starts(b, p) => Covered(S, p) \/ ~Taken(b, p)

\* Where a submission lies.
LEMMA ReadAsFacts ==
  ASSUME NEW b \in Seq(Symbols), NulsAtStart(b), NEW x \in Submission, ReadAs(b, x)
  PROVE  /\ x.off \in Nat /\ x.end \in Nat /\ x.off < x.end /\ x.end <= Len(b) /\ b[x.end] = "nl"
         /\ Span(b, x.off, x.end) /\ Starts(b, x.off) /\ x.off < Len(b)
<1>1. x.off \in Nat /\ x.end \in Nat
  BY DEF Submission
<1>2. Span(b, x.off, x.end)
  BY <1>1, TakenSpan DEF ReadAs
<1>. QED BY <1>1, <1>2 DEF Span, ReadAs, Starts

\* A submission stays what is read at its offset when the sink grows.
LEMMA ReadAsGrows ==
  ASSUME NEW b \in Seq(Symbols), NEW b2 \in Seq(Symbols), Extends(b2, b), NulsAtStart(b), NulsAtStart(b2),
         NEW x \in Submission, ReadAs(b, x)
  PROVE  ReadAs(b2, x)
<1>1. x.off \in Nat /\ x.end \in Nat /\ x.off < x.end /\ x.end <= Len(b) /\ x.off < Len(b) /\ Starts(b, x.off)
  BY ReadAsFacts
<1>2. Starts(b2, x.off)
  BY <1>1, StartsLocal
<1>3. Taken(b2, x.off) /\ ReadAt(b2, x.off).end = x.end
  BY <1>1, ReadLocal DEF ReadAs
<1>4. x.end \in 1..(Len(b) + 1)
  BY <1>1
<1>5. Joined(b2, x.off, x.end) = Joined(b, x.off, x.end)
  BY <1>1, <1>4, JoinedLocal
<1>. QED BY <1>2, <1>3, <1>5 DEF ReadAs

\* One request lies at a position, so two submissions of one offset are one.
LEMMA SameOffset ==
  ASSUME NEW b \in Seq(Symbols), NulsAtStart(b), NEW x \in Submission, ReadAs(b, x),
         NEW y \in Submission, ReadAs(b, y), x.off = y.off
  PROVE  x = y
<1>1. x.end = y.end
  BY DEF ReadAs
<1>2. x.payload = y.payload
  BY <1>1 DEF ReadAs
<1>. QED BY <1>1, <1>2 DEF Submission

\* A position at which no request was read, and behind which one was, is dead.
LEMMA DeadBefore ==
  ASSUME NEW a \in Seq(Symbols), NulsAtStart(a), NEW x \in Submission, ReadAs(a, x),
         NEW p \in Nat, p < x.off, Starts(a, p), ~Taken(a, p)
  PROVE  Dead(a, p)
<1>. SUFFICES ASSUME NEW c \in Seq(Symbols), Extends(c, a), NulsAtStart(c), Taken(c, p) PROVE FALSE
  BY DEF Dead
<1>. DEFINE e == ReadAt(c, p).end
<1>1. x.off \in Nat /\ x.end \in Nat /\ x.end <= Len(a) /\ Span(a, x.off, x.end) /\ Len(a) \in Nat
      /\ x.off < Len(a) /\ p < Len(a)
  BY ReadAsFacts
<1>2. Starts(c, p)
  BY <1>1, StartsLocal
<1>3. Span(c, p, e) /\ e \in (p + 1)..Len(c)
  BY <1>2, TakenSpan, ReadSays DEF Taken
<1>4. ~(e <= Len(a))
  BY ReadLocal
<1>. HIDE DEF e
<1>5. e \in Nat /\ Len(a) < e
  BY <1>1, <1>3, <1>4
<1>6. x.off + 1 \in 1..Len(a) /\ x.off + 1 \in (p + 2)..(e - 2) /\ c[x.off + 1] = a[x.off + 1]
  <2>1. x.off + 2 <= x.end
    BY <1>1 DEF Span
  <2>2. x.off + 1 \in 1..Len(a) /\ x.off + 1 \in (p + 2)..(e - 2)
    BY <1>1, <1>5, <2>1
  <2>. QED BY <2>2 DEF Extends
<1>7. a[x.off + 1] \in {"req", "frag"}
  BY <1>1 DEF Span
<1>8. e # p + 2
  BY <1>1, <1>5, <1>6
<1>9. c[x.off + 1] \in {"text", "nl", "nul"}
  BY <1>3, <1>6, <1>8 DEF Span
<1>. QED BY <1>6, <1>7, <1>9

\* The sink grows.
LEMMA SettledGrows ==
  ASSUME NEW b \in Seq(Symbols), NEW b2 \in Seq(Symbols), Extends(b2, b), NulsAtStart(b),
         NEW S, S \subseteq Submission, \A x \in S : ReadAs(b, x), NEW k \in Nat, SettledFrom(b, S, k)
  PROVE  SettledFrom(b2, S, k)
<1>1. ASSUME NEW x \in S, k <= x.off, NEW p \in k..(x.off - 1), Starts(b2, p)
      PROVE  Covered(S, p) \/ Dead(b2, p)
  <2>1. x \in Submission /\ x.off \in Nat /\ x.off < Len(b) /\ Len(b) \in Nat
    BY ReadAsFacts
  <2>2. p \in Nat /\ p < Len(b)
    BY <2>1
  <2>3. Starts(b, p)
    BY <1>1, <2>2, StartsLocal
  <2>4. Covered(S, p) \/ Dead(b, p)
    BY <1>1, <2>3 DEF SettledFrom
  <2>5. ASSUME NEW c \in Seq(Symbols), Extends(c, b2) PROVE Extends(c, b)
    <3>1. Len(c) \in Nat /\ Len(b) \in Nat /\ Len(b2) \in Nat
      OBVIOUS
    <3>. QED BY <2>5, <3>1 DEF Extends
  <2>. QED BY <2>4, <2>5 DEF Dead
<1>. QED BY <1>1 DEF SettledFrom

\* The committed offset moves on.
LEMMA SettledLater ==
  ASSUME NEW b, NEW S, S \subseteq Submission, NEW k \in Nat, SettledFrom(b, S, k), NEW o \in Nat, k <= o,
         \A x \in S : Apart(o, x)
  PROVE  SettledFrom(b, S, o)
<1>1. ASSUME NEW x \in S, o <= x.off, NEW p \in o..(x.off - 1), Starts(b, p)
      PROVE  Covered(S, p) \/ Dead(b, p)
  <2>1. x.off \in Nat
    BY DEF Submission
  <2>2. k <= x.off /\ p \in k..(x.off - 1)
    BY <1>1, <2>1
  <2>. QED BY <1>1, <2>2 DEF SettledFrom
<1>. QED BY <1>1 DEF SettledFrom

\* NULs are passed.
LEMMA PassNuls ==
  ASSUME NEW a \in Seq(Symbols), NEW b \in Seq(Symbols), Extends(b, a), NulsAtStart(b),
         NEW S, S \subseteq Submission, \A x \in S : ReadAs(b, x), NEW k \in Nat, NEW o \in Nat,
         PassedTo(a, S, k, o), NEW p \in o..Len(a), \A i \in (o + 1)..p : a[i] = "nul"
  PROVE  PassedTo(a, S, k, p)
<1>0. Len(a) \in Nat /\ p \in Nat /\ o <= p /\ p <= Len(a) /\ k <= p /\ \A i \in 1..Len(a) : b[i] = a[i]
  BY DEF PassedTo, Extends
<1>1. ASSUME NEW x \in S PROVE x.end <= Len(a) /\ Apart(p, x)
  <2>1. x.off \in Nat /\ x.end \in Nat /\ Starts(b, x.off) /\ x.end <= Len(a) /\ Apart(o, x)
    BY ReadAsFacts DEF PassedTo
  <2>2. CASE x.end <= o
    BY <1>0, <2>1, <2>2 DEF Apart
  <2>3. CASE o <= x.off /\ x.off < p
    <3>1. x.off + 1 \in (o + 1)..p /\ x.off + 1 \in 1..Len(a)
      BY <1>0, <2>1, <2>3
    <3>2. b[x.off + 1] = "nul"
      BY <1>0, <3>1
    <3>. QED BY <2>1, <3>2 DEF Starts
  <2>4. CASE o <= x.off /\ p <= x.off
    BY <2>1, <2>4 DEF Apart
  <2>. QED BY <1>0, <2>1, <2>2, <2>3, <2>4 DEF Apart
<1>2. ASSUME NEW q \in k..(p - 1), Starts(a, q) PROVE Covered(S, q) \/ ~Taken(a, q)
  <2>1. CASE q < o
    <3>1. q \in k..(o - 1)
      BY <1>0, <2>1
    <3>. QED BY <1>2, <3>1 DEF PassedTo
  <2>2. CASE q >= o
    <3>1. q + 1 \in (o + 1)..p
      BY <1>0, <2>2
    <3>. QED BY <1>2, <3>1 DEF Starts
  <2>. QED BY <1>0, <2>1, <2>2
<1>. QED BY <1>0, <1>1, <1>2 DEF PassedTo

\* A line that is no request is passed.
LEMMA PassSkipped ==
  ASSUME NEW a \in Seq(Symbols), NEW b \in Seq(Symbols), Extends(b, a), NulsAtStart(a), NulsAtStart(b),
         NEW S, S \subseteq Submission, \A x \in S : ReadAs(b, x), NEW k \in Nat, NEW p \in Nat,
         PassedTo(a, S, k, p), Starts(a, p), HasLine(a, p), ~Taken(a, p)
  PROVE  PassedTo(a, S, k, LineEnd(a, p))
<1>. DEFINE e == LineEnd(a, p)
<1>1. e \in (p + 1)..Len(a) /\ \A i \in (p + 1)..(e - 1) : a[i] \notin {"nl", "nul"}
  BY LineSays
<1>. HIDE DEF e
<1>0. /\ Len(a) \in Nat /\ e \in Nat /\ p < e /\ e <= Len(a) /\ k <= p /\ k <= e
      /\ \A i \in 1..Len(a) : b[i] = a[i]
  BY <1>1 DEF PassedTo, Extends
<1>2. ASSUME NEW x \in S PROVE x.end <= Len(a) /\ Apart(e, x)
  <2>1. x.off \in Nat /\ x.end \in Nat /\ Starts(b, x.off) /\ x.end <= Len(a) /\ Apart(p, x)
    BY ReadAsFacts DEF PassedTo
  <2>2. CASE x.end <= p
    BY <1>0, <2>1, <2>2 DEF Apart
  <2>3. CASE x.off = p
    BY <2>1, <2>3, ReadLocal DEF ReadAs
  <2>4. CASE p < x.off /\ x.off < e
    <3>1. x.off \in (p + 1)..(e - 1) /\ x.off \in 1..Len(a) /\ x.off # 0
      BY <1>0, <2>1, <2>4
    <3>2. b[x.off] \notin {"nl", "nul"}
      BY <1>0, <1>1, <3>1
    <3>. QED BY <2>1, <3>1, <3>2 DEF Starts, AtStart
  <2>5. CASE e <= x.off
    BY <2>1, <2>5 DEF Apart
  <2>. QED BY <1>0, <2>1, <2>2, <2>3, <2>4, <2>5 DEF Apart
<1>3. ASSUME NEW q \in k..(e - 1), Starts(a, q) PROVE Covered(S, q) \/ ~Taken(a, q)
  <2>1. CASE q < p
    <3>1. q \in k..(p - 1)
      BY <1>0, <2>1
    <3>. QED BY <1>3, <3>1 DEF PassedTo
  <2>2. CASE q = p
    BY <2>2
  <2>3. CASE q > p
    <3>1. q \in (p + 1)..(e - 1) /\ q # 0
      BY <1>0, <2>3
    <3>. QED BY <1>1, <1>3, <3>1 DEF Starts, AtStart
  <2>. QED BY <1>0, <2>1, <2>2, <2>3
<1>4. PassedTo(a, S, k, e)
  BY <1>0, <1>2, <1>3 DEF PassedTo
<1>. QED BY <1>4 DEF e

\* A request is submitted: it shares nothing with the others, and is passed.
LEMMA PassSubmitted ==
  ASSUME NEW a \in Seq(Symbols), NEW b \in Seq(Symbols), Extends(b, a), NulsAtStart(a), NulsAtStart(b),
         NEW S, S \subseteq Submission, \A x \in S : ReadAs(b, x), Disjoint(S),
         NEW k \in Nat, SettledFrom(b, S, k), NEW x \in Submission, ReadAs(a, x),
         PassedTo(a, S, k, x.off)
  PROVE  /\ Disjoint(S \union {x}) /\ SettledFrom(b, S \union {x}, k)
         /\ PassedTo(a, S \union {x}, k, x.end) /\ Apart(x.off, x)
<1>. DEFINE T == S \union {x}
            p == x.off
<1>0. /\ p \in Nat /\ x.end \in Nat /\ p < x.end /\ x.end <= Len(a) /\ p < Len(a) /\ Len(a) \in Nat
      /\ k <= p /\ Starts(a, p) /\ Len(b) \in Nat /\ Len(a) <= Len(b)
  BY ReadAsFacts DEF PassedTo, Extends
<1>1. ReadAs(b, x)
  BY ReadAsGrows
<1>2. \A y \in S : /\ y \in Submission /\ y.off \in Nat /\ y.end \in Nat /\ y.off < y.end /\ Apart(p, y)
                   /\ y.end <= Len(a)
  BY ReadAsFacts DEF PassedTo
<1>3. Taken(b, p) /\ Starts(b, p)
  BY <1>1 DEF ReadAs
<1>4. ASSUME NEW y \in S PROVE x = y \/ y.end <= p \/ x.end <= y.off
  <2>1. CASE y.off = p
    BY <1>1, <1>2, <2>1, SameOffset
  <2>2. CASE p < y.off /\ y.off < x.end
    <3>1. p \in k..(y.off - 1) /\ k <= y.off
      BY <1>0, <1>2, <2>2
    <3>2. Covered(S, p) \/ Dead(b, p)
      BY <1>3, <3>1 DEF SettledFrom
    <3>3. Extends(b, b)
      BY DEF Extends
    <3>4. ~Dead(b, p)
      BY <1>3, <3>3 DEF Dead
    <3>5. PICK z \in S : z.off <= p /\ p < z.end
      BY <3>2, <3>4 DEF Covered
    <3>6. z.off = p
      BY <1>0, <1>2, <3>5 DEF Apart
    <3>7. z = x
      BY <1>1, <1>2, <3>6, SameOffset
    <3>8. x \in S /\ x # y
      BY <1>0, <1>2, <2>2, <3>7
    <3>9. x.end <= y.off \/ y.end <= x.off
      BY <3>8 DEF Disjoint
    <3>. QED BY <1>0, <1>2, <2>2, <3>9
  <2>. QED BY <1>0, <1>2, <2>1, <2>2 DEF Apart
<1>5. Disjoint(T)
  BY <1>4 DEF Disjoint
<1>6. \A q : Covered(S, q) => Covered(T, q)
  BY DEF Covered
<1>7. ASSUME NEW q \in k..(p - 1), Starts(b, q) PROVE Covered(T, q) \/ Dead(b, q)
  <2>1. q \in Nat /\ q < p /\ q < Len(a)
    BY <1>0
  <2>2. Starts(a, q)
    BY <1>7, <2>1, StartsLocal
  <2>3. CASE Covered(S, q)
    BY <1>6, <2>3
  <2>4. CASE ~Taken(a, q)
    <3>1. Dead(a, q)
      BY <2>1, <2>2, <2>4, DeadBefore
    <3>2. ASSUME NEW c \in Seq(Symbols), Extends(c, b) PROVE Extends(c, a)
      <4>1. Len(c) \in Nat
        OBVIOUS
      <4>. QED BY <1>0, <3>2, <4>1 DEF Extends
    <3>. QED BY <3>1, <3>2 DEF Dead
  <2>. QED BY <1>7, <2>2, <2>3, <2>4 DEF PassedTo
<1>8. SettledFrom(b, T, k)
  <2>1. \A y \in T : Apart(k, y)
    BY <1>0 DEF SettledFrom, Apart
  <2>2. ASSUME NEW y \in T, k <= y.off, NEW q \in k..(y.off - 1), Starts(b, q)
        PROVE  Covered(T, q) \/ Dead(b, q)
    <3>1. CASE y = x
      BY <1>7, <2>2, <3>1
    <3>2. CASE y \in S
      BY <1>6, <2>2, <3>2 DEF SettledFrom
    <3>. QED BY <3>1, <3>2
  <2>. QED BY <2>1, <2>2 DEF SettledFrom
<1>9. PassedTo(a, T, k, x.end)
  <2>1. k <= x.end
    BY <1>0
  <2>2. ASSUME NEW y \in T PROVE y.end <= Len(a) /\ Apart(x.end, y)
    <3>1. CASE y = x
      BY <1>0, <3>1 DEF Apart
    <3>2. CASE y \in S
      BY <1>0, <1>2, <1>4, <3>2 DEF Apart
    <3>. QED BY <3>1, <3>2
  <2>3. ASSUME NEW q \in k..(x.end - 1), Starts(a, q) PROVE Covered(T, q) \/ ~Taken(a, q)
    <3>1. CASE q < p
      <4>1. q \in k..(p - 1)
        BY <1>0, <3>1
      <4>. QED BY <1>6, <2>3, <4>1 DEF PassedTo
    <3>2. CASE q >= p
      <4>1. x \in T /\ x.off <= q /\ q < x.end
        BY <1>0, <3>2
      <4>. QED BY <4>1 DEF Covered
    <3>. QED BY <1>0, <3>1, <3>2
  <2>. QED BY <2>1, <2>2, <2>3 DEF PassedTo
<1>10. Apart(p, x)
  BY <1>0 DEF Apart
<1>. QED BY <1>5, <1>8, <1>9, <1>10

-----------------------------------------------------------------------------
(* Whole lines.                                                            *)

\* While clients only append, every submission is what is read at its offset, now and later.
WholeInv == AppendOnly => \A s \in Sinks : \A x \in submitted[s] : ReadAs(bytes[s], x)

\* The line at the working cursor, as a position of the bytes read.
LEMMA HereStarts ==
  ASSUME Shape, AtLine, NEW f, GoodCursor(snap, f, cursor)
  PROVE  /\ snap \in Seq(Symbols) /\ NulsAtStart(snap) /\ AfterNuls.offset \in Nat
         /\ Starts(snap, AfterNuls.offset) /\ HasLine(snap, AfterNuls.offset)
         /\ Multiline = ReadAt(snap, AfterNuls.offset) /\ Body = LineBody(snap, AfterNuls.offset)
<1>1. pc = "line" /\ HasLine(snap, AfterNuls.offset)
  BY DEF AtLine
<1>2. /\ snap \in Seq(Symbols) /\ NulsAtStart(snap)
      /\ AfterNuls.offset < Len(snap) => snap[AfterNuls.offset + 1] # "nul"
  BY <1>1, AfterNulsOK
<1>3. AfterNuls.offset \in Nat /\ AfterNuls.offset < Len(snap)
  BY BodyOK
<1>4. AtStart(snap, AfterNuls.offset)
  BY <1>1, NulsGood DEF GoodCursor
<1>5. Multiline = ReadAt(snap, AfterNuls.offset) /\ Body = LineBody(snap, AfterNuls.offset)
  BY DEF Multiline, ReadAt, Body
<1>. QED BY <1>1, <1>2, <1>3, <1>4, <1>5 DEF Starts

\* What the handler is given is what is read at the working cursor.
LEMMA RequestReadAs ==
  ASSUME Shape, OrderInv, AppendOnly, AtRequest
  PROVE  Request \in Submission /\ ReadAs(snap, Request)
<1>1. AtLine /\ pc = "line" /\ ~Undecodable(Body) /\ IsJson(Multiline.merged)
  BY DEF AtRequest, AtLine
<1>2. GoodCursor(snap, done[Sink], cursor)
  BY <1>1 DEF OrderInv
<1>. DEFINE p == AfterNuls.offset
<1>3. /\ snap \in Seq(Symbols) /\ NulsAtStart(snap) /\ p \in Nat /\ Starts(snap, p) /\ HasLine(snap, p)
      /\ Multiline = ReadAt(snap, p) /\ Body = LineBody(snap, p)
  BY <1>1, <1>2, HereStarts
<1>4. Request.off = p /\ Request.end = Multiline.end /\ Request.payload = Multiline.merged
  BY DEF Request
<1>. HIDE DEF p
<1>5. Taken(snap, p)
  BY <1>1, <1>3 DEF Taken
<1>6. ReadAt(snap, p).merged = Joined(snap, p, ReadAt(snap, p).end)
  BY <1>1, <1>3, ReadSays
<1>7. Request \in Submission
  BY RequestType
<1>. QED BY <1>3, <1>4, <1>5, <1>6, <1>7 DEF ReadAs

\* The same, seen from the sink itself.
LEMMA RequestWhole ==
  ASSUME Shape, OrderInv, AppendOnly, AtRequest
  PROVE  Sink \in Sinks /\ ReadAs(bytes[Sink], Request)
<1>1. Sink \in Sinks /\ pc = "line"
  BY SinkType DEF Shape, TypeOK, AtRequest, AtLine
<1>2. bytes[Sink] \in Seq(Symbols) /\ NulsAtStart(bytes[Sink]) /\ snap \in Seq(Symbols) /\ NulsAtStart(snap)
  BY <1>1 DEF Shape, TypeOK
<1>3. Extends(bytes[Sink], snap)
  BY <1>1 DEF OrderInv
<1>. QED BY <1>1, <1>2, <1>3, RequestReadAs, ReadAsGrows

\* What a step may do to the sinks and to the submissions.
LEMMA SubmitStep ==
  ASSUME Shape, [Next]_vars, AppendOnly'
  PROVE  /\ AppendOnly
         /\ \A s \in Sinks : Extends(bytes'[s], bytes[s])
         /\ \/ submitted' = submitted
            \/ /\ AtRequest /\ bytes' = bytes
               /\ submitted' = [submitted EXCEPT ![Sink] = submitted[Sink] \union {Request}]
<1>0. bytes \in [Sinks -> Seq(Symbols)] /\ truncates \in Nat
  BY DEF Shape, TypeOK
<1>1. bytes' = bytes => \A s \in Sinks : Extends(bytes'[s], bytes[s])
  BY DEF Extends
<1>2. CASE UNCHANGED vars
  BY <1>1, <1>2 DEF vars, AppendOnly
<1>3. ASSUME NEW s \in Sinks, NEW x \in Chunks, Write(s, x)
      PROVE  /\ AppendOnly /\ submitted' = submitted /\ \A t \in Sinks : Extends(bytes'[t], bytes[t])
  <2>1. bytes' = [bytes EXCEPT ![s] = bytes[s] \o x] /\ truncates' = truncates /\ submitted' = submitted
    BY <1>3 DEF Write
  <2>2. x \in Seq(Symbols) /\ bytes[s] \in Seq(Symbols)
    BY <1>0, ChunksAssumption
  <2>3. Extends(bytes[s], bytes[s])
    BY DEF Extends
  <2>4. Extends(bytes[s] \o x, bytes[s])
    BY <2>2, <2>3, ExtendsAppend
  <2>5. ASSUME NEW t \in Sinks PROVE Extends(bytes'[t], bytes[t])
    <3>1. bytes'[t] = IF t = s THEN bytes[s] \o x ELSE bytes[t]
      BY <1>0, <2>1
    <3>. QED BY <2>4, <3>1 DEF Extends
  <2>. QED BY <2>1, <2>5 DEF AppendOnly
<1>4. ASSUME NEW s \in Sinks, Truncate(s) PROVE FALSE
  BY <1>0, <1>4 DEF Truncate, AppendOnly
<1>5. CASE BeginDrain \/ Stat \/ Read \/ SinkUnreadable \/ SinkExhausted \/ DeferMultiline \/ SkipLine
  BY <1>1, <1>5 DEF BeginDrain, Stat, Read, SinkUnreadable, SinkExhausted, DeferMultiline, SkipLine,
                    sinkVars, AppendOnly
<1>6. CASE HandleConsumed \/ HandleRetryPending \/ HandleInvalidRetry \/ HandleError
  BY <1>1, <1>6 DEF HandleConsumed, HandleRetryPending, HandleInvalidRetry, HandleError, sinkVars,
                    AppendOnly
<1>7. CASE Commit \/ CommitError \/ Crash \/ Restart
  BY <1>1, <1>7 DEF Commit, CommitError, Crash, Restart, sinkVars, AppendOnly
<1>. QED BY <1>2, <1>3, <1>4, <1>5, <1>6, <1>7 DEF Next

\* Every step keeps the submissions whole.
LEMMA WholeStep ==
  ASSUME Shape, Shape', OrderInv, WholeInv, [Next]_vars
  PROVE  WholeInv'
<1>. SUFFICES ASSUME AppendOnly', NEW s \in Sinks, NEW x \in submitted'[s] PROVE ReadAs(bytes'[s], x)
  BY DEF WholeInv
<1>1. AppendOnly /\ Extends(bytes'[s], bytes[s])
  BY SubmitStep
<1>2. /\ bytes[s] \in Seq(Symbols) /\ bytes'[s] \in Seq(Symbols)
      /\ NulsAtStart(bytes[s]) /\ NulsAtStart(bytes'[s]) /\ x \in Submission
      /\ submitted \in [Sinks -> SUBSET Submission]
  BY DEF Shape, TypeOK
<1>3. CASE x \in submitted[s]
  <2>1. ReadAs(bytes[s], x)
    BY <1>1, <1>3 DEF WholeInv
  <2>. QED BY <1>1, <1>2, <2>1, ReadAsGrows
<1>4. CASE x \notin submitted[s]
  <2>1. AtRequest /\ bytes' = bytes /\ submitted' = [submitted EXCEPT ![Sink] = submitted[Sink] \union {Request}]
    BY <1>4, SubmitStep
  <2>2. x = Request /\ s = Sink
    BY <1>2, <1>4, <2>1
  <2>. QED BY <1>1, <2>1, <2>2, RequestWhole
<1>. QED BY <1>3, <1>4

-----------------------------------------------------------------------------
(* Stable submissions.                                                     *)

\* The cursor a drain starts from is the last one committed: it is in memory, or, while the
\* consumer is down, in the file, unless a failed commit has removed that.
Trusted == ~forgotten /\ ~(pc = "down" /\ lost)
Committed(s) == IF pc = "down" THEN cursorFile[s].offset ELSE cursors[s].offset
Draining == pc \in {"stat", "read", "line", "commit"}

FileAgrees == pc # "down" /\ ~lost => cursorFile = cursors
SinksToCome ==
    pc \in {"stat", "read", "line"} =>
        \A i \in at..Len(SinkOrder) : next[SinkOrder[i]] = cursors[SinkOrder[i]]
SinkBeingRead == pc = "read" => cursor = next[Sink]
KeptApart == ~forgotten => \A s \in Sinks : Disjoint(submitted[s])
CommittedSettled == Trusted => \A s \in Sinks : SettledFrom(bytes[s], submitted[s], Committed(s))
NextApart ==
    ~forgotten /\ Draining =>
        \A s \in Sinks : /\ cursors[s].offset <= next[s].offset
                         /\ \A x \in submitted[s] : Apart(next[s].offset, x)
LinesPassed ==
    ~forgotten /\ pc = "line" =>
        PassedTo(snap, submitted[Sink], cursors[Sink].offset, cursor.offset)

\* Inductive, together with Shape, OrderInv and WholeInv: while clients only append, a drain
\* that starts again meets the submissions made before, and no request between them that was
\* not one.
StableInv ==
    AppendOnly => /\ FileAgrees /\ SinksToCome /\ SinkBeingRead /\ KeptApart
                  /\ CommittedSettled /\ NextApart /\ LinesPassed

\* Every sink is visited once.
LEMMA SinkOnce ==
  ASSUME TypeOK
  PROVE  /\ Sink \in Sinks /\ at \in 1..Len(SinkOrder) /\ Len(SinkOrder) \in Nat
         /\ \A i \in 1..Len(SinkOrder) : SinkOrder[i] \in Sinks /\ (SinkOrder[i] = Sink => i = at)
<1>1. at \in 1..Len(SinkOrder)
  BY DEF TypeOK
<1>2. Len(SinkOrder) \in Nat /\ \A i \in 1..Len(SinkOrder) : SinkOrder[i] \in Sinks
  BY SinkOrderAssumption
<1>3. \A i, j \in 1..Len(SinkOrder) : SinkOrder[i] = SinkOrder[j] => i = j
  BY SinkOrderAssumption
<1>. QED BY <1>1, <1>2, <1>3 DEF Sink

\* What is known of the sink being drained.
LEMMA StableHere ==
  ASSUME Shape, OrderInv, WholeInv, StableInv, AppendOnly, pc = "line"
  PROVE  /\ Sink \in Sinks /\ bytes[Sink] \in Seq(Symbols) /\ NulsAtStart(bytes[Sink])
         /\ snap \in Seq(Symbols) /\ NulsAtStart(snap) /\ Extends(bytes[Sink], snap)
         /\ submitted[Sink] \subseteq Submission /\ cursors[Sink].offset \in Nat
         /\ \A x \in submitted[Sink] : ReadAs(bytes[Sink], x)
         /\ GoodCursor(snap, done[Sink], cursor) /\ next[Sink] = cursors[Sink]
         /\ AfterNuls \in CursorState /\ AfterNuls.offset \in Nat
         /\ ~forgotten => PassedTo(snap, submitted[Sink], cursors[Sink].offset, AfterNuls.offset)
<1>1. Sink \in Sinks /\ at \in 1..Len(SinkOrder) /\ Len(SinkOrder) \in Nat
  BY SinkOnce DEF Shape
<1>2. /\ bytes[Sink] \in Seq(Symbols) /\ NulsAtStart(bytes[Sink])
      /\ snap \in Seq(Symbols) /\ NulsAtStart(snap) /\ submitted[Sink] \subseteq Submission
      /\ cursors[Sink] \in CursorState /\ cursor \in CursorState
  BY <1>1 DEF Shape, TypeOK
<1>3. cursors[Sink].offset \in Nat /\ cursor.offset \in Nat
  BY <1>2 DEF CursorState
<1>4. Extends(bytes[Sink], snap) /\ GoodCursor(snap, done[Sink], cursor)
  BY DEF OrderInv
<1>5. \A x \in submitted[Sink] : ReadAs(bytes[Sink], x)
  BY <1>1 DEF WholeInv
<1>6. next[Sink] = cursors[Sink]
  <2>1. at \in at..Len(SinkOrder)
    BY <1>1
  <2>2. SinksToCome
    BY DEF StableInv
  <2>. QED BY <2>1, <2>2 DEF SinksToCome, Sink
<1>7. /\ AfterNuls \in CursorState /\ AfterNuls.offset \in cursor.offset..Len(snap)
      /\ \A i \in (cursor.offset + 1)..AfterNuls.offset : snap[i] = "nul"
  BY AfterNulsOK
<1>8. ASSUME ~forgotten PROVE PassedTo(snap, submitted[Sink], cursors[Sink].offset, AfterNuls.offset)
  <2>1. PassedTo(snap, submitted[Sink], cursors[Sink].offset, cursor.offset)
    BY <1>8 DEF StableInv, LinesPassed
  <2>. QED BY <1>2, <1>3, <1>4, <1>5, <1>7, <2>1, PassNuls
<1>. QED BY <1>1, <1>2, <1>3, <1>4, <1>5, <1>6, <1>7, <1>8 DEF CursorState

\* The request at the working cursor is submitted: for the first time, or again.
LEMMA StableSubmit ==
  ASSUME Shape, OrderInv, WholeInv, StableInv, AppendOnly, ~forgotten, AtRequest,
         NEW T, T = submitted[Sink] \union {Request}
  PROVE  /\ Disjoint(T) /\ SettledFrom(bytes[Sink], T, cursors[Sink].offset)
         /\ PassedTo(snap, T, cursors[Sink].offset, Multiline.end)
         /\ \A x \in T : Apart(AfterNuls.offset, x)
         /\ cursors[Sink].offset <= AfterNuls.offset
<1>. DEFINE S == submitted[Sink]
            k == cursors[Sink].offset
<1>1. pc = "line"
  BY DEF AtRequest, AtLine
<1>2. /\ Sink \in Sinks /\ bytes[Sink] \in Seq(Symbols) /\ NulsAtStart(bytes[Sink])
      /\ snap \in Seq(Symbols) /\ NulsAtStart(snap) /\ Extends(bytes[Sink], snap)
      /\ S \subseteq Submission /\ k \in Nat /\ \A x \in S : ReadAs(bytes[Sink], x)
      /\ PassedTo(snap, S, k, AfterNuls.offset)
  BY <1>1, StableHere
<1>3. Disjoint(S) /\ SettledFrom(bytes[Sink], S, k)
  BY <1>1, <1>2 DEF StableInv, KeptApart, CommittedSettled, Trusted, Committed
<1>4. Request \in Submission /\ ReadAs(snap, Request)
  BY RequestReadAs
<1>5. Request.off = AfterNuls.offset /\ Request.end = Multiline.end
  BY DEF Request
<1>6. k <= AfterNuls.offset /\ \A x \in S : Apart(AfterNuls.offset, x)
  BY <1>2 DEF PassedTo
<1>. HIDE DEF S, k
<1>7. /\ Disjoint(S \union {Request}) /\ SettledFrom(bytes[Sink], S \union {Request}, k)
      /\ PassedTo(snap, S \union {Request}, k, Request.end) /\ Apart(Request.off, Request)
  BY <1>2, <1>3, <1>4, <1>5, PassSubmitted
<1>. QED BY <1>5, <1>6, <1>7 DEF S, k

\* The end of process_action_sink: the other sinks stay as they were.
LEMMA StableEndSink ==
  ASSUME Shape, StableInv, AppendOnly, pc \in {"stat", "read", "line"}, NEW c, EndSink(c),
         UNCHANGED <<bytes, truncates, cursorFile, lost, forgotten, cursors>>,
         submitted' \in [Sinks -> SUBSET Submission],
         \A s \in Sinks : s # Sink => submitted'[s] = submitted[s],
         ~forgotten => /\ Disjoint(submitted'[Sink])
                       /\ SettledFrom(bytes[Sink], submitted'[Sink], cursors[Sink].offset)
                       /\ cursors[Sink].offset <= c.offset
                       /\ \A x \in submitted'[Sink] : Apart(c.offset, x)
  PROVE  StableInv'
<1>0. /\ TypeOK /\ Sink \in Sinks /\ at \in 1..Len(SinkOrder) /\ Len(SinkOrder) \in Nat
      /\ \A i \in 1..Len(SinkOrder) : SinkOrder[i] \in Sinks /\ (SinkOrder[i] = Sink => i = at)
  BY SinkOnce DEF Shape
<1>9. next \in [Sinks -> CursorState]
  BY <1>0 DEF TypeOK
<1>1. /\ next' = [next EXCEPT ![Sink] = c] /\ pc' \in {"stat", "commit", "idle"}
      /\ at' = IF at = Len(SinkOrder) THEN at ELSE at + 1
      /\ pc' = "stat" => at # Len(SinkOrder)
  BY DEF EndSink
<1>2. next'[Sink] = c /\ \A s \in Sinks : s # Sink => next'[s] = next[s]
  BY <1>0, <1>9, <1>1
<1>3. FileAgrees'
  BY <1>1 DEF StableInv, FileAgrees
<1>4. SinksToCome'
  <2>. SUFFICES ASSUME pc' = "stat", NEW i \in at'..Len(SinkOrder)
                PROVE  next'[SinkOrder[i]] = cursors[SinkOrder[i]]
    BY <1>1 DEF SinksToCome
  <2>1. i \in at..Len(SinkOrder) /\ i # at /\ i \in 1..Len(SinkOrder)
    BY <1>0, <1>1
  <2>2. SinkOrder[i] # Sink /\ SinkOrder[i] \in Sinks
    BY <1>0, <2>1
  <2>. QED BY <1>2, <2>1, <2>2 DEF StableInv, SinksToCome
<1>5. SinkBeingRead' /\ LinesPassed'
  BY <1>1 DEF SinkBeingRead, LinesPassed
<1>6. KeptApart'
  BY DEF StableInv, KeptApart
<1>7. CommittedSettled'
  <2>. SUFFICES ASSUME ~forgotten, NEW s \in Sinks
                PROVE  SettledFrom(bytes[s], submitted'[s], cursors[s].offset)
    BY <1>1 DEF CommittedSettled, Trusted, Committed
  <2>1. s # Sink => SettledFrom(bytes[s], submitted[s], cursors[s].offset)
    BY DEF StableInv, CommittedSettled, Trusted, Committed
  <2>. QED BY <2>1
<1>8. NextApart'
  <2>. SUFFICES ASSUME ~forgotten, NEW s \in Sinks
                PROVE  /\ cursors[s].offset <= next'[s].offset
                       /\ \A x \in submitted'[s] : Apart(next'[s].offset, x)
    BY DEF NextApart
  <2>1. cursors[s].offset <= next[s].offset /\ \A x \in submitted[s] : Apart(next[s].offset, x)
    BY DEF StableInv, NextApart, Draining
  <2>2. CASE s = Sink
    BY <1>2, <2>2
  <2>3. CASE s # Sink
    BY <1>2, <2>1, <2>3
  <2>. QED BY <2>2, <2>3
<1>. QED BY <1>3, <1>4, <1>5, <1>6, <1>7, <1>8 DEF StableInv

\* Clients write.
LEMMA StableWrite ==
  ASSUME Shape, Shape', OrderInv, WholeInv, StableInv, AppendOnly', NEW s \in Sinks, NEW x \in Chunks, Write(s, x)
  PROVE  StableInv'
<1>1. UNCHANGED <<truncates, cursorFile, lost, forgotten, cursors, pc, submitted, next, at, cursor, snap>>
  BY DEF Write, fileVars, drainVars
<1>2. AppendOnly /\ Sink' = Sink
  BY <1>1 DEF AppendOnly, Sink
<1>3. \A t \in Sinks : Extends(bytes'[t], bytes[t])
  <2>1. [Next]_vars
    BY DEF Next
  <2>. QED BY <2>1, SubmitStep
<1>4. CommittedSettled'
  <2>. SUFFICES ASSUME Trusted, NEW t \in Sinks PROVE SettledFrom(bytes'[t], submitted[t], Committed(t))
    BY <1>1 DEF CommittedSettled, Trusted, Committed
  <2>1. SettledFrom(bytes[t], submitted[t], Committed(t))
    BY <1>2 DEF StableInv, CommittedSettled
  <2>2. /\ bytes[t] \in Seq(Symbols) /\ bytes'[t] \in Seq(Symbols) /\ NulsAtStart(bytes[t])
        /\ submitted[t] \subseteq Submission /\ cursorFile[t] \in CursorState /\ cursors[t] \in CursorState
    BY DEF Shape, TypeOK
  <2>3. Committed(t) \in Nat
    BY <2>2 DEF Committed, CursorState
  <2>4. \A y \in submitted[t] : ReadAs(bytes[t], y)
    BY <1>2 DEF WholeInv
  <2>. QED BY <1>3, <2>1, <2>2, <2>3, <2>4, SettledGrows
<1>. QED BY <1>1, <1>2, <1>4 DEF StableInv, FileAgrees, SinksToCome, SinkBeingRead, KeptApart, NextApart,
                                 LinesPassed, Draining

\* A sink is looked at, read or left.
LEMMA StableDrain ==
  ASSUME Shape, OrderInv, WholeInv, StableInv, AppendOnly', BeginDrain \/ Stat \/ Read \/ SinkUnreadable
  PROVE  StableInv'
<1>0. /\ TypeOK /\ Sink \in Sinks /\ at \in 1..Len(SinkOrder) /\ Len(SinkOrder) \in Nat
      /\ \A i \in 1..Len(SinkOrder) : SinkOrder[i] \in Sinks
  BY SinkOnce DEF Shape
<1>1. /\ UNCHANGED <<bytes, truncates, cursorFile, lost, forgotten, cursors, submitted>>
      /\ pc \in {"idle", "stat", "read"} /\ pc' # "down"
  BY DEF BeginDrain, Stat, Read, SinkUnreadable, EndSink, sinkVars, fileVars
<1>2. AppendOnly
  BY <1>1 DEF AppendOnly
<1>3. /\ FileAgrees /\ SinksToCome /\ SinkBeingRead /\ KeptApart
      /\ CommittedSettled /\ NextApart /\ LinesPassed
  BY <1>2 DEF StableInv
<1>4. ~forgotten => \A s \in Sinks : Disjoint(submitted[s]) /\ SettledFrom(bytes[s], submitted[s], cursors[s].offset)
  BY <1>1, <1>3 DEF KeptApart, CommittedSettled, Trusted, Committed
<1>5. FileAgrees' /\ KeptApart' /\ CommittedSettled'
  BY <1>1, <1>3, <1>4 DEF FileAgrees, KeptApart, CommittedSettled, Trusted, Committed
<1>6. /\ submitted \in [Sinks -> SUBSET Submission] /\ cursors \in [Sinks -> CursorState]
      /\ bytes \in [Sinks -> Seq(Symbols)] /\ next \in [Sinks -> CursorState] /\ cursor \in CursorState
  BY <1>0 DEF TypeOK
<1>7. \A s \in Sinks : cursors[s].offset \in Nat
  BY <1>6 DEF CursorState
<1>8. pc \in {"stat", "read"} => next[Sink] = cursors[Sink]
  <2>1. at \in at..Len(SinkOrder)
    BY <1>0
  <2>. QED BY <1>3, <2>1 DEF SinksToCome, Sink
<1>9. ASSUME pc \in {"stat", "read"}, EndSink(next[Sink]) PROVE StableInv'
  <2>1. ~forgotten => /\ cursors[Sink].offset <= next[Sink].offset
                      /\ \A x \in submitted[Sink] : Apart(next[Sink].offset, x)
    BY <1>0, <1>3, <1>9 DEF NextApart, Draining
  <2>. QED BY <1>0, <1>1, <1>2, <1>4, <1>6, <1>9, <2>1, StableEndSink
<1>10. CASE BeginDrain
  <2>1. pc' = "stat" /\ at' = 1 /\ next' = cursors
    BY <1>10 DEF BeginDrain
  <2>2. SinksToCome' /\ SinkBeingRead' /\ LinesPassed'
    BY <1>1, <2>1 DEF SinksToCome, SinkBeingRead, LinesPassed
  <2>3. NextApart'
    BY <1>1, <1>4, <1>7, <2>1 DEF NextApart, SettledFrom
  <2>. QED BY <1>5, <2>2, <2>3 DEF StableInv
<1>11. CASE Stat
  <2>1. pc = "stat"
    BY <1>11 DEF Stat
  <2>2. GoodCursor(bytes[Sink], done[Sink], next[Sink])
    BY <1>0, <1>2 DEF OrderInv
  <2>3. next[Sink].offset \in Nat /\ next[Sink].offset <= Len(bytes[Sink]) /\ Len(bytes[Sink]) \in Nat
    BY <1>0, <1>6, <2>2 DEF GoodCursor, CursorState
  <2>4. CASE ~EndSink(next[Sink])
    <3>1. cursor' = next[Sink] /\ pc' = "read" /\ UNCHANGED <<next, at>>
      BY <1>11, <2>3, <2>4 DEF Stat
    <3>2. Sink' = Sink
      BY <3>1 DEF Sink
    <3>3. SinksToCome' /\ SinkBeingRead' /\ LinesPassed' /\ NextApart'
      BY <1>1, <1>3, <2>1, <3>1, <3>2 DEF SinksToCome, SinkBeingRead, LinesPassed, NextApart, Draining
    <3>. QED BY <1>5, <3>3 DEF StableInv
  <2>. QED BY <1>9, <2>1, <2>4
<1>12. CASE Read
  <2>1. /\ pc = "read" /\ snap' = bytes[Sink] /\ cursor' = CheckedCursor(cursor, bytes[Sink]) /\ pc' = "line"
        /\ UNCHANGED <<next, at>>
    BY <1>12 DEF Read
  <2>2. GoodCursor(bytes[Sink], done[Sink], cursor)
    BY <1>2, <2>1 DEF OrderInv
  <2>3. cursor.offset \in Nat /\ cursor.offset <= Len(bytes[Sink]) /\ Len(bytes[Sink]) \in Nat
    BY <1>0, <1>6, <2>2 DEF GoodCursor, CursorState
  <2>4. cursor' = cursor
    BY <2>1, <2>2, <2>3 DEF CheckedCursor, GoodCursor
  <2>5. cursor' = cursors[Sink] /\ Sink' = Sink
    BY <1>3, <1>8, <2>1, <2>4 DEF SinkBeingRead, Sink
  <2>6. SinksToCome' /\ SinkBeingRead' /\ NextApart'
    BY <1>1, <1>3, <2>1, <2>5 DEF SinksToCome, SinkBeingRead, NextApart, Draining
  <2>7. ASSUME ~forgotten
        PROVE  PassedTo(bytes[Sink], submitted[Sink], cursors[Sink].offset, cursors[Sink].offset)
    <3>1. NulsAtStart(bytes[Sink]) /\ bytes[Sink] \in Seq(Symbols) /\ submitted[Sink] \subseteq Submission
      BY <1>0, <1>6 DEF Shape
    <3>2. \A x \in submitted[Sink] : ReadAs(bytes[Sink], x)
      BY <1>0, <1>2 DEF WholeInv
    <3>3. \A x \in submitted[Sink] : x.end <= Len(bytes[Sink])
      BY <3>1, <3>2, ReadAsFacts
    <3>4. \A x \in submitted[Sink] : Apart(cursors[Sink].offset, x)
      BY <1>0, <1>4, <2>7 DEF SettledFrom
    <3>5. cursors[Sink].offset \in Nat
      BY <1>0, <1>7
    <3>6. cursors[Sink].offset..(cursors[Sink].offset - 1) = {} /\ cursors[Sink].offset <= cursors[Sink].offset
      BY <3>5
    <3>. QED BY <3>3, <3>4, <3>6 DEF PassedTo
  <2>8. LinesPassed'
    BY <1>1, <2>1, <2>5, <2>7 DEF LinesPassed
  <2>. QED BY <1>5, <2>6, <2>8 DEF StableInv
<1>13. CASE SinkUnreadable
  BY <1>9, <1>13 DEF SinkUnreadable
<1>. QED BY <1>10, <1>11, <1>12, <1>13

\* The drain leaves the sink at a line: nothing is left, or the line is deferred or retried.
LEMMA StableLeave ==
  ASSUME Shape, Shape', OrderInv, WholeInv, StableInv, AppendOnly',
         SinkExhausted \/ DeferMultiline \/ HandleRetryPending \/ HandleInvalidRetry
  PROVE  StableInv'
<1>1. pc = "line" /\ UNCHANGED <<bytes, truncates, cursorFile, lost, forgotten, cursors>>
  BY DEF SinkExhausted, DeferMultiline, HandleRetryPending, HandleInvalidRetry, AtRequest, AtLine,
         sinkVars, fileVars
<1>2. AppendOnly
  BY <1>1 DEF AppendOnly
<1>3. /\ Sink \in Sinks /\ AfterNuls \in CursorState
      /\ ~forgotten => PassedTo(snap, submitted[Sink], cursors[Sink].offset, AfterNuls.offset)
  BY <1>1, <1>2, StableHere
<1>4. /\ submitted' \in [Sinks -> SUBSET Submission] /\ submitted \in [Sinks -> SUBSET Submission]
  BY DEF Shape, TypeOK
<1>5. \A n : [AfterNuls EXCEPT !.pendingEof = n].offset = AfterNuls.offset
  BY <1>3 DEF CursorState
<1>6. PICK c : EndSink(c) /\ c.offset = AfterNuls.offset
  <2>1. CASE SinkExhausted
    BY <2>1 DEF SinkExhausted
  <2>2. ASSUME NEW n, EndSink([AfterNuls EXCEPT !.pendingEof = n])
        PROVE  \E c : EndSink(c) /\ c.offset = AfterNuls.offset
    <3>. DEFINE d == [AfterNuls EXCEPT !.pendingEof = n]
    <3>1. EndSink(d) /\ d.offset = AfterNuls.offset
      BY <1>5, <2>2
    <3>. HIDE DEF d
    <3>. QED BY <3>1
  <2>. QED BY <2>1, <2>2 DEF DeferMultiline, HandleRetryPending, HandleInvalidRetry
<1>7. CASE submitted' = submitted
  <2>1. ~forgotten => /\ Disjoint(submitted'[Sink])
                      /\ SettledFrom(bytes[Sink], submitted'[Sink], cursors[Sink].offset)
    BY <1>1, <1>2, <1>3, <1>7 DEF StableInv, KeptApart, CommittedSettled, Trusted, Committed
  <2>2. ~forgotten => /\ cursors[Sink].offset <= AfterNuls.offset
                      /\ \A x \in submitted'[Sink] : Apart(AfterNuls.offset, x)
    BY <1>3, <1>7 DEF PassedTo
  <2>. QED BY <1>1, <1>2, <1>4, <1>6, <1>7, <2>1, <2>2, StableEndSink
<1>8. CASE submitted' # submitted
  <2>1. AtRequest /\ submitted' = [submitted EXCEPT ![Sink] = submitted[Sink] \union {Request}]
    BY <1>8 DEF SinkExhausted, DeferMultiline, HandleRetryPending, HandleInvalidRetry
  <2>2. /\ submitted'[Sink] = submitted[Sink] \union {Request}
        /\ \A s \in Sinks : s # Sink => submitted'[s] = submitted[s]
    BY <1>3, <1>4, <2>1
  <2>3. ~forgotten => /\ Disjoint(submitted'[Sink])
                      /\ SettledFrom(bytes[Sink], submitted'[Sink], cursors[Sink].offset)
                      /\ cursors[Sink].offset <= AfterNuls.offset
                      /\ \A x \in submitted'[Sink] : Apart(AfterNuls.offset, x)
    BY <1>2, <2>1, <2>2, StableSubmit
  <2>. QED BY <1>1, <1>2, <1>4, <1>6, <2>2, <2>3, StableEndSink
<1>. QED BY <1>7, <1>8

\* The working cursor passes a line that is no request.
LEMMA SkipPassed ==
  ASSUME Shape, OrderInv, WholeInv, StableInv, AppendOnly, ~forgotten, SkipLine
  PROVE  PassedTo(snap, submitted[Sink], cursors[Sink].offset, cursor'.offset)
<1>. DEFINE p == AfterNuls.offset
<1>1. AtLine /\ pc = "line"
  BY DEF SkipLine, AtLine
<1>2. /\ Sink \in Sinks /\ bytes[Sink] \in Seq(Symbols) /\ NulsAtStart(bytes[Sink])
      /\ Extends(bytes[Sink], snap) /\ submitted[Sink] \subseteq Submission /\ cursors[Sink].offset \in Nat
      /\ \A x \in submitted[Sink] : ReadAs(bytes[Sink], x)
      /\ GoodCursor(snap, done[Sink], cursor)
      /\ PassedTo(snap, submitted[Sink], cursors[Sink].offset, p)
  BY <1>1, StableHere
<1>3. /\ snap \in Seq(Symbols) /\ NulsAtStart(snap) /\ p \in Nat /\ Starts(snap, p) /\ HasLine(snap, p)
      /\ Multiline = ReadAt(snap, p) /\ Body = LineBody(snap, p)
  BY <1>1, <1>2, HereStarts
<1>4. \A e : MovedTo(e).offset = e
  BY DEF MovedTo
<1>5. \/ Body = <<>> /\ cursor'.offset = LineEnd(snap, p)
      \/ Undecodable(Body) /\ cursor'.offset = LineEnd(snap, p)
      \/ ~Undecodable(Body) /\ ~IsJson(Multiline.merged) /\ cursor'.offset = Multiline.end
  BY <1>4 DEF SkipLine, InvalidPayload
<1>. HIDE DEF p
<1>6. ~Taken(snap, p) /\ cursor'.offset = LineEnd(snap, p)
  <2>1. CASE Body = <<>> /\ cursor'.offset = LineEnd(snap, p)
    <3>. SUFFICES ASSUME Taken(snap, p) PROVE FALSE
      BY <2>1
    <3>1. Span(snap, p, ReadAt(snap, p).end)
      BY <1>3, TakenSpan
    <3>2. snap[p + 1] # "nl"
      BY <3>1 DEF Span
    <3>3. LineEnd(snap, p) = p + 1 /\ snap[LineEnd(snap, p)] = "nl"
      <4>1. LineEnd(snap, p) \in (p + 1)..Len(snap) /\ snap[LineEnd(snap, p)] = "nl"
            /\ Len(Body) = LineEnd(snap, p) - 1 - p
        BY <1>3, LineSays
      <4>2. Len(Body) = 0
        BY <2>1
      <4>. QED BY <1>3, <4>1, <4>2
    <3>. QED BY <3>2, <3>3
  <2>2. CASE Undecodable(Body) /\ cursor'.offset = LineEnd(snap, p)
    BY <1>3, <2>2 DEF Taken
  <2>3. CASE ~Undecodable(Body) /\ ~IsJson(Multiline.merged) /\ cursor'.offset = Multiline.end
    BY <1>3, <2>3, ReadSays DEF Taken
  <2>. QED BY <1>5, <2>1, <2>2, <2>3
<1>7. PassedTo(snap, submitted[Sink], cursors[Sink].offset, LineEnd(snap, p))
  BY <1>2, <1>3, <1>6, PassSkipped
<1>. QED BY <1>6, <1>7

\* The working cursor passes a line.
LEMMA StablePass ==
  ASSUME Shape, OrderInv, WholeInv, StableInv, AppendOnly', SkipLine \/ HandleConsumed
  PROVE  StableInv'
<1>1. /\ pc = "line" /\ UNCHANGED <<bytes, truncates, cursorFile, lost, forgotten, cursors, next, pc, at, snap>>
  BY DEF SkipLine, HandleConsumed, AtRequest, AtLine, sinkVars, fileVars
<1>2. AppendOnly /\ Sink' = Sink
  BY <1>1 DEF AppendOnly, Sink
<1>3. /\ FileAgrees /\ SinksToCome /\ KeptApart /\ CommittedSettled /\ NextApart
  BY <1>2 DEF StableInv
<1>4. FileAgrees' /\ SinksToCome' /\ SinkBeingRead'
  BY <1>1, <1>3 DEF FileAgrees, SinksToCome, SinkBeingRead
<1>5. CASE SkipLine
  <2>1. submitted' = submitted
    BY <1>5 DEF SkipLine
  <2>2. LinesPassed'
    BY <1>1, <1>2, <1>5, <2>1, SkipPassed DEF LinesPassed
  <2>3. KeptApart' /\ CommittedSettled' /\ NextApart'
    BY <1>1, <1>3, <2>1 DEF KeptApart, CommittedSettled, NextApart, Draining, Trusted, Committed
  <2>. QED BY <1>4, <2>2, <2>3 DEF StableInv
<1>6. CASE HandleConsumed
  <2>1. AtRequest /\ submitted' = [submitted EXCEPT ![Sink] = submitted[Sink] \union {Request}]
        /\ cursor' = MovedTo(Multiline.end)
    BY <1>6 DEF HandleConsumed
  <2>2. Sink \in Sinks /\ next[Sink] = cursors[Sink] /\ submitted \in [Sinks -> SUBSET Submission]
    BY <1>1, <1>2, StableHere DEF Shape, TypeOK
  <2>3. /\ submitted'[Sink] = submitted[Sink] \union {Request}
        /\ \A s \in Sinks : s # Sink => submitted'[s] = submitted[s]
    BY <2>1, <2>2
  <2>4. cursor'.offset = Multiline.end
    BY <2>1 DEF MovedTo
  <2>5. ASSUME ~forgotten
        PROVE  /\ Disjoint(submitted'[Sink])
               /\ SettledFrom(bytes[Sink], submitted'[Sink], cursors[Sink].offset)
               /\ PassedTo(snap, submitted'[Sink], cursors[Sink].offset, cursor'.offset)
    BY <1>2, <2>1, <2>3, <2>4, <2>5, StableSubmit
  <2>6. KeptApart' /\ LinesPassed'
    BY <1>1, <1>2, <1>3, <2>3, <2>5 DEF KeptApart, LinesPassed
  <2>7. CommittedSettled'
    BY <1>1, <1>3, <2>3, <2>5 DEF CommittedSettled, Trusted, Committed
  <2>8. NextApart'
    <3>. SUFFICES ASSUME ~forgotten, NEW s \in Sinks
                  PROVE  /\ cursors[s].offset <= next[s].offset
                         /\ \A x \in submitted'[s] : Apart(next[s].offset, x)
      BY <1>1 DEF NextApart
    <3>1. cursors[s].offset <= next[s].offset /\ \A x \in submitted[s] : Apart(next[s].offset, x)
      BY <1>1, <1>3 DEF NextApart, Draining
    <3>2. \A x \in submitted'[Sink] : Apart(next[Sink].offset, x)
      BY <2>2, <2>5 DEF SettledFrom
    <3>. QED BY <2>3, <3>1, <3>2
  <2>. QED BY <1>4, <2>6, <2>7, <2>8 DEF StableInv
<1>. QED BY <1>5, <1>6

\* The drain fails, is committed, or is lost with the process.
LEMMA StableEnds ==
  ASSUME Shape, OrderInv, WholeInv, StableInv, AppendOnly',
         HandleError \/ Commit \/ CommitError \/ Crash \/ Restart
  PROVE  StableInv'
<1>1. UNCHANGED <<bytes, truncates>> /\ pc' \in {"idle", "down"}
  BY DEF HandleError, Commit, CommitError, Crash, Restart, Abort, sinkVars
<1>2. AppendOnly
  BY <1>1 DEF AppendOnly
<1>3. /\ FileAgrees /\ KeptApart /\ CommittedSettled /\ NextApart
  BY <1>2 DEF StableInv
<1>4. SinksToCome' /\ SinkBeingRead' /\ LinesPassed' /\ NextApart'
  BY <1>1 DEF SinksToCome, SinkBeingRead, LinesPassed, NextApart, Draining
<1>5. lost \in BOOLEAN /\ forgotten \in BOOLEAN
  BY DEF Shape, TypeOK
<1>6. CASE HandleError
  <2>1. pc = "line" /\ pc' = "idle" /\ UNCHANGED <<cursorFile, lost, forgotten, cursors>>
    BY <1>6 DEF HandleError, Abort, AtRequest, AtLine, fileVars
  <2>2. FileAgrees'
    BY <1>3, <2>1 DEF FileAgrees
  <2>3. CASE submitted' = submitted
    <3>1. KeptApart' /\ CommittedSettled'
      BY <1>1, <1>3, <2>1, <2>3 DEF KeptApart, CommittedSettled, Trusted, Committed
    <3>. QED BY <1>4, <2>2, <3>1 DEF StableInv
  <2>4. CASE submitted' # submitted
    <3>1. AtRequest /\ submitted' = [submitted EXCEPT ![Sink] = submitted[Sink] \union {Request}]
      BY <1>6, <2>4 DEF HandleError
    <3>2. Sink \in Sinks /\ submitted \in [Sinks -> SUBSET Submission]
      BY <1>2, <2>1, StableHere DEF Shape, TypeOK
    <3>3. /\ submitted'[Sink] = submitted[Sink] \union {Request}
          /\ \A s \in Sinks : s # Sink => submitted'[s] = submitted[s]
      BY <3>1, <3>2
    <3>4. ASSUME ~forgotten
          PROVE  /\ Disjoint(submitted'[Sink])
                 /\ SettledFrom(bytes[Sink], submitted'[Sink], cursors[Sink].offset)
      BY <1>2, <3>1, <3>3, <3>4, StableSubmit
    <3>5. KeptApart' /\ CommittedSettled'
      BY <1>1, <1>3, <2>1, <3>3, <3>4 DEF KeptApart, CommittedSettled, Trusted, Committed
    <3>. QED BY <1>4, <2>2, <3>5 DEF StableInv
  <2>. QED BY <2>3, <2>4
<1>7. CASE Commit
  <2>1. /\ pc = "commit" /\ pc' = "idle" /\ cursorFile' = next /\ cursors' = next
        /\ UNCHANGED <<forgotten, submitted>>
    BY <1>7 DEF Commit
  <2>2. CommittedSettled'
    <3>. SUFFICES ASSUME ~forgotten, NEW s \in Sinks
                  PROVE  SettledFrom(bytes[s], submitted[s], next[s].offset)
      BY <1>1, <2>1 DEF CommittedSettled, Trusted, Committed
    <3>1. SettledFrom(bytes[s], submitted[s], cursors[s].offset)
      BY <1>3, <2>1 DEF CommittedSettled, Trusted, Committed
    <3>2. cursors[s].offset <= next[s].offset /\ \A x \in submitted[s] : Apart(next[s].offset, x)
      BY <1>3, <2>1 DEF NextApart, Draining
    <3>3. submitted[s] \subseteq Submission /\ cursors[s] \in CursorState /\ next[s] \in CursorState
      BY DEF Shape, TypeOK
    <3>4. cursors[s].offset \in Nat /\ next[s].offset \in Nat
      BY <3>3 DEF CursorState
    <3>. QED BY <3>1, <3>2, <3>3, <3>4, SettledLater
  <2>3. FileAgrees' /\ KeptApart'
    BY <1>3, <2>1 DEF FileAgrees, KeptApart
  <2>. QED BY <1>4, <2>2, <2>3 DEF StableInv
<1>8. CASE CommitError
  <2>1. /\ pc = "commit" /\ pc' = "idle" /\ (UNCHANGED <<cursorFile, lost>> \/ lost')
        /\ UNCHANGED <<cursors, forgotten, submitted>>
    BY <1>8 DEF CommitError, Abort, fileVars
  <2>2. FileAgrees' /\ KeptApart' /\ CommittedSettled'
    BY <1>1, <1>3, <2>1 DEF FileAgrees, KeptApart, CommittedSettled, Trusted, Committed
  <2>. QED BY <1>4, <2>2 DEF StableInv
<1>9. CASE Crash
  <2>1. pc # "down" /\ pc' = "down" /\ UNCHANGED <<cursorFile, lost, forgotten, submitted>>
    BY <1>9 DEF Crash, fileVars
  <2>2. FileAgrees' /\ KeptApart' /\ CommittedSettled'
    BY <1>1, <1>3, <2>1 DEF FileAgrees, KeptApart, CommittedSettled, Trusted, Committed
  <2>. QED BY <1>4, <2>2 DEF StableInv
<1>10. CASE Restart
  <2>1. /\ pc = "down" /\ pc' = "idle" /\ cursors' = cursorFile /\ forgotten' = (forgotten \/ lost)
        /\ UNCHANGED <<cursorFile, lost, submitted>>
    BY <1>10 DEF Restart, fileVars
  <2>2. FileAgrees' /\ KeptApart' /\ CommittedSettled'
    BY <1>1, <1>3, <1>5, <2>1 DEF FileAgrees, KeptApart, CommittedSettled, Trusted, Committed
  <2>. QED BY <1>4, <2>2 DEF StableInv
<1>. QED BY <1>6, <1>7, <1>8, <1>9, <1>10

\* Every step keeps the submissions stable.
LEMMA StableStep ==
  ASSUME Shape, Shape', OrderInv, WholeInv, StableInv, [Next]_vars
  PROVE  StableInv'
<1>. SUFFICES ASSUME AppendOnly' PROVE StableInv'
  BY DEF StableInv
<1>1. CASE UNCHANGED vars
  <2>1. UNCHANGED <<bytes, truncates, cursorFile, cursors, next, pc, at, cursor, snap, submitted, lost, forgotten>>
    BY <1>1 DEF vars
  <2>2. AppendOnly /\ Sink' = Sink
    BY <2>1 DEF AppendOnly, Sink
  <2>. QED BY <2>1, <2>2 DEF StableInv, FileAgrees, SinksToCome, SinkBeingRead, KeptApart, CommittedSettled,
                             NextApart, LinesPassed, Draining, Trusted, Committed
<1>2. ASSUME NEW s \in Sinks, Truncate(s) PROVE FALSE
  <2>1. truncates \in Nat /\ truncates' = truncates + 1 /\ truncates' = 0
    BY <1>2 DEF Truncate, Shape, TypeOK, AppendOnly
  <2>. QED BY <2>1
<1>. QED BY <1>1, <1>2, StableWrite, StableDrain, StableLeave, StablePass, StableEnds DEF Next

-----------------------------------------------------------------------------
(* Theorems.                                                               *)

\* The invariants hold in every reachable state.
Inv == Shape /\ OrderInv /\ WholeInv /\ StableInv
LEMMA Invariance == Spec => []Inv
<1>1. Init => Inv
  <2>. SUFFICES ASSUME Init PROVE Inv
    OBVIOUS
  <2>1. 1 \in 1..Len(SinkOrder) /\ <<>> \in Seq(Symbols)
    BY SinkOrderAssumption
  <2>0. DefaultCursor \in CursorState
    BY <2>1, DefaultGood
  <2>2. NoCursors \in [Sinks -> CursorState] /\ \A s \in Sinks : NoCursors[s] = DefaultCursor
    BY <2>0 DEF NoCursors
  <2>3. TypeOK
    <3>1. bytes \in [Sinks -> Seq(Symbols)]
      BY <2>1 DEF Init
    <3>2. submitted \in [Sinks -> SUBSET Submission] /\ done \in [Sinks -> SUBSET Submission]
      BY DEF Init
    <3>3. cursorFile \in [Sinks -> CursorState] /\ cursors \in [Sinks -> CursorState]
          /\ next \in [Sinks -> CursorState] /\ cursor \in CursorState /\ snap \in Seq(Symbols)
      BY <2>0, <2>1, <2>2 DEF Init
    <3>4. faults \in 0..MaxFaults /\ retries \in 0..MaxRetries /\ truncates \in 0..MaxTruncates
      BY BoundsAssumption DEF Init
    <3>5. at \in 1..Len(SinkOrder) /\ pc \in States
      BY <2>1 DEF Init, States
    <3>6. dirty \in BOOLEAN /\ lost \in BOOLEAN /\ forgotten \in BOOLEAN
      BY DEF Init
    <3>. QED BY <3>1, <3>2, <3>3, <3>4, <3>5, <3>6 DEF TypeOK
  <2>4. \A s \in Sinks : bytes[s] = <<>> /\ NulsAtStart(bytes[s])
    <3>1. \A s \in Sinks : bytes[s] = <<>>
      BY DEF Init
    <3>2. 2..Len(<<>>) = {}
      OBVIOUS
    <3>3. NulsAtStart(<<>>)
      BY <3>2 DEF NulsAtStart
    <3>. QED BY <3>1, <3>3
  <2>5. Shape
    BY <2>3, <2>4 DEF Init, Shape
  <2>6. \A s \in Sinks : GoodCursor(bytes[s], done[s], DefaultCursor)
    BY <2>3, DefaultGood DEF TypeOK
  <2>7. OrderInv
    BY <2>2, <2>6 DEF Init, OrderInv
  <2>8. pc = "idle" /\ cursorFile = cursors /\ \A s \in Sinks : submitted[s] = {}
    BY DEF Init
  <2>9. WholeInv
    BY <2>8 DEF WholeInv
  <2>10. StableInv
    BY <2>8 DEF StableInv, FileAgrees, SinksToCome, SinkBeingRead, KeptApart, CommittedSettled, NextApart,
                LinesPassed, Draining, Disjoint, SettledFrom
  <2>. QED BY <2>5, <2>7, <2>9, <2>10 DEF Inv
<1>2. Inv /\ [Next]_vars => Inv'
  <2>. SUFFICES ASSUME Inv, [Next]_vars PROVE Inv'
    OBVIOUS
  <2>1. Shape /\ OrderInv /\ WholeInv /\ StableInv
    BY DEF Inv
  <2>2. Shape'
    BY <2>1, ShapeStep
  <2>. QED BY <2>1, <2>2, OrderStep, WholeStep, StableStep DEF Inv
<1>. QED BY <1>1, <1>2, PTL DEF Spec

\* The types of the consumer's state: cursors stay cursors, submissions stay requests, and
\* the drain stays within the declared sinks, truncated sinks included.
THEOREM ActionSinkTypeOK == Spec => []TypeOK
<1>1. Inv => TypeOK
  BY DEF Inv, Shape
<1>. QED BY <1>1, Invariance, PTL

\* At-least-once: while clients only append, no cursor, on disk or in memory, is ever past
\* a committed request that the handler has not consumed, whatever errors, failed commits
\* and crashes came between (action_consumer.rs advances the cursor on Consumed only, and a
\* drain that fails commits nothing).
THEOREM RequestsNotSkipped == Spec => []NoRequestSkipped
<1>1. Inv => NoRequestSkipped
  BY DEF Inv, OrderInv, NoRequestSkipped, GoodCursor, DoneBelow, Below, RequestAt, LineOfRequest, AtStart
<1>. QED BY <1>1, Invariance, PTL

\* Head-of-line order: a request is handed to the handler only after every earlier request
\* of its sink was consumed, also when it is retried or replayed after a crash.
THEOREM SubmittedInLineOrder == Spec => []SubmittedInOrder
<1>1. Inv => SubmittedInOrder
  BY DEF Inv, OrderInv, SubmittedInOrder, DoneBelow, Below, RequestAt, LineOfRequest, AtStart
<1>. QED BY <1>1, Invariance, PTL

\* Commit boundaries: every payload the handler was given is whole committed lines, from the
\* start of one to the line feed of one, and says exactly what those lines say; it stays so
\* while the sink grows.  A partial trailing line is never submitted, not even when the
\* multiline recovery joins lines that other clients write at the same time.
THEOREM SubmittedWhole == Spec => []SubmittedAreWholeLines
<1>1. ASSUME Inv PROVE SubmittedAreWholeLines
  <2>. SUFFICES ASSUME AppendOnly, NEW s \in Sinks, NEW x \in submitted[s]
                PROVE  /\ x.end <= Len(bytes[s]) /\ bytes[s][x.end] = "nl"
                       /\ x.off = 0 \/ bytes[s][x.off] \in {"nl", "nul"}
                       /\ x.payload = Joined(bytes[s], x.off, x.end)
    BY DEF SubmittedAreWholeLines
  <2>1. ReadAs(bytes[s], x)
    BY <1>1 DEF Inv, WholeInv
  <2>2. bytes[s] \in Seq(Symbols) /\ NulsAtStart(bytes[s]) /\ x \in Submission
    BY <1>1 DEF Inv, Shape, TypeOK
  <2>3. x.end <= Len(bytes[s]) /\ bytes[s][x.end] = "nl"
    BY <2>1, <2>2, ReadAsFacts
  <2>. QED BY <2>1, <2>3 DEF ReadAs, Starts, AtStart
<1>2. Inv => SubmittedAreWholeLines
  BY <1>1
<1>. QED BY <1>2, Invariance, PTL

\* Stable idempotency key (action_consumer.rs:145): as long as no restart found the cursor file
\* missing, two submissions of a sink are the same request or share no byte, however often
\* errors, retries, failed commits and crashes made drains start again and whatever was
\* appended in between.
THEOREM SubmittedStable == Spec => []SubmittedAreStable
<1>1. Inv => SubmittedAreStable
  BY DEF Inv, StableInv, KeptApart, Disjoint, SubmittedAreStable
<1>. QED BY <1>1, Invariance, PTL
=============================================================================
