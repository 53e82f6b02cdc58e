----------------------------- MODULE FileChunks -----------------------------
(***************************************************************************)
(* File contents of AgentFS, the SQLite-backed filesystem of the SDK       *)
(* (appfs/sdk/rust/src/filesystem/agentfs.rs).                             *)
(*                                                                         *)
(* A file is its size, in fs_inode, and rows of fs_data, each a chunk      *)
(* index and at most ChunkSize bytes.  Rows may be missing (a hole) or     *)
(* short; what they leave out reads as zero.  Rows are a function from     *)
(* chunk indexes to sequences of bytes.                                    *)
(***************************************************************************)
EXTENDS Naturals, Sequences

CONSTANT ChunkSize      \* fs_config chunk_size
ASSUME ChunkSizeAssumption == ChunkSize \in Nat \ {0}

NoRows == [c \in {} |-> <<>>]

MinOf(a, b) == IF a <= b THEN a ELSE b
MaxOf(a, b) == IF a >= b THEN a ELSE b
Zeros(n) == [k \in 1..n |-> 0]

-----------------------------------------------------------------------------
(* Reading.                                                                *)

\* Mutant: a missing row reads as nothing.
ReadRow_SkipsHoles(rows, c, skip, left) ==
    IF c \notin DOMAIN rows \/ skip >= Len(rows[c]) THEN <<>>
    ELSE SubSeq(rows[c], skip + 1, skip + MinOf(Len(rows[c]) - skip, left))

\* What the read of row c adds to the result when `left` bytes are missing and
\* the first `skip` bytes of the chunk are not wanted.
ReadRow(rows, c, skip, left) ==
    IF c \notin DOMAIN rows \/ skip >= Len(rows[c])
      THEN Zeros(MinOf(ChunkSize - skip, left))
      ELSE LET take == MinOf(Len(rows[c]) - skip, left)
               stored == SubSeq(rows[c], skip + 1, skip + take)
           IN  stored \o Zeros(MinOf(ChunkSize - (skip + take), left - take))

\* AgentFSFile::pread: the chunks from the first to the last one touched.
pread(rows, size, off, n) ==
    IF off >= size THEN <<>>
    ELSE LET want == MinOf(n, size - off)
             first == off \div ChunkSize
             last == (off + want - 1) \div ChunkSize
             Upto[k \in 0..(last + 1 - first)] ==
                 IF k = 0 THEN <<>>
                 ELSE LET sofar == Upto[k - 1]
                      IN  sofar \o ReadRow(rows, first + k - 1,
                                           IF k = 1 THEN off % ChunkSize ELSE 0,
                                           want - Len(sofar))
         IN  IF want = 0 THEN <<>> ELSE Upto[last + 1 - first]

\* The file as one sequence of bytes: what pread is meant to return.
ByteAt(rows, p) ==
    LET c == p \div ChunkSize
        k == (p % ChunkSize) + 1
    IN  IF c \in DOMAIN rows THEN (IF k <= Len(rows[c]) THEN rows[c][k] ELSE 0) ELSE 0
Content(rows, size) == [p \in 1..size |-> ByteAt(rows, p - 1)]

-----------------------------------------------------------------------------
(* Writing.                                                                *)

RowOf(rows, c) == IF c \in DOMAIN rows THEN rows[c] ELSE <<>>
Touched(off, len) == (off \div ChunkSize)..((off + len - 1) \div ChunkSize)

\* The data written, as it lies over position k of chunk c, or what was there.
Overlaid(rows, c, k, off, data) ==
    LET p == c * ChunkSize + k - 1
        old == RowOf(rows, c)
    IN  IF off <= p /\ p < off + Len(data) THEN data[p - off + 1]
        ELSE IF k <= Len(old) THEN old[k] ELSE 0

\* Mutant: a row that is partly overwritten loses what it had after the data.
write_data_at_offset_Cuts(rows, off, data) ==
    [c \in DOMAIN rows \union Touched(off, Len(data)) |->
        IF c \notin Touched(off, Len(data)) THEN rows[c]
        ELSE [k \in 1..MinOf(ChunkSize, off + Len(data) - c * ChunkSize)
                |-> Overlaid(rows, c, k, off, data)]]

\* write_data_at_offset_with_conn: each row is extended as far as the data goes,
\* and no further.
write_data_at_offset(rows, off, data) ==
    [c \in DOMAIN rows \union Touched(off, Len(data)) |->
        IF c \notin Touched(off, Len(data)) THEN rows[c]
        ELSE LET end == MinOf(ChunkSize, off + Len(data) - c * ChunkSize)
             IN  [k \in 1..MaxOf(Len(RowOf(rows, c)), end)
                    |-> Overlaid(rows, c, k, off, data)]]

\* The rows the path-based pwrite stores: full rows, except that the last one ends
\* where the data or the old file ends.
path_pwrite(rows, size, off, data) ==
    LET end == off + Len(data)
        lastChunk == (end - 1) \div ChunkSize
    IN  [c \in DOMAIN rows \union Touched(off, Len(data)) |->
            IF c \notin Touched(off, Len(data)) THEN rows[c]
            ELSE LET start == c * ChunkSize
                     oldEnd == IF size > start THEN MinOf(size - start, ChunkSize) ELSE 0
                     len == IF c = lastChunk THEN MaxOf(end - start, oldEnd) ELSE ChunkSize
                 IN  [k \in 1..len |-> Overlaid(rows, c, k, off, data)]]

\* insert_bulk_file_chunks: bytes.chunks(chunk_size).
insert_bulk_file_chunks(bytes) ==
    [c \in {k \in 0..Len(bytes) : k * ChunkSize < Len(bytes)} |->
        SubSeq(bytes, c * ChunkSize + 1, MinOf((c + 1) * ChunkSize, Len(bytes)))]

\* Mutant: the row that is kept in part keeps all its bytes.
truncate_rows_KeepsTail(rows, current, new) ==
    IF new = 0 THEN NoRows
    ELSE IF new < current
      THEN [c \in {k \in DOMAIN rows : k <= (new - 1) \div ChunkSize} |-> rows[c]]
    ELSE rows

\* The rows truncate leaves when it believes the file to be `current` bytes long.
truncate_rows(rows, current, new) ==
    IF new = 0 THEN NoRows
    ELSE IF new < current
      THEN LET lastChunk == (new - 1) \div ChunkSize
           IN  [c \in {k \in DOMAIN rows : k <= lastChunk} |->
                   IF c = lastChunk /\ new % ChunkSize > 0
                     THEN SubSeq(rows[c], 1, MinOf(Len(rows[c]), new % ChunkSize))
                     ELSE rows[c]]
    ELSE rows

-----------------------------------------------------------------------------
\* No row is longer than a chunk, and none holds a byte at or past the end of the
\* file: the reads rely on it, since extending a file only changes its size.
RowsFit(rows, size) ==
    \A c \in DOMAIN rows : /\ Len(rows[c]) <= ChunkSize
                           /\ c * ChunkSize + Len(rows[c]) <= size

\* What a write and a truncation mean for a file seen as a sequence of bytes.
Written(bytes, off, data) ==
    [p \in 1..MaxOf(Len(bytes), off + Len(data)) |->
        IF off < p /\ p <= off + Len(data) THEN data[p - off]
        ELSE IF p <= Len(bytes) THEN bytes[p] ELSE 0]
Resized(bytes, n) == [p \in 1..n |-> IF p <= Len(bytes) THEN bytes[p] ELSE 0]
=============================================================================
