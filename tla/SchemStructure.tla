--------------------------- MODULE SchemStructure ---------------------------
(***************************************************************************)
(* SchemStructure (src/src/formats/schem.cpp): a .schem file as a          *)
(* structure.  BlockData, one varint palette index per block, x fastest,   *)
(* then z, then y, is never kept in memory.  What read() does with it      *)
(* depends on the options and on the order of the tags in the file:        *)
(*                                                                         *)
(*   - it copies it into a temporary file and records, while it copies or  *)
(*     in a second pass, where every row starts, and every Stride blocks   *)
(*     in it: only then can get_chunks() answer;                           *)
(*   - for an import into a world it copies it without looking at it;      *)
(*   - for a direct import it skips it, and later reads the file again.    *)
(*                                                                         *)
(* The module has the structure, its index and its reading operations.     *)
(* SchemWorldStream adds write_to_world().                                 *)
(*                                                                         *)
(* A stream is the sequence of its indices and the bytes `pad` by which    *)
(* each is longer than need be; the other tags of a document are its       *)
(* size, its palette and the order in which they come.                     *)
(***************************************************************************)
EXTENDS Integers, Sequences, FiniteSets

CONSTANTS
  Edge,          \* blocks along an edge of a chunk, 16
  Stride,        \* kIndexStride, 256
  MissingOffset, \* kMissingChunkOffset, 2^16 - 1
  OneByte,       \* indices below it take one byte, 128
  MaxU16,        \* 2^16 - 1
  MaxRows,       \* rows whose index fits into kMaxSchemIndexBytes
  Documents      \* records: w, h, l, order, palette, stream

Air == 0         \* runtime id
Unknown == -1    \* mUnknownRuntimeId
BaseSubY == -4   \* of the Overworld, kOverworldMinY / 16
Gone == [gone |-> TRUE]
Absent == [absent |-> TRUE]
Fail == [ok |-> FALSE]
Success(v) == [ok |-> TRUE, value |-> v]

ASSUME SchemAssumption ==
  /\ {Edge, Stride, MissingOffset, OneByte, MaxU16, MaxRows} \subseteq Nat \ {0}
  /\ \A d \in Documents :
       /\ {d.w, d.h, d.l} \subseteq Nat \ {0}
       /\ {d.order[i] : i \in 1 .. 3} = {"size", "palette", "data"}
       /\ d.stream.vals \in Seq(Nat) /\ d.stream.pad \in Nat

----------------------------------------------------------------------------
(* Streams, and the index of one. *)
Bytes(s, v) == (IF v < OneByte THEN 1 ELSE 2) + s.pad

\* The byte at which each value starts, and the end.
Starts(s) ==
  LET at[i \in 0 .. Len(s.vals)] == IF i = 0 THEN 0 ELSE at[i - 1] + Bytes(s, s.vals[i])
  IN  at

Size(s) == Starts(s)[Len(s.vals)]
Volume(d) == d.w * d.h * d.l
Rows(d) == d.h * d.l
MaxIndex(d) == CHOOSE i \in DOMAIN d.palette : \A j \in DOMAIN d.palette : j <= i
Columns(d) == (d.w + Stride - 1) \div Stride
Canonical(s) == [s EXCEPT !.pad = 0]

\* Holds `count` indices, all of them in the palette, and nothing else.
Whole(s, count, max) == Len(s.vals) = count /\ \A i \in 1 .. Len(s.vals) : s.vals[i] <= max

RowOffsets(d, s) == LET at == Starts(s) IN [r \in 0 .. Rows(d) - 1 |-> at[r * d.w]]

ChunkOffsets(d, s) ==
  LET at == Starts(s)
      Relative(r, c) == at[r * d.w + c * Stride] - at[r * d.w]
  IN  [r \in 0 .. Rows(d) - 1, c \in 0 .. Columns(d) - 1 |->
         IF Relative(r, c) < MissingOffset THEN Relative(r, c) ELSE MissingOffset]

NoIndex == [rows |-> <<>>, chunks |-> <<>>]
Index(d, s) == [rows |-> RowOffsets(d, s), chunks |-> ChunkOffsets(d, s)]

----------------------------------------------------------------------------
VARIABLES
  file,    \* the document on disk, or Gone: other programs may replace it
  tempFile,\* temporary files: of read() and of the fallback of write_to_world()
  schem,   \* the structure: Absent, or a record
  answer   \* of the last call

(* What read() makes of document d.  mStreamingWorldImport and             *)
(* mDirectWorldStream are in `mode`.                                       *)
Before(d, a, b) == \E i, j \in 1 .. 3 : i < j /\ d.order[i] = a /\ d.order[j] = b

\* A palette that comes after BlockData is not yet known to be too large.
Deferred(d, mode) ==
  mode.direct /\ (IF Before(d, "palette", "data") THEN MaxIndex(d) ELSE 0) <= MaxU16

IndexedWhileCopied(d, mode) == ~ Deferred(d, mode) /\ ~ mode.streaming /\ Before(d, "size", "data")
IndexedAfterwards(d, mode) ==
  /\ ~ Deferred(d, mode) /\ ~ IndexedWhileCopied(d, mode)
  /\ ~ mode.streaming \/ MaxIndex(d) > MaxU16
Indexed(d, mode) == IndexedWhileCopied(d, mode) \/ IndexedAfterwards(d, mode)

Readable(d, mode) ==
  /\ Volume(d) <= Size(d.stream)
  /\ Indexed(d, mode) => Rows(d) <= MaxRows /\ Whole(d.stream, Volume(d), MaxIndex(d))

Solid(d) == {i \in DOMAIN d.palette : d.palette[i] # Air}
NonAir(d, s) == Cardinality({i \in 1 .. Volume(d) : s.vals[i] \in Solid(d)})

Structure(d, mode) ==
  LET counted == IndexedWhileCopied(d, mode) /\ Before(d, "palette", "data")
  IN  [doc |-> d, offset |-> <<0, 0, 0>>, max |-> MaxIndex(d), bytes |-> Size(d.stream),
       deferred |-> Deferred(d, mode), path |-> IF Deferred(d, mode) THEN "none" ELSE "read",
       index |-> IF Indexed(d, mode) THEN Index(d, d.stream) ELSE NoIndex,
       nonAir |-> IF counted THEN NonAir(d, d.stream) ELSE 0, nonAirValid |-> counted]

----------------------------------------------------------------------------
(* Random access: the indices of a row from column b to column e, decoded  *)
(* from the checkpoint at or before b.                                     *)

\* Mutant: falls back to the start of the row, but keeps the column.
CheckpointKeepsColumn(m, r, b) ==
  LET relative == m.index.chunks[<<r, b \div Stride>>]
  IN  [x |-> (b \div Stride) * Stride, at |-> m.index.rows[r] + (IF relative = MissingOffset THEN 0 ELSE relative)]

Checkpoint(m, r, b) ==
  LET column == b \div Stride
      relative == m.index.chunks[<<r, column>>]
  IN  IF relative = MissingOffset THEN [x |-> 0, at |-> m.index.rows[r]]
      ELSE [x |-> column * Stride, at |-> m.index.rows[r] + relative]

RowEnd(m, r) == IF r + 1 \in DOMAIN m.index.rows THEN m.index.rows[r + 1] ELSE m.bytes

\* Fail, or the indices as a function of b .. e.
RowRange(m, s, r, b, e) ==
  IF ~ (r \in DOMAIN m.index.rows /\ b <= e /\ b \div Stride < Columns(m.doc)) THEN Fail
  ELSE LET at == Starts(s)
           from == Checkpoint(m, r, b)
           first == CHOOSE i \in 0 .. Len(s.vals) : at[i] = from.at
           ValueOf(x) == s.vals[first + (x - from.x) + 1]
       IN  IF \/ first + (e - from.x) + 1 > Len(s.vals)
              \/ at[first + (e - from.x) + 1] > RowEnd(m, r)
              \/ \E x \in from.x .. e : ValueOf(x) > m.max
           THEN Fail ELSE Success([x \in b .. e |-> ValueOf(x)])

Least(a, b) == IF a < b THEN a ELSE b
Most(a, b) == IF a < b THEN b ELSE a

\* The blocks of the structure below a chunk, along one axis.
SourceRange(extent, offset, chunk) ==
  Most(0, chunk * Edge - offset) .. Least(extent - 1, chunk * Edge + Edge - 1 - offset)

\* A block in a chunk: the coordinates of chunk, subchunk and block.
Cell(cx, cz, y, lx, lz, runtime) ==
  [chunk |-> <<cx, cz>>, sub |-> y \div Edge + BaseSubY, at |-> <<lx, y % Edge, lz>>, runtime |-> runtime]

RuntimeId(m, v) == IF v \in DOMAIN m.doc.palette THEN m.doc.palette[v] ELSE Unknown

(* get_chunks().  Positions on one line of chunks share the rows: each is  *)
(* decoded once, from b to e, and a block goes to the chunk registered     *)
(* under its column.  Otherwise every chunk reads its own rows.            *)
Depth(m, p) == SourceRange(m.doc.l, m.offset[3], p[2])
Breadth(m, p) == SourceRange(m.doc.w, m.offset[1], p[1])
TargetX(m, p) == (p[1] * Edge - m.offset[1]) \div Edge
OwnerX(m, x) == (x + m.offset[1]) \div Edge

\* What chunk p gets of the columns xs, read from the rows' columns b .. e.
ChunkCells(m, s, p, b, e, xs, owner) ==
  LET rows == {y * m.doc.l + z : y \in 0 .. m.doc.h - 1, z \in Depth(m, p)}
      read == [r \in rows |-> RowRange(m, s, r, b, e)]
      CellAt(r, x) == Cell(p[1], p[2], r \div m.doc.l + m.offset[2], x + m.offset[1] - owner * Edge,
                           (r % m.doc.l) + m.offset[3] - p[2] * Edge, RuntimeId(m, read[r].value[x]))
  IN  IF \E r \in rows : ~ read[r].ok THEN Fail
      ELSE Success({c \in {CellAt(r, x) : r \in rows, x \in xs} : c.runtime # Air})

Leftmost(xs) == CHOOSE x \in xs : \A o \in xs : x <= o
Rightmost(xs) == CHOOSE x \in xs : \A o \in xs : o <= x
Begin(xs) == (Leftmost(xs) \div Stride) * Stride

ChunkResults(m, s, positions) ==
  LET columns == UNION {Breadth(m, p) : p \in positions}
      shared == /\ columns # {}
                /\ \A p, q \in positions : Depth(m, p) # {} /\ Depth(m, p) = Depth(m, q)
      Fanned(p) == ChunkCells(m, s, p, Begin(columns), Rightmost(columns),
                              {x \in columns : OwnerX(m, x) = TargetX(m, p)}, TargetX(m, p))
      Alone(p) == ChunkCells(m, s, p, Begin(Breadth(m, p)), Rightmost(Breadth(m, p)), Breadth(m, p), p[1])
      met == {p \in positions : Breadth(m, p) # {} /\ Depth(m, p) # {}}
  IN  {IF shared THEN Fanned(p) ELSE Alone(p) : p \in met}

GetChunksResult(m, s, positions) ==
  LET results == ChunkResults(m, s, positions)
  IN  IF \E r \in results : ~ r.ok THEN Fail ELSE Success(UNION {r.value : r \in results})

----------------------------------------------------------------------------
(* Reading BlockData a second time, from the file: only its length is      *)
(* compared with that of the first time.                                   *)
Reopens(m) == file # Gone /\ Size(file.stream) = m.bytes

CountResult(m) ==
  LET Counted(s) == IF Whole(s, Volume(m.doc), m.max) THEN Success(NonAir(m.doc, s)) ELSE Fail
  IN  IF m.nonAirValid THEN Success(m.nonAir)
      ELSE IF m.deferred THEN (IF Reopens(m) THEN Counted(file.stream) ELSE Fail)
      ELSE Counted(tempFile[m.path])

----------------------------------------------------------------------------
NoAnswer == [call |-> "none"]
Modes == [streaming : BOOLEAN, direct : BOOLEAN]

StructureInit ==
  /\ file \in Documents
  /\ tempFile = [name \in {"read", "spool"} |-> Absent]
  /\ schem = Absent
  /\ answer = NoAnswer

\* A failed read() leaves the copy to the destructor of the structure it gives up.
Read(mode) ==
  /\ schem = Absent /\ file # Gone
  /\ UNCHANGED file
  /\ IF Readable(file, mode)
     THEN /\ schem' = Structure(file, mode)
          /\ tempFile' = IF Deferred(file, mode) THEN tempFile ELSE [tempFile EXCEPT !["read"] = file.stream]
          /\ answer' = [call |-> "read", result |-> Success(mode)]
     ELSE /\ UNCHANGED <<schem, tempFile>>
          /\ answer' = [call |-> "read", result |-> Fail]

SetOffset(offset) ==
  /\ schem # Absent
  /\ schem' = [schem EXCEPT !.offset = offset]
  /\ answer' = NoAnswer
  /\ UNCHANGED <<file, tempFile>>

GetChunks(positions) ==
  /\ schem # Absent
  /\ answer' = [call |-> "chunks", asked |-> positions,
                result |-> IF schem.path = "none" THEN Fail
                           ELSE GetChunksResult(schem, tempFile[schem.path], positions)]
  /\ UNCHANGED <<file, tempFile, schem>>

CountNonAirBlocks ==
  /\ schem # Absent
  /\ answer' = [call |-> "count", result |-> CountResult(schem)]
  /\ UNCHANGED <<file, tempFile, schem>>

\* Mutant: removes the copy of read() only.
DestroyForgetsSpool ==
  /\ schem # Absent
  /\ schem' = Absent
  /\ tempFile' = [tempFile EXCEPT !["read"] = Absent]
  /\ answer' = NoAnswer
  /\ UNCHANGED file

\* ~SchemStructure() removes the file the structure points to.
Destroy ==
  /\ schem # Absent
  /\ schem' = Absent
  /\ tempFile' = IF schem.path = "none" THEN tempFile ELSE [tempFile EXCEPT ![schem.path] = Absent]
  /\ answer' = NoAnswer
  /\ UNCHANGED file

\* Another program replaces or removes the file that was read.
Replace(d) ==
  /\ schem # Absent /\ file = schem.doc /\ d # file
  /\ file' = d
  /\ answer' = NoAnswer
  /\ UNCHANGED <<tempFile, schem>>

----------------------------------------------------------------------------
(* What the answers should be. *)
BlockAt(m, s, x, y, z) == RuntimeId(m, s.vals[(y * m.doc.l + z) * m.doc.w + x + 1])

\* All the blocks of the structure but air, at their places.
Blocks(m, s) ==
  {c \in {Cell((x + m.offset[1]) \div Edge, (z + m.offset[3]) \div Edge, y + m.offset[2],
               (x + m.offset[1]) % Edge, (z + m.offset[3]) % Edge, BlockAt(m, s, x, y, z)) :
            x \in 0 .. m.doc.w - 1, y \in 0 .. m.doc.h - 1, z \in 0 .. m.doc.l - 1} : c.runtime # Air}
=============================================================================
