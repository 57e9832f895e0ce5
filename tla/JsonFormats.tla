----------------------------- MODULE JsonFormats -----------------------------
(***************************************************************************)
(* Readers of JSON documents, all of which put what they find into a       *)
(* SparseBlockStore (decoded_structure.cpp): MianYang (mianyang.cpp),      *)
(* TimeBuilder (timebuilder.cpp), QingXu (qingxu.cpp) and CovStructure     *)
(* (covstructure.cpp).                                                     *)
(*                                                                         *)
(* The files are parsed as a stream, in several passes: the first finds    *)
(* out which occurrence of a repeated key is the last one, the others read *)
(* that occurrence only.  MianYang opens the file again for each pass.  A  *)
(* member that may be repeated is the sequence of its occurrences here.    *)
(***************************************************************************)
EXTENDS StructureGeometry

-----------------------------------------------------------------------------
(* The sparse store keeps every block put into it and answers the ones     *)
(* inside the size; if told to include the others, in the chunks the size  *)
(* reaches.                                                                *)

Stored(size, puts, entityPuts, outside) ==
  LET cells == LastWins(puts)
      entities == LastWins(SelectSeq(entityPuts, LAMBDA e : e.block # Missing))
  IN  Accepted(size, [cells |-> cells, outside |-> outside], entities,
               Cardinality(NonAir(cells)))
\* Mutant: whatever was put into the chunk is answered.
StoreChunkUnclipped(store, size, offset, chunk) ==
  SubChunks(Restrict(store.cells, {p \in DOMAIN store.cells : ChunkOf(Plus(p, offset)) = chunk}),
            offset, chunk)

StoreChunk(store, size, offset, chunk) ==
  LET window == Reach(size, offset, chunk)
      seen(p) == IF Inside(p, size) THEN p \in window
                 ELSE store.outside /\ window # {} /\ ChunkOf(Plus(p, offset)) = chunk
      cells == store.cells
  IN  SubChunks(Restrict(cells, {p \in DOMAIN cells : seen(p)}), offset, chunk)

\* Entries of several arrays, one array after the other.
Puts(entries, low, Block(_)) ==
  [i \in DOMAIN entries |-> [pos |-> Minus(entries[i].pos, low), block |-> Block(entries[i])]]
EntityPuts(entries, low) ==
  [i \in DOMAIN entries |-> [pos |-> Minus(entries[i].pos, low), block |-> entries[i].nbt]]
\* Where the first entity of a cell counts, not the last.
FirstEntities(puts) ==
  LET named == SelectSeq(puts, LAMBDA e : e.block # Missing)
      first == FirstWins(named)
      order == Enumerated(DOMAIN first)
  IN  [i \in DOMAIN order |-> [pos |-> order[i], block |-> first[order[i]]]]
SizeOf(entries) ==
  LET cells == {entries[i].pos : i \in DOMAIN entries}
  IN  Extent(LowCorner(cells), HighCorner(cells))
LowOf(entries) == LowCorner({entries[i].pos : i \in DOMAIN entries})

-----------------------------------------------------------------------------
(* MianYang V1 to V3 (V3 is compressed).                                   *)

\* First pass: the palette of names, where each chunk starts, and how often
\* chunkedBlocks, and blocks in every chunk, occur.
MianYangUnusable(chunk) ==
  chunk = Bad \/ chunk.blocks = <<>> \/ Last(chunk.blocks) = Bad \/ chunk.start = Bad
MianYangInspect(doc) ==
  LET chunks == Last(doc.chunked)
  IN  IF doc = Bad THEN Refused
      ELSE IF \/ doc.names \in {Bad, <<>>} \/ doc.chunked = <<>>
              \/ \E o \in DOMAIN doc.chunked : doc.chunked[o] # Bad
                   /\ \E i \in DOMAIN doc.chunked[o] : MianYangUnusable(doc.chunked[o][i])
      THEN Refused
      ELSE IF chunks \in {Bad, <<>>} THEN Refused
      ELSE [ok |-> TRUE, names |-> doc.names, occurrence |-> Len(doc.chunked),
            chunks |-> [i \in DOMAIN chunks |->
                          [start |-> chunks[i].start, occurrence |-> Len(chunks[i].blocks)]]]

\* What a later pass finds of those occurrences in the file as it is then: a
\* different number of chunks is noticed, other starts and names are not.
MianYangActive(meta, doc) ==
  IF doc = Bad THEN Bad
  ELSE IF meta.occurrence \notin DOMAIN doc.chunked THEN Bad
  ELSE IF doc.chunked[meta.occurrence] = Bad THEN Bad
  ELSE SelectSeq(doc.chunked[meta.occurrence], LAMBDA chunk : chunk # Bad)
\* Occurrence `wanted` of a list, if it is there and a list.
Occurrence(lists, wanted) ==
  IF wanted \notin DOMAIN lists THEN <<>> ELSE IF lists[wanted] = Bad THEN <<>> ELSE lists[wanted]
MianYangEntries(meta, doc) ==
  LET active == MianYangActive(meta, doc)
      Listed(i) == Occurrence(active[i].blocks, meta.chunks[i].occurrence)
      Unusable(e) == \/ e = Bad \/ e.index \notin DOMAIN meta.names
      World(i, e) == [e EXCEPT !.pos = Plus(@, <<meta.chunks[i].start[1], 0, meta.chunks[i].start[2]>>)]
  IN  IF active = Bad THEN Refused
      ELSE IF Len(active) # Len(meta.chunks) THEN Refused
      ELSE IF \E i \in DOMAIN active : \E k \in DOMAIN Listed(i) : Unusable(Listed(i)[k])
      THEN Refused
      ELSE [ok |-> TRUE,
            entries |-> FlattenSeq([i \in DOMAIN active |->
                          [k \in DOMAIN Listed(i) |-> World(i, Listed(i)[k])]])]

\* Second pass: the bounds and the number of entries.
MianYangBounds(meta, doc) ==
  LET found == MianYangEntries(meta, doc)
  IN  IF ~found.ok THEN Refused
      ELSE IF found.entries = <<>> THEN Refused
      ELSE IF ~Fits(SizeOf(found.entries)) THEN Refused
      ELSE [ok |-> TRUE, meta |-> meta, low |-> LowOf(found.entries),
            size |-> SizeOf(found.entries), total |-> Len(found.entries)]

\* Third pass: the blocks, moved by the bounds of the second pass.
MianYangBlock(names, e) == FirstFound(<<LegacyId(names[e.index], e.aux)>>)
MianYangPlace(bounds, doc) ==
  LET found == MianYangEntries(bounds.meta, doc)
  IN  IF ~found.ok THEN Refused
      ELSE IF \E i \in DOMAIN found.entries : found.entries[i].nbt = Bad THEN Refused
      ELSE IF Len(found.entries) # bounds.total THEN Refused
      ELSE Stored(bounds.size,
                  Puts(found.entries, bounds.low, LAMBDA e : MianYangBlock(bounds.meta.names, e)),
                  EntityPuts(found.entries, bounds.low), FALSE)

\* V4, binary: moves of a cursor that wraps around the declared size.
MianYangV4Read(doc) ==
  LET Step(cursors, e) == Append(cursors, Plus(IF cursors = <<>> THEN Origin ELSE Last(cursors), e.move))
      cursors == FoldLeft(Step, <<>>, doc.entries)
      Local(i) == [a \in Axes |-> cursors[i][a] % doc.size[a]]
      Unusable(e) == e = Bad \/ e.index \notin DOMAIN doc.names \/ e.nbt = Bad
      placed == [i \in DOMAIN doc.entries |-> [pos |-> Local(i), index |-> doc.entries[i].index,
                                               aux |-> doc.entries[i].aux, nbt |-> doc.entries[i].nbt]]
  IN  IF doc = Bad THEN Refused
      ELSE IF ~Fits(doc.size) \/ doc.names = <<>> \/ doc.entries = <<>> THEN Refused
      ELSE IF \E i \in DOMAIN doc.entries : Unusable(doc.entries[i]) THEN Refused
      ELSE Stored(doc.size, Puts(placed, Origin, LAMBDA e : MianYangBlock(doc.names, e)),
                  EntityPuts(placed, Origin), FALSE)

-----------------------------------------------------------------------------
(* TimeBuilder: a list of block types with their positions.                *)

TimeBuilderBlock(e) == FirstFound(<<LegacyId(e.name, e.aux), ModernId(e.name)>>)
TimeBuilderPositions(e) == IF e.pos = <<>> THEN <<>> ELSE Last(e.pos)
TimeBuilderUnusable(e) == e = Bad \/ e.name = Bad \/ e.aux = Bad \/ TimeBuilderPositions(e) = Bad
\* A position that is no list refuses the file, a short one is left out.
TimeBuilderEntries(types) ==
  LET Whole(e) == SelectSeq(TimeBuilderPositions(e), LAMBDA p : Len(p) >= 3)
  IN  IF \E i \in DOMAIN types : Contains(TimeBuilderPositions(types[i]), Bad) THEN Refused
      ELSE [ok |-> TRUE,
            entries |-> FlattenSeq([i \in DOMAIN types |->
              [k \in DOMAIN Whole(types[i]) |->
                 [pos |-> Whole(types[i])[k], name |-> types[i].name, aux |-> types[i].aux]]])]
TimeBuilderRead(doc) ==
  LET types == Last(doc.block)
      found == TimeBuilderEntries(types)
      entries == found.entries
  IN  IF doc = Bad THEN Refused
      ELSE IF doc.version # "TimeBuilder" \/ doc.block = <<>> THEN Refused
      ELSE IF types = Bad THEN Refused
      ELSE IF \E i \in DOMAIN types : TimeBuilderUnusable(types[i]) THEN Refused
      ELSE IF ~found.ok THEN Refused
      ELSE IF entries = <<>> THEN Refused
      ELSE IF ~Fits(SizeOf(entries)) THEN Refused
      ELSE Stored(SizeOf(entries), Puts(entries, LowOf(entries), TimeBuilderBlock), <<>>, FALSE)

-----------------------------------------------------------------------------
(* QingXu: JSON in strings, under numbered keys below a declared total.    *)

\* The last payload of every number below the total, in the order of numbers.
Numbered(members, total) ==
  LET keys == {members[i].key : i \in DOMAIN members} \cap (0 .. total - 1)
      order == InOrder(keys, <)
  IN  [k \in DOMAIN order |->
         members[Max({i \in DOMAIN members : members[i].key = order[k]})].value]
QingXuBlock(e) == FirstFound(<<ModernId(e.name), LegacyId(e.name, 0)>>)
\* Empty texts, and chunks without a total of points, say nothing.
QingXuFilled(chunks) == SelectSeq(chunks, LAMBDA c : IF c = Missing THEN FALSE ELSE c.total # Missing)
QingXuRead(doc) ==
  LET chunks == Numbered(doc.members, doc.total)
      filled == QingXuFilled(chunks)
      Points(c) == Numbered(c.members, c.total)
      entries == FlattenSeq([i \in DOMAIN filled |->
                               SelectSeq(Points(filled[i]), LAMBDA e : e # Missing)])
  IN  IF doc = Bad THEN Refused
      ELSE IF doc.total = Bad THEN Refused
      ELSE IF \E i \in DOMAIN chunks : chunks[i] = Bad THEN Refused
      ELSE IF \E i \in DOMAIN filled : filled[i].total = Bad THEN Refused
      ELSE IF \E i \in DOMAIN filled : \E k \in DOMAIN Points(filled[i]) : Points(filled[i])[k] = Bad
      THEN Refused
      ELSE IF \A k \in DOMAIN entries : entries[k].name = "" THEN Refused
      ELSE IF ~Fits(SizeOf(entries)) THEN Refused
      ELSE Stored(SizeOf(entries), Puts(entries, LowOf(entries), QingXuBlock), <<>>, FALSE)

-----------------------------------------------------------------------------
(* CovStructure: a size, a palette and a nested list of cells, which may   *)
(* stand in any order: one pass finds out which of the members count, one  *)
(* reads the palette chosen, one the cells.                                *)

\* The last member of a name counts, and only those of the last structure.
LastOf(occurrences) == IF occurrences = <<>> THEN Missing ELSE Last(occurrences)
CovOutline(doc) ==
  LET nothing == [palette |-> <<>>, indices |-> <<>>, blocks |-> <<>>]
      inside == IF LastOf(doc.structures) \in {Missing, Bad} THEN nothing ELSE Last(doc.structures)
      FirstMember(one, other) == IF one # <<>> THEN Last(one) ELSE LastOf(other)
  IN  [size |-> FirstMember(doc.size, doc.dimensions),
       palette |-> FirstMember(inside.palette, doc.palette),
       cells |-> FirstMember(inside.indices, inside.blocks)]
\* An object may hide an array of entries in its first child, by key, that has
\* one.
CovEntries(palette) ==
  LET nested == SelectSeq(palette.children, LAMBDA c : c.nested # Missing)
      direct == SelectSeq(palette.children, LAMBDA c : c.nested = Missing /\ c.entry # Missing)
  IN  IF palette \in {Missing, Bad} THEN <<>>
      ELSE IF palette.kind = "array" THEN palette.entries
      ELSE IF nested # <<>> THEN Head(nested).nested
      ELSE [i \in DOMAIN direct |-> direct[i].entry]
\* The first name that is not empty, the first number that is one.
CovDecoded(entry) ==
  LET names == SelectSeq(entry.names, LAMBDA n : n # "")
      numbers == SelectSeq(entry.numbers, LAMBDA n : n # Missing)
  IN  [name |-> IF names = <<>> THEN AirId ELSE Head(names),
       data |-> IF numbers = <<>> THEN Missing ELSE Head(numbers)]
\* An entry counts under the id it states, or under its place.
CovIds(entries) ==
  LET Id(i) == IF entries[i].val = Missing THEN i - 1 ELSE entries[i].val
  IN  [id \in {Id(i) : i \in DOMAIN entries} |->
         CovDecoded(entries[Max({i \in DOMAIN entries : Id(i) = id})])]
CovBlock(entry) ==
  FirstFound(<<IF entry.data = Missing THEN Missing ELSE LegacyId(entry.name, entry.data),
               ModernId(entry.name)>>)
CovEntry(cell, palette) ==
  CASE cell.kind = "entry" -> CovDecoded(cell.entry)
    [] cell.kind = "id" -> IF cell.id \in DOMAIN palette THEN palette[cell.id] ELSE Missing
    [] cell.kind = "other" -> Missing
CovSolid(cell, palette) ==
  LET entry == CovEntry(cell, palette)
  IN  IF entry = Missing THEN FALSE ELSE entry.name \notin {"", AirId}
\* Cells run over x, then z, then y.  An id of -1 is counted, never placed, and
\* so is every cell beyond the volume.
CovPlaced(cells, palette, size) ==
  LET Counts(i) == /\ CovSolid(cells[i], palette) /\ i <= Volume(size)
                   /\ cells[i].kind = "id" => cells[i].id # -1
      At(i) == <<(i - 1) % size[1], (i - 1) \div (size[1] * size[3]), ((i - 1) \div size[1]) % size[3]>>
      placed == SelectSeq([i \in DOMAIN cells |-> i], Counts)
  IN  [k \in DOMAIN placed |-> [pos |-> At(placed[k]),
                                block |-> CovBlock(CovEntry(cells[placed[k]], palette))]]
CovRead(doc) ==
  LET outline == CovOutline(doc)
      size == outline.size
      palette == CovIds(CovEntries(outline.palette))
      cells == IF outline.cells \in {Missing, Bad} THEN <<>> ELSE outline.cells
  IN  IF doc = Bad THEN Refused
      ELSE IF size \in {Missing, Bad} THEN Refused
      ELSE IF \E a \in Axes : size[a] <= 0 THEN Refused
      ELSE [Stored(size, CovPlaced(cells, palette, size), <<>>, FALSE)
              EXCEPT !.count = Len(SelectSeq(cells, LAMBDA c : CovSolid(c, palette)))]
=============================================================================
