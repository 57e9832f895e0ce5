--------------------------- MODULE RecordFormats ---------------------------
(***************************************************************************)
(* Readers of files that are lists of records: RunAway (runaway.cpp), KBDX *)
(* (kbdx_structure.cpp), BDS and NexusNP (msgpack_structure.cpp) keep a    *)
(* vector of blocks and an index from chunks into it, BCF (bcf.cpp) a list *)
(* of cuboids, Construction (construction.cpp) only the index of the       *)
(* sections: it opens the file again for every get_chunks.                 *)
(*                                                                         *)
(* A document is what a file says, Bad where a value is not of the type    *)
(* the reader wants.                                                       *)
(***************************************************************************)
EXTENDS StructureGeometry

-----------------------------------------------------------------------------
(* Vectors of blocks.                                                      *)

NormalizedCells(cells) == Moved(cells, Minus(Origin, LowCorner(DOMAIN cells)))
ExtentOf(cells) == Extent(LowCorner(DOMAIN cells), HighCorner(DOMAIN cells))

\* The records of a function, in the order of their positions: by x, y, z in
\* RunAway, layer by layer in KBDX.
ByColumns(p, q) ==
  \/ p[1] < q[1]
  \/ p[1] = q[1] /\ p[2] < q[2]
  \/ p[1] = q[1] /\ p[2] = q[2] /\ p[3] < q[3]
ByLayers(p, q) ==
  \/ p[2] < q[2]
  \/ p[2] = q[2] /\ p[3] < q[3]
  \/ p[2] = q[2] /\ p[3] = q[3] /\ p[1] < q[1]
Sorted(cells, Before(_, _)) ==
  LET order == InOrder(DOMAIN cells, Before)
  IN  [i \in DOMAIN order |-> [pos |-> order[i], block |-> cells[order[i]]]]

\* RunAway: an array of named entries; one bad entry refuses the file.
RunAwayBlock(entry) == FirstFound(<<LegacyId(entry.name, entry.aux), ModernId(entry.name)>>)
RunAwayRead(doc) ==
  LET entries == doc.entries
      cells == LastWins([i \in DOMAIN entries |->
                           [pos |-> entries[i].pos, block |-> RunAwayBlock(entries[i])]])
  IN  IF doc = Bad THEN Refused
      ELSE IF entries = <<>> \/ Contains(entries, Bad) THEN Refused
      ELSE IF ~Fits(ExtentOf(cells)) THEN Refused
      ELSE Accepted(ExtentOf(cells), Sorted(NormalizedCells(cells), ByColumns), NoCells,
                    Cardinality(NonAir(cells)))

\* KBDX: counted records, then a palette and entities; of the entities for a
\* place the last counts that the reader makes NBT of.
KbdxEntities(list) ==
  LET named == {i \in DOMAIN list : list[i] # Bad /\ list[i].nbt # Missing}
      At(p) == {i \in named : list[i].pos = p}
  IN  [p \in {list[i].pos : i \in named} |-> list[Max(At(p))].nbt]
KbdxBlock(palette, r) ==
  LET name == IF r.index \in DOMAIN palette THEN palette[r.index] ELSE ""
  IN  FirstFound(<<LegacyId(name, r.aux), ModernId(name)>>)
\* Sorted, deduplicated and moved; an entity without a block is dropped.
KbdxKept(cells, entities) ==
  Accepted(ExtentOf(cells), Sorted(NormalizedCells(cells), ByLayers),
           Moved(Restrict(entities, DOMAIN entities \cap DOMAIN cells), Minus(Origin, LowCorner(DOMAIN cells))),
           Cardinality(NonAir(cells)))
KbdxRead(doc) ==
  LET cells == LastWins([i \in DOMAIN doc.records |->
                           [pos |-> doc.records[i].pos, block |-> KbdxBlock(doc.palette, doc.records[i])]])
  IN  IF doc.count = 0 \/ doc.count # Len(doc.records) \/ doc.palette = <<>> THEN Refused
      ELSE IF ~Fits(ExtentOf(cells)) THEN Refused
      ELSE KbdxKept(cells, KbdxEntities(doc.entities))

\* BDS and NexusNP: a first pass over all records, air left out, finds the
\* bounds and counts, a second one places them; duplicates stay in the vector.
BdsBlock(entry) ==
  CASE entry.kind = "number" -> FirstFound(<<LegacyId(entry.name, entry.data)>>)
    [] entry.kind = "states" -> FirstFound(<<ModernId(entry.data)>>)
    [] entry.kind = "none"   -> FirstFound(<<ModernId(entry.name)>>)
NexusBlock(entry) == FirstFound(<<LegacyId(entry.name, entry.data)>>)
MsgpackRead(doc, format) ==
  LET blocks == doc.blocks
      nexus == format = "NexusNP"
      Unreadable(e) == e = Bad \/ (nexus /\ e.kind # "number")
      Block(e) == IF nexus THEN NexusBlock(e) ELSE BdsBlock(e)
      kept == SelectSeq(blocks, LAMBDA e : ~e.air /\ e.name \notin {"", "air"})
      low == LowCorner({kept[i].pos : i \in DOMAIN kept})
      size == Extent(low, HighCorner({kept[i].pos : i \in DOMAIN kept}))
  IN  IF doc = Bad THEN Refused
      ELSE IF \E i \in DOMAIN blocks : Unreadable(blocks[i]) THEN Refused
      ELSE IF kept = <<>> THEN Refused
      ELSE IF ~Fits(size) THEN Refused
      ELSE Accepted(size, [i \in DOMAIN kept |-> [pos |-> Minus(kept[i].pos, low),
                                                  block |-> Block(kept[i])]],
                    NoCells, Len(kept))

\* ChunkBlockIndex: the places in the vector of the blocks of each chunk,
\* built on first use and kept until the offset changes.
ChunkIndex(blocks, offset) ==
  LET At(i) == ChunkOf(Plus(blocks[i].pos, offset))
  IN  [c \in {At(i) : i \in DOMAIN blocks} |-> {i \in DOMAIN blocks : At(i) = c}]
VectorChunk(blocks, index, offset, chunk) ==
  LET here == IF chunk \in DOMAIN index THEN index[chunk] ELSE {}
  IN  SubChunks([p \in {blocks[i].pos : i \in here} |->
                   blocks[Max({i \in here : blocks[i].pos = p})].block], offset, chunk)

-----------------------------------------------------------------------------
(* BCF: sections of cuboids.                                               *)

\* The state values are put into the default state of the block; a palette
\* entry that does not resolve, or resolves to air, leaves its cuboids out.
BcfBlock(entry) ==
  IF entry.states = "" THEN ModernId(entry.name) ELSE ModernId(entry.states)
BcfRegions(doc) ==
  LET Kept(r) == r.index \in DOMAIN doc.palette
                 /\ BcfBlock(doc.palette[r.index]) \notin {Missing, AirId}
      Region(origin, r) ==
        [lo |-> Plus(origin, [i \in Axes |-> Min({r.first[i], r.second[i]})]),
         hi |-> Plus(origin, [i \in Axes |-> Max({r.first[i], r.second[i]})]),
         counted |-> Volume([i \in Axes |-> Abs(r.second[i] - r.first[i] + 1)]),
         block |-> BcfBlock(doc.palette[r.index])]
      Of(section) == LET kept == SelectSeq(section.regions, Kept)
                     IN  [i \in DOMAIN kept |-> Region(section.origin, kept[i])]
  IN  FlattenSeq([s \in DOMAIN doc.sections |-> Of(doc.sections[s])])
BcfRead(doc) ==
  LET regions == BcfRegions(doc)
      low == LowCorner({regions[i].lo : i \in DOMAIN regions})
      size == Extent(low, HighCorner({regions[i].hi : i \in DOMAIN regions}))
      Shifted(r) == [r EXCEPT !.lo = Minus(@, low), !.hi = Minus(@, low)]
  IN  IF doc = Bad THEN Refused
      ELSE IF \E s \in DOMAIN doc.sections : doc.sections[s] = Bad THEN Refused
      ELSE IF regions = <<>> THEN Refused
      ELSE Accepted(size, [i \in DOMAIN regions |-> Shifted(regions[i])], NoCells,
                    FoldLeft(LAMBDA n, r : n + r.counted, 0, regions))

\* Later cuboids overwrite earlier ones.
RegionChunk(regions, offset, chunk) ==
  LET Covers(r, p) == \A i \in Axes : p[i] \in r.lo[i] .. r.hi[i]
      cells == UNION {Cuboid(regions[i].lo, regions[i].hi) : i \in DOMAIN regions}
      here == {p \in cells : ChunkOf(Plus(p, offset)) = chunk}
  IN  SubChunks([p \in here |->
                   regions[Max({i \in DOMAIN regions : Covers(regions[i], p)})].block],
                offset, chunk)

-----------------------------------------------------------------------------
(* Construction: a table of sections and a palette at the end of the file. *)

\* An entry of the table without extent or payload is skipped.
Skipped(entry) == entry.at = Missing \/ Volume(entry.shape) = 0
\* The payload an entry points at, as the file has it now: it must lie in the
\* file, agree with its own shape and be long enough for the indexed shape.
SectionRefused(entry, payload) ==
  \/ entry.at \notin DOMAIN payload
  \/ payload[entry.at] = Bad
  \/ LET section == payload[entry.at]
     IN  \/ /\ Volume(section.shape) > 0
            /\ Volume(section.shape) # Len(section.blocks)
         \/ /\ section.blocks # <<>>
            /\ Len(section.blocks) < Volume(entry.shape)
PaletteBlock(palette, index) ==
  IF index \in 0 .. Len(palette) - 1 THEN palette[index + 1] ELSE UnknownId
SectionCells(entry) == Cuboid(Origin, [i \in Axes |-> entry.shape[i] - 1])
\* Blocks of a section run over x, then y, then z.
BlockAt(entry, section, palette, p) ==
  PaletteBlock(palette, section.blocks[(p[1] * entry.shape[2] + p[2]) * entry.shape[3] + p[3] + 1])

ConstructionBounds(doc) ==
  LET used == {i \in DOMAIN doc.table : Volume(doc.table[i].shape) # 0}
      Valid(box) == \A i \in Axes : box.lo[i] < box.hi[i]
      Around(boxes) == [lo |-> LowCorner({b.lo : b \in boxes}), hi |-> HighCorner({b.hi : b \in boxes})]
      selected == IF doc.boxes = {} THEN [lo |-> Origin, hi |-> Origin] ELSE Around(doc.boxes)
  IN  IF Valid(selected) THEN selected
      ELSE IF used = {} THEN [lo |-> Origin, hi |-> Origin]
      ELSE Around({[lo |-> doc.table[i].start,
                    hi |-> Plus(doc.table[i].start, doc.table[i].shape)] : i \in used})

SectionSolid(entry, section, palette) ==
  IF section.blocks = <<>> THEN {}
  ELSE {p \in SectionCells(entry) : BlockAt(entry, section, palette, p) # AirId}
SectionEntities(section, low) ==
  [e \in DOMAIN section.entities |->
     [pos |-> Minus(section.entities[e].pos, low), block |-> section.entities[e].nbt]]
\* Every section is read once, to be checked and counted; of it only the
\* entities are kept.
ConstructionRead(doc) ==
  LET bounds == ConstructionBounds(doc)
      size == Minus(bounds.hi, bounds.lo)
      palette == [i \in DOMAIN doc.palette |-> FirstFound(<<ModernId(doc.palette[i])>>)]
      used == SelectSeq(doc.table, LAMBDA e : ~Skipped(e))
      Section(i) == doc.payload[used[i].at]
  IN  IF doc = Bad THEN Refused
      ELSE IF doc.table = <<>> \/ doc.palette = <<>> \/ ~Fits(size) THEN Refused
      ELSE IF \E i \in DOMAIN used : SectionRefused(used[i], doc.payload) THEN Refused
      ELSE Accepted(size, [table |-> used, palette |-> palette, low |-> bounds.lo],
                    LastWins(FlattenSeq([i \in DOMAIN used |-> SectionEntities(Section(i), bounds.lo)])),
                    FoldLeft(+, 0, [i \in DOMAIN used |->
                                      Cardinality(SectionSolid(used[i], Section(i), palette))]))

\* The chunks of a section inside the structure.
SectionChunks(entry, low, size, offset) ==
  LET from == Minus(entry.start, low)
      cells == {p \in Cuboid(from, Plus(from, Minus(entry.shape, <<1, 1, 1>>))) :
                  p[1] \in 0 .. size[1] - 1 /\ p[3] \in 0 .. size[3] - 1}
  IN  {ChunkOf(Plus(p, offset)) : p \in cells}
\* What a section puts into the structure, clipped to its size.
SectionPut(index, size, entry, section) ==
  LET Place(p) == Minus(Plus(p, entry.start), index.low)
      Back(q) == Minus(Plus(q, index.low), entry.start)
      kept == {p \in SectionSolid(entry, section, index.palette) : Inside(Place(p), size)}
  IN  [q \in {Place(p) : p \in kept} |-> BlockAt(entry, section, index.palette, Back(q))]
\* get_chunks reads the sections of the chunks it is asked for from `payload`,
\* the file as it is now; air does not overwrite a block of an earlier section.
ConstructionChunks(index, size, offset, payload, ask) ==
  LET read == SelectSeq(index.table,
                LAMBDA e : SectionChunks(e, index.low, size, offset) \cap ask # {})
      cells == FoldLeft(LAMBDA all, e : SectionPut(index, size, e, payload[e.at]) @@ all, NoCells, read)
      Of(chunk) == {p \in DOMAIN cells : ChunkOf(Plus(p, offset)) = chunk}
  IN  IF \E i \in DOMAIN read : SectionRefused(read[i], payload) THEN Refused
      ELSE [ok |-> TRUE,
            chunks |-> [c \in ask |-> SubChunks(Restrict(cells, Of(c)), offset, c)]]
=============================================================================
