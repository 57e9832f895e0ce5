---------------------------- MODULE FuHongFormats ----------------------------
(***************************************************************************)
(* The five versions of FuHong: the readers (fuhong.cpp), which parse the  *)
(* file twice, once for the bounds and once for the blocks, and the writer *)
(* of V4 and V5 (fuhong_writer.cpp).  V5 is compressed and enciphered.     *)
(***************************************************************************)
EXTENDS JsonFormats

CONSTANT Holders \* names of blocks that carry an entity, in this format

\* A block is resolved once per name and states, or name and aux where there
\* are no states, and remembered: with states, the aux of the first one counts.
FuHongKey(e) == <<e.name, e.stated, IF e.stated = Missing THEN e.aux ELSE 0>>
FuHongBlock(e) ==
  FirstFound(<<IF e.stated = Missing THEN Missing ELSE ModernId(e.stated),
               LegacyId(e.name, e.aux), ModernId(e.name)>>)
Remembered(entries) ==
  [i \in DOMAIN entries |->
     FuHongBlock(entries[Min({k \in DOMAIN entries : FuHongKey(entries[k]) = FuHongKey(entries[i])})])]
FuHongStored(bounds, entries, entityPuts) ==
  LET block == Remembered(entries)
  IN  IF entries = <<>> THEN Refused
      ELSE Stored(bounds.size, [i \in DOMAIN entries |-> [pos |-> Minus(entries[i].pos, bounds.low),
                                                          block |-> block[i]]],
                  entityPuts, FALSE)
BoundsOf(entries) ==
  IF entries = <<>> THEN Refused
  ELSE IF ~Fits(SizeOf(entries)) THEN Refused
  ELSE [ok |-> TRUE, low |-> LowOf(entries), size |-> SizeOf(entries)]

-----------------------------------------------------------------------------
(* V1: a list of blocks.  V2: lists of columns, one block with its cells.  *)

FuHongV1Entries(doc) ==
  LET entries == doc.entries
      Of(e) == [name |-> e.name, stated |-> Missing, aux |-> e.aux, pos |-> e.pos]
  IN  IF doc = Bad THEN Refused
      ELSE IF entries = <<>> \/ Contains(entries, Bad) THEN Refused
      ELSE [ok |-> TRUE, entries |-> [i \in DOMAIN entries |-> Of(entries[i])]]
\* A list of aux values that is too short repeats the last one.
AuxAt(column, k) ==
  IF column.auxes = Missing THEN column.aux
  ELSE IF column.auxes = <<>> THEN 0
  ELSE column.auxes[Min({k, Len(column.auxes)})]
ColumnEntries(c) ==
  [k \in DOMAIN c.cells |-> [name |-> c.name, stated |-> c.stated, aux |-> AuxAt(c, k),
                             pos |-> c.cells[k], nbt |-> c.nbts[k]]]
FuHongV2Entries(doc) ==
  LET columns == FlattenSeq(doc.columns)
      named == SelectSeq(columns, LAMBDA c : c.name # Missing)
  IN  IF doc = Bad THEN Refused
      ELSE IF doc.columns = <<>> \/ Contains(doc.columns, Bad) THEN Refused
      ELSE IF Contains(columns, Bad) THEN Refused
      ELSE [ok |-> TRUE, entries |-> FlattenSeq([i \in DOMAIN named |-> ColumnEntries(named[i])])]

FuHongFlatBounds(found) == IF ~found.ok THEN Refused ELSE BoundsOf(found.entries)
\* Nothing of the second pass is compared with the first.
FuHongFlatPlace(bounds, found) ==
  IF ~found.ok THEN Refused
  ELSE FuHongStored(bounds, found.entries,
                    IF \A i \in DOMAIN found.entries : "nbt" \notin DOMAIN found.entries[i] THEN <<>>
                    ELSE EntityPuts(found.entries, bounds.low))

-----------------------------------------------------------------------------
(* V3 to V5: a palette and chunks of tuples; only in V3 a chunk has a base. *)

\* Tuples that start with a string are commands and are passed over.
Blocky(chunk) == SelectSeq(chunk.tuples, LAMBDA t : t # Bad /\ t.kind = "cells")
WrongTuples(chunk) == \E k \in DOMAIN chunk.tuples : chunk.tuples[k] = Bad
ChunkUnusable(chunk, v3) == chunk = Bad \/ WrongTuples(chunk) \/ (v3 /\ chunk.start = Missing)
FuHongUnusable(doc, v3) ==
  \/ doc.palette \in {Bad, <<>>}
  \/ doc.chunks = Bad
  \/ \E i \in DOMAIN doc.chunks : ChunkUnusable(doc.chunks[i], v3)
ChunkBase(chunk, v3) == IF v3 THEN <<chunk.start[1], 0, chunk.start[2]>> ELSE Origin
ChunkCells(chunk, base) ==
  FlattenSeq([k \in DOMAIN Blocky(chunk) |->
    [c \in DOMAIN Blocky(chunk)[k].cells |-> [pos |-> Plus(base, Blocky(chunk)[k].cells[c])]]])
FuHongInspect(doc, v3) ==
  LET base == [i \in DOMAIN doc.chunks |-> ChunkBase(doc.chunks[i], v3)]
      bounds == BoundsOf(FlattenSeq([i \in DOMAIN doc.chunks |-> ChunkCells(doc.chunks[i], base[i])]))
  IN  IF doc = Bad THEN Refused
      ELSE IF FuHongUnusable(doc, v3) THEN Refused
      ELSE IF ~bounds.ok THEN Refused
      ELSE [ok |-> TRUE, low |-> bounds.low, size |-> bounds.size, palette |-> doc.palette, bases |-> base]

TupleEntries(palette, base, t) ==
  [k \in DOMAIN t.cells |->
     [name |-> palette[t.index].name, stated |-> palette[t.index].stated,
      aux |-> t.aux, pos |-> Plus(base, t.cells[k]), nbt |-> t.nbts[k]]]
\* The second pass expects as many chunks, and looks at the palette index only now.
FuHongChanged(meta, doc) ==
  LET WrongIndex(chunk) == \E k \in DOMAIN Blocky(chunk) : Blocky(chunk)[k].index \notin DOMAIN meta.palette
      Unusable(chunk) == chunk = Bad \/ WrongTuples(chunk) \/ WrongIndex(chunk)
  IN  \/ doc.chunks = Bad
      \/ Len(doc.chunks) # Len(meta.bases)
      \/ \E i \in DOMAIN doc.chunks : Unusable(doc.chunks[i])
FuHongPlace(meta, doc) ==
  LET OfChunk(i) == LET tuples == Blocky(doc.chunks[i])
                    IN  FlattenSeq([k \in DOMAIN tuples |-> TupleEntries(meta.palette, meta.bases[i], tuples[k])])
      entries == FlattenSeq([i \in DOMAIN doc.chunks |-> OfChunk(i)])
  IN  IF doc = Bad THEN Refused
      ELSE IF FuHongChanged(meta, doc) THEN Refused
      ELSE FuHongStored(meta, entries, FirstEntities(EntityPuts(entries, meta.low)))

-----------------------------------------------------------------------------
(* The writer: chunk by chunk, blocks of one name and aux in one tuple.    *)

\* The smallest aux that leads back to the block, or its name with all states.
PaletteValue(block) ==
  LET auxes == {aux \in 0 .. 255 : LegacyId(NameOf[block], aux) = block}
  IN  IF auxes # {} THEN [name |-> NameOf[block], stated |-> Missing, aux |-> Min(auxes)]
      ELSE IF StatedName[block] = NameOf[block]
      THEN [name |-> NameOf[block], stated |-> Missing, aux |-> 0]
      ELSE [name |-> NameOf[block], stated |-> StatedName[block], aux |-> 0]
\* What a tuple says of the entity of a block: nothing, or a blank one, for a
\* block without entity whose name asks for one.
ExtraOf(block, entities, p) ==
  IF NameOf[block] \notin Holders THEN Missing
  ELSE IF p \in DOMAIN entities THEN entities[p] ELSE "blank"
FuHongWritten(cells, entities, size) ==
  LET Order(p, q) ==
        \/ ChunkOf(p)[1] < ChunkOf(q)[1]
        \/ ChunkOf(p)[1] = ChunkOf(q)[1] /\ ChunkOf(p)[2] < ChunkOf(q)[2]
        \/ ChunkOf(p) = ChunkOf(q) /\
             \/ p[2] < q[2]
             \/ p[2] = q[2] /\ p[3] < q[3]
             \/ p[2] = q[2] /\ p[3] = q[3] /\ p[1] < q[1]
      solid == InOrder({p \in NonAir(cells) : Inside(p, size)}, Order)
      values == {PaletteValue(cells[solid[i]]) : i \in DOMAIN solid}
      groups == Enumerated(values)
      names == <<[name |-> AirId, stated |-> Missing]>>
               \o Enumerated({[name |-> v.name, stated |-> v.stated] : v \in values})
      Of(v) == SelectSeq(solid, LAMBDA p : PaletteValue(cells[p]) = v)
      Index(v) == CHOOSE i \in DOMAIN names : names[i].name = v.name /\ names[i].stated = v.stated
      Tuple(v) == [kind |-> "cells", index |-> Index(v), aux |-> v.aux, cells |-> Of(v),
                   nbts |-> [k \in DOMAIN Of(v) |-> ExtraOf(cells[Of(v)[k]], entities, Of(v)[k])]]
  IN  [palette |-> names,
       chunks |-> <<[start |-> <<0, 0>>, tuples |-> [i \in DOMAIN groups |-> Tuple(groups[i])]]>>]
=============================================================================
