--------------------------- MODULE GangBanFormats ---------------------------
(***************************************************************************)
(* The seven versions of GangBan (gangban.cpp), three families of JSON     *)
(* documents, each read in three passes that open the file anew: one for   *)
(* the tables, one that checks every record and finds the bounds, one that *)
(* places the blocks with the tables and bounds found before.              *)
(***************************************************************************)
EXTENDS JsonFormats

GangBanBlock(name, aux) == FirstFound(<<LegacyId(name, aux)>>)

-----------------------------------------------------------------------------
(* V1, V2: block objects, then a range (V1 always, V2 maybe), then a       *)
(* palette.                                                                *)

GangBanTail(doc, v1) ==
  IF doc = Bad THEN Refused
  ELSE IF \/ v1 /\ doc.range = Missing
          \/ doc.range = Bad \/ doc.palette \in {Bad, <<>>} THEN Refused
  ELSE [ok |-> TRUE, palette |-> doc.palette, range |-> doc.range, count |-> Len(doc.blocks)]
\* The entries below the count of the first pass; where the file has become
\* shorter the range or the palette is taken for a block, and refused.
GangBanEntries(tail, doc) ==
  LET Unusable(e) == e = Bad \/ e.index \notin DOMAIN tail.palette
  IN  IF doc = Bad THEN Refused
      ELSE IF Len(doc.blocks) < tail.count THEN Refused
      ELSE IF \E i \in 1 .. tail.count : Unusable(doc.blocks[i]) THEN Refused
      ELSE [ok |-> TRUE, entries |-> SubSeq(doc.blocks, 1, tail.count)]
GangBanBounds(tail, doc) ==
  LET found == GangBanEntries(tail, doc)
      corners == IF tail.range = Missing
                 THEN {found.entries[i].pos : i \in DOMAIN found.entries}
                 ELSE {tail.range.start, tail.range.end}
      size == Extent(LowCorner(corners), HighCorner(corners))
  IN  IF ~found.ok THEN Refused
      ELSE IF corners = {} THEN Refused
      ELSE IF ~Fits(size) THEN Refused
      ELSE [ok |-> TRUE, tail |-> tail, low |-> LowCorner(corners), size |-> size]
\* Only a declared range is held against the blocks.
GangBanPlace(bounds, doc) ==
  LET tail == bounds.tail
      found == GangBanEntries(tail, doc)
      Outside(e) == ~Inside(Minus(e.pos, bounds.low), bounds.size)
  IN  IF ~found.ok THEN Refused
      ELSE IF tail.range # Missing /\ \E i \in DOMAIN found.entries : Outside(found.entries[i])
      THEN Refused
      ELSE Stored(bounds.size,
                  Puts(found.entries, bounds.low,
                       LAMBDA e : GangBanBlock(tail.palette[e.index], e.aux)),
                  EntityPuts(found.entries, bounds.low), FALSE)

-----------------------------------------------------------------------------
(* V3, V4: a header, a palette, and chunks with a base and a list.  V3     *)
(* declares origin and size, and keeps the blocks that lie beyond it.      *)

\* The palette of V3 is a text of names between numbers, [0]stone[0]; a name
\* between different numbers is skipped, a number that is missing refused.
V3Palette(marks) ==
  LET matched == SelectSeq(marks, LAMBDA m : m.before = m.after)
      numbers == {matched[i].before : i \in DOMAIN matched}
      Name(n) == matched[Max({i \in DOMAIN matched : matched[i].before = n})].name
      wanted == 0 .. Max({0} \cup numbers)
  IN  IF ~(wanted \subseteq numbers) THEN <<>>
      ELSE [k \in 1 .. Cardinality(wanted) |-> Name(k - 1)]
GangBanUnusable(chunk) == chunk = Bad \/ chunk.data = <<>> \/ Last(chunk.data) = Bad
GangBanChunks(doc, v3) ==
  LET palette == IF v3 /\ doc.palette # Bad THEN V3Palette(doc.palette) ELSE doc.palette
  IN  IF doc = Bad THEN Refused
      ELSE IF palette \in {Bad, <<>>} \/ doc.chunks = <<>> THEN Refused
      ELSE IF \E i \in DOMAIN doc.chunks : GangBanUnusable(doc.chunks[i]) THEN Refused
      ELSE IF v3 /\ \E a \in Axes : doc.size[a] <= 0 THEN Refused
      ELSE [ok |-> TRUE, palette |-> palette, v3 |-> v3,
            low |-> doc.origin, size |-> doc.size,
            chunks |-> [i \in DOMAIN doc.chunks |->
                          [grid |-> doc.chunks[i].grid, occurrence |-> Len(doc.chunks[i].data)]]]
\* What a later pass finds in the chunks: one list each.
GangBanLists(meta, doc) ==
  LET chunks == SelectSeq(doc.chunks, LAMBDA c : c # Bad)
  IN  IF Len(chunks) # Len(meta.chunks) THEN Bad
      ELSE [i \in DOMAIN chunks |-> Occurrence(chunks[i].data, meta.chunks[i].occurrence)]
GangBanChunkEntries(meta, doc) ==
  LET lists == GangBanLists(meta, doc)
      World(i, e) == [e EXCEPT !.pos = Plus(@, <<meta.chunks[i].grid[1], 0, meta.chunks[i].grid[2]>>)]
      Unusable(e) == e = Bad \/ e.index \notin DOMAIN meta.palette
  IN  IF doc = Bad THEN Refused
      ELSE IF lists = Bad THEN Refused
      ELSE IF \E i \in DOMAIN lists : \E k \in DOMAIN lists[i] : Unusable(lists[i][k]) THEN Refused
      ELSE [ok |-> TRUE,
            entries |-> FlattenSeq([i \in DOMAIN lists |->
                          [k \in DOMAIN lists[i] |-> World(i, lists[i][k])]])]
GangBanChunkBounds(meta, doc) ==
  LET found == GangBanChunkEntries(meta, doc)
      At(low, size) == [ok |-> TRUE, meta |-> meta, low |-> low, size |-> size,
                        total |-> Len(found.entries)]
  IN  IF ~found.ok THEN Refused
      ELSE IF found.entries = <<>> THEN Refused
      ELSE IF meta.v3 THEN At(meta.low, meta.size)
      ELSE IF ~Fits(SizeOf(found.entries)) THEN Refused
      ELSE At(LowOf(found.entries), SizeOf(found.entries))
\* V3 keeps the first entity of a cell, V4 the last.
GangBanChunkPlace(bounds, doc) ==
  LET found == GangBanChunkEntries(bounds.meta, doc)
      entities == EntityPuts(found.entries, bounds.low)
  IN  IF ~found.ok THEN Refused
      ELSE IF Len(found.entries) # bounds.total THEN Refused
      ELSE Stored(bounds.size,
                  Puts(found.entries, bounds.low,
                       LAMBDA e : GangBanBlock(bounds.meta.palette[e.index], e.aux)),
                  IF bounds.meta.v3 THEN FirstEntities(entities) ELSE entities, bounds.meta.v3)

-----------------------------------------------------------------------------
(* V5: a stream of numbers, six to a block, a payload after some of them;  *)
(* then an area and a palette.  V6 and V7 (compressed): moves of a cursor. *)

GangBanStream(doc, v5) ==
  IF doc = Bad THEN Refused
  ELSE IF doc.palette \in {Bad, <<>>} \/ (v5 /\ doc.area = Bad) THEN Refused
  ELSE [ok |-> TRUE, v5 |-> v5, palette |-> doc.palette, end |-> Len(doc.stream)]
\* The elements below the end the first pass found, the tail taken for
\* elements where the file has become shorter.
StreamElements(meta, doc) ==
  LET tail == IF meta.v5 THEN <<[kind |-> "object", nbt |-> "area"], [kind |-> "array", nbt |-> Missing]>>
              ELSE <<[kind |-> IF Len(doc.palette) >= 5 THEN "text" ELSE "other"]>>
      all == doc.stream \o tail
  IN  SubSeq(all, 1, Min({meta.end, Len(all)}))
\* V5: numbers gather until there are six; what follows is the payload of the
\* block, or the first number of the next one.
FlatBlocks(elements, end) ==
  LET Group == 6
      Closed(s, payload) ==
        [s EXCEPT !.base = <<>>,
           !.blocks = Append(@, [pos |-> SubSeq(s.base, 2, 4), primary |-> s.base[5],
                                 secondary |-> s.base[6], payload |-> payload])]
      Gather(s, i) ==
        IF \/ s.base = <<>> /\ end - (i - 1) < Group
           \/ elements[i].kind # "number"
        THEN [s EXCEPT !.ok = FALSE]
        ELSE [s EXCEPT !.base = Append(@, elements[i].value)]
      Step(s, i) ==
        IF ~s.ok THEN s
        ELSE IF Len(s.base) < Group THEN Gather(s, i)
        ELSE IF elements[i].kind # "number" THEN Closed(s, elements[i])
        ELSE Gather(Closed(s, Missing), i)
      last == FoldLeft(Step, [ok |-> TRUE, base |-> <<>>, blocks |-> <<>>],
                       [i \in DOMAIN elements |-> i])
  IN  IF last.ok /\ Len(last.base) = Group THEN Closed(last, Missing) ELSE last
CursorBlocks(elements) ==
  LET moves == SelectSeq(elements, LAMBDA e : e.kind # "text")
      At(i) == [a \in Axes |-> FoldLeft(+, 0, [k \in 1 .. i |-> moves[k].move[a]])]
  IN  IF \E i \in DOMAIN moves : moves[i].kind = "other" THEN Refused
      ELSE [ok |-> TRUE,
            blocks |-> [i \in DOMAIN moves |->
                          [pos |-> At(i), primary |-> moves[i].primary,
                           secondary |-> moves[i].secondary, payload |-> moves[i].payload]]]
\* An object makes a command block, whatever the palette says.
CommandBlockName(mode) ==
  CASE mode = 1 -> "repeating" [] mode = 2 -> "chain" [] OTHER -> "command"
HasCommand(b) == IF b.payload = Missing THEN FALSE ELSE b.payload.kind = "object"
GangBanStreamBlocks(meta, doc) ==
  LET elements == StreamElements(meta, doc)
      parsed == IF meta.v5 THEN FlatBlocks(elements, meta.end) ELSE CursorBlocks(elements)
      Unusable(b) == ~HasCommand(b) /\ b.primary \notin 0 .. Len(meta.palette) - 1
      Block(b) == IF HasCommand(b) THEN GangBanBlock(CommandBlockName(b.secondary), b.primary)
                  ELSE GangBanBlock(meta.palette[b.primary + 1], b.secondary)
      Nbt(b) == IF b.payload = Missing THEN Missing ELSE b.payload.nbt
  IN  IF doc = Bad THEN Refused
      ELSE IF ~parsed.ok THEN Refused
      ELSE IF \E i \in DOMAIN parsed.blocks : Unusable(parsed.blocks[i]) THEN Refused
      ELSE [ok |-> TRUE,
            entries |-> [i \in DOMAIN parsed.blocks |->
                           [pos |-> parsed.blocks[i].pos, block |-> Block(parsed.blocks[i]),
                            nbt |-> Nbt(parsed.blocks[i])]]]
GangBanStreamBounds(meta, doc) ==
  LET found == GangBanStreamBlocks(meta, doc)
  IN  IF ~found.ok THEN Refused
      ELSE IF found.entries = <<>> THEN Refused
      ELSE IF ~Fits(SizeOf(found.entries)) THEN Refused
      ELSE [ok |-> TRUE, meta |-> meta, low |-> LowOf(found.entries),
            size |-> SizeOf(found.entries), total |-> Len(found.entries)]
GangBanStreamPlace(bounds, doc) ==
  LET found == GangBanStreamBlocks(bounds.meta, doc)
  IN  IF ~found.ok THEN Refused
      ELSE IF Len(found.entries) # bounds.total THEN Refused
      ELSE Stored(bounds.size, Puts(found.entries, bounds.low, LAMBDA e : e.block),
                  FirstEntities(EntityPuts(found.entries, bounds.low)), FALSE)
=============================================================================
