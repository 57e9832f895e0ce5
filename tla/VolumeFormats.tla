---------------------------- MODULE VolumeFormats ----------------------------
(***************************************************************************)
(* Formats that state the block of every cell of a volume: Schematic       *)
(* (schematic.cpp, schematic_writer.cpp), Litematic (litematic.cpp,        *)
(* litematic_writer.cpp), MCStructure (mcstructure.cpp,                    *)
(* mcstructure_writer.cpp), AxiomBP (axiom_bp.cpp, axiom_bp_writer.cpp)    *)
(* and the writer of Schem (schem_writer.cpp).                             *)
(*                                                                         *)
(* Litematic and AxiomBP pack palette indices into words of WordBits (64)  *)
(* bits, one across the border of two words, the other never.  A tag that  *)
(* may be repeated is the sequence of its occurrences.                     *)
(***************************************************************************)
EXTENDS JsonFormats

CONSTANTS
  SchematicBlock, \* <<id, data>> -> block: schematic_runtime_id
  SchematicPair,  \* block -> <<id, data>>: schematic_block
  JavaBlock,      \* Java state -> block: compatible_java_runtime_id
  JavaState,      \* block -> Java state: java_state
  WordBits,
  MaxShort, MaxInt

ASSUME VolumeAssumption ==
  /\ {WordBits, MaxShort, MaxInt} \subseteq Nat \ {0}
  /\ WordBits >= 4

FirstOf(occurrences) ==
  IF occurrences = <<>> THEN Missing
  ELSE IF Head(occurrences) = Bad THEN Missing ELSE Head(occurrences)

\* Cells by y, z, x; by x, y, z for MCStructure.
PlaceYZX(p, size) == (p[2] * size[3] + p[3]) * size[1] + p[1]
CellYZX(i, size) == <<i % size[1], i \div (size[1] * size[3]), (i \div size[1]) % size[3]>>
PlaceXYZ(p, size) == (p[1] * size[2] + p[2]) * size[3] + p[3]
CellXYZ(i, size) == <<i \div (size[2] * size[3]), (i \div size[3]) % size[2], i % size[3]>>

\* What a palette starts with, then every value in the order of first use.
PaletteOf(start, values) ==
  FoldLeft(LAMBDA palette, v : IF Contains(palette, v) THEN palette ELSE Append(palette, v),
           start, values)
IndexIn(palette, value) == (CHOOSE i \in DOMAIN palette : palette[i] = value) - 1

-----------------------------------------------------------------------------
(* Words.                                                                  *)

BitsFor(count, least) ==
  Max({least, Min({bits \in 0 .. count : 2 ^ bits >= count})})
WordOf(words, i) == IF i < Len(words) THEN words[i + 1] ELSE 0

\* Mutant: what does not fit into a word is lost.
DenseWordsCutOff(values, bits) ==
  LET Word(i) == (i * bits) \div WordBits
      In(w) == SelectSeq([k \in DOMAIN values |-> k], LAMBDA k : Word(k - 1) = w - 1)
      Shifted(k) == values[k] * 2 ^ (((k - 1) * bits) % WordBits) % 2 ^ WordBits
  IN  [w \in 1 .. (Len(values) * bits + WordBits - 1) \div WordBits |->
         FoldLeft(LAMBDA sum, k : sum + Shifted(k), 0, In(w))]

\* Litematic: values one after the other, across words.
DenseWords(values, bits) ==
  LET Put(words, i, value) == [words EXCEPT ![i + 1] = @ + value]
      Low(value, from) == (value * 2 ^ from) % 2 ^ WordBits
      High(value, from) == value \div 2 ^ (WordBits - from)
      Step(words, k) ==
        LET word == ((k - 1) * bits) \div WordBits
            from == ((k - 1) * bits) % WordBits
            low == Put(words, word, Low(values[k], from))
        IN  IF from + bits > WordBits THEN Put(low, word + 1, High(values[k], from)) ELSE low
  IN  FoldLeft(Step, [w \in 1 .. (Len(values) * bits + WordBits - 1) \div WordBits |-> 0],
               [k \in DOMAIN values |-> k])
DenseValue(words, bits, i) ==
  LET word == (i * bits) \div WordBits
      from == (i * bits) % WordBits
      low == WordOf(words, word) \div 2 ^ from
      high == IF from + bits > WordBits
              THEN WordOf(words, word + 1) * 2 ^ (WordBits - from) ELSE 0
  IN  (low + high) % 2 ^ bits

\* AxiomBP: as many values as fit into a word, the rest of it unused.
PerWord(bits) == Max({1, WordBits \div bits})
ApartWords(values, bits) ==
  LET Value(w, k) == IF w * PerWord(bits) + k < Len(values)
                     THEN values[w * PerWord(bits) + k + 1] * 2 ^ (k * bits) ELSE 0
      Word(w) == FoldLeft(+, 0, [k \in 1 .. PerWord(bits) |-> Value(w, k - 1)])
  IN  [w \in 1 .. (Len(values) + PerWord(bits) - 1) \div PerWord(bits) |-> Word(w - 1)]
ApartValue(words, bits, i) ==
  (words[i \div PerWord(bits) + 1] \div 2 ^ ((i % PerWord(bits)) * bits)) % 2 ^ bits

-----------------------------------------------------------------------------
(* Schematic: an id and a data value a cell.                               *)

SchematicRead(doc) ==
  LET Side(occurrences) == IF FirstOf(occurrences) = Missing THEN 0 ELSE Head(occurrences)
      size == <<Side(doc.width), Side(doc.height), Side(doc.length)>>
      ids == FirstOf(doc.blocks)
      data == FirstOf(doc.data)
  IN  IF doc = Bad THEN Refused
      ELSE IF \E a \in Axes : size[a] <= 0 THEN Refused
      ELSE IF Missing \in {ids, data} THEN Refused
      ELSE IF Len(ids) # Volume(size) \/ Len(data) # Volume(size) THEN Refused
      ELSE Accepted(size, [i \in DOMAIN ids |-> <<ids[i], data[i]>>], NoCells,
                    Cardinality({i \in DOMAIN ids : ids[i] # 0}))
\* A pair without a mapping fails the calls that meet it, and no other.
SchematicChunk(pairs, size, offset, chunk) ==
  LET here == Reach(size, offset, chunk)
      Pair(p) == pairs[PlaceYZX(p, size) + 1]
      solid == {p \in here : SchematicBlock[Pair(p)] # AirId}
  IN  IF \E p \in here : Pair(p) \notin DOMAIN SchematicBlock THEN Refused
      ELSE [ok |-> TRUE,
            subChunks |-> SubChunks([p \in solid |-> SchematicBlock[Pair(p)]], offset, chunk)]

SchematicWritten(cells, size) ==
  LET Pair(b) == IF b \in DOMAIN SchematicPair THEN SchematicPair[b] ELSE <<0, 0>>
      At(k) == Pair(cells[CellYZX(k - 1, size)])
  IN  [width |-> <<size[1]>>, height |-> <<size[2]>>, length |-> <<size[3]>>,
       blocks |-> <<[k \in 1 .. Volume(size) |-> At(k)[1]]>>,
       data |-> <<[k \in 1 .. Volume(size) |-> At(k)[2]]>>]

-----------------------------------------------------------------------------
(* Litematic: of the regions only the first by name is read.               *)

JavaId(state) == FirstFound(<<IF state \in DOMAIN JavaBlock THEN JavaBlock[state] ELSE Missing>>)
\* A block without a Java state is written as air.
JavaOf(block) == IF block \in DOMAIN JavaState THEN JavaState[block] ELSE AirId

LitematicRegion(regions) ==
  LET least == Min({regions[i].name : i \in DOMAIN regions})
  IN  IF regions = <<>> THEN Bad
      ELSE regions[Min({i \in DOMAIN regions : regions[i].name = least})].region
\* Of a tag of the region the first occurrence counts, and must be of its type.
RegionComplete(region) ==
  \A name \in {"position", "size", "palette", "states"} : FirstOf(region[name]) # Missing
LitematicIndex(store, size, p) ==
  DenseValue(store.words, BitsFor(Len(store.palette), 2), PlaceYZX(p, size))
LitematicSolid(store, size, cells) ==
  {p \in cells : LET index == LitematicIndex(store, size, p)
                 IN  IF index < Len(store.palette) THEN store.palette[index + 1] # AirId ELSE FALSE}
LitematicRead(doc) ==
  LET regions == FirstOf(doc.regions)
      region == LitematicRegion(regions)
      size == [a \in Axes |-> Abs(FirstOf(region.size)[a])]
      names == FirstOf(region.palette)
      store == [palette |-> [i \in DOMAIN names |-> JavaId(names[i])], words |-> FirstOf(region.states)]
      tiles == FirstOf(region.entities)
      entities == IF tiles = Missing THEN <<>> ELSE tiles
  IN  IF doc = Bad THEN Refused
      ELSE IF regions = Missing THEN Refused
      ELSE IF region = Bad THEN Refused
      ELSE IF ~RegionComplete(region) THEN Refused
      ELSE IF \E a \in Axes : size[a] = 0 THEN Refused
      ELSE IF names = <<>> THEN Refused
      ELSE IF Len(store.words) * WordBits < Volume(size) * BitsFor(Len(names), 2) THEN Refused
      ELSE Accepted(size, store,
                    [i \in DOMAIN entities |-> [pos |-> entities[i].pos, nbt |-> entities[i].nbt]],
                    Cardinality(LitematicSolid(store, size, Cuboid(Origin, Minus(size, <<1, 1, 1>>)))))
LitematicChunk(store, size, offset, chunk) ==
  SubChunks([p \in LitematicSolid(store, size, Reach(size, offset, chunk)) |->
               store.palette[LitematicIndex(store, size, p) + 1]], offset, chunk)
\* Entities are a list: two of one cell are both answered, in its order.
LitematicEntities(list, offset, chunk) ==
  LET here == SelectSeq(list, LAMBDA e : ChunkOf(Plus(e.pos, offset)) = chunk)
  IN  [i \in DOMAIN here |-> [at |-> WithinChunk(here[i].pos, offset, chunk), nbt |-> here[i].nbt]]

\* Blocks that share a Java state share a place in the palette.  No entities.
LitematicWritten(cells, size) ==
  LET states == [k \in 1 .. Volume(size) |-> JavaOf(cells[CellYZX(k - 1, size)])]
      palette == PaletteOf(<<JavaOf(AirId)>>, states)
      indices == [k \in DOMAIN states |-> IndexIn(palette, states[k])]
      region == [position |-> <<Origin>>, size |-> <<size>>, palette |-> <<palette>>,
                 states |-> <<DenseWords(indices, BitsFor(Len(palette), 2))>>, entities |-> << <<>> >>]
  IN  [regions |-> << <<[name |-> 1, region |-> region]>> >>]

-----------------------------------------------------------------------------
(* MCStructure: two layers of indices, -1 for nothing, and entities under  *)
(* the index of their cell.  The last occurrence of a tag counts, within   *)
(* the default palette the first.                                          *)

StateBlock(entry) ==
  IF entry = Bad THEN UnknownId ELSE FirstFound(<<ModernId(entry.stated), ModernId(entry.name)>>)
\* Of the texts that spell the same index the first in order counts.
PositionEntities(positions, size) ==
  LET named == {i \in DOMAIN positions : positions[i].index # Missing /\ positions[i].nbt # Missing}
      inside == {i \in named : positions[i].index \in 0 .. Volume(size) - 1}
      Of(index) == {i \in inside : positions[i].index = index}
      Chosen(index) == CHOOSE i \in Of(index) : \A k \in Of(index) : positions[i].text <= positions[k].text
  IN  [p \in {CellXYZ(positions[i].index, size) : i \in inside} |->
         positions[Chosen(PlaceXYZ(p, size))].nbt]
WrongSize(size) == IF size = Bad THEN TRUE ELSE \E a \in Axes : size[a] <= 0
\* The tags of a kind, of all structures.
TagsOf(doc, tag) == FlattenSeq([i \in DOMAIN doc.structure |-> doc.structure[i][tag]])
WrongLayers(layers, size) == \E l \in {1, 2} : Len(layers[l]) # Volume(size)
McSolid(palette, index) ==
  IF index \in 0 .. Len(palette) - 1 THEN palette[index + 1] # AirId ELSE FALSE
McStructureRead(doc) ==
  LET size == Last(doc.size)
      indices == TagsOf(doc, "indices")
      default == FirstOf(Last(TagsOf(doc, "palette")))
      blocks == FirstOf(default.blocks)
      positions == IF FirstOf(default.positions) = Missing THEN <<>> ELSE Head(default.positions)
      palette == [i \in DOMAIN blocks |-> StateBlock(blocks[i])]
  IN  IF doc = Bad THEN Refused
      ELSE IF \E i \in DOMAIN doc.size : WrongSize(doc.size[i]) THEN Refused
      ELSE IF \E i \in DOMAIN indices : indices[i] = Bad THEN Refused
      ELSE IF <<>> \in {doc.size, doc.structure, indices, TagsOf(doc, "palette")} THEN Refused
      ELSE IF WrongLayers(Last(indices), size) \/ default = Missing THEN Refused
      ELSE IF blocks = Missing THEN Refused
      ELSE Accepted(size, [palette |-> palette, layers |-> Last(indices)],
                    PositionEntities(positions, size),
                    Cardinality({i \in DOMAIN Last(indices)[1] : McSolid(palette, Last(indices)[1][i])}))
McStructureLayer(store, layer, size, offset, chunk) ==
  LET Index(p) == store.layers[layer][PlaceXYZ(p, size) + 1]
      solid == {p \in Reach(size, offset, chunk) : McSolid(store.palette, Index(p))}
  IN  SubChunks([p \in solid |-> store.palette[Index(p) + 1]], offset, chunk)

McStructureWritten(first, second, entities, size) ==
  LET All(cells) == [k \in 1 .. Volume(size) |-> cells[CellXYZ(k - 1, size)]]
      solid == SelectSeq(All(second), LAMBDA b : b # AirId)
      palette == PaletteOf(PaletteOf(<<AirId>>, All(first)), solid)
      Entry(b) == IF b \in DOMAIN StatedName THEN [name |-> NameOf[b], stated |-> StatedName[b]]
                  ELSE [name |-> UnknownId, stated |-> UnknownId]
      placed == {p \in DOMAIN entities : Inside(p, size)}
      order == Enumerated(placed)
      Upper(k) == IF All(second)[k] = AirId THEN -1 ELSE IndexIn(palette, All(second)[k])
      Position(i) == [text |-> i, index |-> PlaceXYZ(order[i], size), nbt |-> entities[order[i]]]
  IN  [size |-> <<size>>,
       structure |-> <<[
         indices |-> << <<[k \in 1 .. Volume(size) |-> IndexIn(palette, All(first)[k])],
                          [k \in 1 .. Volume(size) |-> Upper(k)]>> >>,
         palette |-> << <<[blocks |-> <<[i \in DOMAIN palette |-> Entry(palette[i])]>>,
                           positions |-> <<[i \in DOMAIN order |-> Position(i)]>>]>> >>]>>]

-----------------------------------------------------------------------------
(* AxiomBP: cubes of Edge cells a side.                                    *)

AxiomBlock(entry) == IF entry = Bad THEN AirId ELSE FirstFound(<<
  IF entry \in DOMAIN JavaBlock THEN JavaBlock[entry] ELSE Missing, ModernId(entry)>>)
\* A region whose words end early ends there.
AxiomPuts(region, low) ==
  LET palette == [i \in DOMAIN region.palette |-> AxiomBlock(region.palette[i])]
      bits == BitsFor(Len(palette), 4)
      cube == <<Edge, Edge, Edge>>
      held == Min({Volume(cube), Len(region.data) * PerWord(bits)})
      Index(k) == ApartValue(region.data, bits, k - 1)
      solid == SelectSeq([k \in 1 .. held |-> k],
                 LAMBDA k : IF Index(k) < Len(palette) THEN palette[Index(k) + 1] # AirId ELSE FALSE)
      Corner(a) == (region.at[a] - low[a]) * Edge
  IN  [i \in DOMAIN solid |->
         [pos |-> Plus([a \in Axes |-> Corner(a)], CellYZX(solid[i] - 1, cube)),
          block |-> palette[Index(solid[i]) + 1]]]
AxiomUnusable(region) == region = Bad \/ Missing \in {region.at, region.palette, region.data}
\* The size is that of the blocks, from the lowest corner of the regions.
AxiomRead(doc) ==
  LET regions == doc.regions
      corners == {regions[i].at : i \in DOMAIN regions}
      low == LowCorner(corners)
      cubes == Extent(low, HighCorner(corners))
      puts == FlattenSeq([i \in DOMAIN regions |-> AxiomPuts(regions[i], low)])
      size == [a \in Axes |-> Max({0} \cup {puts[i].pos[a] + 1 : i \in DOMAIN puts})]
  IN  IF doc = Bad THEN Refused
      ELSE IF regions \in {Bad, <<>>} THEN Refused
      ELSE IF \E i \in DOMAIN regions : AxiomUnusable(regions[i]) THEN Refused
      ELSE IF ~Fits([a \in Axes |-> cubes[a] * Edge]) THEN Refused
      ELSE [Stored(size, puts, <<>>, FALSE) EXCEPT !.count = Len(puts)]

\* A cube or two more than needed, unless the last cell is the first of its own
\* ("preserves the Go writer's inclusive end-subchunk calculation").
AxiomCubes(extent) ==
  LET end == extent - 1
  IN  (end + (end % Edge) + Edge - 1) \div Edge + 1
AxiomWritten(cells, size) ==
  LET count == [a \in Axes |-> AxiomCubes(size[a])]
      order == [k \in 1 .. Volume(count) |-> CellYZX(k - 1, count)]
      cube == <<Edge, Edge, Edge>>
      Block(p) == IF Inside(p, size) THEN cells[p] ELSE AirId
      At(corner, k) == Block(Plus([a \in Axes |-> corner[a] * Edge], CellYZX(k - 1, cube)))
      Region(corner) ==
        LET blocks == [k \in 1 .. Volume(cube) |-> At(corner, k)]
            palette == PaletteOf(<<AirId>>, blocks)
            indices == [k \in DOMAIN blocks |-> IndexIn(palette, blocks[k])]
        IN  [at |-> corner, palette |-> [i \in DOMAIN palette |-> JavaOf(palette[i])],
             data |-> ApartWords(indices, BitsFor(Len(palette), 4))]
  IN  [regions |-> [k \in DOMAIN order |-> Region(order[k])]]

-----------------------------------------------------------------------------
(* Schem: rows of the chunks at one z go to a file of their own, a stripe; *)
(* the stripes are merged layer by layer.                                  *)

SchemRows(size, chunkZ) == {z \in 0 .. size[3] - 1 : z \div Edge = chunkZ}
\* The palette indices of a stripe, and the palette with what it needed.
SchemStripe(palette, cells, size, chunkZ) ==
  LET rows == SchemRows(size, chunkZ)
      first == Min(rows)
      depth == Cardinality(rows)
      State(k) == LET p == CellYZX(k - 1, <<size[1], size[2], depth>>)
                  IN  JavaOf(cells[<<p[1], p[2], p[3] + first>>])
      states == [k \in 1 .. size[1] * size[2] * depth |-> State(k)]
      grown == PaletteOf(palette, states)
  IN  [palette |-> grown, depth |-> depth,
       values |-> [k \in DOMAIN states |-> IndexIn(grown, states[k])]]
SchemMerged(stripes, size) ==
  LET Layer(s, y) == SubSeq(stripes[s].values, y * size[1] * stripes[s].depth + 1,
                            (y + 1) * size[1] * stripes[s].depth)
  IN  FlattenSeq([y \in 1 .. size[2] |-> FlattenSeq([s \in DOMAIN stripes |-> Layer(s, y - 1)])])
=============================================================================
