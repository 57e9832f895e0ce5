-------------------------- MODULE StructureGeometry --------------------------
(***************************************************************************)
(* What the decoded structures share: cells and corners, the cut of the    *)
(* world into chunks and sub-chunks (include/WaterStructure/coordinates.hpp *)
(* and types.hpp), the runtime registry as the readers use it, and the      *)
(* outcome of reading a file.                                              *)
(*                                                                         *)
(* A cell is <<x, y, z>>; a chunk <<x, z>> has Edge cells a side (16) and a *)
(* sub-chunk is a cube of them; sub-chunk 0 starts at height Base (64).     *)
(* A block is its runtime id.                                              *)
(***************************************************************************)
EXTENDS Integers, Sequences, FiniteSets, FiniteSetsExt, SequencesExt, Functions

CONSTANTS
  Edge, Base,
  MaxSpan,   \* largest extent of a structure, INT32_MAX
  Legacy,    \* <<name, aux>> -> block, <<name, Missing>> for any other aux
  Modern,    \* name, with or without states -> block: find
  NameOf,    \* block -> the name of its state
  StatedName,\* block -> its name with all states
  Bad,       \* a value of the wrong type, or cut short
  Missing    \* no value

AirId == "air"
UnknownId == "unknown"

ASSUME GeometryAssumption ==
  /\ {Edge, MaxSpan} \subseteq Nat \ {0}
  /\ Base \in Nat

\* The elements of a set, one after the other, in no order or in that one.
Enumerated(set) == FoldSet(LAMBDA x, list : Append(list, x), <<>>, set)
InOrder(set, Before(_, _)) == SortSeq(Enumerated(set), Before)

Axes == 1 .. 3
Plus(a, b) == [i \in Axes |-> a[i] + b[i]]
Minus(a, b) == [i \in Axes |-> a[i] - b[i]]
Origin == <<0, 0, 0>>
Abs(n) == IF n < 0 THEN -n ELSE n
LowCorner(cells) == [i \in Axes |-> Min({p[i] : p \in cells})]
HighCorner(cells) == [i \in Axes |-> Max({p[i] : p \in cells})]
Extent(low, high) == [i \in Axes |-> high[i] - low[i] + 1]
Cuboid(low, high) == {<<x, y, z>> : x \in low[1] .. high[1],
                                    y \in low[2] .. high[2], z \in low[3] .. high[3]}
Inside(p, size) == \A i \in Axes : p[i] \in 0 .. size[i] - 1
Volume(size) == size[1] * size[2] * size[3]
Moved(cells, by) == [p \in {Plus(q, by) : q \in DOMAIN cells} |-> cells[Minus(p, by)]]

\* floor_div and floor_mod are \div and % of TLA+.
ChunkOf(world) == <<world[1] \div Edge, world[3] \div Edge>>
SubChunkY(world) == (world[2] - Base) \div Edge
LocalOf(world, chunk) ==
  <<world[1] - chunk[1] * Edge,
    world[2] - (SubChunkY(world) * Edge + Base),
    world[3] - chunk[2] * Edge>>
Locals == Cuboid(Origin, <<Edge - 1, Edge - 1, Edge - 1>>)

\* The sub-chunks that `cells` (local cells and their blocks, all in the chunk)
\* create, filled with air where nothing is placed.
SubChunks(cells, offset, chunk) ==
  LET At(p) == Plus(p, offset)
  IN  [s \in {SubChunkY(At(p)) : p \in DOMAIN cells} |->
         LET here == {p \in DOMAIN cells : SubChunkY(At(p)) = s}
         IN  [l \in Locals |->
                IF \E p \in here : LocalOf(At(p), chunk) = l
                THEN cells[CHOOSE p \in here : LocalOf(At(p), chunk) = l]
                ELSE AirId]]

\* The part of a structure of that size a chunk covers, as the dense readers
\* and the sparse store clip it.
Reach(size, offset, chunk) ==
  LET from(i, c) == Max({0, c * Edge - offset[i]})
      to(i, c) == Min({size[i] - 1, c * Edge + Edge - 1 - offset[i]})
  IN  Cuboid(<<from(1, chunk[1]), 0, from(3, chunk[2])>>,
             <<to(1, chunk[1]), size[2] - 1, to(3, chunk[2])>>)

\* The entities of a chunk, at their place in it, in any order.
WithinChunk(p, offset, chunk) ==
  Minus(Plus(p, offset), <<chunk[1] * Edge, Base, chunk[2] * Edge>>)
EntityAnswer(entities, offset, chunk) ==
  LET here == Enumerated({p \in DOMAIN entities : ChunkOf(Plus(p, offset)) = chunk})
  IN  [i \in DOMAIN here |-> [at |-> WithinChunk(here[i], offset, chunk), nbt |-> entities[here[i]]]]

-----------------------------------------------------------------------------
(* Runtime ids.                                                            *)

FirstFound(ids) ==
  LET found == {i \in DOMAIN ids : ids[i] # Missing}
  IN  IF found = {} THEN UnknownId ELSE ids[Min(found)]
LegacyId(name, aux) ==
  IF <<name, aux>> \in DOMAIN Legacy THEN Legacy[<<name, aux>>]
  ELSE IF <<name, Missing>> \in DOMAIN Legacy THEN Legacy[<<name, Missing>>] ELSE Missing
ModernId(name) == IF name \in DOMAIN Modern THEN Modern[name] ELSE Missing

-----------------------------------------------------------------------------
(* The outcome of a read.                                                  *)

NoCells == [p \in {} |-> AirId]
\* The block of a local cell: a sub-chunk that is not there is air.
BlockIn(subChunks, world, chunk) ==
  IF SubChunkY(world) \in DOMAIN subChunks
  THEN subChunks[SubChunkY(world)][LocalOf(world, chunk)] ELSE AirId
NonAir(cells) == {p \in DOMAIN cells : cells[p] # AirId}

\* Of several records for a cell the last counts.
LastWins(records) ==
  [p \in {records[i].pos : i \in DOMAIN records} |->
     records[Max({i \in DOMAIN records : records[i].pos = p})].block]
FirstWins(records) ==
  [p \in {records[i].pos : i \in DOMAIN records} |->
     records[Min({i \in DOMAIN records : records[i].pos = p})].block]

Refused == [ok |-> FALSE]
Accepted(size, blocks, entities, count) ==
  [ok |-> TRUE, size |-> size, blocks |-> blocks, entities |-> entities, count |-> count]

Fits(size) == \A i \in Axes : size[i] \in 1 .. MaxSpan
=============================================================================
