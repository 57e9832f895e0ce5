---------------------------- MODULE BdxCommands ----------------------------
(***************************************************************************)
(* The BDX command stream: what BdxStructure::read (src/src/formats/bdx.cpp) *)
(* makes of it and what write_bdx (bdx_writer.cpp) produces.               *)
(*                                                                         *)
(* A stream is a sequence of commands, records with an op:                 *)
(*   constant value      appends to the table of constants      (1)        *)
(*   state name states   a block by two constants         (5, with nbt 41) *)
(*   literal name states a block by a constant and its states     (13)     *)
(*   legacy name data    a block by a constant and a number (7, nbt 27, 40) *)
(*   pool index          a block of the runtime pool (32, nbt 34, 35, 37, 38) *)
(*   command mode data   a command block                          (36)     *)
(*   entity              command block data without a block       (26)     *)
(*   move axis by width  moves the cursor      (6, 8, 12, 14 .. 25, 28 .. 30) *)
(*   setPool pool        (31)    skip  (9, 33, 39)    end  (88)            *)
(* Any other op is unknown.  A move of width "one" is a step, as is "old"  *)
(* (8); others carry the low bits of a signed number.                      *)
(***************************************************************************)
EXTENDS Integers, Sequences, FiniteSets, FiniteSetsExt, SequencesExt

CONSTANTS
  Edge,         \* cells along an edge of a chunk, 16
  Bits,         \* of a number: [byte |-> 8, short |-> 16, int |-> 32]
  MaxConstants, \* kMaximumConstants, 2^16
  CacheEntries, \* kMaximumRuntimeCacheEntries
  MaxEntities,  \* kMaximumBlockEntities
  RunLength,    \* pairs that are decoded as a run, 4
  Window,       \* commands in the decode buffer
  Known,        \* names of blocks the registry knows
  PoolSize(_)   \* size of a runtime pool

ASSUME CommandsAssumption ==
  /\ {Edge, RunLength, Window} \subseteq Nat \ {0}
  /\ {MaxConstants, CacheEntries, MaxEntities} \subseteq Nat
  /\ Bits \in [{"byte", "short", "int"} -> Nat \ {0}]

Air == <<"air">>
NoBlock == <<"none">>
Origin == <<0, 0, 0>>
Axes == 1 .. 3
MaxInt == 2 ^ (Bits.int - 1) - 1
MinInt == -(2 ^ (Bits.int - 1))
Ints == MinInt .. MaxInt
Least(a, b) == IF a < b THEN a ELSE b
Greatest(a, b) == IF a > b THEN a ELSE b
Failure == [ok |-> FALSE]

\* Numbers are written as their low bits and read with their sign.
Unsigned(value, width) == value % 2 ^ Bits[width]
Signed(bits, width) == IF bits >= 2 ^ (Bits[width] - 1) THEN bits - 2 ^ Bits[width] ELSE bits
Step(c) == IF c.width \in {"one", "old"} THEN c.by ELSE Signed(c.by, c.width)

-----------------------------------------------------------------------------
(* Reading.  `s` is the state of read(): cursor, bounds, constants, cache  *)
(* of runtime ids, pool, placements in order, entities by cell and the     *)
(* number of blocks that are not air; `skipTo` is the next command.        *)

Blank == [ok |-> TRUE, ended |-> FALSE, skipTo |-> 1, at |-> Origin, lo |-> Origin, hi |-> Origin,
          constants |-> <<>>, cache |-> <<>>, pool |-> 0,
          placed |-> <<>>, entities |-> <<>>, count |-> 0]

Failed(s) == [s EXCEPT !.ok = FALSE]
Constant(s, id) == IF id < Len(s.constants) THEN s.constants[id + 1] ELSE "missing"
Resolve(kind, name, with) == IF name \in Known THEN <<kind, name, with>> ELSE Air

\* constant_state_runtime(): ids are kept by the pair of constants, as long as
\* there is room.  (A direct-mapped table in front holds the same values.)
StateId(s, c) ==
  LET key == <<c.name, c.states>>
  IN  IF key \in DOMAIN s.cache THEN s.cache[key]
      ELSE IF "missing" \in {Constant(s, c.name), Constant(s, c.states)} THEN Air
      ELSE Resolve("state", Constant(s, c.name), Constant(s, c.states))

Remembered(s, c) ==
  LET key == <<c.name, c.states>>
  IN  IF key \in DOMAIN s.cache \/ Cardinality(DOMAIN s.cache) >= CacheEntries THEN s
      ELSE [s EXCEPT !.cache = [k \in DOMAIN @ \cup {key} |-> IF k = key THEN StateId(s, c) ELSE @[k]]]

RuntimeId(s, c) ==
  CASE c.op = "state" -> StateId(s, c)
    [] c.op = "literal" -> Resolve("state", Constant(s, c.name), c.states)
    [] c.op = "legacy" -> Resolve("legacy", Constant(s, c.name), c.data)
    [] c.op = "pool" -> <<"pool", s.pool, c.index>>
    [] c.op = "command" -> <<"command", c.mode, c.data>>

Without(map, keys) == [k \in DOMAIN map \ keys |-> map[k]]

\* update_bounds()
Bounded(s) ==
  [s EXCEPT !.lo = [a \in Axes |-> Least(@[a], s.at[a])],
            !.hi = [a \in Axes |-> Greatest(@[a], s.at[a])]]

\* add_coordinate()
Moved(s, axis, by) ==
  IF s.at[axis] + by \in Ints THEN [s EXCEPT !.at[axis] = @ + by] ELSE Failed(s)

\* store_entity(), unless the read does not want entities.
Stored(s, id, capture) ==
  IF ~capture THEN s
  ELSE IF Cardinality(DOMAIN s.entities) >= MaxEntities /\ s.at \notin DOMAIN s.entities THEN Failed(s)
  ELSE [s EXCEPT !.entities = [k \in DOMAIN @ \cup {s.at} |-> IF k = s.at THEN id ELSE @[k]]]

\* place(): a block without an entity takes the older entity of the cell away.
Placed(s, id, nbt, capture) ==
  LET stored == IF nbt THEN Stored(s, id, capture)
                ELSE [s EXCEPT !.entities = Without(@, {s.at})]
  IN  [stored EXCEPT !.placed = Append(@, <<s.at, id>>),
                     !.count = @ + (IF id = Air THEN 0 ELSE 1)]

\* One command, full decoding.
Executed(s, c, capture) ==
  CASE c.op = "constant" ->
         IF Len(s.constants) >= MaxConstants THEN Failed(s)
         ELSE [s EXCEPT !.constants = Append(@, c.value)]
    [] c.op = "setPool" -> [s EXCEPT !.pool = c.pool]
    [] c.op = "state" -> Bounded(Placed(Remembered(s, c), RuntimeId(s, c), c.nbt, capture))
    [] c.op \in {"literal", "legacy"} -> Bounded(Placed(s, RuntimeId(s, c), c.nbt, capture))
    [] c.op = "pool" ->
         IF c.index >= PoolSize(s.pool) THEN Failed(s)
         ELSE Bounded(Placed(s, RuntimeId(s, c), c.nbt, capture))
    [] c.op = "command" ->
         IF c.mode > 2 THEN Failed(s) ELSE Bounded(Placed(s, RuntimeId(s, c), TRUE, capture))
    [] c.op = "entity" -> Bounded(Stored(s, NoBlock, capture))
    [] c.op = "move" -> Bounded(Moved(s, c.axis, Step(c)))
    [] c.op = "skip" -> Bounded(s)
    [] c.op = "end" -> Bounded([s EXCEPT !.ended = TRUE])
    [] OTHER -> Failed(s)

\* One command when only the bounds are wanted.
Measured(s, c) ==
  CASE c.op \in {"constant"} -> s
    [] c.op = "setPool" -> [s EXCEPT !.pool = c.pool]
    [] c.op = "move" -> Bounded(Moved(s, c.axis, Step(c)))
    [] c.op = "end" -> Bounded([s EXCEPT !.ended = TRUE])
    [] c.op \in {"state", "literal", "legacy", "pool", "command", "entity", "skip"} -> Bounded(s)
    [] OTHER -> Failed(s)

\* Blocks by constants, each followed by a step along z, in one buffer.
IsPair(cmds, i) ==
  /\ cmds[i].op = "state" /\ ~cmds[i].nbt
  /\ cmds[i + 1].op = "move" /\ cmds[i + 1].width = "one" /\ cmds[i + 1].axis = 3 /\ cmds[i + 1].by = 1
BufferEnd(cmds, i) == Least(Len(cmds), ((i - 1) \div Window + 1) * Window)
Pairs(cmds, i) ==
  LET fits == {n \in 0 .. (BufferEnd(cmds, i) - i + 1) \div 2 :
                 \A k \in 0 .. n - 1 : IsPair(cmds, i + 2 * k)}
  IN  Max(fits)

\* A run is placed at once: its cells lose their entities, the bounds take its
\* first cell and the one behind its last.
RunPlaced(s, cmds, i, n) ==
  LET resolved == FoldLeft(LAMBDA t, k :
                    LET c == cmds[i + 2 * k]
                    IN  [t EXCEPT !.ids = Append(@, StateId(t.s, c)), !.s = Remembered(t.s, c)],
                    [s |-> s, ids |-> <<>>], [k \in 1 .. n |-> k - 1])
      cell(k) == [s.at EXCEPT ![3] = @ + k]
      run == [k \in 1 .. n |-> <<cell(k - 1), resolved.ids[k]>>]
      placed == [resolved.s EXCEPT
                  !.placed = @ \o run,
                  !.entities = Without(@, {cell(k) : k \in 0 .. n - 1}),
                  !.count = @ + Cardinality({k \in 1 .. n : resolved.ids[k] # Air})]
  IN  [Bounded(Moved(Bounded(placed), 3, n)) EXCEPT !.skipTo = i + 2 * n]

Next1(s, cmds, i, mode) ==
  LET c == cmds[i]
      n == IF mode = "bounds" THEN 0 ELSE Pairs(cmds, i)
  IN  IF ~s.ok \/ s.ended \/ i < s.skipTo THEN s
      ELSE IF mode = "bounds" THEN Measured(s, c)
      ELSE IF n >= RunLength THEN RunPlaced(s, cmds, i, n)
      ELSE Executed(s, c, mode = "full")

\* read(): "full", for the bounds only, or ("stream") without entities.  The
\* sizes have to be integers; entities are shifted to the low corner.
Read(cmds, mode) ==
  LET s == FoldLeft(LAMBDA t, i : Next1(t, cmds, i, mode), Blank, [i \in 1 .. Len(cmds) |-> i])
      dim == [a \in Axes |-> s.hi[a] - s.lo[a] + 1]
  IN  IF ~s.ok \/ ~s.ended \/ \E a \in Axes : dim[a] > MaxInt THEN Failure
      ELSE [ok |-> TRUE, min |-> s.lo, dim |-> dim, placed |-> s.placed, count |-> s.count,
            entities |-> {[cell |-> [a \in Axes |-> c[a] - s.lo[a]], id |-> s.entities[c]] : c \in DOMAIN s.entities}]

-----------------------------------------------------------------------------
(* Placements as chunks.                                                   *)

\* normalize_placement_coordinate() on all axes: the cells within the size the
\* first read found, moved by the offset.  Placements keep the order of the
\* stream, and here their numbers in it.
Normalized(placed, min, dim, offset) ==
  LET source(p) == [a \in Axes |-> p[1][a] - min[a]]
      kept(p) == \A a \in Axes : source(p)[a] \in 0 .. dim[a] - 1 /\ source(p)[a] + offset[a] \in Ints
  IN  [i \in {j \in DOMAIN placed : kept(placed[j])} |->
         <<[a \in Axes |-> source(placed[i])[a] + offset[a]], placed[i][2]>>]

InExtent(cell, offset, dim) == \A a \in Axes : cell[a] \in offset[a] .. offset[a] + dim[a] - 1

Column(cell) == <<cell[1] \div Edge, cell[3] \div Edge>>

\* The blocks of some columns after replaying placements, the last one wins and
\* subchunks of nothing but air are dropped.
Replayed(records, columns) ==
  LET mine == {i \in DOMAIN records : Column(records[i][1]) \in columns}
      last == {i \in mine : \A j \in mine : records[j][1] = records[i][1] => j <= i}
  IN  {records[i] : i \in {k \in last : records[k][2] # Air}}

-----------------------------------------------------------------------------
(* Writing.  A layer is a set of blocks <<cell, id>>.                      *)

\* append_move_axis(): the shortest command for a distance; one that fits in no
\* number takes several.
MoveOf(axis, width, by) == [op |-> "move", axis |-> axis, width |-> width,
                            by |-> IF width = "one" THEN by ELSE Unsigned(by, width)]
MoveAxis(axis, difference) ==
  LET far == IF difference > MaxInt THEN (difference - 1) \div MaxInt
             ELSE IF difference < MinInt THEN (-difference - 1) \div (-MinInt) ELSE 0
      leap == IF difference > 0 THEN MaxInt ELSE MinInt
      rest == difference - far * leap
      fits(width) == rest \in -(2 ^ (Bits[width] - 1)) .. 2 ^ (Bits[width] - 1) - 1
      width == CASE rest \in {-1, 1} -> "one" [] rest \notin {-1, 1} /\ fits("byte") -> "byte"
                 [] ~fits("byte") /\ fits("short") /\ rest \notin {-1, 1} -> "short" [] OTHER -> "int"
  IN  IF difference = 0 THEN <<>>
      ELSE [i \in 1 .. far |-> MoveOf(axis, "int", leap)] \o <<MoveOf(axis, width, rest)>>

Move(from, to) ==
  MoveAxis(1, to[1] - from[1]) \o MoveAxis(2, to[2] - from[2]) \o MoveAxis(3, to[3] - from[3])

\* The order of the loops: chunks by z then x, subchunks upwards, cells x, y, z.
LoopKey(cell) ==
  <<cell[3] \div Edge, cell[1] \div Edge, cell[2] \div Edge, cell[1], cell[2], cell[3]>>
Precedes(k, l) == \E i \in DOMAIN k : k[i] < l[i] /\ \A j \in 1 .. i - 1 : k[j] = l[j]

\* place(): a state gets its two constants when it is first used.
Written(w, block) ==
  LET id == block[2]
      known == id \in DOMAIN w.palette
      first == 2 * Cardinality(DOMAIN w.palette)
      ids == IF known THEN w.palette[id] ELSE <<first, first + 1>>
      constants == IF known THEN <<>>
                   ELSE << [op |-> "constant", value |-> id[2]], [op |-> "constant", value |-> id[3]] >>
  IN  [cursor |-> block[1],
       palette |-> [k \in DOMAIN w.palette \cup {id} |-> IF k = id THEN ids ELSE w.palette[k]],
       cmds |-> w.cmds \o Move(w.cursor, block[1]) \o constants
                  \o << [op |-> "state", name |-> ids[1], states |-> ids[2], nbt |-> FALSE] >>]

\* Two constants for each state have to have numbers.
Writable(blocks) == 2 * Cardinality({b[2] : b \in blocks}) <= MaxConstants

write_bdx(blocks) ==
  LET order == SetToSortSeq(blocks, LAMBDA b, d : Precedes(LoopKey(b[1]), LoopKey(d[1])))
      w == FoldLeft(Written, [cursor |-> Origin, palette |-> <<>>, cmds |-> <<>>], order)
  IN  w.cmds \o << [op |-> "end"] >>
=============================================================================
