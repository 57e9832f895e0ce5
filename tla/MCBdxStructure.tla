--------------------------- MODULE MCBdxStructure ---------------------------
(***************************************************************************)
(* Small instance of a BDX structure for TLC: chunks of 2 x 2 cells,       *)
(* numbers of 2, 3 and 4 bits and runs of two pairs.                       *)
(***************************************************************************)
EXTENDS BdxStructure

MCBits == [byte |-> 2, short |-> 3, int |-> 4]
MCKnown == {"stone", "dirt"}
MCPoolSize(pool) == pool

Value(v) == [op |-> "constant", value |-> v]
State(n, s) == [op |-> "state", name |-> n, states |-> s, nbt |-> FALSE]
Chest(n, s) == [op |-> "state", name |-> n, states |-> s, nbt |-> TRUE]
Legacy(n, d, nbt) == [op |-> "legacy", name |-> n, data |-> d, nbt |-> nbt]
Pooled(i, nbt) == [op |-> "pool", index |-> i, nbt |-> nbt]
SetPool(p) == [op |-> "setPool", pool |-> p]
CommandBlock(mode) == [op |-> "command", mode |-> mode, data |-> 1]
OneStep(axis, by) == [op |-> "move", axis |-> axis, width |-> "one", by |-> by]
Jump(axis, by) == [op |-> "move", axis |-> axis, width |-> "short", by |-> by % 8]
OldStep == [op |-> "move", axis |-> 3, width |-> "old", by |-> 1]
End == [op |-> "end"]

\* A run of pairs over two older command blocks, one of which is left, and air
\* over the other; a second pair of constants that does not fit the cache.
Run == <<OneStep(3, 1), CommandBlock(1), OneStep(3, 1), CommandBlock(0), Jump(3, -2),
         Value("stone"), Value("s"), Value("unknown"),
         State(0, 1), OneStep(3, 1), State(0, 1), OneStep(3, 1), OneStep(1, 1), OneStep(1, -1), State(2, 1), End>>
\* Every other kind of block, negative coordinates, entities and the pools.
Mixed == <<Value("dirt"), Value("s"), Chest(0, 1), Jump(1, -3), SetPool(2), Pooled(1, FALSE), OneStep(2, -1),
           Legacy(0, 3, TRUE), OldStep, SetPool(1), Pooled(0, TRUE), OneStep(3, 1), [op |-> "entity"],
           [op |-> "skip"], OneStep(2, 1), [op |-> "literal", name |-> 0, states |-> "t", nbt |-> FALSE], End>>
\* Malformed for a full decoding, without an end, and too far.
PoolOverrun == <<SetPool(1), Pooled(1, FALSE), End>>
Unfinished == <<SetPool(1), Pooled(0, FALSE)>>
TooFar == <<Jump(2, 3), Jump(2, 3), Jump(2, 3), End>>
MCStreams == {Run, Mixed, PoolOverrun, Unfinished, TooFar}

Block(x, y, z, name) == << <<x, y, z>>, <<"state", name, "s">> >>
MCLayouts == { {Block(0, 1, 0, "stone"), Block(5, 0, 2, "dirt"), Block(0, 4, 0, "stone")} }

MCOffsets == {<<1, -1, -3>>}
MCOptions == {[allow |-> FALSE, limit |-> 0], [allow |-> TRUE, limit |-> 4]}
MCRequests == {{<<0, 0>>, <<1, 0>>, <<0, -2>>, <<2, 1>>, <<1, -1>>}}

\* What the proofs of the answers take from the decoder.
ASSUME MCDecodes == DecodingIsExact

\* A structure that is written to a world is any one.
OneOfThem == source = PoolOverrun /\ options = [allow |-> TRUE, limit |-> 4]

MCInit == StructureInit /\ (conversion = "world" => OneOfThem)
MCSpec == MCInit /\ [][StructureNext]_structure /\ Fairness
=============================================================================
