---------------------------- MODULE SubChunkCodec ----------------------------
(***************************************************************************)
(* The paletted storage of a Bedrock sub-chunk, as the vendored            *)
(* BedrockWorldOperator.cpp writes it and reads it back.                   *)
(*                                                                         *)
(* A layer is a function from cells, numbered x*Edge^2 + y*Edge + z, to    *)
(* what is there.  On disk it is a storage: the distinct blocks in order   *)
(* of first use (the palette) and, in the order (x, z, y), one index into  *)
(* it per cell, packed into 32-bit words, no index across two words.  A    *)
(* word is a function from its slots to their values, not its bits.        *)
(***************************************************************************)
EXTENDS Integers, FiniteSets, Sequences

CONSTANTS
  Edge,      \* cells along an axis, 16
  WordBits   \* 32

ASSUME CodecAssumption == Edge \in Nat \ {0} /\ WordBits \in Nat /\ WordBits >= 16

Volume == Edge * Edge * Edge
Cells == 0 .. Volume - 1
Widths == {0, 1, 2, 3, 4, 5, 6, 8, 16}
EmptyStorage == 127
NoStorage == [bits |-> EmptyStorage, words |-> <<>>, palette |-> <<>>]

paletteSizeFor(count) ==
  CASE count <= 1 -> 0 [] count <= 2 -> 1 [] count <= 4 -> 2 [] count <= 8 -> 3
    [] count <= 16 -> 4 [] count <= 32 -> 5 [] count <= 64 -> 6 [] count <= 256 -> 8
    [] OTHER -> 16

PerWord(bits) == WordBits \div bits
\* Widths that do not divide a word need one word more for what is left over.
packedUint32Count(bits) ==
  IF bits = 0 THEN 0
  ELSE (Volume \div PerWord(bits)) + (IF bits \in {3, 5, 6} THEN 1 ELSE 0)

\* The cell whose index is stored at a position, and back: y and z change places.
BlockIndex(position) ==
  LET x == position \div (Edge * Edge)
      z == (position \div Edge) % Edge
      y == position % Edge
  IN  x * Edge * Edge + y * Edge + z
StorageIndex(cell) == BlockIndex(cell)

packIndices(indices, bits) ==
  [w \in 1 .. packedUint32Count(bits) |->
    [slot \in 0 .. PerWord(bits) - 1 |->
      LET position == (w - 1) * PerWord(bits) + slot
      IN  IF position \in Cells THEN indices[BlockIndex(position)] % 2^bits ELSE 0]]

\* The palette of a layer and the index of every cell.  known is what the index table
\* takes for entries of this layer: none, unless an old generation comes back.
BuildPalette(blocks, known) ==
  LET firsts == {c \in Cells : blocks[c] \notin DOMAIN known /\ \A d \in 0 .. c - 1 : blocks[d] # blocks[c]}
      Rank(c) == Cardinality({d \in firsts : d < c})
      FirstOf(block) == CHOOSE c \in firsts : blocks[c] = block
  IN  [palette |-> [k \in 1 .. Cardinality(firsts) |-> blocks[CHOOSE c \in firsts : Rank(c) = k - 1]],
       indices |-> [c \in Cells |-> IF blocks[c] \in DOMAIN known THEN known[blocks[c]]
                                    ELSE Rank(FirstOf(blocks[c]))]]

encodeStorage(built) ==
  LET bits == paletteSizeFor(Len(built.palette))
  IN  [bits |-> bits, words |-> packIndices(built.indices, bits), palette |-> built.palette]

Readable(storage) ==
  \/ storage.bits = EmptyStorage
  \/ /\ storage.bits \in Widths
     /\ Len(storage.words) = packedUint32Count(storage.bits)
     /\ Len(storage.palette) \in 1 .. Volume

\* Expansion word by word, as decodePalettedStorage and decodeDiskSubChunkPaletteLayer
\* do it: the position of every cell, or the front of the palette.
ExpandIndices(storage) ==
  [cell \in Cells |->
    IF storage.bits = 0 THEN 0
    ELSE LET position == StorageIndex(cell)
             word == 1 + position \div PerWord(storage.bits)
             index == IF word \in DOMAIN storage.words
                      THEN storage.words[word][position % PerWord(storage.bits)] ELSE 0
         IN  IF index < Len(storage.palette) THEN index ELSE 0]

\* Look-up cell by cell with bit offsets, as decodeDiskBlockStates does it.
unpackIndex(storage, cell) ==
  IF storage.bits = 0 THEN 0
  ELSE LET filledBits == PerWord(storage.bits) * storage.bits
           bitOffset == StorageIndex(cell) * storage.bits
       IN  storage.words[1 + bitOffset \div filledBits][(bitOffset % filledBits) \div storage.bits]

ExpandStates(storage) ==
  [cell \in Cells |->
    LET index == unpackIndex(storage, cell)
    IN  storage.palette[1 + (IF index < Len(storage.palette) THEN index ELSE 0)]]

Expand(storage, palette) == LET at == ExpandIndices(storage) IN [c \in Cells |-> palette[1 + at[c]]]
=============================================================================
