---------------------------- MODULE BedrockWorld ----------------------------
(***************************************************************************)
(* Sub-chunks in a Bedrock world database, and the block states behind     *)
(* their runtime ids: BedrockWorldAdapter::encode_chunks,                  *)
(* save_subchunk_payloads, load_chunk_range and load_chunk_palettes        *)
(* (world.cpp), the vendored BedrockWorldOperator below them and the       *)
(* contexts of c_api.cpp, each with a registry of its own.                 *)
(*                                                                         *)
(* Contexts follow one another in a process, with assets that number the   *)
(* states differently; the process-wide caches, the caches of the encoding *)
(* threads and the database outlive them.  A call into the registries is   *)
(* one step: they hold a mutex, and calls of the same context commute.     *)
(***************************************************************************)
EXTENDS SubChunkCodec, BlockStates

CONSTANTS
  Assets,          \* block mappings a context may load: sequences of [id, state]
  SourceStates,    \* states that readers register
  Threads,         \* threads of the encode pool
  Writes,          \* sub-chunks to save: [pos, size, step, upper, layout]
  MinSubChunkY, MaxSubChunkY,
  GenerationLimit, \* generations of a palette index table, 2^32
  MaxContexts, MaxRegistered, MaxSaves, MaxLoads

VARIABLES
  alive,     \* a context exists and its registry is installed
  reg,       \* its registry
  torn,      \* its assets could not be loaded for an id that comes twice
  bwo,       \* the process-wide registry
  encoded,   \* thread-local cache of encoded states, per thread
  table,     \* thread-local PaletteIndexTable, per thread
  db,        \* sub-chunk payloads by position
  written,   \* what the last successful save of a position stored
  count      \* how often each operation was used

vars == <<alive, reg, torn, bwo, encoded, table, db, written, count>>

Init ==
  /\ alive = FALSE /\ reg = NewRegistry /\ torn = FALSE /\ bwo = NewBwo
  /\ encoded = [t \in Threads |-> [generation |-> 0, entries |-> Empty]]
  /\ table = [t \in Threads |-> [generation |-> 0, entries |-> Empty]]
  /\ db = Empty /\ written = Empty
  /\ count = [contexts |-> 0, registered |-> 0, saves |-> 0, loads |-> 0]

Counted(what) == count' = [count EXCEPT ![what] = @ + 1]

-----------------------------------------------------------------------------
\* ws_context_create: a registry that has loaded its assets, or what a load that failed
\* has made of it, or one without assets; either is installed.
CreateContext ==
  /\ ~alive /\ count.contexts < MaxContexts
  /\ \E palette \in Assets : \E load \in load_block_mappings(NewRegistry, palette) :
       reg' = load.reg /\ torn' = load.torn
  /\ alive' = TRUE /\ bwo' = setResolver(bwo)
  /\ Counted("contexts")
  /\ UNCHANGED <<encoded, table, db, written>>

\* ws_context_destroy: the resolver stays installed, and is not called again.
DestroyContext ==
  /\ alive /\ alive' = FALSE
  /\ UNCHANGED <<reg, torn, bwo, encoded, table, db, written, count>>

\* A reader meets a state of its palette.
Register ==
  /\ alive /\ count.registered < MaxRegistered
  /\ \E state \in SourceStates : reg' = register_state(reg, state).reg
  /\ Counted("registered")
  /\ UNCHANGED <<alive, torn, bwo, encoded, table, db, written>>

-----------------------------------------------------------------------------
\* The chunk data a writer hands over, in the order its layout asks for, and how
\* encode_chunks brings it into native order.
InternalIndex(cell) ==
  LET x == cell \div (Edge * Edge)
      y == (cell \div Edge) % Edge
      z == cell % Edge
  IN  (y * Edge + z) * Edge + x
NativeCell == [index \in Cells |-> CHOOSE cell \in Cells : InternalIndex(cell) = index]
Laid(layer, layout) ==
  IF layout = "native" THEN layer ELSE [i \in Cells |-> layer[NativeCell[i]]]
ToNative(data, layout) ==
  IF layout = "native" THEN data ELSE [c \in Cells |-> data[InternalIndex(c)]]

\* Ids of the registry, in order.
Ids == LET ids == DOMAIN reg.states
           Rank(id) == Cardinality({other \in ids : other < id})
       IN  [i \in 1 .. Cardinality(ids) |-> CHOOSE id \in ids : Rank(id) = i - 1]
LowerAt(write, cell) == (cell * write.step) % write.size
Layer0(write) == LET ids == Ids IN [c \in Cells |-> ids[1 + LowerAt(write, c)]]
Layer1(write) ==
  LET last == Ids[Len(Ids)] IN [c \in Cells |-> IF write.upper /\ c = 0 THEN last ELSE reg.air]

\* Mutant: generation 1 comes back with its old entries.
resetUncleared(tab) ==
  [tab EXCEPT !.generation = IF (@ + 1) % GenerationLimit = 0 THEN 1 ELSE @ + 1]
\* PaletteIndexTable::reset: the next generation; generation 0 is skipped, after
\* clearing what old generations have left.
reset(tab) ==
  IF (tab.generation + 1) % GenerationLimit = 0 THEN [generation |-> 1, entries |-> Empty]
  ELSE [tab EXCEPT !.generation = @ + 1]
Known(tab) ==
  LET current == {block \in DOMAIN tab.entries : tab.entries[block].generation = tab.generation}
  IN  [block \in current |-> tab.entries[block].value]

\* encodeSubChunk: layer after layer, the index table and the caches going along.
encodeLayer(state, blocks) ==
  LET tab == reset(state.table)
      built == BuildPalette(blocks, Known(tab))
      storage == encodeStorage(built)
      states == encodePalette(reg, state.bwo, state.cache, built.palette)
      added == {built.palette[i] : i \in DOMAIN built.palette}
      IndexOf(block) == (CHOOSE i \in DOMAIN built.palette : built.palette[i] = block) - 1
  IN  [table |-> [tab EXCEPT !.entries =
                   [b \in added |-> [generation |-> tab.generation, value |-> IndexOf(b)]] @@ @],
       cache |-> states.cache, bwo |-> states.bwo,
       storages |-> Append(state.storages, [storage EXCEPT !.palette = states.written])]

encodeSubChunk(t, layers) ==
  LET start == [table |-> table[t], cache |-> encoded[t], bwo |-> bwo, storages |-> <<>>]
      lower == encodeLayer(start, layers[1])
  IN  IF Len(layers) = 1 THEN lower ELSE encodeLayer(lower, layers[2])

\* What save_subchunk_payloads accepts.
Accepted(pos, payload) ==
  /\ pos.y \in MinSubChunkY .. MaxSubChunkY
  /\ Len(payload.storages) > 0
  /\ payload.y = pos.y

\* One sub-chunk through encode_chunks, on some thread, and save_subchunk_payloads.
\* The upper layer is left out when it is all air.
SaveChunk(t) ==
  /\ alive /\ count.saves < MaxSaves
  /\ \E write \in Writes :
       /\ write.size <= Len(Ids)
       /\ LET ids == Ids
              data0 == Laid(Layer0(write), write.layout)
              data1 == Laid(Layer1(write), write.layout)
              has_layer1 == \E c \in Cells : data1[c] # reg.air
              layers == <<ToNative(data0, write.layout)>>
                        \o (IF has_layer1 THEN <<ToNative(data1, write.layout)>> ELSE <<>>)
              made == encodeSubChunk(t, layers)
              payload == [version |-> 9, y |-> (write.pos.y - MinSubChunkY) + MinSubChunkY,
                          storages |-> made.storages]
          IN  /\ table' = [table EXCEPT ![t] = made.table]
              /\ encoded' = [encoded EXCEPT ![t] = made.cache]
              /\ bwo' = made.bwo
              /\ IF Accepted(write.pos, payload)
                 THEN /\ db' = (write.pos :> payload) @@ db
                      /\ written' = (write.pos :>
                           [write |-> write,
                            lower |-> [i \in 1 .. write.size |-> OnDisk(reg.states[ids[i]])],
                            upper |-> OnDisk(reg.states[ids[Len(ids)]]),
                            air |-> Meaning(reg, reg.air)]) @@ written
                 ELSE UNCHANGED <<db, written>>
  /\ Counted("saves")
  /\ UNCHANGED <<alive, reg, torn>>

-----------------------------------------------------------------------------
\* decodeSubChunk: the runtime ids of every layer; a layer without blocks is air.
decodeSubChunk(payload) ==
  LET after[i \in 0 .. Len(payload.storages)] ==
        IF i = 0 THEN [reg |-> reg, bwo |-> bwo, layers |-> <<>>]
        ELSE LET before == after[i - 1]
                 storage == payload.storages[i]
                 resolved == toRuntime(before.reg, before.bwo, storage.palette)
             IN  IF storage.bits = EmptyStorage
                 THEN [before EXCEPT !.layers = Append(@, [c \in Cells |-> reg.air])]
                 ELSE [reg |-> resolved.reg, bwo |-> resolved.bwo,
                       layers |-> Append(before.layers, Expand(storage, resolved.ids))]
  IN  after[Len(payload.storages)]

\* load_chunk_range, decode_subchunk_payload
LoadChunk ==
  /\ alive /\ count.loads < MaxLoads
  /\ \E pos \in DOMAIN db :
       LET decoded == decodeSubChunk(db[pos]) IN reg' = decoded.reg /\ bwo' = decoded.bwo
  /\ Counted("loads")
  /\ UNCHANGED <<alive, torn, encoded, table, db, written>>

\* load_chunk_palettes, load_subchunk_palette: the lower layer with its states.
decodePalette(payload) ==
  LET storage == payload.storages[1]
  IN  IF storage.bits = EmptyStorage THEN [c \in Cells |-> OnDisk(AirState)]
      ELSE Expand(storage, cachedDiskBlockStates(bwo, storage.palette))
LoadPalette ==
  /\ alive /\ count.loads < MaxLoads
  /\ \E pos \in DOMAIN db : bwo' = cacheDiskBlockStates(bwo, db[pos].storages[1].palette)
  /\ Counted("loads")
  /\ UNCHANGED <<alive, reg, torn, encoded, table, db, written>>

Next ==
  \/ CreateContext \/ DestroyContext \/ Register \/ LoadChunk \/ LoadPalette
  \/ \E t \in Threads : SaveChunk(t)
Spec == Init /\ [][Next]_vars

-----------------------------------------------------------------------------
LowerState(stored, cell) == stored.lower[1 + LowerAt(stored.write, cell)]

(* A sub-chunk on disk holds, cell by cell, the states its writer saved, whatever the
   encoding thread had encoded before, in whichever context, and both ways of unpacking
   it say so: the bit look-up and the expansion of the palette-preserving reader, with
   whatever is in its cache.  (encodeSubChunk, PaletteIndexTable, encodePaletteEntry) *)
DiskHoldsWhatWasSaved ==
  \A pos \in DOMAIN written :
    LET storage == db[pos].storages[1]
        stored == written[pos]
        expected == [c \in Cells |-> LowerState(stored, c)]
    IN  Readable(storage) /\ ExpandStates(storage) = expected /\ decodePalette(db[pos]) = expected

(* Decoding a stored sub-chunk to runtime ids, in any later context and with whatever is
   cached, gives ids that mean the saved states, upgraded if the context upgrades; the
   upper layer comes back where there was one; and with its assets loaded a context
   takes saved air for its own air and nothing else. (toRuntime, register_state)
   A context whose assets have an id twice is excluded: it gives new states ids that
   already mean another block. What such a context has saved is not. *)
RoundTrip ==
  alive /\ ~torn => \A pos \in DOMAIN written :
    LET stored == written[pos]
        decoded == decodeSubChunk(db[pos])
        Means(id, state) ==
          /\ id \in DOMAIN decoded.reg.states
          /\ state_key_for(decoded.reg.states[id]) = state_key_for(Upgraded(reg, state))
          /\ reg.upgrade => (id = reg.air <=> state.name = AirName)
    IN  /\ \A pair \in {<<decoded.layers[1][c], LowerState(stored, c)>> : c \in Cells} : Means(pair[1], pair[2])
        /\ Len(decoded.layers) = 2 =>
             \A c \in Cells : Means(decoded.layers[2][c], IF c = 0 THEN stored.upper ELSE stored.air)
        /\ stored.write.upper /\ stored.upper # stored.air => Len(decoded.layers) = 2
=============================================================================
