---------------------------- MODULE McWorldCache ----------------------------
(***************************************************************************)
(* The chunk cache of McWorldStructure (src/src/formats/mcworld.cpp): a    *)
(* Bedrock world read as a structure.  get_chunks() and visit_chunks()     *)
(* load both block layers of a source chunk, get_chunks_layer0() only the  *)
(* primary one; both fill one cache, and one flag for the whole cache      *)
(* records whether layer 1 was loaded.                                     *)
(*                                                                         *)
(* A cached chunk is abstracted to the layers it was loaded with.  A       *)
(* position of an aligned selection needs one source chunk, one at a       *)
(* boundary or under an offset several: a request is the sequence of       *)
(* source chunks it comes to need.                                         *)
(***************************************************************************)
EXTENDS Integers, Sequences, FiniteSetsExt, SequencesExt

CONSTANT SourceChunks

VARIABLES
  mWorld,                \* the world is open
  mChunkCache,           \* source chunk |-> layers it was loaded with
  mChunkCacheHasLayer1,
  includeLayer1,         \* the running request asks for both layers
  todo,                  \* source chunks it still needs, in order
  served,                \* source chunk |-> layers the request received
  status                 \* "idle", "loading", "success", "failure"

cacheVars == <<mChunkCache, mChunkCacheHasLayer1>>
requestVars == <<includeLayer1, todo, served, status>>
vars == <<mWorld, cacheVars, requestVars>>

Layer0 == {0}
BothLayers == {0, 1}

Init ==
  /\ mWorld = FALSE
  /\ mChunkCache = <<>>
  /\ mChunkCacheHasLayer1 = FALSE
  /\ includeLayer1 = FALSE
  /\ todo = <<>>
  /\ served = <<>>
  /\ status = "idle"

\* read(): a world is opened, also in place of an earlier one.
Read ==
  /\ status # "loading"
  /\ mWorld' = TRUE
  /\ mChunkCache' = <<>>
  /\ mChunkCacheHasLayer1' = FALSE
  /\ status' = "idle"
  /\ UNCHANGED <<includeLayer1, todo, served>>

\* get_chunks() and visit_chunks(), or get_chunks_layer0().
GetChunks(layer1) ==
  /\ status # "loading"
  /\ \E needed \in SUBSET SourceChunks : todo' \in SetToSeqs(needed)
  /\ includeLayer1' = layer1
  /\ served' = <<>>
  /\ status' = "loading"
  /\ UNCHANGED <<mWorld, cacheVars>>

Cached(pos) ==
  pos \in DOMAIN mChunkCache /\ (~includeLayer1 \/ mChunkCacheHasLayer1)

Serve(layers) ==
  /\ served' = [pos \in DOMAIN served \cup {Head(todo)} |->
                  IF pos = Head(todo) THEN layers ELSE served[pos]]
  /\ todo' = Tail(todo)
  /\ UNCHANGED <<mWorld, includeLayer1, status>>

\* source_chunk() finds the chunk in the cache.
SourceCached ==
  /\ status = "loading" /\ todo # <<>>
  /\ Cached(Head(todo))
  /\ Serve(mChunkCache[Head(todo)])
  /\ UNCHANGED cacheVars

\* source_chunk() loads it, in place of one that was loaded without layer 1.
SourceLoaded ==
  /\ status = "loading" /\ todo # <<>>
  /\ mWorld /\ ~Cached(Head(todo))
  /\ LET layers == IF includeLayer1 THEN BothLayers ELSE Layer0
     IN  /\ Serve(layers)
         /\ mChunkCache' = [pos \in DOMAIN mChunkCache \cup {Head(todo)} |->
                              IF pos = Head(todo) THEN layers ELSE mChunkCache[pos]]
  /\ mChunkCacheHasLayer1' = (mChunkCacheHasLayer1 \/ includeLayer1)

\* source_chunk() cannot load it, or no world is open.
SourceFails ==
  /\ status = "loading" /\ todo # <<>>
  /\ ~Cached(Head(todo))
  /\ mChunkCache' = [pos \in DOMAIN mChunkCache \ {Head(todo)} |-> mChunkCache[pos]]
  /\ status' = "failure"
  /\ UNCHANGED <<mWorld, mChunkCacheHasLayer1, includeLayer1, todo, served>>

Return ==
  /\ status = "loading" /\ todo = <<>>
  /\ status' = "success"
  /\ UNCHANGED <<mWorld, cacheVars, includeLayer1, todo, served>>

\* release_cached_chunks()
Release ==
  /\ status # "loading"
  /\ mChunkCache' = <<>>
  /\ mChunkCacheHasLayer1' = FALSE
  /\ UNCHANGED <<mWorld, requestVars>>

Next ==
  \/ Read \/ Release
  \/ GetChunks(TRUE) \/ GetChunks(FALSE)
  \/ SourceCached \/ SourceLoaded \/ SourceFails \/ Return

Spec == Init /\ [][Next]_vars

-----------------------------------------------------------------------------
\* "General consumers, including world conversion, use get_chunks() /
\* visit_chunks() and receive both layers" (structure.hpp): whatever was asked
\* before, a successful request for both layers is answered with both.
GeneralConsumersReceiveBothLayers ==
  (status = "success" /\ includeLayer1) =>
    \A pos \in DOMAIN served : served[pos] = BothLayers
=============================================================================
