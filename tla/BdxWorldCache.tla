--------------------------- MODULE BdxWorldCache ---------------------------
(***************************************************************************)
(* BdxStructure::write_to_world (src/src/formats/bdx.cpp): a BDX command   *)
(* stream writes blocks in any order into a Bedrock world of which only a  *)
(* few chunks fit into memory.  A subchunk travels from the chunk cache    *)
(* through an asynchronous save to the cold cache of encoded payloads and  *)
(* from there to LevelDB, and comes back when the stream revisits it.      *)
(*                                                                         *)
(* A subchunk's contents are abstracted to the number of block writes they *)
(* hold, a cold payload's charge to 1.  The two lookaside tables and       *)
(* cached_sub are shortcuts to the cache and are left out; the world's     *)
(* previous contents are replaced, not merged, and are left out as well.   *)
(***************************************************************************)
EXTENDS Integers, Sequences, FiniteSets, FiniteSetsExt, SequencesExt

CONSTANTS
  Chunks, Layers,  \* positions of chunks, and of subchunks within one
  Workers,         \* encoding_workers
  CacheLimit,      \* chunk_cache_limit
  BatchSize,       \* flush_batch_size
  ColdLimit,       \* cold_cache_limit
  SpillBatch,      \* kPayloadWriteBatchSize
  MaxWrites        \* bound: block writes of the command stream

ASSUME BdxAssumption ==
  /\ IsFiniteSet(Chunks) /\ Chunks # {}
  /\ IsFiniteSet(Layers) /\ Layers # {}
  /\ Workers \in 1 .. 16
  /\ CacheLimit \in Nat \ {0}
  /\ BatchSize \in 1 .. 16
  /\ ColdLimit \in Nat
  /\ SpillBatch \in Nat \ {0}
  /\ MaxWrites \in Nat

SubChunks == Chunks \X Layers

VARIABLES
  pc,           \* the caller: "parse", "acquire", "flush", "join", "spill", "entities", "unwind", "returned"
  target,       \* the subchunk acquire_subchunk is looking for
  lru,          \* cache: its chunks, least recently touched first
  hot,          \* cache: subchunk |-> writes it holds
  pending,      \* pending_saves: [chunks, data, state] each
  cold,         \* cold_cache in LRU order: [pos, n] each
  flushed,
  db,           \* LevelDB: subchunk |-> writes it holds
  written,      \* history: block writes per subchunk
  outcome       \* "none", "success", "failure"

cacheVars == <<lru, hot>>
storeVars == <<cold, flushed, db>>
vars == <<pc, target, cacheVars, pending, storeVars, written, outcome>>

Total == MapThenSumSet(LAMBDA s : written[s], SubChunks)

\* The parts of a partial function, and one laid over another.
Within(f, S) == [s \in DOMAIN f \cap S |-> f[s]]
Over(f, g) == [s \in DOMAIN f \cup DOMAIN g |-> IF s \in DOMAIN g THEN g[s] ELSE f[s]]
LayersOf(chunks) == chunks \X Layers

Init ==
  /\ pc = "parse"
  /\ target \in {CHOOSE s \in SubChunks : TRUE}
  /\ lru = <<>>
  /\ hot = <<>>
  /\ pending = <<>>
  /\ cold = <<>>
  /\ flushed = {}
  /\ db = <<>>
  /\ written = [s \in SubChunks |-> 0]
  /\ outcome = "none"

Cached(chunk) == \E i \in DOMAIN lru : lru[i] = chunk
Saving(chunk) == \E i \in DOMAIN pending : chunk \in pending[i].chunks

\* An exception or a failed save ends the conversion: finish() marks the
\* adapter for discarding and the function's locals are destroyed.
Fail == pc' = "unwind"

-----------------------------------------------------------------------------
(* Saving.                                                                 *)

\* flush_chunks() waits for the oldest save when every worker has one.
RoomToFlush == Len(pending) < Workers

\* flush_oldest(), flush_chunks(): the least recently touched chunks leave the
\* cache and become one task of the save pool.
FlushOldest ==
  LET count == IF BatchSize < Len(lru) THEN BatchSize ELSE Len(lru)
      chunks == {lru[i] : i \in 1 .. count}
  IN  /\ RoomToFlush
      /\ pending' = Append(pending, [chunks |-> chunks, data |-> Within(hot, LayersOf(chunks)),
                                     state |-> "queued"])
      /\ hot' = Within(hot, SubChunks \ LayersOf(chunks))
      /\ lru' = SubSeq(lru, count + 1, Len(lru))
      /\ UNCHANGED storeVars

\* Mutant: an insertion evicts one payload at most.
ExcessOfOne(entries) == IF Len(entries) > ColdLimit THEN 1 ELSE 0

\* What has to leave the cold cache, the least recently used first.
Excess(entries) == IF Len(entries) > ColdLimit THEN Len(entries) - ColdLimit ELSE 0

\* insert_cold() erases what the cache already holds for a position.
Erased(positions) == SelectSeq(cold, LAMBDA e : e.pos \notin positions)
Kept(positions) == IF \E i \in DOMAIN cold : cold[i].pos \in positions THEN Erased(positions) ELSE cold

\* The payloads of a finished save enter the cold cache in some order; what
\* does not fit any more is written to the database in one batch.
Store(payloads) ==
  LET entering == [i \in DOMAIN payloads |-> [pos |-> payloads[i], n |-> Head(pending).data[payloads[i]]]]
      all == Kept(DOMAIN Head(pending).data) \o entering
      excess == Excess(all)
      evicted == [s \in {all[i].pos : i \in 1 .. excess} |->
                    (CHOOSE i \in 1 .. excess : all[i].pos = s)]
  IN  /\ flushed' = flushed \cup DOMAIN Head(pending).data
      /\ cold' = SubSeq(all, excess + 1, Len(all))
      /\ \/ db' = Over(db, [s \in DOMAIN evicted |-> all[evicted[s]].n]) /\ UNCHANGED pc
         \/ excess > 0 /\ Fail /\ UNCHANGED db
      /\ pending' = Tail(pending)
      /\ UNCHANGED cacheVars

\* complete_next_pending_save(): waits for the oldest save.
CompleteNext ==
  /\ pending # <<>>
  /\ \/ /\ Head(pending).state = "failed"
        /\ pending' = Tail(pending)
        /\ Fail
        /\ UNCHANGED <<cacheVars, storeVars>>
     \/ /\ Head(pending).state = "done"
        /\ \E payloads \in SetToSeqs(DOMAIN Head(pending).data) : Store(payloads)

\* The save pool: tasks start in order, at most one per worker.
InState(st) == {i \in DOMAIN pending : pending[i].state = st}

StartEncode ==
  /\ InState("queued") # {}
  /\ Cardinality(InState("running")) < Workers
  /\ LET i == CHOOSE j \in InState("queued") : \A k \in InState("queued") : j <= k
     IN  pending' = [pending EXCEPT ![i].state = "running"]
  /\ UNCHANGED <<pc, target, cacheVars, storeVars, written, outcome>>

FinishEncode ==
  /\ \E i \in InState("running"), st \in {"done", "failed"} :
       pending' = [pending EXCEPT ![i].state = st]
  /\ UNCHANGED <<pc, target, cacheVars, storeVars, written, outcome>>

-----------------------------------------------------------------------------
(* consume_block(), acquire_subchunk(), acquire_chunk().                   *)

NextBlock ==
  /\ pc = "parse"
  /\ Total < MaxWrites
  /\ target' \in SubChunks
  /\ pc' = "acquire"
  /\ UNCHANGED <<cacheVars, pending, storeVars, written, outcome>>

\* Mutant: only the oldest save is looked at.
MustWaitForOldest(chunk) == pending # <<>> /\ chunk \in Head(pending).chunks

\* A chunk that is being saved is waited for.
MustWait(chunk) == Saving(chunk)

\* The saves up to the one with the chunk are completed in order; a chunk is in
\* at most one of them (OneOwner), so that is until none has it.
WaitForSave ==
  /\ pc = "acquire"
  /\ ~Cached(target[1])
  /\ MustWait(target[1])
  /\ CompleteNext
  /\ UNCHANGED <<target, written, outcome>>

MakeRoom ==
  /\ pc = "acquire"
  /\ ~Cached(target[1]) /\ ~MustWait(target[1])
  /\ Len(lru) >= CacheLimit
  /\ \/ ~RoomToFlush /\ CompleteNext
     \/ FlushOldest /\ UNCHANGED pc
  /\ UNCHANGED <<target, written, outcome>>

Acquirable ==
  /\ pc = "acquire"
  /\ Cached(target[1]) \/ (~MustWait(target[1]) /\ Len(lru) < CacheLimit)

\* The chunk becomes the last one touched.
Touched ==
  IF Cached(target[1]) THEN Append(RemoveAt(lru, CHOOSE i \in DOMAIN lru : lru[i] = target[1]), target[1])
  ELSE Append(lru, target[1])

\* The block is written to the subchunk, which held n writes before.
WriteBlock(n) ==
  /\ hot' = Over(hot, [s \in {target} |-> n + 1])
  /\ lru' = Touched
  /\ written' = [written EXCEPT ![target] = @ + 1]
  /\ pc' = "parse"

UseCached ==
  /\ Acquirable
  /\ target \in DOMAIN hot
  /\ WriteBlock(hot[target])
  /\ UNCHANGED <<target, pending, storeVars, outcome>>

\* A subchunk that was never saved starts as air.
UseFresh ==
  /\ Acquirable
  /\ target \notin DOMAIN hot
  /\ target \notin flushed
  /\ WriteBlock(0)
  /\ UNCHANGED <<target, pending, storeVars, outcome>>

InCold(s) == {i \in DOMAIN cold : cold[i].pos = s}

\* A saved one is taken out of the cold cache, or read from the database; both
\* may fail to decode.
ReloadCold ==
  /\ Acquirable
  /\ target \notin DOMAIN hot
  /\ target \in flushed
  /\ \E i \in InCold(target) :
       /\ cold' = RemoveAt(cold, i)
       /\ \/ WriteBlock(cold[i].n)
          \/ Fail /\ lru' = Touched /\ UNCHANGED <<hot, written>>
  /\ UNCHANGED <<target, pending, flushed, db, outcome>>

ReloadStored ==
  /\ Acquirable
  /\ target \notin DOMAIN hot
  /\ target \in flushed
  /\ InCold(target) = {}
  /\ \/ WriteBlock(IF target \in DOMAIN db THEN db[target] ELSE 0)
     \/ Fail /\ lru' = Touched /\ UNCHANGED <<hot, written>>
  /\ UNCHANGED <<target, pending, storeVars, outcome>>

-----------------------------------------------------------------------------
(* After the stream.                                                       *)

\* A broken stream, or a block outside the Overworld.
StreamFails ==
  /\ pc = "parse"
  /\ Fail
  /\ UNCHANGED <<target, cacheVars, pending, storeVars, written, outcome>>

StreamEnds ==
  /\ pc = "parse"
  /\ pc' = "flush"
  /\ UNCHANGED <<target, cacheVars, pending, storeVars, written, outcome>>

FlushRest ==
  /\ pc = "flush"
  /\ \/ lru # <<>> /\ ~RoomToFlush /\ CompleteNext
     \/ lru # <<>> /\ FlushOldest /\ UNCHANGED pc
     \/ lru = <<>> /\ pc' = "join" /\ UNCHANGED <<cacheVars, pending, storeVars>>
  /\ UNCHANGED <<target, written, outcome>>

\* Mutant: the remaining saves are not waited for.
JoinNothing ==
  /\ pc = "join"
  /\ pc' = "spill"
  /\ UNCHANGED <<target, cacheVars, pending, storeVars, written, outcome>>

JoinRest ==
  /\ pc = "join"
  /\ \/ CompleteNext
     \/ pending = <<>> /\ pc' = "spill" /\ UNCHANGED <<cacheVars, pending, storeVars>>
  /\ UNCHANGED <<target, written, outcome>>

SpillCold ==
  /\ pc = "spill"
  /\ IF cold = <<>>
     THEN pc' = "entities" /\ UNCHANGED <<cold, db>>
     ELSE LET count == IF Len(cold) < SpillBatch THEN Len(cold) ELSE SpillBatch
              batch == {cold[i] : i \in 1 .. count}
          IN  /\ cold' = SubSeq(cold, count + 1, Len(cold))
              /\ \/ db' = Over(db, [s \in {e.pos : e \in batch} |->
                                     (CHOOSE e \in batch : e.pos = s).n]) /\ UNCHANGED pc
                 \/ Fail /\ UNCHANGED db
  /\ UNCHANGED <<target, cacheVars, pending, flushed, written, outcome>>

SaveEntities ==
  /\ pc = "entities"
  /\ \/ pc' = "returned" /\ outcome' = "success"
     \/ Fail /\ UNCHANGED outcome
  /\ UNCHANGED <<target, cacheVars, pending, storeVars, written>>

\* The save pool's destructor runs the tasks that are left to their end.
Unwind ==
  /\ pc = "unwind"
  /\ InState("queued") = {} /\ InState("running") = {}
  /\ pc' = "returned"
  /\ outcome' = "failure"
  /\ UNCHANGED <<target, cacheVars, pending, storeVars, written>>

Caller ==
  \/ NextBlock \/ WaitForSave \/ MakeRoom
  \/ UseCached \/ UseFresh \/ ReloadCold \/ ReloadStored
  \/ StreamFails \/ StreamEnds \/ FlushRest \/ JoinRest \/ SpillCold \/ SaveEntities
  \/ Unwind

SavePool == StartEncode \/ FinishEncode

Returned == pc = "returned" /\ UNCHANGED vars

Next == Caller \/ SavePool \/ Returned

\* The threads are scheduled, encoding terminates and the stream is finite.
Spec == Init /\ [][Next]_vars /\ WF_vars(Caller) /\ WF_vars(SavePool)

-----------------------------------------------------------------------------
PcNames == {"parse", "acquire", "flush", "join", "spill", "entities", "unwind", "returned"}
Intact == pc \notin {"unwind", "returned"}

\* Types; the cache holds a chunk for each of its subchunks, none twice.
TypeOK ==
  /\ pc \in PcNames
  /\ target \in SubChunks
  /\ lru \in Seq(Chunks) /\ \A i, j \in DOMAIN lru : lru[i] = lru[j] => i = j
  /\ DOMAIN hot \subseteq SubChunks /\ \A s \in DOMAIN hot : hot[s] \in Nat /\ Cached(s[1])
  /\ \A i \in DOMAIN pending :
       /\ pending[i].chunks \subseteq Chunks
       /\ DOMAIN pending[i].data \subseteq LayersOf(pending[i].chunks)
       /\ pending[i].state \in {"queued", "running", "done", "failed"}
  /\ \A i \in DOMAIN cold : cold[i].pos \in SubChunks /\ cold[i].n \in Nat
  /\ flushed \subseteq SubChunks
  /\ DOMAIN db \subseteq SubChunks
  /\ outcome \in {"none", "success", "failure"}

\* A subchunk's newest contents are in one place: the chunk cache, a save, the
\* cold cache, or else the database; a chunk is never in the cache and in a
\* save, nor in two saves.
OneOwner ==
  /\ \A c \in Chunks :
       Cardinality({i \in DOMAIN pending : c \in pending[i].chunks})
         + (IF Cached(c) THEN 1 ELSE 0) <= 1
  /\ \A s \in SubChunks :
       Cardinality(InCold(s)) + (IF s \in DOMAIN hot THEN 1 ELSE 0)
         + Cardinality({i \in DOMAIN pending : s \in DOMAIN pending[i].data}) <= 1

\* What a reader of the subchunk would have to find.
Newest(s) ==
  IF s \in DOMAIN hot THEN hot[s]
  ELSE IF \E i \in DOMAIN pending : s \in DOMAIN pending[i].data
       THEN LET i == CHOOSE j \in DOMAIN pending : s \in DOMAIN pending[j].data IN pending[i].data[s]
  ELSE IF InCold(s) # {} THEN cold[CHOOSE i \in InCold(s) : TRUE].n
  ELSE IF s \in DOMAIN db THEN db[s]
  ELSE 0

\* No block write is lost or overwritten by an older copy, wherever eviction,
\* asynchronous saves and revisits have moved the subchunk, and a successful
\* conversion has every write in the database.
NoWriteLost ==
  /\ Intact => OneOwner /\ \A s \in SubChunks : Newest(s) = written[s]
  /\ outcome = "success" =>
       \A s \in SubChunks : written[s] > 0 => s \in DOMAIN db /\ db[s] = written[s]

\* The limits derived from the soft budget hold in all three stages, so that
\* submitting a batch never blocks on the pool's own queue.
CachesBounded ==
  /\ Len(lru) <= CacheLimit
  /\ Len(pending) <= Workers
  /\ Len(cold) <= ColdLimit
=============================================================================
