# Formal model of WaterStructureCpp

WaterStructureCpp converts between 37 Minecraft structure formats and reads and
writes Bedrock worlds (LevelDB directories and `.mcworld` archives). Half of its
code decodes and encodes file formats; what makes the rest hard are pipelines of threads with bounded memory, caches that evict and
reload, registries shared by a whole process, a database that is compacted while
it is read, and a transaction on an archive that has to survive every failing step.
This project models both.

All paths below are relative to the repository. The specifications are plain
TLA+, checked with TLC and, where a module name ends in `Proofs`, proved with
TLAPS.

    tlc -config conversion.cfg MCWorldConversion    # any run of PROJECT.json
    tlapm WorldConversionProofs.tla                 # any module named ...Proofs

## 1. The system

| Component | Source | State it keeps | Operations | Modelled in |
|---|---|---|---|---|
| Bounded thread pool | `src/core/bounded_thread_pool.hpp` | task deque, accepting flag, two condition variables, worker threads | submit, submit_indexed, worker loop, destructor | `BoundedThreadPool` |
| Chunk stream | `src/core/chunk_stream.cpp` | queue of chunks, closed flag, first error | pump, push, consume, close, fail | `ChunkStream`, promise: `OrderedTransfer` |
| World conversion | `src/world/world.cpp` 1010-1304 | sink batch, statistics, progress, discard mark | convert_to_world, WorldChunkSink | `WorldConversion` |
| World encoder | `src/world/world.cpp` 49-71, 598-737, 877-923 | reusable encode pool | encode_chunks, save_chunks | `WorldEncoder` |
| World adapter | `src/world/world.cpp` 172-442, 932-978 | LevelDB handle, temporary directory, pending archive, deferred statistics | open, close, discard, destructor | `WorldAdapter` |
| World database | `thirdparty/BedrockWorldOperator` | process-wide block state registry, thread-local caches | encode, save and load sub-chunks | `SubChunkCodec`, `BlockStates`, `BedrockWorld` |
| Runtime registry | `src/core/runtime_registry.cpp` | states by id, two indexes | register_state, load_block_mappings, resolver | `BlockStates` |
| C API contexts | `src/c_api.cpp` | one registry per context | create, destroy | `BedrockWorld` |
| Key-value store | `thirdparty/LevelDB` | memtables, versions of table files, manifest, logs, writer queue | open, write, flush, compact, read, close | `LevelDb`, `LevelVersion`, promise: `DurableStore` |
| BDX world writer | `src/formats/bdx.cpp` 2243-3297 | chunk cache, pending saves, cold cache, database | write_to_world | `BdxWorldCache` |
| BDX reader, writer | `src/formats/bdx.cpp` 560-1960, `bdx_writer.cpp` | constants, pool, bounds; a directory of shards shared by threads | read, write_bdx, get_chunks, get_chunk_nbt, set_offset, set_streaming_options | `BdxCommands`, `BdxPlacementSpool`, whole: `BdxStructure` |
| Schem | `src/formats/schem.cpp` | index of rows and checkpoints, copy of BlockData, slab window | read, get_chunks, set_offset, write_to_world | `SchemStructure`, `SchemWorldStream` |
| Command readers | `src/formats/mcfunction.cpp`, `ibimport.cpp`, `tibi.cpp` | commands, lazily built index | read, set_offset, get_chunks | `CommandReplay` |
| Command writers | `src/formats/mcfunction_writer.cpp`, `ibimport_writer.cpp` | loader thread, pending futures, spill files | write | `CommandExport`, promise: `OrderedTransfer` |
| MCWorld source | `src/formats/mcworld.cpp` | chunk cache with one layer flag | read, get_chunks, get_chunks_layer0, release | `McWorldCache` |
| Archive | `src/world/archive.cpp` | none between calls | extract_zip, create_zip | one step of `WorldAdapter` |
| Format registry | `src/formats/format_registry.cpp` | tables filled once | detect, open, open_as, convert | `FormatDetection`, `StructureFiles` |
| Sparse block store | `src/core/decoded_structure.cpp` | blocks by sub-chunk, entities, size | put, get_chunks, get_chunk_nbt | `StructureGeometry`, `JsonFormats` |
| Chunk block index | `include/WaterStructure/chunk_index.hpp` | records by chunk, ready flag | ensure, find, clear | `RecordFormats` |
| Other readers | `src/formats/*` | records, dense arrays, or where the sections of the file are | read in one to three passes, set_offset, get_chunks, get_chunk_nbt | `RecordFormats`, `JsonFormats`, `GangBanFormats`, `FuHongFormats`, `VolumeFormats` |
| Other writers | `src/formats/*_writer.cpp` | stripes in temporary files | write | `VolumeFormats`, `FuHongFormats` |
| CLI, bindings, tools | `src/cli/main.cpp`, `python/`, `tools/` | none | marshalling | no |
| libnbt, zlib, brotli | `thirdparty/` | | | external |

How they interact: a conversion to a world (`WorldConversion`) starts one
consumer thread through the chunk stream; the caller's thread pulls chunks out
of a structure (`ChunkStream`; the structure may be a Bedrock world through
`McWorldCache`, a Schem file through `SchemStructure`, a command list through
`CommandReplay`), the consumer thread collects them and calls the adapter's
`save_chunks` (`WorldEncoder`), which spreads the encoding (`SubChunkCodec`,
`BlockStates`) over a `BoundedThreadPool` and writes one batch into the store
(`LevelDb`). The result decides whether `close()` publishes or discards the
world (`WorldAdapter`). BDX and Schem have paths of their own from the parser to
the adapter (`BdxWorldCache`, `SchemWorldStream`); asked for chunks, a BDX
structure decodes its stream into a spool first (`BdxPlacementSpool`). In the other direction a
structure is exported to a command file (`CommandExport`) or to a file of another
format. Every file is opened by the format registry, which detects its format and
makes the reader (`StructureFiles`, and for commands `CommandReplay`; both are
alternatives of `StructureReaders`).

What is hard, component by component (every item with its line in the "hazards"
of PROJECT.json):

* pool: notifications made after the unlock, a deque at its limit, destruction
  with tasks queued and submitters asleep;
* stream: both threads failing at once, cancel racing a push, a wake-up missed
  when one side fails while the other sleeps;
* conversion: a flush that fails half-way, progress ahead of the world, a
  failure path that forgets to mark the world;
* encoder: uneven ranges, results out of order, a pool replaced with tasks of a
  failed call in it;
* adapter: any step of close failing, the process dying, a second close,
  statistics that must be reported exactly once;
* world database: caches by runtime id that outlive the registry that gave the
  ids, a generation counter that wraps;
* key-value store: a crash between any two file operations, a compaction and a
  flush in the middle of it, snapshots, writers waiting for background work;
* BDX: a chunk revisited while it is being saved, three stages that must all be
  drained, a payload that exists twice; a spool built by one thread while others
  wait for it and a third throws it away; numbers at the border of their widths;
* Schem: tags in any order, checks put off until a file is read again that may
  have changed, rows decoded from checkpoints, columns skipped as air;
* commands: parsing in parallel and consuming in order, an index published
  through a flag read without the lock, loader and caller waiting for each other,
  objects that must be unwound in one particular order;
* MCWorld: one flag for a whole cache;
* the other formats: several passes over a file that may be replaced in between,
  or that is opened again for every question; keys repeated and in any order;
  indexes and caches that a move has to clear; records cut by chunk borders,
  offsets on either side of zero; indices packed across words; stripes of a
  conversion that have to be merged or removed.

## 2. The modules

Operators marked `\* Mutant: ...` are not part of a specification. Each is a
plausible bug in the definition below it; substituting it must violate the
property PROJECT.json names, which shows that the property depends on that piece
of code.

**BoundedThreadPool**. One step is one critical section of `mMutex` or one
notification outside it. `sub[s]` and `wrk[w]` say where each thread is; a
condition variable's waiters are the threads in state "waiting", `notify_one`
picks any of them, and spurious wake-ups are steps. `accepted` and `started` are
histories. A submitter is a thread that may submit repeatedly. The destructor
does not wait for submitters it wakes, so that no `submit` may be running when
the pool's memory goes is an obligation of the callers.

**ChunkStream**. Producer (the caller of `pump`) and consumer thread, a step per
critical section, notification, or call into structure or sink. Chunks are the
positions `1..N` in request order, `Yields` those the structure has data for.
Structure and sink may fail at every call; the first error wins. The window is
computed as `stream_capacity` does, clamps included. It is checked as part of the
conversion, which instantiates it.

**OrderedTransfer** is the promise of any ordered pipeline: items are delivered in
source order without gaps, success is reported only after the last, and the
transfer ends. WorldConversion and CommandExport implement it (`TransferSpec` of
each); the refinements keep `delivered` and map every error to "failure".

**WorldConversion** instantiates the stream and refines its sink: `SinkAccepts`
becomes "the chunk is buffered" or "the batch is flushed", `SinkRefuses` becomes
"out of range" or "the flush failed", at each point of a flush (chunks, then one
`save_chunk_nbt` per chunk with entities). All other stream steps are used as
they are, so the two threads interleave as in ChunkStream.

**WorldEncoder**. The arithmetic of `world_encode_worker_count` and of the ranges
is kept exactly; a task is its call and range, a payload the number of its chunk.
The pool is used through what BoundedThreadPool guarantees (FIFO, blocking
submit, draining destructor), not step by step. Calls come one after another.

**WorldAdapter**. A step is one effect on the disk. The file at the archive path
is absent, the original, a packed archive with its contents, or torn; the world's
contents are the set of conversions that reached it, whole or in part. Every step
may fail, create_zip may throw, the process may die between any two steps.
`FlushMayFail` adds the storage that refuses the last bytes an `ofstream` flushes
in its destructor, which create_zip cannot see.

**SubChunkCodec** is the paletted storage of a sub-chunk: the palette of distinct
blocks in order of first use, the width chosen for it, the indices packed into
words that no index crosses, and the reader. A word is a function from slots to
values; cells are renumbered between the order (x, y, z) of the program and
(x, z, y) of the file as the code does. **BlockStates** has the registries as
operators over values: `register_state` with its three indexes, the process-wide
BlockStateRegistry and the thread-local cache of encoded states with its
generation. Names without a namespace or with a foreign one are prefixed as
`encodeDiskBlockState` does (`Prefixed`). **BedrockWorld** is the state machine
over both: contexts created one after the other with assets that number the
states differently, saves by several encoding threads, and loads. Loading the
assets may fail (`load_block_mappings` is the set of what it may leave), and the
registry is installed all the same: untouched, with the entries before an id that
comes twice, or with all entries but without upgrades.

**DurableStore** is what the store promises: a batch is stored whole or not at
all, an acknowledged write survives every restart, a write running at a crash is
there or not. **LevelVersion** has versions, edits, lookups and the choice of the
files of a compaction as operators; **LevelDb** the threads: writers that queue
up and are served in groups, the background thread with flush, compaction, table
and manifest files, and recovery. A step is one file operation or one critical
section. `StoreSpec` maps the store's logical contents (memtables over version)
to DurableStore's `db`.

**BdxWorldCache**. A subchunk's contents are the number of block writes they hold.
Variables are the four places of a subchunk: `hot` (chunk cache, `lru` its order),
`pending` (saves on the pool), `cold`, `db`. `acquire_subchunk` is split where it
blocks: `WaitForSave`, `MakeRoom`, then one of `UseCached`, `UseFresh`,
`ReloadCold`, `ReloadStored`. Payload sizes are 1, so the byte limit of the cold
cache is a count. The lookaside tables and `cached_sub` are shortcuts to the chunk
cache and left out, except that forgetting to invalidate them is a mutant.

**BdxCommands** is the command stream as data: `Read` folds over the commands in
the three modes of the decoder (full, bounds only, streaming without entities)
with runs of pairs, the cache of runtime ids and the numbers of each width;
`write_bdx` is the writer's path through the cells and its shortest moves.
**BdxPlacementSpool** is the state machine behind `get_chunks`: a step is one
critical section of `mPlacementSpoolMutex`, one effect on the disk, or one
assignment made outside the mutex; the builder may fail at each file, readers pin
the published directory, an invalidation drains both and then assigns. Answers
are compared with what the commands mean, defined from the stream alone
(`Blocks`, `Entities`: the last command that touches a cell). The histories
`stale` and `disturbed` mark the requests that overlap a change.
**BdxStructure** composes it with BdxWorldCache: one structure is used either way.
`StructureSpec` is its steps without fairness, which the spool's theorems are about.

**SchemStructure** has the file, the index of rows and checkpoints with the bytes
of varints counted (not spelled out), and the reading operations; a document is
its size, palette, stream and the order of its tags. **SchemWorldStream** adds
`write_to_world`: spool fallback, conversion through chunks, or slabs and stripes
with a task per column on a pool. Answers of `get_chunks` are compared with the
document itself.

**CommandReplay** models three readers in one module, which differ in a few
guards: pieces parsed in any order and consumed in file order (MCFunction), two
passes over a file that may change (TIBI), the index built by whichever thread
comes first, behind a flag read without the mutex; get_chunks merges the list of a
chunk with the broad list by the code's loop of two pointers. One axis stands for three.

**CommandExport** models two writers: probe of the palette path and its
fallback, loader thread with prefetch queue, tasks, ordered drain, spill files
and the unwinding of local objects in reverse order of declaration.

**McWorldCache**. The cache, its flag, and requests as sequences of source chunks.

**StructureFiles** is the life of a structure file of any other format. A file is
a document (what it says, not its bytes: `Bad` where a value has the wrong type
or is cut short, sequences where a key may be repeated), and `means` says
independently of all code what it describes, or that it is malformed. A step is
one pass of a reader (`InspectPass`, `BoundsPass`, `PlacePass`, or
`OpenInOnePass`), a replacement of the file, a move, a question about a set of
chunks, one stripe or one file of a conversion. `read()` keeps nothing of a
failed attempt. What a reader computes of a document is an operator of the format
modules, which are translated function by function:

* **StructureGeometry**: floor division into chunks and sub-chunks, the window a
  moved structure reaches, order of duplicates, the runtime registry as lookups;
* **RecordFormats**: RunAway, KBDX, BDS, NexusNP, BCF, Construction, with
  `ChunkIndex`, and Construction's lazy `ConstructionChunks`;
* **JsonFormats**: the sparse store (`Stored`, `StoreChunk`), MianYang,
  TimeBuilder, QingXu, CovStructure;
* **GangBanFormats**: seven versions in three families, including the relative
  moves of V5 to V7 and the text numbers of their entries;
* **FuHongFormats**: five versions and the writer of V4 and V5;
* **VolumeFormats**: Schematic, Litematic, MCStructure, AxiomBP, readers and
  writers, with words of `WordBits` bits, and the stripes of the Schem writer;
* **FormatDetection**: headers, extensions and outlines of JSON documents.

**StructureReaders** joins CommandReplay and StructureFiles: open_as makes one or
the other reader.

## 3. The runs

All bounds are constants; nothing else limits a run.

| Run | Instance | Shows |
|---|---|---|
| `pool` | 2 workers, 2 submitters, 3 tasks, requested capacity 0 (clamped to 1) | FIFO within capacity, destructor drains, every submit returns or throws |
| `conversion` | 6 chunks, one empty, two with entities, windows of 2, one start that pushes a chunk out of range | saved whole or discarded; progress stands for saved chunks; bounded memory; the sink's protocol and first error; implements OrderedTransfer |
| `encoder` | calls of 2, 5, 1, 3, 2, 0 chunks, 3 requested workers | whole batches in order, success iff written, calls return |
| `adapter` | 2 conversions, every target and failing step, crashes | archive whole, aborts never touch it, close commits, the end is complete: nothing left behind, statistics exactly once |
| `world` | 2 contexts, assets of 33 and 5 states, one with an id twice, or a load that fails, 2 encoding threads, palettes of 1 to 33 states, table generations up to 3 | disk holds what was saved; later contexts read it back |
| `leveldb` | 4 writes by 2 threads, 3 levels, tables of one entry, 3 events (openings, faults, reads, snapshots) | implements DurableStore; readers keep their snapshot; recovery succeeds; no writer waits in vain |
| `bdx` | to a world: 3 chunks x 2 layers, cache of 1, 3 workers, cold cache of 1, 4 writes; by chunks: 2 threads, 3 calls, 6 files | no write lost or resurrected, success means stored, stages bounded; answers of concurrent requests are exact; no spool left behind; calls return |
| `schem` | 12 small files, whole and malformed, 2 workers, 4 calls | exact answers or refusals; malformed data never succeeds; blocks in place and in the height of the world; no copy left behind; writes return |
| `readers` | commands: 3 files, 3 formats, 2 calling threads; documents: some sixty files of thirty formats, 3 offsets, 7 target formats, a file replaced between any two steps | reading equals sequential reading; replay equals executing the commands; calls return; answers are what the file says and stay inside the size; what is written reads back |
| `export` | 6 tasks, 6 sets of options | both writers implement OrderedTransfer; memory and disk bounded; one reader at a time; tasks keep their context |
| `mcworld_layers` | 2 source chunks | **violation**: a full request served without its second layer |
| `schem_rows` | as `schem` | **violation**: columns lost that are air in the last line of chunks |

Why these bounds are enough.

*pool*: more tasks than slots plus workers can hold at once, more submitters than
slots that become free in one step; the clamp of zero is the smallest deque. The
proofs of section 5 remove the bounds for the safety part.
*conversion*: three batches, so that one is being decoded, one is queued and one
is in the sink; a full and an empty queue for each thread; an empty position in
the middle and a last batch that only `finish()` flushes.
*encoder*: a batch with a remainder, one below the parallel threshold, an empty
one, a pool that is created, reused and replaced.
*adapter*: a second conversion supersedes the deferred statistics of the first; a
third adds nothing new.
*world*: 33 states need indices of six bits, a width that does not divide a word;
17 need five; three generations are exceeded by the fourth sub-chunk a thread
encodes (`GenerationLimit` stands for 2^32); `CacheLimit` 20 is overflowed by one
palette and not by another. Threads are interchangeable (symmetry).
*leveldb*: `WriteBuffer` and `MaxTable` of one entry make every second write a
flush and every flush a compaction; three levels, so that a compaction has a
level below and a grandparent; `MaxEvents` 3 allows a crash, a fault and a
reader in one behaviour.
*bdx*, to a world: with three workers two saves can be pending while a third
chunk is in the cache, so that a revisited chunk can be in the oldest or the
youngest save. By chunks: six files, of which one is a run over older command
blocks, one has every other kind of block, negative coordinates and entities, one
was written by `write_bdx`, and three are malformed (an index outside its pool,
no end, too far for the integers); numbers of 2, 3 and 4 bits stand for those of
8, 16 and 32, so that each width overflows; four records exceed the byte limit in
one of two options; three calls of two threads allow a builder, a waiter and an
invalidation.
*schem*: chunks have edge 2 and checkpoints lie every 2 values, so that three
blocks are two chunks and a row has several checkpoints; `MaxU16` 7 and `MaxRows`
9 are exceeded by one file each; `MaxCalls` 4 allows read, offset, a question and
a write.
*readers*, commands: a fill over several chunks, one over more than `BroadSpan`, an index
limit (`MaxEntries`) reached by the largest file, an offset that moves commands
across chunk borders to both sides. Documents: chunks have edge 2 and
sub-chunk 0 starts at height 2, so that a house of 3 x 3 x 2 cells spans two
chunks and two sub-chunks and an offset moves it into more; every format
has well-formed files, among them one with duplicates, repeated keys or records
to skip where its reader has code for them, and malformed ones;
`WordBits` 9 is no multiple of 2 or 4, so that indices cross words, or leave
bits unused; `MaxSpan` 20 is exceeded by one file, `MaxShort` 10 by another and
`MaxInt` 120 by the same one when it is moved, `MaxListed` 3 by the structures
with more blocks; options refuse a window of more than two chunks, or a temporary file. A file may be
replaced, once, by any other one of its kind.
*export*: windows, thread counts and limits at which the pipeline is full, the
limit on temporary files is hit, and a batch is larger than a window.

TLC's deadlock check is on where every end has an explicit stuttering step
(`Terminated`, `Returned`, `Done`, `Quiet`, `Over`); it is off
(`CHECK_DEADLOCK FALSE`) in the runs whose calls are bounded by a count and
that stop when it is used up (`leveldb`, `schem`, `schem_rows`, `world`). There
`WaitersAreServed` and `WriteReturns` say that no thread is left waiting.

### Fairness

Weak fairness of each thread's own steps inside the library: the operating system
schedules every runnable thread, and calls into structure, sink, encoder and
database return. No fairness is assumed for choices of the environment: nobody has
to call submit, to destroy a pool, to begin a conversion or to wake spuriously.
Where a wait is modelled by notifications (pool, stream, placement spool), a condition variable's
waiters are a thread state that only a notification or a spurious wake-up leaves:
weak fairness never wakes a sleeping thread. In CommandExport, CommandReplay,
LevelDb and SchemWorldStream waiting is a guard, because there every change a
predicate reads is made under the mutex and followed by `notify_all` (or, in
LevelDb, by the signal modelled with the queue). `SubmitReturns` holds under weak
fairness because the bounded number of tasks rules out an unending race for
slots. OrderedTransfer's fairness, that a transfer ends, follows from the
fairness of the implementations. After undefined behaviour (outcome or life
"dead") nothing is promised and no fairness assumed.

## 4. Findings

Two statements of the repository that its code does not keep, each a run:

1. After a layer-0 request `McWorldStructure` may answer `get_chunks()` without
   the second layer (`src/formats/mcworld.cpp:140`); run `mcworld_layers`.
2. `SchemStructure::write_to_world` decides for all lines of chunks of a slab by
   the flags of the last one (`src/formats/schem.cpp:1668`), so that columns
   that are air there lose their blocks; run `schem_rows`.

Divergences the models show or name without a run of their own:

* `create_zip` tests its stream before the last buffered bytes are written
  (`src/world/archive.cpp:657`): with `FlushMayFail = TRUE` close() publishes a
  torn archive (`ArchiveIsWhole` fails).
* `encode_chunks` returns at the first failed future (`src/world/world.cpp:729`)
  while later ranges still refer to its frame: `NoTaskOutlivesCall` of
  WorldEncoder fails; the step `ReadDeadFrame` is part of the model.
* `set_offset` of a BDX structure invalidates the spool, unlocks and then assigns
  `mOffset`: a thread that asks in between publishes a spool of the old offset
  which stays valid, although the comment at `src/formats/bdx.cpp:875` says that
  "Offset changes and a second read invalidate the normalized coordinates".
  `AnswersAreExact` excludes the requests that see such a spool (history `stale`).
* With three threads, a waiter that wakes (`src/formats/bdx.cpp:1748`) while an
  invalidation still waits for a reader finds no spool, no builder and no error:
  it builds a second one, and the directory of the first is never removed. Two
  threads cannot reach this (`TwoLeaveNoSpool`), which is why the run's
  `NoSpoolLeftBehind` holds, and it is the only step that loses a directory,
  however many threads there are (`NoSpoolIsLeft`).
* `load_block_mappings` ends at an id that comes twice (`src/core/runtime_registry.cpp:898`)
  with the entries before it listed and the next id still 2, and `ws_context_create`
  installs that registry (`src/c_api.cpp:194`), keeping the error for
  `ws_last_error`. In it a new state gets an id that already means another block, and
  a state read from disk turns into that block. `RoundTrip` does not hold there and
  excludes the context (`torn`), not what it has saved.
* A block whose constants come later in the stream is air, and is cached as air
  (`src/formats/bdx.cpp:1093`).
* The BDX writer lets several saves run in the adapter at once, whose
  `mEncodePool` has no lock, where `docs/parser_optimization.md` describes one.
* A Schem structure moved by an offset beyond -15..0 loses blocks: they are handed
  out by x + offset and registered under chunk - offset (`src/formats/schem.cpp:1100`).
* A Schem structure read for streaming has no index, so one that is given an
  offset afterwards can neither be streamed nor converted.
* A Schem spool that fails for its number of rows leaves an empty temporary file
  until the structure is destroyed.
* A TIBI setblock in the broad list is replayed without clipping it to the chunk
  that is asked for (`src/formats/tibi.cpp:1003`).
* `write_ibimport` declares the contexts its tasks use after the pool that runs
  them (`src/formats/ibimport_writer.cpp:710`): `ReadFreedContext`.
* A conversion to MCStructure, FuHong or AxiomBP reports success while its last
  bytes are in the buffer of a stream (`src/formats/mcstructure_writer.cpp:200`,
  `fuhong_writer.cpp:390`): a full disk leaves a file that is cut short.
  `SaveFails` has this outcome (`LooksTooEarly`) and `WhatIsWrittenReadsBack`
  excludes it.
* A conversion asks for the chunks from 0 to the size, which grew by the absolute
  offset: a structure moved by a negative offset loses the blocks below zero.
  `WhatIsWrittenReadsBack` expects the blocks inside the size.
* A stripe of the Schem writer whose temporary file was created but could not be
  written is not in the list of those to remove (`schem_writer.cpp:303`).
* `include/WaterStructure/decoded_structure.hpp:22` says that records just outside
  the declared bounds of a GangBan V3 file are "exposed to chunk consumers"; in a
  chunk the size does not reach they are skipped
  (`src/core/decoded_structure.cpp:83`).
* FuHong remembers the block of a name and its states without the aux
  (`fuhong.cpp:664`): with states, the aux of the first entry decides for all.
  Of several entities at one position, FuHong and GangBan keep the first, the
  other readers the last.
* QingXu takes its members in the order of their numbers, not of the file. The
  size of an AxiomBP structure is that of its blocks: air at its far side is lost
  by writing and reading it; the writer may write one cube too many per axis
  ("preserves the Go writer's inclusive end-subchunk calculation").
* A JSON array of objects with integer x, y and z is detected as RunAway, also if
  it is a FuHong V1 file with such keys.

## 5. Proofs

Eight modules hold theorems, all of the form `Spec => []Inv` (or an action
property, or a step-by-step refinement), for every value of the constants. Each
module begins with the inductive invariant, split into named parts; one lemma per
group of actions shows that a step keeps it; TLC evaluated every invariant on the
run of the component before it was proved.

**`BoundedThreadPoolProofs`.** For every number of workers, submitters, tasks and
slots, the three safety properties of run `pool`:

* `PoolTypeOK`: `TypeInv` strengthens `TypeOK` by `HandsInv`: a worker holds a
  task exactly between pop and end. Without it `WorkerFinish` could put NoTask
  among the finished tasks.
* `PoolFifo`: `accepted = started \o mTasks` and `Len(mTasks) <= Capacity` are
  inductive given the types; two sequence lemmas, `AppendBehind` and `MoveHead`,
  carry the steps that push and pop.
* `PoolDrains`: needs three more facts: a started task is finished or in some
  worker's hands; a worker only exits when the pool no longer accepts and the
  deque is empty, and then nothing is pushed any more; the destructor is past its
  join only when all workers have exited.

**`WorldConversionProofs`.** For every grid, every set of missing, tall or
NBT-bearing chunks and every window: `ConversionTypeOK`, `ConversionSinkProtocol`,
`ConversionIsWhole`, `ConversionProgress`, `ConversionWindow`, and
`ConversionIsTransfer`: initial states and steps of the conversion are those of
`OrderedTransfer`, or stutter.

* The stream alone (`StreamInv`): where its two threads stand tells what the
  batch, the consumer's hand and the verdicts hold (`PositionInv`); a queue with an
  error is closed and empty, and every error that happened is somebody's verdict
  (`FailureInv`); the outcome is success exactly without one (`OutcomeInv`);
  delivered, in hand and queued chunks are rising, one below the other, and
  together exactly what was sent, until an error (`FlowInv`); `WindowInv`.
* The sink on top (`SinkInv`): while no flush has failed, the delivered chunks are
  the saved ones followed by the sink's batch, and progress counts the saved ones.
  Success forces the queue, the hand and the batch to be empty, so `saved` is all
  of `Yields`; a failure sets the discard mark.

**`WorldEncoderProofs`.** For every sequence of batch sizes and every number of
workers that is asked for: `EncoderTypeOK`, `BatchesStayWhole`, `SuccessIsWritten`.
Arithmetic lemmas show that the ranges of the workers are adjacent, not empty and
end at the size of the batch; then the payload after k collected ranges is the
batch up to the end of range k (`CallInv`), so that what `write` commits is the
whole batch (`DbInv`). `PoolInv` says which calls the tasks left in the pool by a
failed call belong to, `CounterInv` which counters go with which step.

**`WorldAdapterProofs`.** For any number of conversions into one adapter:

* `AbortLeavesArchive`: no step of an adapter whose conversion has failed, or that
  was opened without write-back, changes the target. By `ControlInv`, close()
  packs only with the write-back flags set and the world closed; by `AbortInv`, a
  failed conversion keeps the discard mark or has no world any more.
* `ArchiveStaysWhole` and `EndOfAdapter` have the hypothesis `~FlushMayFail`. The
  constant is TRUE when the last flush of the ZIP stream may fail in its
  destructor, which create_zip does not notice: without the hypothesis they are
  false, and hazard `archive.cpp:657` says so. `ArchiveInv`: what is about to
  replace the target is packed from the present data. `NumberInv` and `StatsInv`:
  conversions are numbered without gaps, so each that wants statistics is deferred
  or reported, and reported once. `RemovalInv`: a removal that failed is remembered.
* `AdapterTypeOK`.

**`BdxStructureProofs`** is about a structure used in either way. For every set of
chunks and layers, worker count and size of the caches:

* `CacheTypeOK`, `CachesStayBounded`, `NoWriteIsLost`, of the writer by itself (`Spec`)
  and in the composed structure (`StructureSpec`). While no save has failed, a
  subchunk has one owner among the cache, the pending saves, the cold cache and the
  database (`SubChunkOwnerInv`), and every stage holds the newest contents of what it
  owns (`ValueInv`): evicting, collecting a save, spilling and loading each move one
  owner. The run checks the same two facts on its instance; the proof needs in
  addition that whatever was saved once is remembered in `flushed`, or a subchunk
  that comes back would be created empty.

For every number of threads and calls, every set of files, offsets and options and
every number of shards:

* `ShardsStayForReaders`: no request fails because its shards are gone. `SpoolInv`
  says where threads stand and what they own: one builds, one throws away
  (`MutexInv`: the flags `building` and `invalidating`, and the count of readers, are
  those of the threads), a directory has one owner (`OwnerInv`), and nobody reads
  while one is removed. It holds also when a third thread builds while an
  invalidation drains readers. That a new directory differs from all on the disk
  (`FreshIsNew`) rests on the disk being finite.
* `NoSpoolIsLeft`: `CoverInv`, that every directory is the published one or is held
  by a thread, is kept by every step but one: a waiter claims a build while a
  published directory is about to be taken over (`Claims`). The hypothesis excludes
  this step; without it the theorem is false, and hazard `bdx.cpp:946` says so.
* `TwoLeaveNoSpool` needs no such hypothesis: of two threads, one drains and the
  other is the reader it waits for, so none is left to wait for a build (`PairInv`).
* `AnswersStayExact`: `StructureInv` says that bounds, file and offset belong
  together but while a change is under way, and that a valid spool is of the current
  ones or marked `stale`; `ContentInv` what each call has in its hand, and that an
  error is one its file and its options give. The theorem has the hypothesis
  `DecodingIsExact`: read alone, each file yields what its stream means. This is
  about the fold over the commands only, with no thread in it, and would need
  induction over the stream; TLC evaluates it for the files of the run
  (`MCDecodes`).

**`CommandExportProofs`.** For every number of tasks, both writers, every option and
failure: `ExportOneReader`, `ExportContext`, `ExportWindow`, and `ExportIsTransfer`
(the safety half of the refinement of `OrderedTransfer`). `OrderInv`: what has been
taken from the structure is in the file, in a future or in the hand, in this order.
`ScopeInv`: while a task is queued or runs, the caller is inside its scope or the
pool is still to be joined, before the contexts and the temporary directory go.
`LoaderInv`, `PoolInv` and `WindowInv` relate the loader's batches, the pool and the
spill files to what was taken. `ExportWindow` states `HeldBounded` in full: that the
spill files together stay below the limit is a fold over their set, and `SumBounded`
shows that such a sum is at most the number of files times the share of each.

**`CommandReplayProofs`.** For every file, format, number of threads, span of the
broad list and size of the index:

* `ReadInOrder`: the pending pieces are the next ones of the file and what has been
  consumed is the file up to them (`PiecesInOrder`); the shares of the
  normalization tasks are disjoint and together everything, so each command is moved
  exactly once, whichever tasks have run (`MovedSoFar`).
* `IndexComplete`: a thread builds exactly while it holds the mutex, and the index
  does not change once it is ready (`MutexInv`); up to the command being indexed, each
  is in the list of every chunk it covers or in the broad list, never in both, and
  every list rises (`IndexUpTo`). A thread that sees the flag therefore sees all.
* `ReplayFaithful`: the merge loop yields exactly the elements of both lists, in
  rising order (`Position`, `Between`: what has been taken lies below what comes). So the
  last command merged over a cell is the last one of the file that covers it.
  `CallsInv` carries this from chunk to chunk of a request. The theorem has the
  hypothesis `[]NoSingleBroad`: no setblock of a TIBI file found the index full.
  Such a setblock is not clipped to the chunk being replayed, and replaying one chunk
  may then write an older block over a newer one of another (hazard
  `tibi.cpp:1003`), so without it the theorem is false. The run satisfies it, its
  index being large enough for every single block; `ReplayFaithfulUnlessTibi`
  discharges it for the two formats that clip.

**`LevelDbProofs`.** For every number of writers, readers, levels, batches, faults
and crashes: `StoreAlwaysOpens`, `NoWriterWaitsInVain`, `NoReaderLosesAFile`, from
`StoreInvariant`.

* Files: until an error, the version in memory is the one the manifest on the disk
  describes, but for one record that is written and not installed (`UseInv`). All
  tables the manifest names exist (`DiskInv`); what the background thread holds or
  is about to record is on the disk, and what it will remove is not in the
  manifest (`BgInv`). The last record of a manifest reserves a number above
  CURRENT, so a new manifest never overwrites the one CURRENT names
  (`DiskInv`, `OpeningInv`): this is what makes a crash in the middle of an opening
  harmless.
* Waiting: the queue holds each writer that called once, and only its head is not
  queued (`QueueInv`); whatever the background thread should do has a call
  scheduled, and a writer sleeps only while one is (`ScheduleInv`).
* Reading (`FilesInv`): tables of the current version and of the versions readers
  hold exist, and the list of files to remove, made under the mutex and used
  without it, names none of them. It is inductive because a version taken up later
  consists of such tables and of new ones, which were protected while they were
  written.

The assumptions are those of the modules (`PoolAssumption`, `ConversionAssumption`,
`EncoderAssumption`, `AdapterAssumption`, `BdxAssumption`, `SpoolAssumption`,
`CommandsAssumption`, `ExportAssumption`, `LevelDbAssumption`, `ReplayAssumption`):
types of the constants, positive sizes, at least one chunk and layer, finitely many
threads. TLC evaluates each in the run of its component.

What a recursive function or a fold computes needs induction, and the library's
induction theorems, which take an operator as parameter, cannot be instantiated.
Where a proof needs one it argues by the least counterexample: the numbers for which
the claim fails are a set of naturals without a least element (`NoLeast`, from
`NatLessThanWellFounded`), and so empty. `SumBounded`, `MergingDefined` and the order of the
consumed pieces are proved this way.

Model-checked only:

* Liveness: `CallsReturn`, `SubmitReturns`, and the fairness half of both
  refinements of `OrderedTransfer`. They need ENABLED of the actions, which the
  provers do not treat.
* `StoreSpec` and the contents a reader sees (the second half of
  `ReadersSeeTheirSnapshot`; `ReadersKeepTheirFiles` is the first): they compare
  the newest entry of a key across memtables and levels, before and after a
  compaction merges them.
* `DecodingIsExact` (BDX), and the properties of `StructureFiles`, `SchemWorldStream`
  and `BedrockWorld`: they compare what some thirty decoders, or a codec, compute from a file
  with a separate definition of what the file means. Each decoder would need
  induction of its own, over the library's SelectSeq and sorting operators, which the
  provers cannot expand. No module declares a RECURSIVE operator.

## 6. Not modelled

* Byte layouts: NBT, palettes as bytes, level.dat, biomes, keys of block entities,
  varints beyond their lengths, the syntax of commands, the XOR stream of IBImport.
* Callbacks that throw: on the consumer thread this ends the process, and there
  is no later state a property could speak about.
* What a power failure leaves of data the operating system has buffered: the
  crash steps kill the process, not the machine. LevelDB is opened without sync
  writes and log reuse; both, a failing log append, manual compaction, the
  slowdown of single writes, the seek that blames a file, duplicate tables after a
  failed manifest sync and repair are left out; compact pointers and the split at
  grandparents are nondeterministic choices.
* An exception out of create_zip inside the destructor, which leaves temporary
  files: `EndIsComplete` excludes it explicitly.
* Contexts that overlap in one process: the last one created owns the resolver.
* `loadSubChunks` skipping payloads it cannot decode; the operator's calls nobody
  here uses.
* Decoding, bounds queries and `save_chunk_nbt`'s payloads in the adapter.
* Command readers: the limit on blocks materialized per request,
  count_non_air_blocks, NBT commands, TIBI's skipping of air; `set_offset` is
  called when no request runs, as its callers do. The greedy merge of blocks into
  fill commands inside a task of the MCFunction writer.
* Other formats: the bytes of NBT, JSON and MessagePack, the compression and the
  cipher of FuHong V5, the text form of NBT and the payloads of entities; the
  memory budgets of the writers beyond the size of their windows; the limit of
  MianYang V4 on a dimension, which is `MaxSpan` here. The passes of CovStructure,
  TimeBuilder and QingXu are one step. A file is replaced between steps, never in
  the middle of a pass. Two threads in one structure of these formats: none of
  them is declared safe for that.
* Format registry: worlds that are directories, the capability tables, the
  wrapper that reports progress.
* BDX: Brotli, the bytes of commands and NBT, block statistics of a structure
  that is materialised in memory, the spool's own counters; a structure that was
  read for its bounds only has no entities, and AnswersAreExact says nothing
  about them.
* Schem: visit_chunk_palettes, which reads rows the way get_chunks does; what
  the tasks of a failed stripe still write.
* Archive extraction: inflating and checking the names of entries.
* The command line, bindings and tools are marshalling.

## 7. Plan

Done, in this order: the pool; the stream and its promise; the
conversion on top; the adapter; the encoder; the BDX writer; the MCWorld cache;
the command writers and readers; the key-value store and its promise; the world
database with its codec and registries; Schem; the BDX command stream and its
placement spool; the format registry and all other readers and writers; the proofs about pool,
conversion, encoder, adapter, BDX writer, BDX spool, command writers, command readers and
key-value store.

Next modules: archive extraction as a state machine; the capability
tables and the progress bridge of the C API.

Next proofs: the contents half of `ReadersSeeTheirSnapshot` in `LevelDb`, through the
order of entries of one key over the levels, then the steps of `StoreSpec`;
`SchemWorldStream`'s `NoPayloadLeftBehind`.
