------------------------- MODULE BdxPlacementSpool -------------------------
(***************************************************************************)
(* Random access to a BDX structure (src/src/formats/bdx.cpp): the stream  *)
(* cannot be decoded from its middle, so the first get_chunks() decodes it *)
(* into a directory of shards, files of placements by column of chunks,    *)
(* from which every request reads the shards it needs.                     *)
(*                                                                         *)
(* Several threads may ask at once; one builds while the others wait.      *)
(* set_offset(), set_streaming_options() and read() throw the spool away:  *)
(* they wait for a build and for readers, and another thread may come in   *)
(* between the end of that and the assignment of the new value.  A step is *)
(* one critical section of mPlacementSpoolMutex, one effect on the disk,   *)
(* or one assignment outside the mutex.  `asleep` are the threads waiting  *)
(* on mPlacementSpoolCv, which is always notified with notify_all.         *)
(***************************************************************************)
EXTENDS BdxCommands

CONSTANTS
  Threads,     \* threads of the program
  Streams,     \* command streams of files
  Layouts,     \* sets of blocks that write_bdx wrote
  Offsets,     \* arguments of set_offset
  Options,     \* arguments of set_streaming_options: [allow, limit]
  Requests,    \* sets of columns get_chunks is asked for
  ShardCount,  \* kPlacementShardCount
  MaxCalls     \* bound: calls of one behaviour

ASSUME SpoolAssumption ==
  /\ ShardCount \in Nat \ {0} /\ IsFiniteSet(Threads)
  /\ Offsets \subseteq [Axes -> Ints] /\ \A want \in Requests : want \subseteq Int \X Int
  /\ \A o \in Options : o.allow \in BOOLEAN /\ o.limit \in Nat

VARIABLES
  boundsOnly,   \* mBoundsOnly, chosen when the file is opened
  source,       \* mSourcePath: the stream in the file
  parsed,       \* mMin, mOriginalSize, mBlockEntities: what read() found
  mOffset,
  options,      \* mAllowTemporarySpool, mTemporaryFileLimitBytes (in records)
  ready, building, invalidating, readers, error, \* mPlacementSpool...
  published,    \* mPlacementSpoolDirectory, with its shards
  disk,         \* directories that exist
  th,           \* what each thread does
  asleep,       \* waiters of mPlacementSpoolCv
  answer,       \* of the last call, a get_chunks or get_chunk_nbt
  calls, alive,
  disturbed,    \* history: calls during which the structure was changed
  stale,        \* history: a spool may be of an older offset or file
  stuck         \* history: directories that could not be removed

structureVars == <<boundsOnly, source, parsed, mOffset, options>>
spoolVars == <<ready, building, invalidating, readers, error, published>>
history == <<disturbed, stale, stuck>>
readerVars == <<structureVars, spoolVars, disk, th, asleep, answer, calls, alive, history>>

\* The files there are.
Documents == Streams \cup {write_bdx(layer) : layer \in {l \in Layouts : Writable(l)}}

NoSpool == [dir |-> 0, shards |-> <<>>]
Idle == [pc |-> "idle", want |-> {}, spool |-> NoSpool, change |-> <<>>, alone |-> FALSE, reply |-> Failure]
NoAnswer == [kind |-> "none"]
Contents == [cmds \in Documents |-> [mode \in {"full", "bounds", "stream"} |-> Read(cmds, mode)]]

At(t, pc) == th[t].pc = pc
Go(t, pc) == th' = [th EXCEPT ![t].pc = pc]
Leave(t) == th' = [th EXCEPT ![t] = Idle]
NotifyAll == asleep' = {}

\* cv.wait(lock, predicate): the predicate is looked at before going to sleep and
\* after each wake-up.
Await(t, predicate) ==
  /\ t \notin asleep
  /\ predicate

Sleep(t, predicate) ==
  /\ t \notin asleep /\ ~predicate
  /\ asleep' = asleep \cup {t}
  /\ UNCHANGED <<structureVars, spoolVars, disk, th, answer, calls, alive, history>>

SpoolInit ==
  /\ boundsOnly \in BOOLEAN
  /\ source \in {d \in Documents : Read(d, IF boundsOnly THEN "bounds" ELSE "full").ok}
  /\ parsed = Contents[source][IF boundsOnly THEN "bounds" ELSE "full"]
  /\ mOffset = Origin
  /\ options \in Options
  /\ ready = FALSE /\ building = FALSE /\ invalidating = FALSE
  /\ readers = 0 /\ error = "" /\ published = NoSpool
  /\ disk = {} /\ th = [t \in Threads |-> Idle] /\ asleep = {}
  /\ answer = NoAnswer /\ calls = 0 /\ alive = TRUE
  /\ disturbed = {} /\ stale = FALSE /\ stuck = {}

-----------------------------------------------------------------------------
(* get_chunks().                                                           *)

Begin(t, record) ==
  /\ alive /\ At(t, "idle") /\ calls < MaxCalls /\ \A u \in Threads : ~th[u].alone
  /\ calls' = calls + 1 /\ answer' = NoAnswer
  /\ th' = [th EXCEPT ![t] = record]

Answer(t, reply) ==
  answer' = [kind |-> "chunks", reply |-> reply, want |-> th[t].want,
             exact |-> parsed.ok /\ t \notin disturbed /\ ~stale]

Ask(t) ==
  /\ \E want \in Requests :
       Begin(t, [Idle EXCEPT !.pc = IF options.allow THEN "ensure" ELSE "stream", !.want = want])
  /\ disturbed' = disturbed \ {t}
  /\ UNCHANGED <<structureVars, spoolVars, disk, asleep, alive, stale, stuck>>

\* Without a spool the stream is decoded for this one request.
Stream(t) ==
  /\ At(t, "stream")
  /\ LET decoded == Contents[source]["stream"]
     IN  Answer(t, IF ~decoded.ok THEN [ok |-> FALSE, reason |-> "decode"]
                   ELSE [ok |-> TRUE, blocks |->
                          Replayed(Normalized(decoded.placed, parsed.min, parsed.dim, mOffset), th[t].want)])
  /\ Leave(t)
  /\ UNCHANGED <<structureVars, spoolVars, disk, asleep, calls, alive, history>>

\* ensure_placement_spool(): a spool that is ready is used, one that is being
\* built waited for; otherwise this thread builds it.
Ensure(t) ==
  /\ At(t, "ensure") /\ options.allow
  /\ \/ Sleep(t, ~invalidating)
     \/ /\ Await(t, ~invalidating)
        /\ IF ready THEN Go(t, "acquire") /\ UNCHANGED <<building, error, asleep>>
           ELSE IF building
           THEN Go(t, "waitBuild") /\ asleep' = asleep \cup {t} /\ UNCHANGED <<building, error>>
           ELSE Go(t, "create") /\ building' = TRUE /\ error' = "" /\ UNCHANGED asleep
        /\ UNCHANGED <<structureVars, ready, invalidating, readers, published, disk,
                       answer, calls, alive, history>>

\* The options changed meanwhile.
EnsureRefused(t) ==
  /\ At(t, "ensure") /\ ~options.allow
  /\ Answer(t, [ok |-> FALSE, reason |-> "refused"])
  /\ Leave(t)
  /\ UNCHANGED <<structureVars, spoolVars, disk, asleep, calls, alive, history>>

BuildOver == ~building \/ ready

WaitForBuild(t) ==
  /\ At(t, "waitBuild")
  /\ \/ Sleep(t, BuildOver)
     \/ /\ Await(t, BuildOver)
        /\ IF ready THEN Go(t, "acquire") /\ UNCHANGED <<building, error, answer>>
           ELSE IF error # ""
           THEN Answer(t, [ok |-> FALSE, reason |-> error]) /\ Leave(t) /\ UNCHANGED <<building, error>>
           ELSE Go(t, "create") /\ building' = TRUE /\ error' = "" /\ UNCHANGED answer
        /\ UNCHANGED <<structureVars, ready, invalidating, readers, published, disk, asleep,
                       calls, alive, history>>

\* make_bdx_spool_directory(): a name nobody else uses.
Fresh == Max({0} \cup disk \cup {th[t].spool.dir : t \in Threads}) + 1

CreateDirectory(t) ==
  /\ At(t, "create")
  /\ \/ /\ disk' = disk \cup {Fresh}
        /\ th' = [th EXCEPT ![t].pc = "append", ![t].spool.dir = Fresh]
     \/ /\ th' = [th EXCEPT ![t].pc = "failed", ![t].reply = [ok |-> FALSE, reason |-> "fault"]]
        /\ UNCHANGED disk
  /\ UNCHANGED <<structureVars, spoolVars, asleep, answer, calls, alive, history>>

\* placement_shard(): some mixture of a column's coordinates.
placement_shard(column) == (5 * column[1] + 3 * column[2]) % ShardCount

\* Each shard holds its records in the order, and here under the numbers, of the stream.
Sharded(records) ==
  [k \in 0 .. ShardCount - 1 |->
    [i \in {j \in DOMAIN records : placement_shard(Column(records[j][1])) = k} |-> records[i]]]

\* The stream is decoded and each placement appended to its shard; the number of
\* records is limited, and any write may fail.
AppendPlacements(t) ==
  /\ At(t, "append")
  /\ LET decoded == Contents[source]["stream"]
         records == IF decoded.ok THEN Normalized(decoded.placed, parsed.min, parsed.dim, mOffset) ELSE <<>>
         reason == IF decoded.ok THEN "limit" ELSE "decode"
     IN  \/ /\ decoded.ok /\ (options.limit = 0 \/ Cardinality(DOMAIN records) <= options.limit)
            /\ th' = [th EXCEPT ![t].pc = "publish", ![t].spool.shards = Sharded(records)]
         \/ /\ ~decoded.ok \/ (options.limit # 0 /\ Cardinality(DOMAIN records) > options.limit)
            /\ th' = [th EXCEPT ![t].pc = "failed", ![t].reply = [ok |-> FALSE, reason |-> reason]]
         \/ th' = [th EXCEPT ![t].pc = "failed", ![t].reply = [ok |-> FALSE, reason |-> "fault"]]
  /\ UNCHANGED <<structureVars, spoolVars, disk, asleep, answer, calls, alive, history>>

Publish(t) ==
  /\ At(t, "publish")
  /\ published' = th[t].spool /\ ready' = TRUE /\ building' = FALSE /\ error' = ""
  /\ NotifyAll
  /\ th' = [th EXCEPT ![t].pc = "acquire", ![t].spool = NoSpool]
  /\ UNCHANGED <<structureVars, invalidating, readers, disk, answer, calls, alive, history>>

\* Mutant: the waiting threads are not woken.
BuildFailedQuietly(t) ==
  /\ At(t, "failed")
  /\ published' = NoSpool /\ ready' = FALSE /\ building' = FALSE /\ error' = th[t].reply.reason
  /\ Go(t, "discard")
  /\ UNCHANGED <<structureVars, invalidating, readers, disk, asleep, answer, calls, alive, history>>

\* The failure is published before the directory is removed.
BuildFailed(t) ==
  /\ At(t, "failed")
  /\ published' = NoSpool /\ ready' = FALSE /\ building' = FALSE /\ error' = th[t].reply.reason
  /\ NotifyAll
  /\ Go(t, "discard")
  /\ UNCHANGED <<structureVars, invalidating, readers, disk, answer, calls, alive, history>>

\* remove_all(), which may fail.
Removed(dir) ==
  \/ disk' = disk \ {dir} /\ UNCHANGED stuck
  \/ dir \in disk /\ stuck' = stuck \cup {dir} /\ UNCHANGED disk

\* Mutant: what a failed build has written stays.
DiscardNothing(t) ==
  /\ At(t, "discard")
  /\ Answer(t, th[t].reply)
  /\ Leave(t)
  /\ UNCHANGED <<structureVars, spoolVars, disk, asleep, calls, alive, history>>

Discard(t) ==
  /\ At(t, "discard")
  /\ Removed(th[t].spool.dir)
  /\ Answer(t, th[t].reply)
  /\ Leave(t)
  /\ UNCHANGED <<structureVars, spoolVars, asleep, calls, alive, disturbed, stale>>

\* The spool may have been thrown away since.
Usable == ~invalidating /\ ready

AcquireReader(t) ==
  /\ At(t, "acquire")
  /\ IF Usable
     THEN /\ readers' = readers + 1
          /\ th' = [th EXCEPT ![t].pc = "read", ![t].spool = published]
     ELSE Go(t, "ensure") /\ UNCHANGED readers
  /\ UNCHANGED <<structureVars, ready, building, invalidating, error, published, disk, asleep,
                 answer, calls, alive, history>>

\* The shards of the columns asked for are replayed, one after the other; their
\* records have to lie within the structure.
ReadShards(t) ==
  /\ At(t, "read")
  /\ LET shards == {th[t].spool.shards[placement_shard(c)] : c \in th[t].want}
         stored == \E records \in shards : DOMAIN records # {}
         outside == \E records \in shards : \E i \in DOMAIN records : ~InExtent(records[i][1], mOffset, parsed.dim)
     IN  th' = [th EXCEPT ![t].pc = "release", ![t].spool = NoSpool, ![t].reply =
                  IF stored /\ th[t].spool.dir \notin disk THEN [ok |-> FALSE, reason |-> "gone"]
                  ELSE IF outside THEN [ok |-> FALSE, reason |-> "outside"]
                  ELSE [ok |-> TRUE, blocks |-> UNION {Replayed(records, th[t].want) : records \in shards}]]
  /\ UNCHANGED <<structureVars, spoolVars, disk, asleep, answer, calls, alive, history>>

Release(t) ==
  /\ At(t, "release")
  /\ readers' = readers - 1
  /\ NotifyAll
  /\ Answer(t, th[t].reply)
  /\ Leave(t)
  /\ UNCHANGED <<structureVars, ready, building, invalidating, error, published, disk,
                 calls, alive, history>>

\* get_chunk_nbt(): the entities of the first read, from y = 0 upwards.
EntitiesFound(read, offset, want) ==
  LET moved == {[cell |-> [a \in Axes |-> e.cell[a] + offset[a]], id |-> e.id] : e \in read.entities}
      top == read.dim[2] + Greatest(offset[2], -offset[2])
  IN  {e \in moved : e.cell[2] \in 0 .. top - 1 /\ Column(e.cell) \in want}

AskEntities(t) ==
  /\ alive /\ At(t, "idle") /\ calls < MaxCalls /\ \A u \in Threads : ~th[u].alone
  /\ calls' = calls + 1
  /\ \E want \in Requests :
       answer' = [kind |-> "entities", found |-> EntitiesFound(parsed, mOffset, want), want |-> want]
  /\ UNCHANGED <<structureVars, spoolVars, disk, th, asleep, alive, history>>

-----------------------------------------------------------------------------
(* set_offset(), set_streaming_options() and a second read().  A read whose *)
(* file is bad leaves the new path with the old bounds.                    *)

Others(t) == {u \in Threads \ {t} : th[u].pc # "idle"}

SetOffset(t) ==
  /\ \E o \in Offsets : Begin(t, [Idle EXCEPT !.pc = "invalidate", !.change = <<"offset", o>>])
  /\ UNCHANGED <<structureVars, spoolVars, disk, asleep, alive, history>>

SetOptions(t) ==
  /\ \E o \in Options : Begin(t, [Idle EXCEPT !.pc = "invalidate", !.change = <<"options", o>>])
  /\ UNCHANGED <<structureVars, spoolVars, disk, asleep, alive, history>>

\* read() replaces everything other calls look at and is not called during one.
ReadAgain(t) ==
  /\ Others(t) = {}
  /\ \E d \in Documents : Begin(t, [Idle EXCEPT !.pc = "invalidate", !.change = <<"read", d>>, !.alone = TRUE])
  /\ UNCHANGED <<structureVars, spoolVars, disk, asleep, alive, history>>

\* The directory is taken over once nobody builds or reads it.
TakeOver(t) ==
  /\ ready' = FALSE /\ error' = "" /\ published' = NoSpool
  /\ th' = [th EXCEPT ![t].pc = "remove", ![t].spool = published]
  /\ stale' = FALSE

\* Mutant: the readers are not waited for.
DrainedOfBuilders == ~building

Drained == ~building /\ readers = 0

BeginInvalidation(t) ==
  /\ At(t, "invalidate")
  /\ \/ Sleep(t, ~invalidating)
     \/ /\ Await(t, ~invalidating)
        /\ invalidating' = TRUE
        /\ IF Drained THEN TakeOver(t) /\ UNCHANGED asleep
           ELSE /\ ready' = FALSE
                /\ Go(t, "drain") /\ asleep' = asleep \cup {t}
                /\ UNCHANGED <<error, published, stale>>
        /\ UNCHANGED <<structureVars, building, readers, disk, answer, calls, alive, disturbed, stuck>>

Drain(t) ==
  /\ At(t, "drain")
  /\ \/ Sleep(t, Drained)
     \/ /\ Await(t, Drained)
        /\ TakeOver(t)
        /\ UNCHANGED <<structureVars, building, invalidating, readers, disk, asleep,
                       answer, calls, alive, disturbed, stuck>>

RemoveSpool(t) ==
  /\ At(t, "remove")
  /\ Removed(th[t].spool.dir)
  /\ th' = [th EXCEPT ![t].pc = "reopen", ![t].spool = NoSpool]
  /\ UNCHANGED <<structureVars, spoolVars, asleep, answer, calls, alive, disturbed, stale>>

Reopen(t) ==
  /\ At(t, "reopen")
  /\ invalidating' = FALSE
  /\ NotifyAll
  /\ Go(t, "assign")
  /\ UNCHANGED <<structureVars, ready, building, readers, error, published, disk,
                 answer, calls, alive, history>>

\* The calls in progress may have used old and new values; a spool that was built
\* since the drain is of the old ones.
Disturb(t) ==
  /\ disturbed' = disturbed \cup Others(t)
  /\ stale' = (stale \/ ready \/ building)

AssignOffset(t) ==
  /\ At(t, "assign") /\ th[t].change[1] = "offset"
  /\ mOffset' = th[t].change[2]
  /\ Disturb(t)
  /\ Leave(t)
  /\ answer' = NoAnswer
  /\ UNCHANGED <<boundsOnly, source, parsed, options, spoolVars, disk, asleep, calls, alive, stuck>>

AssignOptions(t) ==
  /\ At(t, "assign") /\ th[t].change[1] = "options"
  /\ options' = th[t].change[2]
  /\ Disturb(t)
  /\ Leave(t)
  /\ answer' = NoAnswer
  /\ UNCHANGED <<boundsOnly, source, parsed, mOffset, spoolVars, disk, asleep, calls, alive, stuck>>

\* A file that can be read ends with set_offset({}).
ReadFile(t) ==
  /\ At(t, "assign") /\ th[t].change[1] = "read"
  /\ source' = th[t].change[2]
  /\ LET found == Contents[source'][IF boundsOnly THEN "bounds" ELSE "full"]
     IN  IF found.ok
         THEN /\ parsed' = found
              /\ th' = [th EXCEPT ![t] = [Idle EXCEPT !.pc = "invalidate", !.change = <<"offset", Origin>>, !.alone = TRUE]]
         ELSE parsed' = [parsed EXCEPT !.ok = FALSE, !.entities = {}, !.count = 0] /\ Leave(t)
  /\ answer' = NoAnswer
  /\ UNCHANGED <<boundsOnly, mOffset, options, spoolVars, disk, asleep, calls, alive, history>>

\* ~BdxStructure(), when no call is in progress.
Destroy ==
  /\ alive /\ \A t \in Threads : At(t, "idle")
  /\ alive' = FALSE
  /\ ready' = FALSE /\ error' = "" /\ published' = NoSpool
  /\ Removed(published.dir)
  /\ UNCHANGED <<structureVars, building, invalidating, readers, th, asleep, answer, calls, disturbed, stale>>

Getter(t) ==
  \/ Stream(t) \/ Ensure(t) \/ EnsureRefused(t) \/ WaitForBuild(t)
  \/ CreateDirectory(t) \/ AppendPlacements(t) \/ Publish(t) \/ BuildFailed(t) \/ Discard(t)
  \/ AcquireReader(t) \/ ReadShards(t) \/ Release(t)

Mutator(t) ==
  \/ BeginInvalidation(t) \/ Drain(t) \/ RemoveSpool(t) \/ Reopen(t)
  \/ AssignOffset(t) \/ AssignOptions(t) \/ ReadFile(t)

Working(t) == Getter(t) \/ Mutator(t)
Calling(t) == Ask(t) \/ AskEntities(t) \/ SetOffset(t) \/ SetOptions(t) \/ ReadAgain(t)

SpoolNext == Destroy \/ \E t \in Threads : Calling(t) \/ Working(t)

-----------------------------------------------------------------------------
(* What a command stream means, from its commands alone.                   *)

EndOf(cmds) == Min({i \in DOMAIN cmds : cmds[i].op = "end"})
Before(cmds, i, op) == SelectSeq(SubSeq(cmds, 1, i - 1), LAMBDA c : c.op = op)
CursorAt(cmds, i) ==
  [a \in Axes |-> MapThenSumSet(LAMBDA j : Step(cmds[j]),
                    {j \in 1 .. i - 1 : cmds[j].op = "move" /\ cmds[j].axis = a})]
LowCorner(cmds) == [a \in Axes |-> Min({CursorAt(cmds, i)[a] : i \in 1 .. EndOf(cmds)})]
PoolAt(cmds, i) == LET set == Before(cmds, i, "setPool") IN IF set = <<>> THEN 0 ELSE Last(set).pool

BlockCommands == {"state", "literal", "legacy", "pool", "command"}
BlockAt(cmds, i) ==
  LET c == cmds[i]
      named(n) == Before(cmds, i, "constant")[n + 1].value
  IN  CASE c.op = "state" -> Resolve("state", named(c.name), named(c.states))
        [] c.op = "literal" -> Resolve("state", named(c.name), c.states)
        [] c.op = "legacy" -> Resolve("legacy", named(c.name), c.data)
        [] c.op = "pool" -> <<"pool", PoolAt(cmds, i), c.index>>
        [] c.op = "command" -> <<"command", c.mode, c.data>>

Touching(cmds, cell, ops) ==
  {i \in 1 .. EndOf(cmds) - 1 : cmds[i].op \in ops /\ CursorAt(cmds, i) = cell}
Cells(cmds) == {CursorAt(cmds, i) : i \in 1 .. EndOf(cmds)}
From(cell, low, offset) == [a \in Axes |-> cell[a] - low[a] + offset[a]]

\* The last block command of a cell gives its block, the last command that
\* concerns it its entity.
Blocks(cmds, offset) ==
  LET low == LowCorner(cmds)
      built == {cell \in Cells(cmds) : Touching(cmds, cell, BlockCommands) # {}}
      block(cell) == BlockAt(cmds, Max(Touching(cmds, cell, BlockCommands)))
  IN  {<<From(cell, low, offset), block(cell)>> : cell \in {c \in built : block(c) # Air}}

Entities(cmds, offset) ==
  LET low == LowCorner(cmds)
      of(cell) == Touching(cmds, cell, BlockCommands \cup {"entity"})
      bears(c) == \/ c.op \in {"entity", "command"}
                  \/ c.op \in {"state", "legacy", "pool"} /\ c.nbt
  IN  {From(cell, low, offset) : cell \in {c \in Cells(cmds) : of(c) # {} /\ bears(cmds[Max(of(c))])}}

WellFormed(cmds) ==
  /\ \E i \in DOMAIN cmds : cmds[i].op = "end"
  /\ Len(Before(cmds, EndOf(cmds), "constant")) <= MaxConstants
  /\ \A i \in 1 .. EndOf(cmds) :
       /\ cmds[i].op \in BlockCommands \cup {"constant", "setPool", "entity", "move", "skip", "end"}
       /\ \A a \in Axes : CursorAt(cmds, i)[a] \in Ints
       /\ cmds[i].op = "pool" => cmds[i].index < PoolSize(PoolAt(cmds, i))
       /\ cmds[i].op = "command" => cmds[i].mode <= 2

-----------------------------------------------------------------------------
(* Properties.                                                             *)

InColumns(S, want) == {e \in S : Column(e[1]) \in want}

\* Whatever the other threads do, a request that the structure was not changed
\* under returns exactly the blocks the stream means, moved by the offset; it
\* fails only when the stream is malformed, the spool outgrows its limit, its
\* own thread or the one it waited for meets a fault.  A layer that write_bdx
\* wrote comes back as it was.
AnswersAreExact ==
  /\ answer.kind = "chunks" /\ answer.exact =>
       IF answer.reply.ok
       THEN /\ WellFormed(source)
            /\ answer.reply.blocks = InColumns(Blocks(source, mOffset), answer.want)
            /\ \A layer \in Layouts : source = write_bdx(layer) =>
                 answer.reply.blocks = InColumns({<<From(b[1], Origin, mOffset), b[2]>> : b \in layer}, answer.want)
       ELSE \/ answer.reply.reason = "fault"
            \/ answer.reply.reason = "limit" /\ options.limit > 0
            \/ answer.reply.reason = "decode" /\ ~WellFormed(source)
  /\ answer.kind = "entities" /\ ~boundsOnly /\ parsed.ok =>
       {e.cell : e \in answer.found}
         = {c \in Entities(source, mOffset) : c[2] >= 0 /\ Column(c) \in answer.want}

\* What the answers take from the decoder: for every file that the first read
\* accepts, as a whole or for its bounds only, the placements of a later decoding
\* are the blocks the stream means and the entities are those it means; the
\* later decoding fails only on a malformed stream.
DecodingIsExact ==
  \A d \in Documents, mode \in {"full", "bounds"}, o \in Offsets \cup {Origin}, want \in Requests :
    LET first == Contents[d][mode]
        later == Contents[d]["stream"]
        found == EntitiesFound(first, o, want)
    IN  first.ok =>
          /\ first.dim \in [Axes -> Int]
          /\ mode = "full" => {e.cell : e \in found} = {c \in Entities(d, o) : c[2] >= 0 /\ Column(c) \in want}
          /\ later.ok => /\ WellFormed(d)
                         /\ Replayed(Normalized(later.placed, first.min, first.dim, o), want)
                              = InColumns(Blocks(d, o), want)
          /\ ~later.ok => ~WellFormed(d)
          /\ \A layer \in Layouts : d = write_bdx(layer) /\ later.ok =>
               InColumns(Blocks(d, o), want) = InColumns({<<From(b[1], Origin, o), b[2]>> : b \in layer}, want)

\* A directory of shards belongs to a thread that is building or removing it or
\* is the published one; none outlives the structure, whatever failed, except
\* one that could not be removed.
NoSpoolLeftBehind ==
  /\ disk \ stuck \subseteq {published.dir} \cup {th[t].spool.dir : t \in Threads}
  /\ ~alive => disk \subseteq stuck
=============================================================================
