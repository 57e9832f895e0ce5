-------------------------- MODULE SchemWorldStream --------------------------
(***************************************************************************)
(* SchemStructure::write_to_world (src/src/formats/schem.cpp).             *)
(*                                                                         *)
(* A structure without an offset and with a palette of 16-bit indices is   *)
(* streamed: the caller decodes a slab of Edge layers, notes which columns *)
(* of chunks have blocks, and goes through the slab stripe by stripe, one  *)
(* line of chunks along x at a time.  For each column that has blocks a    *)
(* task of a pool builds the subchunk; the caller collects the tasks in    *)
(* order and saves the stripe.                                             *)
(*                                                                         *)
(* Any other structure goes through the chunks of get_chunks(); one whose  *)
(* BlockData was deferred is first copied, checked and indexed.            *)
(*                                                                         *)
(* Scope: the world target is a set of blocks, saving either stores the    *)
(* stripe or fails; what convert_to_world does with the chunks is the      *)
(* subject of WorldConversion.  Memory and temporary-file budgets are      *)
(* counted in values.                                                      *)
(***************************************************************************)
EXTENDS SchemStructure, SequencesExt

CONSTANTS
  Workers,     \* threads of the pool
  Offsets,     \* arguments of set_offset
  StartPoints, \* arguments of write_to_world: <<x, subchunk y, z>>
  TopSubY,     \* highest subchunk of the Overworld, 19
  Budget,      \* values of a slab that fit into soft_memory_budget_bytes
  SpoolLimits, \* temporary_file_limit_bytes, 0 for none
  Requests,    \* sets of chunks get_chunks is asked for
  MaxCalls     \* bound: calls of one behaviour

VARIABLES
  stage,    \* of write_to_world: "idle", "convert", "decode", "stripe", "leaving"
  pass,     \* the stream being read and how far, the slab, the stripe
  slab,     \* palette indices, kept from slab to slab
  populated,\* chunk_row_non_air: columns of chunks that have blocks
  todo,     \* columns of the stripe that have no task yet
  queue,    \* of the pool
  busy,     \* column a worker builds
  built,    \* tasks that ended: column -> Success(blocks) or Fail
  world, progress, outcome, \* of the last write_to_world
  calls

structureVars == <<file, tempFile, schem, answer>>
stripeVars == <<todo, queue, busy, built>>
worldVars == <<world, progress, outcome>>
vars == <<structureVars, stage, pass, slab, populated, stripeVars, worldVars, calls>>

Nothing == -1
NoPass == [y |-> 0]
NoTasks == [x \in {} |-> Fail]

Init ==
  /\ StructureInit
  /\ stage = "idle" /\ pass = NoPass /\ slab = <<>> /\ populated = {}
  /\ todo = <<>> /\ queue = <<>> /\ busy = [k \in Workers |-> Nothing] /\ built = NoTasks
  /\ world = {} /\ progress = 0 /\ outcome = NoAnswer /\ calls = 0

----------------------------------------------------------------------------
(* Calls that do not write. *)
Calls(A) ==
  /\ stage = "idle" /\ calls < MaxCalls
  /\ A
  /\ calls' = calls + 1
  /\ outcome' = NoAnswer /\ world' = {} /\ progress' = 0
  /\ UNCHANGED <<stage, pass, slab, populated, stripeVars>>

CallRead == \E mode \in Modes : Calls(Read(mode))
CallSetOffset == \E o \in Offsets : Calls(SetOffset(o))
CallGetChunks == \E p \in Requests : Calls(GetChunks(p))
CallCount == Calls(CountNonAirBlocks)
CallDestroy == Calls(Destroy)
FileReplaced == \E d \in Documents \cup {Gone} : Calls(Replace(d))

----------------------------------------------------------------------------
(* The fallback: BlockData is copied from the file, each index in as few   *)
(* bytes as it needs, checked and indexed on the way.                      *)
NeedsSpool(m) == m.deferred /\ m.max > MaxU16
Streamed(m) == m.offset = <<0, 0, 0>> /\ m.max <= MaxU16

FitsSpool(s, limit) == limit = 0 \/ Size(Canonical(s)) <= limit

Spooled(m, limit) ==
  /\ Reopens(m)
  /\ Whole(file.stream, Volume(m.doc), m.max)
  /\ FitsSpool(file.stream, limit)

\* A structure with too many rows fails after the file was created.  What a copy
\* that fails leaves of an index is not read: there is no file to go with it.
SpoolBlockData ==
  /\ stage = "idle" /\ calls < MaxCalls /\ schem # Absent /\ NeedsSpool(schem)
  /\ \E limit \in SpoolLimits, allowed \in BOOLEAN, start \in StartPoints :
       IF allowed /\ Rows(schem.doc) <= MaxRows /\ Spooled(schem, limit)
       THEN /\ tempFile' = [tempFile EXCEPT !["spool"] = Canonical(file.stream)]
            /\ schem' = [schem EXCEPT !.bytes = Size(Canonical(file.stream)), !.path = "spool",
                                      !.deferred = FALSE, !.index = Index(schem.doc, Canonical(file.stream))]
            /\ stage' = "convert" /\ pass' = [start |-> start, y |-> 0]
            /\ outcome' = NoAnswer
       ELSE /\ tempFile' = IF allowed /\ Rows(schem.doc) > MaxRows
                           THEN [tempFile EXCEPT !["spool"] = [vals |-> <<>>, pad |-> 0]] ELSE tempFile
            /\ outcome' = [call |-> "write", result |-> Fail]
            /\ UNCHANGED <<schem, stage, pass>>
  /\ world' = {} /\ progress' = 0 /\ answer' = NoAnswer /\ calls' = calls + 1
  /\ UNCHANGED <<file, slab, populated, stripeVars>>

\* Where get_chunks() puts a block, and where it goes in the world.
Moved(c, start) ==
  [c EXCEPT !.chunk = <<@[1] + start[1], @[2] + start[3]>>, !.sub = @ - BaseSubY + start[2]]

ChunkCount(extent, offset) == (extent + (IF offset < 0 THEN -offset ELSE offset) + Edge - 1) \div Edge
XCount(m) == ChunkCount(m.doc.w, m.offset[1])
ZCount(m) == ChunkCount(m.doc.l, m.offset[3])

Lines(m) ==
  {GetChunksResult(m, tempFile[m.path], {<<x, z>> : x \in 0 .. XCount(m) - 1}) : z \in 0 .. ZCount(m) - 1}

\* convert_to_world, a line of chunks at a time.
Convert(start) ==
  LET failed == \/ schem.path = "none"
                \/ \E r \in Lines(schem) : ~ r.ok \/ \E c \in r.value : Moved(c, start).sub \notin BaseSubY .. TopSubY
  IN  /\ world' = IF failed THEN {} ELSE {Moved(c, start) : c \in UNION {r.value : r \in Lines(schem)}}
      /\ outcome' = [call |-> "write", result |-> IF failed THEN Fail ELSE Success("converted")]
      /\ progress' = IF failed THEN 0 ELSE XCount(schem) * ZCount(schem)
      /\ stage' = "idle" /\ pass' = NoPass
      /\ answer' = NoAnswer
      /\ UNCHANGED <<file, tempFile, schem, slab, populated, stripeVars>>

ConvertSpooled == stage = "convert" /\ Convert(pass.start) /\ UNCHANGED calls

ConvertChunks ==
  /\ stage = "idle" /\ calls < MaxCalls /\ schem # Absent
  /\ ~ NeedsSpool(schem) /\ ~ Streamed(schem)
  /\ \E start \in StartPoints : Convert(start)
  /\ calls' = calls + 1

----------------------------------------------------------------------------
(* The stream. *)
PoolSize(m) == Least(Cardinality(Workers), XCount(m))
Plane(m) == m.doc.w * m.doc.l
Layers(m, y) == Least(Edge, m.doc.h - y)

BeginStream ==
  /\ stage = "idle" /\ calls < MaxCalls /\ schem # Absent
  /\ ~ NeedsSpool(schem) /\ Streamed(schem)
  /\ calls' = calls + 1
  /\ world' = {} /\ progress' = 0 /\ answer' = NoAnswer
  /\ IF (schem.deferred => Reopens(schem)) /\ Plane(schem) * Edge <= Budget
     THEN /\ stage' = "decode"
          /\ \E start \in StartPoints :
               pass' = [start |-> start, y |-> 0, z |-> 0, position |-> 0,
                        stream |-> IF schem.deferred THEN file.stream ELSE tempFile[schem.path]]
          /\ slab' = [i \in 0 .. Plane(schem) * Edge - 1 |-> 0]
          /\ outcome' = NoAnswer
     ELSE /\ outcome' = [call |-> "write", result |-> Fail]
          /\ UNCHANGED <<stage, pass, slab>>
  /\ UNCHANGED <<file, tempFile, schem, populated, stripeVars>>

Leave(result) ==
  /\ stage' = "leaving"
  /\ outcome' = [call |-> "write", result |-> result]

ColumnRange(m, x) == x * Edge .. Least(m.doc.w, x * Edge + Edge) - 1
LineRange(m, z) == z * Edge .. Least(m.doc.l, z * Edge + Edge) - 1
ValueAt(s, m, y, z, x) == s[y * Plane(m) + z * m.doc.w + x]
IsSolid(m, v) == RuntimeId(m, v) # Air

HasBlocks(m, s, layers, x, z) ==
  \E ly \in 0 .. layers - 1, sz \in LineRange(m, z), sx \in ColumnRange(m, x) :
    IsSolid(m, ValueAt(s, m, ly, sz, sx))

\* The scan starts the flags anew for each line; those of the last line stay.
Flags(m, s, layers) ==
  {x \in 0 .. XCount(m) - 1 : HasBlocks(m, s, layers, x, ZCount(m) - 1)}

DecodeSlab ==
  /\ stage = "decode" /\ pass.y < schem.doc.h
  /\ LET layers == Layers(schem, pass.y)
         count == Plane(schem) * layers
         readable == /\ pass.position + count <= Len(pass.stream.vals)
                     /\ \A i \in 1 .. count : pass.stream.vals[pass.position + i] <= schem.max
         decoded == [i \in DOMAIN slab |-> IF i < count THEN pass.stream.vals[pass.position + i + 1] ELSE slab[i]]
     IN  IF readable /\ pass.start[2] + pass.y \div Edge \in BaseSubY .. TopSubY
         THEN /\ slab' = decoded
              /\ populated' = Flags(schem, decoded, layers)
              /\ todo' = SetToSortSeq(populated', <)
              /\ pass' = [pass EXCEPT !.position = @ + count, !.z = 0]
              /\ stage' = "stripe" /\ UNCHANGED outcome
         ELSE Leave(Fail) /\ UNCHANGED <<slab, populated, todo, pass>>
  /\ UNCHANGED <<structureVars, queue, busy, built, world, progress, calls>>

\* submit() waits for room in the queue.
SubmitTask ==
  /\ stage = "stripe" /\ todo # <<>>
  /\ Len(queue) < 2 * PoolSize(schem)
  /\ queue' = Append(queue, Head(todo))
  /\ todo' = Tail(todo)
  /\ UNCHANGED <<structureVars, stage, pass, slab, populated, busy, built, worldVars, calls>>

TakeTask(k) ==
  /\ busy[k] = Nothing /\ queue # <<>>
  /\ Cardinality({j \in Workers : busy[j] # Nothing}) < PoolSize(schem)
  /\ busy' = [busy EXCEPT ![k] = Head(queue)]
  /\ queue' = Tail(queue)
  /\ UNCHANGED <<structureVars, stage, pass, slab, populated, todo, built, worldVars, calls>>

\* Mutant: all layers of the slab, those of an earlier slab too.
MaterializedStale(x) ==
  {c \in {[chunk |-> <<x + pass.start[1], pass.z + pass.start[3]>>, sub |-> pass.start[2] + pass.y \div Edge,
           at |-> <<sx - x * Edge, ly, sz - pass.z * Edge>>, runtime |-> RuntimeId(schem, ValueAt(slab, schem, ly, sz, sx))] :
            ly \in 0 .. Edge - 1, sz \in LineRange(schem, pass.z), sx \in ColumnRange(schem, x)} :
     c.runtime # Air}

\* The subchunk of column x of the current stripe.
Materialized(x) ==
  {c \in {[chunk |-> <<x + pass.start[1], pass.z + pass.start[3]>>, sub |-> pass.start[2] + pass.y \div Edge,
           at |-> <<sx - x * Edge, ly, sz - pass.z * Edge>>, runtime |-> RuntimeId(schem, ValueAt(slab, schem, ly, sz, sx))] :
            ly \in 0 .. Layers(schem, pass.y) - 1, sz \in LineRange(schem, pass.z), sx \in ColumnRange(schem, x)} :
     c.runtime # Air}

\* A task may run out of memory.  After the caller has left the stripe, the
\* place for the subchunk is gone; what such a write destroys is not modelled.
FinishTask(k) ==
  /\ busy[k] # Nothing
  /\ busy' = [busy EXCEPT ![k] = Nothing]
  /\ IF stage = "leaving" THEN UNCHANGED built
     ELSE \E result \in {Success(Materialized(busy[k])), Fail} : built' = built @@ (busy[k] :> result)
  /\ UNCHANGED <<structureVars, stage, pass, slab, populated, todo, queue, worldVars, calls>>

\* Mutant: only the first task is asked for its result.
CollectFirstFails ==
  /\ stage = "stripe" /\ todo = <<>>
  /\ \E x \in DOMAIN built : ~ built[x].ok /\ \A o \in populated : x <= o
  /\ Leave(Fail)
  /\ UNCHANGED <<structureVars, pass, slab, populated, stripeVars, world, progress, calls>>

\* The tasks are collected in order; the first that failed ends the call.
CollectFails ==
  /\ stage = "stripe" /\ todo = <<>>
  /\ \E x \in DOMAIN built : ~ built[x].ok /\ \A o \in populated : o < x => o \in DOMAIN built /\ built[o].ok
  /\ Leave(Fail)
  /\ UNCHANGED <<structureVars, pass, slab, populated, stripeVars, world, progress, calls>>

Collected == todo = <<>> /\ DOMAIN built = populated /\ \A x \in populated : built[x].ok

SaveFails ==
  /\ stage = "stripe" /\ Collected
  /\ Leave(Fail)
  /\ UNCHANGED <<structureVars, pass, slab, populated, stripeVars, world, progress, calls>>

LastStripe(m) == pass.z = ZCount(m) - 1

SaveStripe ==
  /\ stage = "stripe" /\ Collected
  /\ world' = world \cup UNION {built[x].value : x \in populated}
  /\ progress' = progress + (IF pass.y + Layers(schem, pass.y) = schem.doc.h THEN XCount(schem) ELSE 0)
  /\ built' = NoTasks
  /\ IF LastStripe(schem)
     THEN /\ pass' = [pass EXCEPT !.y = @ + Edge]
          /\ stage' = "decode" /\ UNCHANGED todo
     ELSE /\ pass' = [pass EXCEPT !.z = @ + 1]
          /\ todo' = SetToSortSeq(populated, <) /\ UNCHANGED stage
  /\ UNCHANGED <<structureVars, slab, populated, queue, busy, outcome, calls>>

\* Extra indices were not seen by read() when it deferred BlockData.
EndStream ==
  /\ stage = "decode" /\ pass.y >= schem.doc.h
  /\ Leave(IF pass.position = Len(pass.stream.vals) THEN Success("streamed") ELSE Fail)
  /\ UNCHANGED <<structureVars, pass, slab, populated, stripeVars, world, progress, calls>>

\* The destructor of the pool runs what is queued and joins.
ReturnFromStream ==
  /\ stage = "leaving" /\ queue = <<>> /\ \A k \in Workers : busy[k] = Nothing
  /\ stage' = "idle" /\ pass' = NoPass /\ slab' = <<>> /\ populated' = {}
  /\ todo' = <<>> /\ built' = NoTasks
  /\ UNCHANGED <<structureVars, queue, busy, worldVars, calls>>

----------------------------------------------------------------------------
Caller ==
  \/ ConvertSpooled \/ DecodeSlab \/ SubmitTask \/ CollectFails \/ SaveFails \/ SaveStripe
  \/ EndStream \/ ReturnFromStream
Worker(k) == TakeTask(k) \/ FinishTask(k)
User ==
  \/ CallRead \/ CallSetOffset \/ CallGetChunks \/ CallCount \/ CallDestroy \/ FileReplaced
  \/ SpoolBlockData \/ ConvertChunks \/ BeginStream

Next == Caller \/ User \/ \E k \in Workers : Worker(k)
Spec == Init /\ [][Next]_vars /\ WF_vars(Caller) /\ \A k \in Workers : WF_vars(Worker(k))

----------------------------------------------------------------------------
(* Properties. *)
Untouched == schem # Absent /\ file = schem.doc
Written == outcome # NoAnswer /\ outcome.result.ok
Structured == schem # Absent /\ Whole(schem.doc.stream, Volume(schem.doc), schem.max)

\* However the structure was read, and whatever it was asked before, get_chunks()
\* and count_non_air_blocks() either fail or answer what the file says.  Some
\* ways of reading put off the validation of BlockData; none drops it: a file
\* that has not the right number of indices, all of them in the palette, is
\* never counted or written to a world with success, and no block is read from
\* it.
AnswersAreExact ==
  /\ Untouched /\ Structured /\ answer # NoAnswer /\ answer.result.ok =>
       /\ answer.call = "count" => answer.result.value = NonAir(schem.doc, schem.doc.stream)
       /\ answer.call = "chunks" =>
            answer.result.value = {c \in Blocks(schem, schem.doc.stream) : c.chunk \in answer.asked}
  /\ Untouched /\ ~ Structured =>
       /\ \/ answer = NoAnswer \/ answer.call = "read" \/ ~ answer.result.ok
          \/ (answer.call = "chunks" /\ answer.result.value = {})
       /\ outcome = NoAnswer \/ ~ outcome.result.ok

\* Whatever is written has its place in the structure and in the height of the
\* world, and of a structure written with success at least the last line of
\* chunks is complete.
InPlace(start) == {Moved(c, start) : c \in Blocks(schem, schem.doc.stream)}
OfLastLine(c, start) == c.chunk[2] = start[3] + ZCount(schem) - 1
WrittenInPlace ==
  Untouched /\ Structured /\ world # {} =>
    \E start \in StartPoints :
      /\ world \subseteq InPlace(start) /\ \A c \in world : c.sub \in BaseSubY .. TopSubY
      /\ Written /\ schem.offset = <<0, 0, 0>> =>
           \A c \in InPlace(start) : OfLastLine(c, start) => c \in world

\* Written with success, the structure is in the world as a whole.
StructureIsWhole ==
  Untouched /\ Structured /\ schem.offset = <<0, 0, 0>> /\ Written =>
    \E start \in StartPoints : world = InPlace(start)

\* No copy of BlockData outlives the structure.
NoPayloadLeftBehind ==
  schem = Absent => \A name \in DOMAIN tempFile : tempFile[name] = Absent \/ tempFile[name].vals = <<>>

\* write_to_world ends, whichever task or save fails.
WriteReturns == stage # "idle" ~> stage = "idle"
=============================================================================
