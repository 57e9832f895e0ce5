---------------------------- MODULE StructureFiles ----------------------------
(***************************************************************************)
(* A structure file from open() to the file it is converted into: the      *)
(* format registry detects the format and opens the file                   *)
(* (format_registry.cpp), a reader makes a structure of it, in one pass or *)
(* in several that open the file anew, the structure is moved and asked    *)
(* for chunks, and a writer asks for all of them.                          *)
(*                                                                         *)
(* Somebody may replace the file between two passes, or while a structure  *)
(* that opens it again for every call is in use.                           *)
(***************************************************************************)
EXTENDS RecordFormats, GangBanFormats, FuHongFormats, VolumeFormats, FormatDetection

CONSTANTS
  Documents,  \* records: header, extension, outline, forms (formats whose
              \* shape it has), doc, means (what it describes, see below)
  Targets,    \* formats to convert to
  Shifts,     \* arguments of set_offset
  Asks,       \* sets of chunks asked for
  Options,    \* records: chunks (max_in_flight_chunks, 0 for no limit), spool
  MaxListed   \* blocks the budget of the FuHong writer admits

VARIABLES
  source,     \* the file at the path
  stage,      \* "closed", "inspected", "bounded", "open", "refused"
  known,      \* the format, and what the passes so far have found
  structure,  \* what the reader keeps
  offset,
  index,      \* mChunkIndex of the readers that keep a vector of blocks
  answer,     \* the answer to the last request
  job,        \* the conversion under way
  output,     \* the file it has written
  temporaries,\* temporary files on disk
  result,     \* of the conversion
  replaced    \* whether the file is another one than was opened

readerState == <<source, stage, known, structure, replaced>>
jobState == <<job, output, temporaries, result>>
fileVars == <<readerState, offset, index, answer, jobState>>

Staged == {"MianYangV1", "MianYangV2", "MianYangV3", "GangBanV1", "GangBanV2", "GangBanV3",
           "GangBanV4", "GangBanV5", "GangBanV6", "GangBanV7",
           "FuHongV1", "FuHongV2", "FuHongV3", "FuHongV4", "FuHongV5"}
FuHong == {"FuHongV1", "FuHongV2", "FuHongV3", "FuHongV4", "FuHongV5"}
FuHongFlat == {"FuHongV1", "FuHongV2"}
GangBanFlat == {"GangBanV1", "GangBanV2"}
GangBanChunked == {"GangBanV3", "GangBanV4"}
MianYang == {"MianYangV1", "MianYangV2", "MianYangV3"}
Vectors == {"RunAway", "KBDX", "BDS", "NexusNP"}

NoAnswer == [of |-> Missing]
NoJob == [target |-> Missing]
NoOutput == [target |-> Missing]

FilesInit ==
  /\ source \in Documents
  /\ stage = "closed" /\ known = Missing /\ structure = Refused /\ replaced = FALSE
  /\ offset = Origin /\ index = Missing /\ answer = NoAnswer
  /\ job = NoJob /\ output = NoOutput /\ temporaries = {} /\ result = "none"

-----------------------------------------------------------------------------
(* Opening.                                                                *)

\* What a reader sees: a document of another shape is none to it.
DocumentAs(format) == IF format \in source.forms THEN source.doc ELSE Bad

ReadWhole(format, doc) ==
  CASE format = "RunAway" -> RunAwayRead(doc)
    [] format = "KBDX" -> KbdxRead(doc)
    [] format \in {"BDS", "NexusNP"} -> MsgpackRead(doc, format)
    [] format = "BCF" -> BcfRead(doc)
    [] format = "Construction" -> ConstructionRead(doc)
    [] format = "MianYangV4" -> MianYangV4Read(doc)
    [] format = "TimeBuilderV1" -> TimeBuilderRead(doc)
    [] format = "QingXuV1" -> QingXuRead(doc)
    [] format = "CovStructure" -> CovRead(doc)
    [] format = "Schematic" -> SchematicRead(doc)
    [] format = "Litematic" -> LitematicRead(doc)
    [] format = "MCStructure" -> McStructureRead(doc)
    [] format = "AxiomBP" -> AxiomRead(doc)
    [] OTHER -> Refused  \* no reader, as for SIBI

Inspected(format, doc) ==
  CASE format \in MianYang -> MianYangInspect(doc)
    [] format \in GangBanFlat -> GangBanTail(doc, format = "GangBanV1")
    [] format \in GangBanChunked -> GangBanChunks(doc, format = "GangBanV3")
    [] format = "FuHongV1" -> FuHongFlatBounds(FuHongV1Entries(doc))
    [] format = "FuHongV2" -> FuHongFlatBounds(FuHongV2Entries(doc))
    [] format \in FuHong \ FuHongFlat -> FuHongInspect(doc, format = "FuHongV3")
    [] OTHER -> GangBanStream(doc, format = "GangBanV5")

Bounded(format, meta, doc) ==
  CASE format \in MianYang -> MianYangBounds(meta, doc)
    [] format \in GangBanFlat -> GangBanBounds(meta, doc)
    [] format \in GangBanChunked -> GangBanChunkBounds(meta, doc)
    [] OTHER -> GangBanStreamBounds(meta, doc)

Placed(format, meta, doc) ==
  CASE format \in MianYang -> MianYangPlace(meta, doc)
    [] format \in GangBanFlat -> GangBanPlace(meta, doc)
    [] format \in GangBanChunked -> GangBanChunkPlace(meta, doc)
    [] format = "FuHongV1" -> FuHongFlatPlace(meta, FuHongV1Entries(doc))
    [] format = "FuHongV2" -> FuHongFlatPlace(meta, FuHongV2Entries(doc))
    [] format \in FuHong \ FuHongFlat -> FuHongPlace(meta, doc)
    [] OTHER -> GangBanStreamPlace(meta, doc)

KeepsNothing == UNCHANGED <<source, replaced, offset, index, answer, jobState>>

OpenInOnePass ==
  /\ stage = "closed"
  /\ LET format == Detect(source)
         read == ReadWhole(format, DocumentAs(format))
     IN  /\ format \notin Staged
         /\ known' = [format |-> format, meta |-> Missing]
         /\ stage' = IF read.ok THEN "open" ELSE "refused"
         /\ structure' = read
  /\ KeepsNothing

InspectPass ==
  /\ stage = "closed"
  /\ LET format == Detect(source)
         found == Inspected(format, DocumentAs(format))
     IN  /\ format \in Staged
         /\ known' = [format |-> format, meta |-> found]
         /\ stage' = IF found.ok THEN "inspected" ELSE "refused"
  /\ UNCHANGED structure
  /\ KeepsNothing

BoundsPass ==
  /\ stage = "inspected" /\ known.format \notin FuHong
  /\ LET found == Bounded(known.format, known.meta, DocumentAs(known.format))
     IN  /\ known' = [known EXCEPT !.meta = found]
         /\ stage' = IF found.ok THEN "bounded" ELSE "refused"
  /\ UNCHANGED structure
  /\ KeepsNothing

PlacePass ==
  /\ \/ stage = "bounded"
     \/ stage = "inspected" /\ known.format \in FuHong
  /\ LET placed == Placed(known.format, known.meta, DocumentAs(known.format))
     IN  /\ stage' = IF placed.ok THEN "open" ELSE "refused"
         /\ structure' = placed
  /\ known' = [known EXCEPT !.meta = Missing]
  /\ KeepsNothing

\* Somebody puts another file of the same kind there.
Replace ==
  /\ ~replaced
  /\ \/ stage \in {"inspected", "bounded"}
     \/ stage = "open" /\ known.format = "Construction"
  /\ source' \in {d \in Documents : d.forms = source.forms /\ d # source}
  /\ replaced' = TRUE
  /\ UNCHANGED <<stage, known, structure, offset, index, answer, jobState>>

-----------------------------------------------------------------------------
(* A structure in use.                                                     *)

SizeAt(at) == [a \in Axes |-> structure.size[a] + Abs(at[a])]

\* Mutant: the index outlives the offset it was built for.
MoveKeepsIndex ==
  /\ stage = "open" /\ job = NoJob
  /\ offset' \in Shifts \ {offset}
  /\ answer' = NoAnswer
  /\ UNCHANGED <<readerState, index, jobState>>

\* set_offset() is not const: nobody converts.
Move ==
  /\ stage = "open" /\ job = NoJob
  /\ offset' \in Shifts \ {offset}
  /\ index' = Missing
  /\ answer' = NoAnswer
  /\ UNCHANGED <<readerState, jobState>>

\* The first layer of the chunks of an ask.
Layer(format, kept, at, places, payload, ask) ==
  LET schematic == [c \in ask |-> SchematicChunk(kept.blocks, kept.size, at, c)]
      Chunk(c) ==
        CASE format \in Vectors -> VectorChunk(kept.blocks, places, at, c)
          [] format = "BCF" -> RegionChunk(kept.blocks, at, c)
          [] format = "Litematic" -> LitematicChunk(kept.blocks, kept.size, at, c)
          [] format = "MCStructure" -> McStructureLayer(kept.blocks, 1, kept.size, at, c)
          [] OTHER -> StoreChunk(kept.blocks, kept.size, at, c)
  IN  CASE format = "Construction" ->
             ConstructionChunks(kept.blocks, kept.size, at, payload, ask)
        [] format = "Schematic" ->
             IF \E c \in ask : ~schematic[c].ok THEN Refused
             ELSE [ok |-> TRUE, chunks |-> [c \in ask |-> schematic[c].subChunks]]
        [] OTHER -> [ok |-> TRUE, chunks |-> [c \in ask |-> Chunk(c)]]
SecondLayer(format, kept, at, ask) ==
  [c \in ask |-> IF format = "MCStructure"
                 THEN McStructureLayer(kept.blocks, 2, kept.size, at, c)
                 ELSE SubChunks(NoCells, at, c)]
EntitiesAt(format, kept, at, ask) ==
  [c \in ask |-> IF format = "Litematic" THEN LitematicEntities(kept.entities, at, c)
                 ELSE EntityAnswer(kept.entities, at, c)]

\* The index is built on first use.
PlacesNow == IF index = Missing THEN ChunkIndex(structure.blocks, offset) ELSE index
IndexUsed == index' = IF known.format \in Vectors THEN PlacesNow ELSE Missing

\* get_chunks() and get_chunk_nbt(); only Construction opens the file again.
AnswerTo(ask) ==
  LET payload == IF source.doc = Bad \/ known.format # "Construction" THEN [k \in {} |-> Bad]
                 ELSE source.doc.payload
      places == IF known.format \in Vectors THEN PlacesNow ELSE Missing
      layer == Layer(known.format, structure, offset, places, payload, ask)
  IN  IF ~layer.ok THEN [of |-> ask, ok |-> FALSE]
      ELSE [of |-> ask, ok |-> TRUE, first |-> layer.chunks,
            second |-> SecondLayer(known.format, structure, offset, ask),
            entities |-> EntitiesAt(known.format, structure, offset, ask)]

Request ==
  /\ stage = "open" /\ job = NoJob
  /\ \E ask \in Asks : answer' = AnswerTo(ask)
  /\ IndexUsed
  /\ UNCHANGED <<readerState, offset, jobState>>

-----------------------------------------------------------------------------
(* Converting: a writer asks for the chunks of the size, all at once, row  *)
(* by row (Schem) or one by one (FuHong).                                  *)

Schem == {"SchemV1", "SchemV2"}
Counts(size) == <<(size[1] + Edge - 1) \div Edge, (size[3] + Edge - 1) \div Edge>>
\* Outside the chunks by z for Schem, by x then z for FuHong.
AsksOf(target, size) ==
  LET count == Counts(size)
      row(z) == {<<x, z>> : x \in 0 .. count[1] - 1}
      one(k) == {<<k \div count[2], k % count[2]>>}
  IN  CASE target \in Schem -> [z \in 1 .. count[2] |-> row(z - 1)]
        [] target \in FuHong -> [k \in 1 .. count[1] * count[2] |-> one(k - 1)]
        [] OTHER -> <<UNION {row(z) : z \in 0 .. count[2] - 1}>>

\* What a writer asks of the size, the options and the count.
Admits(target, size, options) ==
  /\ \A a \in Axes : size[a] > 0
  /\ IF target \in FuHong THEN structure.count <= MaxListed
     ELSE /\ Volume(size) <= MaxInt
          /\ options.chunks = 0 \/ Counts(size)[1] * Counts(size)[2] <= options.chunks
  /\ target \in Schem \cup {"Schematic"} => \A a \in Axes : size[a] <= MaxShort
  /\ target \in Schem \cup {"AxiomBP"} => options.spool

Convert ==
  /\ stage = "open" /\ job = NoJob /\ result = "none"
  /\ \E target \in Targets, options \in Options :
       IF Admits(target, SizeAt(offset), options)
       THEN /\ job' = [target |-> target, asks |-> AsksOf(target, SizeAt(offset)),
                       size |-> SizeAt(offset), first |-> NoCells, second |-> NoCells,
                       entities |-> <<>>, stripes |-> <<>>,
                       palette |-> IF target = "SchemV1" THEN <<JavaOf(AirId)>> ELSE <<>>]
            /\ UNCHANGED result
       ELSE result' = "refused" /\ UNCHANGED job
  /\ UNCHANGED <<readerState, offset, index, answer, output, temporaries>>

\* The cells of the size in the chunks of an answer.
CellsOf(layer, ask, size) ==
  [p \in {q \in Cuboid(Origin, Minus(size, <<1, 1, 1>>)) : ChunkOf(q) \in ask} |->
     BlockIn(layer[ChunkOf(p)], p, ChunkOf(p))]
\* Their entities, back in coordinates of the structure.
EntitiesOf(entities, ask) ==
  LET order == Enumerated(ask)
      Back(e, c) == [pos |-> Plus(e.at, <<c[1] * Edge, Base, c[2] * Edge>>), block |-> e.nbt]
  IN  FlattenSeq([i \in DOMAIN order |->
        [k \in DOMAIN entities[order[i]] |-> Back(entities[order[i]][k], order[i])]])

Ends(outcome) == job' = NoJob /\ result' = outcome

\* Schem puts each row it has read into a file of its own, a stripe.
StripeNumber == Counts(job.size)[2] - Len(job.asks)
StripeDue == job # NoJob /\ job.target \in Schem /\ Len(job.stripes) < StripeNumber

\* One request of the writer.
Gather ==
  /\ job # NoJob /\ job.asks # <<>> /\ ~StripeDue
  /\ LET ask == Head(job.asks)
         got == AnswerTo(ask)
     IN  IF ~got.ok
         THEN Ends("refused") /\ temporaries' = {}
         ELSE /\ job' = [job EXCEPT !.asks = Tail(@),
                           !.first = CellsOf(got.first, ask, job.size) @@ @,
                           !.second = CellsOf(got.second, ask, job.size) @@ @,
                           !.entities = @ \o EntitiesOf(got.entities, ask)]
              /\ UNCHANGED <<result, temporaries>>
  /\ IndexUsed
  /\ UNCHANGED <<readerState, offset, answer, output>>

\* A stripe is listed when it is complete.
WriteStripe ==
  /\ StripeDue
  /\ LET stripe == SchemStripe(job.palette, job.first, job.size, StripeNumber - 1)
     IN  job' = [job EXCEPT !.palette = stripe.palette, !.stripes = Append(@, stripe)]
  /\ temporaries' = temporaries \cup {StripeNumber}
  /\ UNCHANGED <<readerState, offset, index, answer, output, result>>
\* The disk is full: the listed files are removed, this one is not listed.
StripeFails ==
  /\ StripeDue
  /\ Ends("refused")
  /\ temporaries' = {StripeNumber}
  /\ UNCHANGED <<readerState, offset, index, answer, output>>

WrittenAs(target) ==
  CASE target = "Schematic" -> SchematicWritten(job.first, job.size)
    [] target = "Litematic" -> LitematicWritten(job.first, job.size)
    [] target = "MCStructure" ->
         McStructureWritten(job.first, job.second, LastWins(job.entities), job.size)
    [] target = "AxiomBP" -> AxiomWritten(job.first, job.size)
    [] target \in FuHong -> FuHongWritten(job.first, FirstWins(job.entities), job.size)
    [] target \in Schem -> [palette |-> job.palette, values |-> SchemMerged(job.stripes, job.size)]

Complete == job # NoJob /\ job.asks = <<>> /\ ~StripeDue
NothingToWrite == job.target \in FuHong /\ NonAir(job.first) = {}
Output(whole) == [target |-> job.target, whole |-> whole, at |-> offset, size |-> job.size,
                  doc |-> IF whole THEN WrittenAs(job.target) ELSE Bad]

Save ==
  /\ Complete
  /\ IF NothingToWrite THEN Ends("refused") /\ UNCHANGED output
     ELSE Ends("success") /\ output' = Output(TRUE)
  /\ temporaries' = {}
  /\ UNCHANGED <<readerState, offset, index, answer>>
\* The disk is full.  Schematic, Litematic and Schem close the file before they
\* look at it; the others may miss the failure of the last buffer.
LooksTooEarly == {"MCStructure", "AxiomBP"} \cup FuHong
SaveFails ==
  /\ Complete /\ ~NothingToWrite
  /\ \E outcome \in {"refused"} \cup (IF job.target \in LooksTooEarly THEN {"success"} ELSE {}) :
       Ends(outcome)
  /\ output' = Output(FALSE)
  /\ temporaries' = {}
  /\ UNCHANGED <<readerState, offset, index, answer>>

-----------------------------------------------------------------------------
Opening == OpenInOnePass \/ InspectPass \/ BoundsPass \/ PlacePass
Converting == Convert \/ Gather \/ WriteStripe \/ StripeFails \/ Save \/ SaveFails
FilesDone == stage = "refused" /\ UNCHANGED fileVars

FilesNext == Opening \/ Replace \/ Move \/ Request \/ Converting \/ FilesDone

-----------------------------------------------------------------------------
(* What a document means: Missing, if it is no good, or size, first and    *)
(* second (functions from the cells that are not air to their blocks) and  *)
(* entities (a sequence of [pos, block], block being the NBT).             *)

Shifted(cells, by) == {<<Plus(p, by), cells[p]>> : p \in DOMAIN cells}
ShiftedEntities(entities, by) == {<<Plus(entities[i].pos, by), entities[i].block>> : i \in DOMAIN entities}

\* The cells of an answer that are not air, with their blocks.
Solid(layer) ==
  UNION {UNION {{<<Plus(l, <<c[1] * Edge, s * Edge + Base, c[2] * Edge>>), layer[c][s][l]>> :
                   l \in {k \in Locals : layer[c][s][k] # AirId}} :
                 s \in DOMAIN layer[c]} : c \in DOMAIN layer}
InChunks(cells, ask) == {x \in cells : ChunkOf(x[1]) \in ask}

AnswersExactly(said) ==
  /\ Solid(answer.first) = InChunks(Shifted(said.first, offset), answer.of)
  /\ Solid(answer.second) = InChunks(Shifted(said.second, offset), answer.of)
  /\ LET list == EntitiesOf(answer.entities, answer.of)
     IN  {<<list[i].pos, list[i].block>> : i \in DOMAIN list}
           = InChunks(ShiftedEntities(said.entities, offset), answer.of)

\* The readers whose count is the number of cells that are not air; the others
\* count records, volumes or ids.
CountsCells == {"RunAway", "KBDX", "TimeBuilderV1", "QingXuV1", "MianYangV4", "Litematic", "MCStructure"}
               \cup Staged

\* A file that nobody replaces is taken for what it is, whatever its name, and
\* refused exactly if it is malformed; the structure has the size of what the
\* file says, and every answer is the part of it in the chunks asked for,
\* wherever the structure has been moved: no record is lost to an index built
\* for another offset, to the order of duplicates or to a chunk border.
\* (Schematic may refuse to answer for an id it does not know.)
AnswersMatchTheFile ==
  ~replaced =>
    /\ stage = "refused" => source.means = Missing
    /\ stage = "open" =>
         /\ source.means # Missing
         /\ structure.size = source.means.size
         /\ known.format \in CountsCells => structure.count = Cardinality(DOMAIN source.means.first)
         /\ answer # NoAnswer =>
              IF answer.ok THEN AnswersExactly(source.means) ELSE known.format = "Schematic"

\* Not even a file replaced between two passes, or under an open Construction,
\* puts a block outside the size the structure announces, on which writers
\* base their windows; only GangBan V3 keeps such blocks.
AnswersStayInside ==
  (answer # NoAnswer /\ known.format # "GangBanV3") =>
    (answer.ok => \A x \in Solid(answer.first) : Inside(Minus(x[1], offset), structure.size))

\* A block after a conversion: the formats with Java states and with numbers
\* know fewer of them.
Restored(target, block) ==
  CASE target = "Schematic" ->
         IF block \in DOMAIN SchematicPair THEN SchematicBlock[SchematicPair[block]] ELSE AirId
    [] target \in Schem \cup {"Litematic", "AxiomBP"} -> JavaId(JavaOf(block))
    [] OTHER -> block

\* What a reader makes of the file written.
ReadBack ==
  LET target == output.target
      doc == output.doc
  IN  CASE target \in FuHong -> FuHongPlace(FuHongInspect(doc, FALSE), doc)
        [] target \in Schem ->
             Accepted(output.size, [k \in DOMAIN doc.values |-> doc.palette[doc.values[k] + 1]], NoCells, 0)
        [] OTHER -> ReadWhole(target, doc)
ReadCells(read) ==
  LET all == Cuboid(Origin, Minus(read.size, <<1, 1, 1>>))
      asked == {ChunkOf(p) : p \in all}
      SchemAt(p) == JavaId(read.blocks[PlaceYZX(p, read.size) + 1])
  IN  IF output.target \in Schem THEN {<<p, SchemAt(p)>> : p \in {q \in all : SchemAt(q) # AirId}}
      ELSE Solid(Layer(output.target, read, Origin, Missing, Missing, asked).chunks)
ToLowCorner(cells, low) == {<<Minus(x[1], low), x[2]>> : x \in cells}

\* The file a successful conversion has written, read again, holds every block
\* of the source file that lies in the size announced, at its place (from the
\* lowest block on for FuHong) and as far as the format knows it; MCStructure,
\* which capability() does not call lossy, also the second layer and the
\* entities.  No temporary file is left, unless the disk was full.
WhatIsWrittenReadsBack ==
  (result = "success" /\ ~replaced) =>
    LET said == source.means
        target == output.target
        In(cells) == {x \in cells : Inside(x[1], output.size)}
        Expected(cells) ==
          {x \in {<<y[1], Restored(target, y[2])>> : y \in In(Shifted(cells, output.at))} : x[2] # AirId}
        cells == Expected(said.first)
        read == ReadBack
        Entities == {<<p, read.entities[p]>> : p \in DOMAIN read.entities}
        everywhere == {ChunkOf(p) : p \in Cuboid(Origin, output.size)}
    IN  /\ temporaries = {}
        /\ output.whole \/ target \in LooksTooEarly
        /\ output.whole => read.ok
        /\ (output.whole /\ target \in FuHong) =>
             LET low == LowCorner({x[1] : x \in cells})
                 first == FirstWins(said.entities)
                 held == {x \in cells : NameOf[x[2]] \in Holders}
                 Nbt(p) == IF p \in DOMAIN first THEN first[p] ELSE "blank"
             IN  /\ ReadCells(read) = ToLowCorner(cells, low)
                 /\ Entities = {<<Minus(x[1], low), Nbt(Minus(x[1], output.at))>> : x \in held}
        /\ (output.whole /\ target \notin FuHong) => ReadCells(read) = cells
        /\ (output.whole /\ target = "MCStructure") =>
             /\ Solid(SecondLayer(target, read, Origin, everywhere)) = Expected(said.second)
             /\ Entities = In(Shifted(LastWins(said.entities), output.at))
=============================================================================
