---------------------------- MODULE CommandReplay ----------------------------
(***************************************************************************)
(* The readers that keep a structure as a list of setblock and fill        *)
(* commands and replay it for the chunks they are asked for:               *)
(* McFunctionStructure (src/src/formats/mcfunction.cpp), IbImportStructure *)
(* (ibimport.cpp) and TibiReader (tibi.cpp).                               *)
(*                                                                         *)
(* read() parses the file, MCFunction in parallel; get_chunks() is const,  *)
(* may be called by several threads and builds an index from chunks to     *)
(* commands on first use, behind a double-checked atomic flag; commands    *)
(* that cover too much, or that no longer fit into the index, go to a list *)
(* that is merged in for every chunk.                                      *)
(*                                                                         *)
(* One axis stands for three: a command covers the cells lo .. hi, a chunk *)
(* has ChunkWidth cells.  A file is a sequence of blocks of lines; a line  *)
(* is a command or malformed.                                              *)
(***************************************************************************)
EXTENDS Integers, Sequences, FiniteSets, FiniteSetsExt, SequencesExt

CONSTANTS
  Formats,      \* of "mcfunction", "ibimport", "tibi"
  Files,        \* records: key (header and length of a TIBI file), blocks
  ParseWorkers, \* threads that parse a MCFunction file
  Readers,      \* threads that call get_chunks
  Requests,     \* sets of chunks they ask for
  Offsets,      \* arguments of set_offset
  ChunkWidth,   \* cells of a chunk, 16
  BroadSpan,    \* chunks a command may cover to be indexed, 4096
  MaxEntries,   \* kMaxIndexEntries
  MaxCells      \* chunks of the dense index of MCFunction

Air == "air"
Empty == "unset"
Nobody == "nobody"

\* A command or a malformed line.
Line == [lo : Int, hi : Int, state : STRING]

ASSUME ReplayAssumption ==
  /\ Formats \subseteq {"mcfunction", "ibimport", "tibi"}
  /\ \A f \in Files : f.blocks \in Seq(Seq(Line))
  /\ Nobody \notin Readers
  /\ \A ask \in Requests : ask \subseteq Int
  /\ {ParseWorkers, ChunkWidth, BroadSpan} \subseteq Nat \ {0}
  /\ {MaxEntries, MaxCells} \subseteq Nat
  /\ Offsets \subseteq Int

VARIABLES
  format, file, phase,     \* phase: "new", "reading", "normalize", "ready", "failed"
  firstKey,                \* TIBI: key of the first pass
  submitted, pending, parsed, normalized, \* MCFunction: tasks of read()
  errorLine,               \* line read() complains about
  mCommands, mOrigin, mOffset,
  mCommandIndexReady, mCommandIndex, mBroadCommands,
  mutex,                   \* holder of mCommandIndexMutex
  scan,                    \* next command the holder will index
  reader                   \* what each calling thread is doing

readVars == <<firstKey, submitted, pending, parsed, normalized, errorLine>>
indexVars == <<mCommandIndexReady, mCommandIndex, mBroadCommands, mutex, scan>>
vars == <<format, file, phase, readVars, mCommands, mOrigin, mOffset, indexVars, reader>>

Idle == [pc |-> "idle", ask |-> {}, left |-> {}, result |-> <<>>]
NoIndex == [c \in {} |-> <<>>]

IsCommand(line) == line.state # "malformed"
Lines(blocks) == FlattenSeq(blocks)
\* The commands before the first malformed line.
Commands(lines) ==
  LET bad == {i \in DOMAIN lines : ~IsCommand(lines[i])}
  IN  IF bad = {} THEN lines ELSE SubSeq(lines, 1, Min(bad) - 1)
Malformed(lines) == Len(Commands(lines)) # Len(lines)
LowestOf(commands) == Min({commands[i].lo : i \in DOMAIN commands})
Shift(command, by) == [command EXCEPT !.lo = @ - by, !.hi = @ - by]

Init ==
  /\ format \in Formats /\ file \in Files /\ phase = "new"
  /\ firstKey = 0 /\ submitted = 0 /\ pending = <<>> /\ parsed = {} /\ normalized = {}
  /\ errorLine = 0
  /\ mCommands = <<>> /\ mOrigin = 0 /\ mOffset = 0
  /\ mCommandIndexReady = FALSE /\ mCommandIndex = NoIndex /\ mBroadCommands = <<>>
  /\ mutex = Nobody /\ scan = 0
  /\ reader = [t \in Readers |-> Idle]

DropIndex ==
  /\ mCommandIndexReady' = FALSE
  /\ mCommandIndex' = NoIndex
  /\ mBroadCommands' = <<>>

-----------------------------------------------------------------------------
(* read() of IBImport and TIBI: one thread.                                *)

\* IBImport normalizes while it parses and keeps nothing of a bad file.
ReadIbImport ==
  /\ format = "ibimport" /\ phase = "new"
  /\ LET lines == Lines(file.blocks)
     IN  IF Malformed(lines) \/ lines = <<>>
         THEN /\ phase' = "failed"
              /\ errorLine' = Len(Commands(lines)) + 1
              /\ UNCHANGED <<mCommands, mOffset, mCommandIndexReady, mCommandIndex, mBroadCommands>>
         ELSE /\ phase' = "ready"
              /\ mCommands' = [i \in DOMAIN lines |-> Shift(lines[i], LowestOf(lines))]
              /\ mOffset' = 0
              /\ DropIndex
              /\ UNCHANGED errorLine
  /\ UNCHANGED <<format, file, firstKey, submitted, pending, parsed, normalized,
                 mOrigin, mutex, scan, reader>>

\* The first of two passes over a TIBI file only learns the XOR key.
FirstPass ==
  /\ format = "tibi" /\ phase = "new"
  /\ mCommands' = <<>> /\ mOrigin' = 0 /\ mOffset' = 0
  /\ DropIndex
  /\ firstKey' = file.key
  /\ phase' = "reading"
  /\ UNCHANGED <<format, file, submitted, pending, parsed, normalized, errorLine,
                 mutex, scan, reader>>

\* Somebody replaces the file between the passes.
FileChanges ==
  /\ format = "tibi" /\ phase = "reading"
  /\ file' \in Files
  /\ UNCHANGED <<format, phase, readVars, mCommands, mOrigin, mOffset, indexVars, reader>>

\* The second pass decodes with that key: a file of another length or header
\* is refused.  The commands keep their coordinates, the origin is kept apart.
SecondPass ==
  /\ format = "tibi" /\ phase = "reading"
  /\ LET lines == Lines(file.blocks)
     IN  IF file.key # firstKey \/ Malformed(lines) \/ lines = <<>>
         THEN phase' = "failed" /\ UNCHANGED <<mCommands, mOrigin>>
         ELSE /\ phase' = "ready"
              /\ mCommands' = lines
              /\ mOrigin' = LowestOf(lines)
  /\ UNCHANGED <<format, file, readVars, mOffset, indexVars, reader>>

-----------------------------------------------------------------------------
(* read() of MCFunction: the file is cut after the last newline of each    *)
(* read, the pieces are parsed by a pool and consumed in order.            *)

Block(b) == file.blocks[b]

StartParsing ==
  /\ format = "mcfunction" /\ phase = "new"
  /\ mCommands' = <<>>
  /\ phase' = "reading"
  /\ UNCHANGED <<format, file, readVars, mOrigin, mOffset, indexVars, reader>>

SubmitBlock ==
  /\ format = "mcfunction" /\ phase = "reading"
  /\ submitted < Len(file.blocks)
  /\ Len(pending) < 2 * ParseWorkers
  /\ submitted' = submitted + 1
  /\ pending' = Append(pending, submitted')
  /\ UNCHANGED <<format, file, phase, firstKey, parsed, normalized, errorLine,
                 mCommands, mOrigin, mOffset, indexVars, reader>>

\* The workers take the pieces in order and finish in any order.
ParseBlock(b) ==
  /\ b \in 1 .. submitted /\ b \notin parsed
  /\ Cardinality({a \in 1 .. b - 1 : a \notin parsed}) < ParseWorkers
  /\ parsed' = parsed \cup {b}
  /\ UNCHANGED <<format, file, phase, firstKey, submitted, pending, normalized, errorLine,
                 mCommands, mOrigin, mOffset, indexVars, reader>>

\* The main thread consumes when twice as many pieces as workers are pending,
\* and at the end of the file.
MayConsume == Len(pending) = 2 * ParseWorkers \/ submitted = Len(file.blocks)

\* Mutant: any finished piece is consumed.
ConsumeReady ==
  /\ format = "mcfunction" /\ phase = "reading"
  /\ MayConsume
  /\ \E b \in ToSet(pending) \cap parsed :
       /\ pending' = SelectSeq(pending, LAMBDA a : a # b)
       /\ mCommands' = mCommands \o Commands(Block(b))
       /\ IF Malformed(Block(b))
          THEN /\ phase' = "failed"
               /\ errorLine' = Len(Lines(SubSeq(file.blocks, 1, b - 1))) + Len(Commands(Block(b))) + 1
          ELSE UNCHANGED <<phase, errorLine>>
  /\ UNCHANGED <<format, file, firstKey, submitted, parsed, normalized, mOrigin, mOffset,
                 indexVars, reader>>

\* consume_front(): waits for the oldest piece.
ConsumeFront ==
  /\ format = "mcfunction" /\ phase = "reading"
  /\ MayConsume
  /\ pending # <<>> /\ Head(pending) \in parsed
  /\ LET b == Head(pending)
     IN  IF Malformed(Block(b))
         THEN /\ phase' = "failed"
              /\ errorLine' = Len(Lines(SubSeq(file.blocks, 1, b - 1))) + Len(Commands(Block(b))) + 1
              /\ UNCHANGED mCommands
         ELSE /\ mCommands' = mCommands \o Block(b)
              /\ UNCHANGED <<phase, errorLine>>
  /\ pending' = Tail(pending)
  /\ UNCHANGED <<format, file, firstKey, submitted, parsed, normalized, mOrigin, mOffset,
                 indexVars, reader>>

\* All consumed: the bounds are known, or there was no command at all.
EndOfFile ==
  /\ format = "mcfunction" /\ phase = "reading"
  /\ submitted = Len(file.blocks) /\ pending = <<>>
  /\ phase' = IF mCommands = <<>> THEN "failed" ELSE "normalize"
  /\ mOrigin' = IF mCommands = <<>> THEN 0 ELSE LowestOf(mCommands)
  /\ UNCHANGED <<format, file, readVars, mCommands, mOffset, indexVars, reader>>

NormalizeTasks == Min({ParseWorkers, Len(mCommands)})

Share(k) ==
  (Len(mCommands) * (k - 1)) \div NormalizeTasks + 1 .. (Len(mCommands) * k) \div NormalizeTasks

\* One of the tasks that move the commands of a range to the origin.
Normalize(k) ==
  /\ phase = "normalize" /\ k \notin normalized
  /\ mCommands' = [i \in DOMAIN mCommands |->
                     IF i \in Share(k) THEN Shift(mCommands[i], mOrigin) ELSE mCommands[i]]
  /\ normalized' = normalized \cup {k}
  /\ UNCHANGED <<format, file, phase, firstKey, submitted, pending, parsed, errorLine,
                 mOrigin, mOffset, indexVars, reader>>

\* Bounds was a local variable: the commands are relative to the origin now.
Normalized ==
  /\ phase = "normalize" /\ normalized = 1 .. NormalizeTasks
  /\ phase' = "ready"
  /\ mOrigin' = 0
  /\ mOffset' = 0
  /\ DropIndex
  /\ UNCHANGED <<format, file, readVars, mCommands, mutex, scan, reader>>

-----------------------------------------------------------------------------
(* The index.                                                              *)

Covers(i) == mCommands[i].lo - mOrigin + mOffset .. mCommands[i].hi - mOrigin + mOffset
ChunksOf(i) == {x \div ChunkWidth : x \in Covers(i)}
Cells(c) == c * ChunkWidth .. c * ChunkWidth + ChunkWidth - 1
Window == UNION {ChunksOf(i) : i \in DOMAIN mCommands}

\* set_offset() is not const: its caller lets no get_chunks run.
SetOffset ==
  /\ phase = "ready" /\ \A t \in Readers : reader[t] = Idle
  /\ mOffset' \in Offsets \ {mOffset}
  /\ DropIndex
  /\ UNCHANGED <<format, file, phase, readVars, mCommands, mOrigin, mutex, scan, reader>>

Step(t, pc) == reader' = [reader EXCEPT ![t].pc = pc]

\* The first look at the flag, without the mutex.
Ask(t) ==
  /\ phase = "ready" /\ reader[t] = Idle
  /\ \E ask \in Requests :
       reader' = [reader EXCEPT ![t] =
         [pc |-> IF mCommandIndexReady THEN "replay" ELSE "lock", ask |-> ask, left |-> ask,
          result |-> [c \in ask |-> [x \in Cells(c) |-> Empty]]]]
  /\ UNCHANGED <<format, file, phase, readVars, mCommands, mOrigin, mOffset, indexVars>>

\* Mutant: the thread that finds the index ready forgets the mutex.
LockLeaked(t) ==
  /\ reader[t].pc = "lock" /\ mutex = Nobody
  /\ mutex' = t
  /\ IF mCommandIndexReady
     THEN Step(t, "replay") /\ UNCHANGED <<scan, mCommandIndex, mBroadCommands>>
     ELSE /\ Step(t, "build")
          /\ scan' = 1
          /\ mCommandIndex' = NoIndex /\ mBroadCommands' = <<>>
  /\ UNCHANGED <<format, file, phase, readVars, mCommands, mOrigin, mOffset, mCommandIndexReady>>

\* The second look; whoever finds no index starts one.
Lock(t) ==
  /\ reader[t].pc = "lock" /\ mutex = Nobody
  /\ IF mCommandIndexReady
     THEN Step(t, "replay") /\ UNCHANGED <<mutex, scan, mCommandIndex, mBroadCommands>>
     ELSE /\ Step(t, "build")
          /\ mutex' = t /\ scan' = 1
          /\ mCommandIndex' = NoIndex /\ mBroadCommands' = <<>>
  /\ UNCHANGED <<format, file, phase, readVars, mCommands, mOrigin, mOffset, mCommandIndexReady>>

Entries == FoldSet(LAMBDA c, n : n + Len(mCommandIndex[c]), 0, DOMAIN mCommandIndex)

GoesBroad(i) ==
  \/ Cardinality(ChunksOf(i)) > BroadSpan
  \/ Cardinality(ChunksOf(i)) > MaxEntries - Entries
  \/ format = "mcfunction" /\ Cardinality(Window) > MaxCells

Indexed(c) == IF c \in DOMAIN mCommandIndex THEN mCommandIndex[c] ELSE <<>>

IndexCommand(t) ==
  /\ reader[t].pc = "build" /\ scan <= Len(mCommands)
  /\ IF GoesBroad(scan)
     THEN mBroadCommands' = Append(mBroadCommands, scan) /\ UNCHANGED mCommandIndex
     ELSE /\ mCommandIndex' = [c \in DOMAIN mCommandIndex \cup ChunksOf(scan) |->
                                 IF c \in ChunksOf(scan) THEN Append(Indexed(c), scan) ELSE Indexed(c)]
          /\ UNCHANGED mBroadCommands
  /\ scan' = scan + 1
  /\ UNCHANGED <<format, file, phase, readVars, mCommands, mOrigin, mOffset,
                 mCommandIndexReady, mutex, reader>>

Publish(t) ==
  /\ reader[t].pc = "build" /\ scan > Len(mCommands)
  /\ mCommandIndexReady' = TRUE
  /\ mutex' = Nobody
  /\ Step(t, "replay")
  /\ UNCHANGED <<format, file, phase, readVars, mCommands, mOrigin, mOffset,
                 mCommandIndex, mBroadCommands, scan>>

-----------------------------------------------------------------------------
(* Replaying one requested chunk after the other.                          *)

\* Mutant: the broad commands are replayed at the end.
MergedBroadLast(c) == Indexed(c) \o mBroadCommands

\* Both lists are in source order and are merged by command index: how many of
\* each have been replayed after n steps.
Merging(local, broad) ==
  LET step[n \in 0 .. Len(local) + Len(broad)] ==
        IF n = 0 THEN [local |-> 0, broad |-> 0]
        ELSE LET before == step[n - 1]
                 next == \/ before.broad = Len(broad)
                         \/ before.local < Len(local) /\ local[before.local + 1] < broad[before.broad + 1]
             IN  IF next THEN [before EXCEPT !.local = @ + 1] ELSE [before EXCEPT !.broad = @ + 1]
  IN  step

Merged(c) ==
  LET local == Indexed(c)
      step == Merging(local, mBroadCommands)
  IN  [n \in 1 .. Len(local) + Len(mBroadCommands) |->
         IF step[n].local > step[n - 1].local THEN local[step[n].local] ELSE mBroadCommands[step[n].broad]]

\* What replaying chunk c writes to the cell x of a requested chunk.  TIBI
\* skips air; a fill is clipped to c, a TIBI setblock goes wherever it belongs.
Writes(i, c, x) ==
  /\ x \in Covers(i)
  /\ \/ x \in Cells(c)
     \/ format = "tibi" /\ mCommands[i].lo = mCommands[i].hi
  /\ ~(format = "tibi" /\ mCommands[i].state = Air)

ReplayChunk(t, c) ==
  /\ reader[t].pc = "replay" /\ c \in reader[t].left
  /\ reader' = [reader EXCEPT
       ![t].left = @ \ {c},
       ![t].result = [d \in reader[t].ask |-> [x \in Cells(d) |->
          LET w == {n \in DOMAIN Merged(c) : Writes(Merged(c)[n], c, x)}
          IN  IF w = {} THEN reader[t].result[d][x] ELSE mCommands[Merged(c)[Max(w)]].state]]]
  /\ UNCHANGED <<format, file, phase, readVars, mCommands, mOrigin, mOffset, indexVars>>

Return(t) ==
  /\ reader[t].pc = "replay" /\ reader[t].left = {}
  /\ reader' = [reader EXCEPT ![t] = Idle]
  /\ UNCHANGED <<format, file, phase, readVars, mCommands, mOrigin, mOffset, indexVars>>

-----------------------------------------------------------------------------
Read ==
  \/ ReadIbImport \/ FirstPass \/ FileChanges \/ SecondPass
  \/ StartParsing \/ SubmitBlock \/ \E b \in 1 .. submitted : ParseBlock(b)
  \/ ConsumeFront \/ EndOfFile \/ \E k \in 1 .. NormalizeTasks : Normalize(k)
  \/ Normalized

GetChunks(t) ==
  \/ Ask(t) \/ Lock(t) \/ IndexCommand(t) \/ Publish(t)
  \/ \E c \in reader[t].left : ReplayChunk(t, c)
  \/ Return(t)

Failed == phase = "failed" /\ UNCHANGED vars

Next == Read \/ SetOffset \/ (\E t \in Readers : GetChunks(t)) \/ Failed

Working(t) == reader[t] # Idle /\ GetChunks(t)

Spec == Init /\ [][Next]_vars /\ \A t \in Readers : WF_vars(Working(t))

-----------------------------------------------------------------------------
\* What the file says: its commands in order, moved to the origin.
Reference == [i \in DOMAIN Lines(file.blocks) |->
                Shift(Lines(file.blocks)[i], LowestOf(Lines(file.blocks)))]

\* read() behaves as if it parsed the file line by line: it yields the commands
\* in file order, each moved to the origin once, whichever worker parsed or
\* normalized it; a TIBI file replaced between its two passes is never decoded
\* with the key of the other one; and the error names the first malformed line
\* ("failure containing ... and the line number",
\* tests/formats/command_stream_safety.md).
ReadIsSequential ==
  /\ phase = "ready" => [i \in DOMAIN mCommands |-> Shift(mCommands[i], mOrigin)] = Reference
  /\ errorLine # 0 => errorLine = Len(Commands(Lines(file.blocks))) + 1

\* The state of a cell when all commands are replayed in file order.
Naive(x) ==
  LET w == {i \in DOMAIN mCommands :
              x \in Covers(i) /\ ~(format = "tibi" /\ mCommands[i].state = Air)}
  IN  IF w = {} THEN Empty ELSE mCommands[Max(w)].state

\* get_chunks returns what replaying every command of the file in order would,
\* clipped to the chunk: with an index another thread has just built, after any
\* set_offset, and whatever went to the broad list ("retain their exact
\* ordering relative to local commands").
ReplayIsFaithful ==
  \A t \in Readers : (reader[t].pc = "replay" /\ reader[t].left = {}) =>
    \A c \in reader[t].ask : \A x \in Cells(c) : reader[t].result[c][x] = Naive(x)

\* A get_chunks call returns: nobody keeps the index mutex.
CallsReturn == \A t \in Readers : reader[t] # Idle ~> reader[t] = Idle
=============================================================================
