-------------------------- MODULE WorldConversion --------------------------
(***************************************************************************)
(* convert_to_world and WorldChunkSink of src/src/world/world.cpp on top   *)
(* of the chunk stream: the consumer thread collects chunks into a batch   *)
(* and saves it to the world with one save_chunks call, followed by one    *)
(* save_chunk_nbt call per chunk with block entities; the caller's thread  *)
(* decodes the structure meanwhile and reports the result.                 *)
(*                                                                         *)
(* Every step of the stream is ChunkStream's; only the sink's answers are  *)
(* refined here.  Chunks are numbered 1..N in grid order.  A progress      *)
(* callback that throws on the consumer thread ends the process and is not *)
(* modelled.                                                               *)
(***************************************************************************)
EXTENDS Integers, Sequences, FiniteSets

CONSTANTS
  N,              \* chunk_x_count * chunk_z_count
  Yields,         \* chunks of the grid the structure has data for
  HasNbt,         \* chunks with block entities
  Starts,         \* per possible start.y: the chunks it moves out of the world
  FormatDefault,  \* format_default_batch_size
  ExplicitChunks, \* options.max_in_flight_chunks
  BudgetMiB       \* options.soft_memory_budget_bytes in MiB

ASSUME ConversionAssumption ==
  /\ N \in Nat \ {0}
  /\ Yields \subseteq 1 .. N
  /\ HasNbt \subseteq Yields
  /\ Starts \subseteq SUBSET Yields
  /\ FormatDefault \in Nat \ {0}
  /\ ExplicitChunks \in Nat
  /\ BudgetMiB \in Nat

Least(a, b) == IF a < b THEN a ELSE b
Greatest(a, b) == IF a > b THEN a ELSE b

\* One window for the source batch, the queue and the sink's batch; a chunk is
\* charged 6 MiB because it can be in all three of them.
BatchSize ==
  LET explicit == IF ExplicitChunks = 0 THEN FormatDefault ELSE ExplicitChunks
  IN  Greatest(1, Least(FormatDefault, Least(explicit, Greatest(1, BudgetMiB \div 6))))

VARIABLES
  pc, next, batchEnd, held, mQueue, mClosed, mError, inHand, verdict,
  delivered, cancels, finished, failures, latePushes, outcome, \* the stream's
  tooHigh,       \* chunks with a subchunk that argument start moves out of range
  phase,         \* of convert_to_world
  mChunks,       \* the sink's batch
  mReceived,     \* chunks the sink took over
  saved,         \* history: chunks handed to the world's write batch, in order
  savedNbt,      \* history: chunks whose block entities were saved
  completed,     \* stats.completed_chunks
  progress,      \* calls of callbacks.progress
  errorChunk,    \* stats.error_chunk, 0 without
  stage,         \* stats.error_stage
  discardOnClose,\* the adapter's mDiscardOnClose
  result         \* what convert_to_world returned

Stream == INSTANCE ChunkStream WITH
  SourceBatchSize <- BatchSize,
  MaxInFlight <- BatchSize,
  BudgetChunks <- BudgetMiB \div 2

streamVars == <<pc, next, batchEnd, held, mQueue, mClosed, mError, inHand, verdict,
                delivered, cancels, finished, failures, latePushes, outcome>>
sinkState == <<mChunks, mReceived, saved, savedNbt, completed, progress, errorChunk>>
reportVars == <<tooHigh, phase, stage, discardOnClose, result>>
convVars == <<streamVars, sinkState, reportVars>>

Init ==
  /\ Stream!Init
  /\ tooHigh \in Starts
  /\ phase = "sizing"
  /\ mChunks = <<>>
  /\ mReceived = 0
  /\ saved = <<>>
  /\ savedNbt = {}
  /\ completed = 0
  /\ progress = 0
  /\ errorChunk = 0
  /\ stage = "none"
  /\ discardOnClose = FALSE
  /\ result = "none"

\* finish(): the conversion's only exit; a failure marks the adapter so that
\* closing it discards the partial world.
Finish(res, where) ==
  /\ phase' = "returned"
  /\ result' = res
  /\ stage' = IF res = "failure" THEN where ELSE stage
  /\ discardOnClose' = (discardOnClose \/ res = "failure")
  /\ UNCHANGED tooHigh

\* Empty or overflowing sizes are refused before callbacks.start.
RefuseSize ==
  /\ phase = "sizing"
  /\ Finish("failure", "size")
  /\ UNCHANGED <<streamVars, sinkState>>

Begin ==
  /\ phase = "sizing"
  /\ phase' = "pumping"
  /\ UNCHANGED <<streamVars, sinkState, tooHigh, stage, discardOnClose, result>>

-----------------------------------------------------------------------------
(* WorldChunkSink, on the consumer thread.                                 *)

\* flush() succeeded: chunks, then block entities, then the counters; the
\* batch is emptied last.
FlushSucceeds(batch) ==
  /\ saved' = saved \o batch
  /\ savedNbt' = savedNbt \cup {batch[i] : i \in {j \in DOMAIN batch : batch[j] \in HasNbt}}
  /\ completed' = completed + Len(batch)
  /\ progress' = progress + Len(batch)
  /\ mChunks' = <<>>
  /\ UNCHANGED errorChunk

\* Mutant: progress is reported before the save is known to have succeeded.
FlushFailsAfterProgress(batch) ==
  /\ errorChunk' = Head(batch)
  /\ progress' = progress + Len(batch)
  /\ mChunks' = batch
  /\ UNCHANGED <<saved, savedNbt, completed>>

\* flush() failed: the write batch was refused as a whole, or it was written
\* and the block entities of one chunk failed after those before it.
FlushFails(batch) ==
  /\ \/ /\ errorChunk' = Head(batch)
        /\ UNCHANGED <<saved, savedNbt>>
     \/ \E k \in DOMAIN batch :
          /\ batch[k] \in HasNbt
          /\ errorChunk' = batch[k]
          /\ saved' = saved \o batch
          /\ savedNbt' = savedNbt \cup {batch[i] : i \in {j \in 1 .. k - 1 : batch[j] \in HasNbt}}
  /\ mChunks' = batch
  /\ UNCHANGED <<completed, progress>>

Fits == inHand \notin tooHigh
Batched == Append(mChunks, inHand)

\* Mutant: the batch grows beyond the window.
PushBuffersUnbounded ==
  /\ Fits
  /\ Stream!SinkAccepts
  /\ mChunks' = Batched
  /\ mReceived' = mReceived + 1
  /\ UNCHANGED <<saved, savedNbt, completed, progress, errorChunk, reportVars>>

\* push() without and with a flush at the batch capacity.
PushBuffers ==
  /\ Fits
  /\ Len(Batched) < BatchSize
  /\ Stream!SinkAccepts
  /\ mChunks' = Batched
  /\ mReceived' = mReceived + 1
  /\ UNCHANGED <<saved, savedNbt, completed, progress, errorChunk, reportVars>>

PushFlushes ==
  /\ Fits
  /\ Len(Batched) >= BatchSize
  /\ Stream!SinkAccepts
  /\ FlushSucceeds(Batched)
  /\ mReceived' = mReceived + 1
  /\ UNCHANGED reportVars

\* A subchunk would leave the Overworld: refused before anything is buffered.
PushOutOfRange ==
  /\ ~Fits
  /\ Stream!SinkRefuses
  /\ errorChunk' = inHand
  /\ UNCHANGED <<mChunks, mReceived, saved, savedNbt, completed, progress, reportVars>>

PushFlushFails ==
  /\ Fits
  /\ Len(Batched) >= BatchSize
  /\ Stream!SinkRefuses
  /\ FlushFails(Batched)
  /\ mReceived' = mReceived + 1
  /\ UNCHANGED reportVars

\* Mutant: finish() forgets the last, shorter batch.
FinishWithoutFlush ==
  /\ Stream!Finish
  /\ outcome' = "success"
  /\ UNCHANGED <<sinkState, reportVars>>

\* finish(): the last, shorter batch.
FinishFlushes ==
  /\ Stream!Finish
  /\ outcome' = "success"
  /\ FlushSucceeds(mChunks)
  /\ UNCHANGED <<mReceived, reportVars>>

FinishFails ==
  /\ mChunks # <<>>
  /\ Stream!Finish
  /\ outcome' = "finish"
  /\ FlushFails(mChunks)
  /\ UNCHANGED <<mReceived, reportVars>>

-----------------------------------------------------------------------------
(* After pump().                                                           *)

ReportFailure ==
  /\ phase = "pumping"
  /\ outcome \notin {"running", "success"}
  /\ Finish("failure", IF errorChunk # 0 THEN "world sink" ELSE "chunk stream")
  /\ UNCHANGED <<streamVars, sinkState>>

\* Chunks the structure had no data for are reported as done, too.
ReportSuccess ==
  /\ phase = "pumping"
  /\ outcome = "success"
  /\ progress' = progress + (IF N > mReceived THEN N - mReceived ELSE 0)
  /\ completed' = N
  /\ Finish("success", "none")
  /\ UNCHANGED <<streamVars, mChunks, mReceived, saved, savedNbt, errorChunk>>

Sink ==
  \/ PushBuffers \/ PushFlushes \/ PushOutOfRange \/ PushFlushFails

Caller ==
  \/ RefuseSize \/ Begin \/ ReportFailure \/ ReportSuccess
  \/ /\ phase = "pumping"
     /\ \/ Stream!ProducerSteps /\ UNCHANGED <<sinkState, reportVars>>
        \/ FinishFlushes \/ FinishFails

ConsumerThread ==
  /\ phase = "pumping"
  /\ Sink \/ (Stream!ConsumerSteps /\ UNCHANGED <<sinkState, reportVars>>)

Done == phase = "returned" /\ UNCHANGED convVars

\* A wait of the queue returns without a notification.
SpuriousWakeup ==
  /\ \E t \in Stream!Threads : Stream!SpuriousWakeup(t)
  /\ UNCHANGED <<sinkState, reportVars>>

Next == Caller \/ ConsumerThread \/ SpuriousWakeup \/ Done

\* Both threads are scheduled; saves, NBT reads and callbacks return.
Spec == Init /\ [][Next]_convVars /\ WF_convVars(Caller) /\ WF_convVars(ConsumerThread)

-----------------------------------------------------------------------------
Elements(s) == {s[i] : i \in DOMAIN s}
PhaseNames == {"sizing", "pumping", "returned"}
StageNames == {"none", "size", "chunk stream", "world sink"}

TypeOK ==
  /\ phase \in PhaseNames
  /\ mChunks \in Seq(Yields)
  /\ mReceived \in 0 .. N
  /\ saved \in Seq(Yields)
  /\ savedNbt \subseteq HasNbt
  /\ completed \in 0 .. N
  /\ progress \in 0 .. N
  /\ errorChunk \in {0} \cup Yields
  /\ stage \in StageNames
  /\ discardOnClose \in BOOLEAN
  /\ result \in {"none", "success", "failure"}

\* The world receives every chunk at most once and in grid order, although a
\* failed flush keeps its batch; and success means the whole structure is there:
\* every chunk it yields, all block entities, nothing left in the sink's batch;
\* and every failure, on either thread, makes close() discard the partial world.
WholeOrDiscarded ==
  /\ \A i, j \in DOMAIN saved : i < j => saved[i] < saved[j]
  /\ result = "success" =>
       /\ Elements(saved) = Yields
       /\ savedNbt = HasNbt
       /\ mChunks = <<>>
       /\ tooHigh = {}
  /\ result = "failure" => discardOnClose

\* Progress never runs ahead of the world: until the conversion has succeeded
\* each call of callbacks.progress stands for a chunk saved with its entities;
\* a successful one has reported exactly the total announced to start().
ProgressIsSaved ==
  IF result = "success" THEN progress = N /\ completed = N
  ELSE /\ progress <= Len(saved)
       /\ \A i \in 1 .. progress : saved[i] \in HasNbt => saved[i] \in savedNbt

\* Memory is charged as one window for each of the source batch, the queue and
\* the sink's batch: none of the three ever outgrows it, whichever thread is
\* ahead and however a flush ended.
PipelineWindow ==
  /\ Cardinality(held) <= BatchSize
  /\ Len(mQueue) <= BatchSize
  /\ Len(mChunks) <= BatchSize

-----------------------------------------------------------------------------
\* What the stream promises the sink, and that pump tells of every failure, with
\* WorldChunkSink as the sink (see ChunkStream).
SinkProtocol == Stream!SinkProtocol

\* The contract of the whole conversion: an ordered transfer of the chunks the structure
\* yields, which also after a failure has delivered a gap-free beginning, which says
\* success only at the end, and which ends: neither thread sleeps for ever on the
\* queue, whoever fails, and convert_to_world returns. (QueueSink, pump)
Transfer == INSTANCE OrderedTransfer WITH
  Items <- Yields,
  outcome <- IF result = "none" THEN "running" ELSE result
TransferSpec == Transfer!Spec
=============================================================================
