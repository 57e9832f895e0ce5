---------------------------- MODULE ChunkStream ----------------------------
(***************************************************************************)
(* The producer/consumer bridge every conversion to a world runs through:  *)
(* ChunkStream::pump and QueueSink of src/src/core/chunk_stream.cpp, with  *)
(* the producer that from_structure and from_structure_grid build.         *)
(*                                                                         *)
(* Two threads: "producer" is the caller of pump, "consumer" the thread it *)
(* starts.  The positions of the structure are 1..N in the order they are  *)
(* requested; the structure yields a chunk for those in Yields and nothing *)
(* for the others.  A step is one critical section of QueueSink::mMutex,   *)
(* one notification made after the unlock, or one call into the structure  *)
(* or the sink.  Each condition variable has a single possible waiter      *)
(* (the producer on mSpace, the consumer on mReady).                       *)
(***************************************************************************)
EXTENDS Integers, Sequences, FiniteSets

CONSTANTS
  N,               \* number of positions requested from the structure
  Yields,          \* the positions for which it yields a chunk
  SourceBatchSize, \* argument source_batch_size
  MaxInFlight,     \* options.max_in_flight_chunks
  BudgetChunks     \* options.soft_memory_budget_bytes / kBytesPerChunk

Clamp(x, lo, hi) == IF x < lo THEN lo ELSE IF x > hi THEN hi ELSE x

\* stream_capacity(): an explicit window stays subordinate to the budget.
BudgetCapacity == Clamp(BudgetChunks, 1, 128)
Capacity ==
  IF MaxInFlight = 0 \/ Clamp(MaxInFlight, 1, 4096) > BudgetCapacity
  THEN BudgetCapacity
  ELSE Clamp(MaxInFlight, 1, 4096)

Batch == IF SourceBatchSize > 1 THEN SourceBatchSize ELSE 1

NoChunk == 0
Chunks == 1 .. N
Threads == {"producer", "consumer"}

\* Why a transfer fails: the structure's NBT or chunk call returned an error
\* or threw, or the sink refused a chunk or its finish().
SourceErrors == {"nbt", "visit", "exception"}
Errors == SourceErrors \cup {"sink", "finish"}

VARIABLES
  pc,         \* where each thread is
  next,       \* the producer's next position
  batchEnd,   \* last position of the current source batch
  held,       \* positions whose NBT and chunks the structure holds for it
  mQueue, mClosed, mError,
  inHand,     \* the chunk the consumer has popped
  verdict,    \* verdict[t]: "ok" or the error of producer_result/consumer_result
  delivered,  \* chunks the sink accepted, in order
  cancels,    \* calls of sink.cancel()
  finished,   \* the sink's finish() was called
  failures,   \* history: every error that occurred in source or sink
  latePushes, \* history: sink pushes begun after cancel() was called
  outcome     \* what pump returned, "running" before

queueVars == <<mQueue, mClosed, mError>>
sourceVars == <<next, batchEnd, held>>
sinkVars == <<delivered, cancels, finished>>
vars == <<pc, sourceVars, queueVars, inHand, verdict, sinkVars,
          failures, latePushes, outcome>>

Init ==
  /\ pc = [producer |-> "batch", consumer |-> "locking"]
  /\ next = 1
  /\ batchEnd = 0
  /\ held = {}
  /\ mQueue = <<>>
  /\ mClosed = FALSE
  /\ mError = "none"
  /\ inHand = NoChunk
  /\ verdict = [t \in Threads |-> "ok"]
  /\ delivered = <<>>
  /\ cancels = 0
  /\ finished = FALSE
  /\ failures = {}
  /\ latePushes = 0
  /\ outcome = "running"

Goto(t, from, to) ==
  /\ pc[t] = from
  /\ pc' = [pc EXCEPT ![t] = to]

-----------------------------------------------------------------------------
(* The producer: produce_structure_batch() inside from_structure*().       *)

\* get_chunk_nbt() succeeded: the NBT of the whole batch is materialised.
BeginBatch ==
  /\ next <= N
  /\ Goto("producer", "batch", "visit")
  /\ batchEnd' = IF next + Batch - 1 < N THEN next + Batch - 1 ELSE N
  /\ held' = next .. batchEnd'
  /\ UNCHANGED <<next, queueVars, inHand, verdict, sinkVars, failures, latePushes, outcome>>

\* The structure fails: get_chunk_nbt before the visit (nothing to release),
\* visit_chunks, after which release_cached_chunks() still runs, or either of
\* them throws, which skips the release.
SourceFails ==
  /\ \E e \in SourceErrors :
       /\ \/ pc["producer"] = "batch" /\ next <= N /\ e \in {"nbt", "exception"}
          \/ pc["producer"] = "visit" /\ e \in {"visit", "exception"}
       /\ verdict' = [verdict EXCEPT !["producer"] = e]
       /\ failures' = failures \cup {e}
       /\ held' = IF e = "visit" THEN {} ELSE held
  /\ pc' = [pc EXCEPT !["producer"] = "fail"]
  /\ UNCHANGED <<next, batchEnd, queueVars, inHand, sinkVars, latePushes, outcome>>

\* The structure has no chunk for this position: the visitor is not called.
SkipChunk ==
  /\ next <= batchEnd
  /\ next \notin Yields
  /\ Goto("producer", "visit", "visit")
  /\ next' = next + 1
  /\ UNCHANGED <<batchEnd, held, queueVars, inHand, verdict, sinkVars, failures, latePushes, outcome>>

VisitChunk ==
  /\ next <= batchEnd
  /\ next \in Yields
  /\ Goto("producer", "visit", "push")
  /\ UNCHANGED <<sourceVars, queueVars, inHand, verdict, sinkVars, failures, latePushes, outcome>>

\* QueueSink::push blocks on mSpace while the queue is full.
PushWait ==
  /\ ~mClosed /\ mError = "none" /\ Len(mQueue) >= Capacity
  /\ Goto("producer", "push", "waiting")
  /\ UNCHANGED <<sourceVars, queueVars, inHand, verdict, sinkVars, failures, latePushes, outcome>>

\* The consumer has failed the queue: push returns its error, the visit stops,
\* the cached chunks are released and the batch returns the error.
PushRefused ==
  /\ mClosed \/ mError # "none"
  /\ Goto("producer", "push", "fail")
  /\ verdict' = [verdict EXCEPT !["producer"] = mError]
  /\ held' = {}
  /\ UNCHANGED <<next, batchEnd, queueVars, inHand, sinkVars, failures, latePushes, outcome>>

PushEnqueue ==
  /\ ~mClosed /\ mError = "none" /\ Len(mQueue) < Capacity
  /\ Goto("producer", "push", "pushed")
  /\ mQueue' = Append(mQueue, next)
  /\ UNCHANGED <<sourceVars, mClosed, mError, inHand, verdict, sinkVars, failures, latePushes, outcome>>

\* notify_one on a condition variable with one possible waiter.
Woken(t) == IF pc[t] = "waiting" THEN (IF t = "producer" THEN "push" ELSE "locking") ELSE pc[t]

\* mReady.notify_one() after the unlock; push returns and the visit goes on.
PushNotify ==
  /\ pc["producer"] = "pushed"
  /\ pc' = [producer |-> "visit", consumer |-> Woken("consumer")]
  /\ next' = next + 1
  /\ UNCHANGED <<batchEnd, held, queueVars, inHand, verdict, sinkVars, failures, latePushes, outcome>>

\* visit_chunks returned success: release_cached_chunks().
EndBatch ==
  /\ next > batchEnd
  /\ Goto("producer", "visit", "batch")
  /\ held' = {}
  /\ UNCHANGED <<next, batchEnd, queueVars, inHand, verdict, sinkVars, failures, latePushes, outcome>>

ProducerReturns ==
  /\ next > N
  /\ Goto("producer", "batch", "close")
  /\ UNCHANGED <<sourceVars, queueVars, inHand, verdict, sinkVars, failures, latePushes, outcome>>

-----------------------------------------------------------------------------
(* QueueSink::fail, called by either thread with its own error, and close. *)

\* Mutant: the queue keeps its chunks.
FailLockedKeepsQueue(t) ==
  /\ Goto(t, "fail", "failed")
  /\ mError' = IF mError = "none" THEN verdict[t] ELSE mError
  /\ mClosed' = TRUE
  /\ UNCHANGED <<sourceVars, mQueue, inHand, verdict, sinkVars, failures, latePushes, outcome>>

\* The first error wins, the queue is closed and emptied.
FailLocked(t) ==
  /\ Goto(t, "fail", "failed")
  /\ mError' = IF mError = "none" THEN verdict[t] ELSE mError
  /\ mClosed' = TRUE
  /\ mQueue' = <<>>
  /\ UNCHANGED <<sourceVars, inHand, verdict, sinkVars, failures, latePushes, outcome>>

\* Mutant: only the consumer is woken.
FailWakeConsumerOnly(t) ==
  /\ pc[t] = "failed"
  /\ pc' = [u \in Threads |->
              IF u = t THEN "cancel" ELSE IF u = "consumer" THEN Woken(u) ELSE pc[u]]
  /\ UNCHANGED <<sourceVars, queueVars, inHand, verdict, sinkVars, failures, latePushes, outcome>>

\* notify_all on both condition variables, outside the lock.
FailWake(t) ==
  /\ pc[t] = "failed"
  /\ pc' = [u \in Threads |-> IF u = t THEN "cancel" ELSE Woken(u)]
  /\ UNCHANGED <<sourceVars, queueVars, inHand, verdict, sinkVars, failures, latePushes, outcome>>

\* mDownstream.cancel(); the other thread may be inside mDownstream.push().
FailCancel(t) ==
  /\ Goto(t, "cancel", IF t = "producer" THEN "close" ELSE "done")
  /\ cancels' = cancels + 1
  /\ UNCHANGED <<sourceVars, queueVars, inHand, verdict, delivered, finished, failures, latePushes, outcome>>

CloseLocked ==
  /\ Goto("producer", "close", "closed")
  /\ mClosed' = TRUE
  /\ UNCHANGED <<sourceVars, mQueue, mError, inHand, verdict, sinkVars, failures, latePushes, outcome>>

CloseWake ==
  /\ pc["producer"] = "closed"
  /\ pc' = [producer |-> "join", consumer |-> Woken("consumer")]
  /\ UNCHANGED <<sourceVars, queueVars, inHand, verdict, sinkVars, failures, latePushes, outcome>>

-----------------------------------------------------------------------------
(* The consumer: QueueSink::consume().                                     *)

ConsumeWait ==
  /\ mQueue = <<>> /\ ~mClosed
  /\ Goto("consumer", "locking", "waiting")
  /\ UNCHANGED <<sourceVars, queueVars, inHand, verdict, sinkVars, failures, latePushes, outcome>>

ConsumeEnd ==
  /\ mQueue = <<>> /\ mClosed
  /\ Goto("consumer", "locking", "done")
  /\ verdict' = [verdict EXCEPT !["consumer"] = IF mError = "none" THEN "ok" ELSE mError]
  /\ UNCHANGED <<sourceVars, queueVars, inHand, sinkVars, failures, latePushes, outcome>>

ConsumePop ==
  /\ mQueue # <<>>
  /\ Goto("consumer", "locking", "popped")
  /\ inHand' = Head(mQueue)
  /\ mQueue' = Tail(mQueue)
  /\ UNCHANGED <<sourceVars, mClosed, mError, verdict, sinkVars, failures, latePushes, outcome>>

\* mSpace.notify_one(), then the call of mDownstream.push() begins.
ConsumeNotify ==
  /\ pc["consumer"] = "popped"
  /\ pc' = [producer |-> Woken("producer"), consumer |-> "pushing"]
  /\ latePushes' = IF cancels > 0 THEN latePushes + 1 ELSE latePushes
  /\ UNCHANGED <<sourceVars, queueVars, inHand, verdict, sinkVars, failures, outcome>>

SinkAccepts ==
  /\ Goto("consumer", "pushing", "locking")
  /\ delivered' = Append(delivered, inHand)
  /\ inHand' = NoChunk
  /\ UNCHANGED <<sourceVars, queueVars, verdict, cancels, finished, failures, latePushes, outcome>>

SinkRefuses ==
  /\ Goto("consumer", "pushing", "fail")
  /\ inHand' = NoChunk
  /\ verdict' = [verdict EXCEPT !["consumer"] = "sink"]
  /\ failures' = failures \cup {"sink"}
  /\ UNCHANGED <<sourceVars, queueVars, sinkVars, latePushes, outcome>>

-----------------------------------------------------------------------------
(* The end of pump(), after consumer.join().                               *)

Joined == pc["producer"] = "join" /\ pc["consumer"] = "done"

ReturnError ==
  /\ Joined
  /\ \E e \in Errors :
       /\ \/ verdict["producer"] = e
          \/ verdict["producer"] = "ok" /\ verdict["consumer"] = e
          \/ verdict["producer"] = "ok" /\ verdict["consumer"] = "ok" /\ mError = e
       /\ outcome' = e
  /\ pc' = [pc EXCEPT !["producer"] = "returned"]
  /\ UNCHANGED <<sourceVars, queueVars, inHand, verdict, sinkVars, failures, latePushes>>

NoErrorSeen ==
  verdict["producer"] = "ok" /\ verdict["consumer"] = "ok" /\ mError = "none"

\* return sink.finish()
Finish ==
  /\ Joined /\ NoErrorSeen
  /\ finished' = TRUE
  /\ \/ outcome' = "success" /\ UNCHANGED failures
     \/ outcome' = "finish" /\ failures' = failures \cup {"finish"}
  /\ pc' = [pc EXCEPT !["producer"] = "returned"]
  /\ UNCHANGED <<sourceVars, queueVars, inHand, verdict, delivered, cancels, latePushes>>

\* A wait may return without a notification.
SpuriousWakeup(t) ==
  /\ pc[t] = "waiting"
  /\ pc' = [pc EXCEPT ![t] = Woken(t)]
  /\ UNCHANGED <<sourceVars, queueVars, inHand, verdict, sinkVars, failures, latePushes, outcome>>

Fail(t) == FailLocked(t) \/ FailWake(t) \/ FailCancel(t)

\* What pump and its queue do by themselves, and what involves the sink's
\* answer: a concrete sink refines only the latter.
ProducerSteps ==
  \/ BeginBatch \/ SourceFails \/ SkipChunk \/ VisitChunk
  \/ PushWait \/ PushRefused \/ PushEnqueue \/ PushNotify \/ EndBatch
  \/ ProducerReturns \/ Fail("producer") \/ CloseLocked \/ CloseWake
  \/ ReturnError

ConsumerSteps ==
  ConsumeWait \/ ConsumeEnd \/ ConsumePop \/ ConsumeNotify \/ Fail("consumer")

-----------------------------------------------------------------------------
RangeOf(s) == {s[i] : i \in DOMAIN s}

TypeOK ==
  /\ pc["producer"] \in {"batch", "visit", "push", "waiting", "pushed", "fail",
        "failed", "cancel", "close", "closed", "join", "returned"}
  /\ pc["consumer"] \in {"locking", "waiting", "popped", "pushing", "fail",
        "failed", "cancel", "done"}
  /\ pc = [producer |-> pc["producer"], consumer |-> pc["consumer"]]
  /\ next \in 1 .. N + 1
  /\ batchEnd \in 0 .. N
  /\ held \in SUBSET Chunks
  /\ mQueue \in Seq(Chunks)
  /\ mClosed \in BOOLEAN
  /\ mError \in {"none"} \cup Errors
  /\ inHand \in Chunks \cup {NoChunk}
  /\ verdict \in [Threads -> {"ok"} \cup Errors]
  /\ delivered \in Seq(Chunks)
  /\ cancels \in Nat
  /\ finished \in BOOLEAN
  /\ failures \in SUBSET Errors
  /\ latePushes \in Nat
  /\ outcome \in {"running", "success"} \cup Errors

\* What the sink sees: finish() commits it and is called only when the consumer
\* thread is gone, the sink accepted every chunk the structure yields and was
\* never cancelled; only then can pump report success; and after it was told to
\* cancel, at most the one chunk the consumer had already popped still arrives.
\* No failure is swallowed and none is invented: pump returns an error iff
\* something failed, and the error it returns did occur, even when both
\* threads fail at the same time.
SinkProtocol ==
  /\ outcome = "success" => finished
  /\ finished => /\ RangeOf(delivered) = Yields
                 /\ pc["consumer"] = "done"
                 /\ cancels = 0
                 /\ failures \subseteq {"finish"}
  /\ latePushes <= 1
  /\ outcome # "running" =>
       IF failures = {} THEN outcome = "success" ELSE outcome \in failures
=============================================================================
