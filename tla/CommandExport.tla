---------------------------- MODULE CommandExport ----------------------------
(***************************************************************************)
(* The parallel writers of command files: write_mcfunction                 *)
(* (src/src/formats/mcfunction_writer.cpp) and write_ibimport              *)
(* (src/src/formats/ibimport_writer.cpp).                                  *)
(*                                                                         *)
(* Both read a structure in batches, hand each piece to a thread pool that *)
(* encodes it and keep the futures in a deque, whose front is written to   *)
(* the file.  A structure may offer its palettes; MCFunction then starts a *)
(* loader thread that reads ahead, IBImport is called back for each chunk  *)
(* while the structure is still reading.  A MCFunction task may spill its  *)
(* commands to a temporary file.  Every early return unwinds the local     *)
(* objects of the function in the reverse order of their declaration,      *)
(* which is what stops threads and removes files.                          *)
(*                                                                         *)
(* A piece is one task: a batch for MCFunction, a chunk for IBImport.      *)
(* Waiting on a condition variable is a guard: every change its predicates *)
(* read is made under the mutex and followed by notify_all.                *)
(***************************************************************************)
EXTENDS Integers, Sequences, FiniteSets, FiniteSetsExt, SequencesExt, Functions

CONSTANTS
  Pieces,  \* number of tasks of an export
  Sizes,   \* spilled size of a task's commands; 0 fits in memory
  Jobs     \* exports to consider, see JobSet

\* writer, per: pieces in one call into the structure; window: requested
\* window in batches; threads, tasks: worker_count and max_in_flight_tasks (0
\* when unset); spool, limit: allow_temporary_spool and
\* temporary_file_limit_bytes (0 when unset) in units of Sizes.
JobSet == [writer : {"mcfunction", "ibimport"}, per : Nat \ {0},
           window : Nat \ {0}, threads : Nat, tasks : Nat,
           spool : BOOLEAN, limit : Nat]

ASSUME ExportAssumption ==
  /\ Pieces \in Nat \ {0}
  /\ Sizes \subseteq Nat
  /\ Jobs \subseteq JobSet
  /\ \A j \in Jobs : Pieces % j.per = 0 /\ (j.writer = "mcfunction" => j.per = 1)

VARIABLES
  job,
  pc,        \* of the calling thread
  verdict,   \* what it will return: "ok" or "failed"
  mode,      \* "probe", "palette" or "generic"
  visiting,  \* the calling thread is inside the structure
  taken,     \* pieces the calling thread has got
  hand,      \* of these, the ones not yet submitted
  scanned,   \* IBImport: chunks read for the second segment
  pending,   \* deque of futures
  delivered, \* history: pieces whose commands went to the file
  outcome,   \* "running", "success", "failure"; "dead" after undefined behaviour
  queue, running, result,            \* the pool; results of the tasks so far
  loader, loaded, fetched, cancel,   \* loader thread and its queue
  unwind,    \* local objects still to be destroyed
  contexts,  \* worker_contexts is alive
  temp,      \* temporary directory: "none", "there", "removed"
  spills     \* sizes of the files in it

callerVars == <<job, pc, verdict, mode, visiting, taken, hand, scanned, pending, delivered, outcome>>
poolVars == <<queue, running, result, spills>>
loaderVars == <<loader, loaded, fetched, cancel>>
scopeVars == <<unwind, contexts, temp>>
vars == <<callerVars, poolVars, loaderVars, scopeVars>>

McFunction == job.writer = "mcfunction"

\* worker_count of both writers.
Workers ==
  IF McFunction
  THEN Min({Max({job.threads, 1}), Pieces, job.window})
  ELSE Min({IF job.threads = 0 THEN 3 ELSE job.threads, job.window})

MaxInFlight == Max({1, Min({IF job.tasks = 0 THEN 2 * Workers ELSE job.tasks, job.window})})

PrefetchBatches == Max({1, Min({3, job.window \div 2})})

\* task_spill_limit: what one task may write to the disk.
SpillShare == job.limit \div MaxInFlight

Capacity == IF McFunction THEN Workers ELSE MaxInFlight
Sequential == McFunction /\ Workers = 1
Pipelined == loader # "none"
Tasks == ToSet(queue) \cup running \cup ToSet(pending)

\* The local objects that matter, in the order of their destruction.
Scope ==
  IF Sequential THEN <<>>
  ELSE IF McFunction THEN <<"cancel", "loader", "pending", "pool", "contexts", "temp">>
  ELSE <<"pending", "contexts", "pool">>

Init ==
  /\ job \in Jobs
  /\ pc = "start" /\ verdict = "ok" /\ mode = "probe"
  /\ visiting = FALSE /\ taken = 0 /\ hand = <<>> /\ scanned = 0
  /\ pending = <<>> /\ delivered = <<>> /\ outcome = "running"
  /\ queue = <<>> /\ running = {} /\ result = [i \in {} |-> "ok"]
  /\ loader = "none" /\ loaded = <<>> /\ fetched = 0 /\ cancel = FALSE
  /\ unwind = <<>> /\ contexts = FALSE /\ temp = "none" /\ spills = [i \in {} |-> 0]

\* Leave the block: by return, by an exception or at its end.
Leave(v) ==
  /\ pc' = "unwind"
  /\ verdict' = v
  /\ unwind' = Scope

\* The output file or the temporary directory may not be created; a limit
\* below one unit a task is refused.
Start ==
  /\ pc = "start"
  /\ \/ /\ job.limit # 0 => SpillShare # 0
        /\ pc' = "next"
        /\ contexts' = ~Sequential
        /\ temp' = IF McFunction /\ ~Sequential /\ job.spool THEN "there" ELSE "none"
        /\ UNCHANGED verdict
     \/ pc' = "unwind" /\ verdict' = "failed" /\ UNCHANGED <<contexts, temp>>
  /\ UNCHANGED <<job, mode, visiting, taken, hand, scanned, pending, delivered, outcome,
                 poolVars, loaderVars, unwind>>

-----------------------------------------------------------------------------
(* Reading the structure on the calling thread.                            *)

WantsBatch ==
  /\ pc = "next" /\ hand = <<>> /\ taken < Pieces
  /\ Len(pending) < MaxInFlight

\* Mutant: the main thread reads although the loader does.
EnterBesideLoader ==
  /\ WantsBatch
  /\ visiting' = TRUE
  /\ pc' = "inside"
  /\ UNCHANGED <<job, verdict, mode, taken, hand, scanned, pending, delivered, outcome,
                 poolVars, loaderVars, scopeVars>>

Enter ==
  /\ WantsBatch /\ ~Pipelined /\ ~visiting
  /\ visiting' = TRUE
  /\ pc' = "inside"
  /\ UNCHANGED <<job, verdict, mode, taken, hand, scanned, pending, delivered, outcome,
                 poolVars, loaderVars, scopeVars>>

\* visit_chunk_palettes() is refused: the outcome of the probe is kept, and the
\* same batch is read through get_chunks_layer0().  MCFunction also falls back
\* later, IBImport only before the first callback.
FallBack ==
  /\ pc = "inside" /\ mode # "generic"
  /\ ~McFunction => taken = 0
  /\ mode' = "generic"
  /\ UNCHANGED <<job, pc, verdict, visiting, taken, hand, scanned, pending, delivered, outcome,
                 poolVars, loaderVars, scopeVars>>

\* A batch comes back.  A first batch of palettes starts the loader thread,
\* unless there is only one worker.
LoadBatch ==
  /\ pc = "inside"
  /\ McFunction \/ mode = "generic"
  /\ hand' = [k \in 1 .. job.per |-> taken + k]
  /\ taken' = taken + job.per
  /\ mode' = IF mode = "generic" THEN "generic" ELSE "palette"
  /\ visiting' = FALSE
  /\ pc' = "next"
  /\ IF mode # "generic" /\ ~Sequential
     THEN loader' = "wait" /\ fetched' = taken'
     ELSE UNCHANGED <<loader, fetched>>
  /\ UNCHANGED <<job, verdict, scanned, pending, delivered, outcome, poolVars,
                 loaded, cancel, scopeVars>>

\* IBImport: the structure calls back with the palettes of one chunk.
Callback ==
  /\ ~McFunction /\ mode # "generic"
  /\ visiting /\ hand = <<>>
  /\ \/ pc = "inside"
     \/ pc = "next" /\ taken % job.per # 0 /\ Len(pending) < MaxInFlight
  /\ hand' = <<taken + 1>>
  /\ taken' = taken + 1
  /\ pc' = "next"
  /\ UNCHANGED <<job, verdict, mode, visiting, scanned, pending, delivered, outcome,
                 poolVars, loaderVars, scopeVars>>

VisitReturns ==
  /\ ~McFunction /\ mode # "generic"
  /\ pc = "next" /\ visiting /\ hand = <<>>
  /\ taken % job.per = 0 /\ Len(pending) < MaxInFlight
  /\ mode' = "palette"
  /\ visiting' = FALSE
  /\ UNCHANGED <<job, pc, verdict, taken, hand, scanned, pending, delivered, outcome,
                 poolVars, loaderVars, scopeVars>>

\* The structure fails, in the middle of its callbacks too.
ReadFails ==
  /\ pc = "inside" \/ (pc = "next" /\ visiting /\ hand = <<>> /\ Len(pending) < MaxInFlight)
  /\ visiting' = FALSE
  /\ Leave("failed")
  /\ UNCHANGED <<job, mode, taken, hand, scanned, pending, delivered, outcome,
                 poolVars, loaderVars, contexts, temp>>

-----------------------------------------------------------------------------
(* The loader thread of MCFunction.                                        *)

LoaderEnter ==
  /\ loader = "wait" /\ fetched < Pieces
  /\ ~cancel /\ Len(loaded) < PrefetchBatches
  /\ loader' = "inside"
  /\ UNCHANGED <<callerVars, poolVars, loaded, fetched, cancel, scopeVars>>

LoaderEnds ==
  /\ loader = "wait"
  /\ cancel \/ fetched = Pieces
  /\ loader' = "ended"
  /\ UNCHANGED <<callerVars, poolVars, loaded, fetched, cancel, scopeVars>>

\* A palette refused here falls back to get_chunks_layer0() on this thread; a
\* failed batch is queued like a good one and the loader goes on, an exception
\* is queued and ends it.
LoaderReturns ==
  /\ loader = "inside"
  /\ fetched' = fetched + 1
  /\ mode' \in {mode, "generic"}
  /\ \/ loaded' = Append(loaded, fetched') /\ loader' = "wait"
     \/ loaded' = Append(loaded, 0) /\ loader' \in {"wait", "ended"}
  /\ UNCHANGED <<job, pc, verdict, visiting, taken, hand, scanned, pending, delivered, outcome,
                 poolVars, cancel, scopeVars>>

\* loaded.front(); 0 stands for a failure.  (The queue is never empty with the
\* loader gone: then no progress would be possible here.)
TakeLoaded ==
  /\ WantsBatch /\ Pipelined /\ loaded # <<>>
  /\ loaded' = Tail(loaded)
  /\ IF Head(loaded) = 0
     THEN Leave("failed") /\ UNCHANGED <<taken, hand>>
     ELSE /\ hand' = <<Head(loaded)>>
          /\ taken' = taken + 1
          /\ UNCHANGED <<pc, verdict, unwind>>
  /\ UNCHANGED <<job, mode, visiting, scanned, pending, delivered, outcome, poolVars,
                 loader, fetched, cancel, contexts, temp>>

-----------------------------------------------------------------------------
(* Encoding.                                                               *)

\* One worker: the commands go straight to the file.
EncodeDirectly ==
  /\ pc = "next" /\ hand # <<>> /\ Sequential
  /\ \/ delivered' = Append(delivered, Head(hand)) /\ hand' = <<>> /\ UNCHANGED <<pc, verdict, unwind>>
     \/ Leave("failed") /\ UNCHANGED <<delivered, hand>>
  /\ UNCHANGED <<job, mode, visiting, taken, scanned, pending, outcome, poolVars, loaderVars,
                 contexts, temp>>

\* Mutant: nothing limits the futures that wait to be written.
SubmitUnbounded ==
  /\ pc = "next" /\ hand # <<>> /\ ~Sequential
  /\ Len(queue) < Capacity
  /\ queue' = Append(queue, Head(hand))
  /\ pending' = Append(pending, Head(hand))
  /\ hand' = Tail(hand)
  /\ UNCHANGED <<job, pc, verdict, mode, visiting, taken, scanned, delivered, outcome,
                 running, result, spills, loaderVars, scopeVars>>

\* submit() waits while the pool's queue is full.
Submit ==
  /\ pc = "next" /\ hand # <<>> /\ ~Sequential
  /\ Len(pending) < MaxInFlight
  /\ Len(queue) < Capacity
  /\ queue' = Append(queue, Head(hand))
  /\ pending' = Append(pending, Head(hand))
  /\ hand' = Tail(hand)
  /\ UNCHANGED <<job, pc, verdict, mode, visiting, taken, scanned, delivered, outcome,
                 running, result, spills, loaderVars, scopeVars>>

TakeTask ==
  /\ queue # <<>>
  /\ Cardinality(running) < Workers
  /\ running' = running \cup {Head(queue)}
  /\ queue' = Tail(queue)
  /\ UNCHANGED <<callerVars, result, spills, loaderVars, scopeVars>>

\* IBImport encodes palettes without the per-worker caches.
UsesContext == McFunction \/ mode = "generic"

\* f, which now says v of task i.
Noted(f, i, v) == [k \in DOMAIN f \cup {i} |-> IF k = i THEN v ELSE f[k]]

Finish(i, r) ==
  /\ running' = running \ {i}
  /\ result' = Noted(result, i, r)

\* Encoding fails, or the commands fit into memory.
EncodeInMemory(i) ==
  /\ Finish(i, "ok") \/ Finish(i, "failed")
  /\ UNCHANGED <<callerVars, queue, spills, loaderVars, scopeVars>>

\* TaskCommandBuffer: what does not fit goes to a file of the task's own; past
\* its share of the limit the task fails and the file stays.
EncodeToFile(i) ==
  /\ McFunction /\ temp = "there"
  /\ \E size \in Sizes \ {0} :
       LET fits == job.limit = 0 \/ size <= SpillShare
       IN  /\ Finish(i, IF fits THEN "ok" ELSE "failed")
           /\ spills' = Noted(spills, i, IF fits THEN size ELSE SpillShare)
  /\ UNCHANGED <<callerVars, queue, loaderVars, scopeVars>>

\* A task whose worker_contexts are gone: undefined behaviour.
ReadFreedContext ==
  /\ running # {} /\ UsesContext /\ ~contexts
  /\ outcome' = "dead"
  /\ UNCHANGED <<job, pc, verdict, mode, visiting, taken, hand, scanned, pending, delivered,
                 poolVars, loaderVars, scopeVars>>

-----------------------------------------------------------------------------
(* Writing the results in submission order.                                *)

MayDrain ==
  /\ pending # <<>>
  /\ \/ pc = "next" /\ Len(pending) >= MaxInFlight
     \/ pc = "tail"

\* Mutant: the first task that is ready is written.
DrainReady ==
  /\ MayDrain
  /\ \E i \in ToSet(pending) \cap DOMAIN result :
       /\ result[i] = "ok"
       /\ delivered' = Append(delivered, i)
       /\ pending' = SelectSeq(pending, LAMBDA j : j # i)
       /\ spills' = Restrict(spills, DOMAIN spills \ {i})
  /\ UNCHANGED <<job, pc, verdict, mode, visiting, taken, hand, scanned, outcome,
                 queue, running, result, loaderVars, scopeVars>>

\* drain_one(): the commands are copied into the file, the task's file goes.
Drain ==
  /\ MayDrain
  /\ Head(pending) \in DOMAIN result /\ result[Head(pending)] = "ok"
  /\ delivered' = Append(delivered, Head(pending))
  /\ pending' = Tail(pending)
  /\ spills' = Restrict(spills, DOMAIN spills \ {Head(pending)})
  /\ UNCHANGED <<job, pc, verdict, mode, visiting, taken, hand, scanned, outcome,
                 queue, running, result, loaderVars, scopeVars>>

\* The task failed, its file cannot be read back or the output cannot be
\* written.  Inside a callback the exception goes through the structure.
DrainFails ==
  /\ MayDrain
  /\ Head(pending) \in DOMAIN result
  /\ pending' = Tail(pending)
  /\ visiting' = FALSE
  /\ Leave("failed")
  /\ UNCHANGED <<job, mode, taken, hand, scanned, delivered, outcome, poolVars, loaderVars,
                 contexts, temp>>

AllTaken ==
  /\ pc = "next" /\ taken = Pieces /\ hand = <<>> /\ ~visiting
  /\ Len(pending) < MaxInFlight
  /\ pc' = "tail"
  /\ UNCHANGED <<job, verdict, mode, visiting, taken, hand, scanned, pending, delivered, outcome,
                 poolVars, loaderVars, scopeVars>>

\* The first segment is complete; IBImport has a second one.
AllDrained ==
  /\ pc = "tail" /\ pending = <<>>
  /\ IF McFunction THEN Leave("ok") ELSE pc' = "nbt" /\ UNCHANGED <<verdict, unwind>>
  /\ UNCHANGED <<job, mode, visiting, taken, hand, scanned, pending, delivered, outcome,
                 poolVars, loaderVars, contexts, temp>>

\* The command blocks of one chunk after the other; at last output.close().
ScanNbt ==
  /\ pc = "nbt"
  /\ \/ scanned < Pieces /\ scanned' = scanned + 1 /\ UNCHANGED <<pc, verdict, unwind>>
     \/ scanned = Pieces /\ Leave("ok") /\ UNCHANGED scanned
     \/ Leave("failed") /\ UNCHANGED scanned
  /\ UNCHANGED <<job, mode, visiting, taken, hand, pending, delivered, outcome,
                 poolVars, loaderVars, contexts, temp>>

-----------------------------------------------------------------------------
(* Leaving the function.                                                   *)

Destroy(object) ==
  /\ pc = "unwind" /\ unwind # <<>> /\ Head(unwind) = object
  /\ unwind' = Tail(unwind)

\* Mutant: the loader is joined without being told.
CancelForgotten ==
  /\ Destroy("cancel")
  /\ UNCHANGED <<callerVars, poolVars, loaderVars, contexts, temp>>

\* ~LoaderPipeline(): request_cancel(), then join().
CancelLoader ==
  /\ Destroy("cancel")
  /\ cancel' = TRUE
  /\ UNCHANGED <<callerVars, poolVars, loader, loaded, fetched, contexts, temp>>

JoinLoader ==
  /\ Destroy("loader")
  /\ loader \in {"none", "ended"}
  /\ loaded' = <<>>
  /\ UNCHANGED <<callerVars, poolVars, loader, fetched, cancel, contexts, temp>>

\* The futures do not wait for their tasks.
DropPending ==
  /\ Destroy("pending")
  /\ pending' = <<>>
  /\ UNCHANGED <<job, pc, verdict, mode, visiting, taken, hand, scanned, delivered, outcome,
                 poolVars, loaderVars, contexts, temp>>

\* Mutant: the pool's destructor does not wait.
DetachPool ==
  /\ Destroy("pool")
  /\ UNCHANGED <<callerVars, poolVars, loaderVars, contexts, temp>>

\* ~BoundedThreadPool(): queued tasks run, workers are joined.
JoinPool ==
  /\ Destroy("pool")
  /\ queue = <<>> /\ running = {}
  /\ UNCHANGED <<callerVars, poolVars, loaderVars, contexts, temp>>

DropContexts ==
  /\ Destroy("contexts")
  /\ contexts' = FALSE
  /\ UNCHANGED <<callerVars, poolVars, loaderVars, temp>>

\* ~TempDirectoryCleanup(): remove_all().
RemoveTemp ==
  /\ Destroy("temp")
  /\ temp' = IF temp = "there" THEN "removed" ELSE temp
  /\ spills' = Restrict(spills, {})
  /\ UNCHANGED <<callerVars, queue, running, result, loaderVars, contexts>>

\* MCFunction flushes the file after the block; it may still fail.
Return ==
  /\ pc = "unwind" /\ unwind = <<>>
  /\ pc' = "returned"
  /\ outcome' \in IF verdict = "failed" THEN {"failure"}
                  ELSE IF McFunction THEN {"success", "failure"} ELSE {"success"}
  /\ UNCHANGED <<job, verdict, mode, visiting, taken, hand, scanned, pending, delivered,
                 poolVars, loaderVars, scopeVars>>

-----------------------------------------------------------------------------
Reading == Enter \/ FallBack \/ LoadBatch \/ Callback \/ VisitReturns \/ ReadFails \/ TakeLoaded
Writing == EncodeDirectly \/ Submit \/ Drain \/ DrainFails \/ AllTaken \/ AllDrained \/ ScanNbt
Unwinding == CancelLoader \/ JoinLoader \/ DropPending \/ JoinPool \/ DropContexts \/ RemoveTemp \/ Return

Caller == Start \/ Reading \/ Writing \/ Unwinding
Loader == LoaderEnter \/ LoaderEnds \/ LoaderReturns
Worker == TakeTask \/ \E i \in running : EncodeInMemory(i) \/ EncodeToFile(i)

Finished == outcome # "running" /\ UNCHANGED vars

Next ==
  \/ outcome # "dead" /\ (Caller \/ Loader \/ Worker \/ ReadFreedContext)
  \/ Finished

\* Threads that can run do run, and a call into the structure returns.
Spec ==
  /\ Init /\ [][Next]_vars
  /\ WF_vars(outcome # "dead" /\ Caller)
  /\ WF_vars(outcome # "dead" /\ Loader)
  /\ WF_vars(outcome # "dead" /\ Worker)

-----------------------------------------------------------------------------
\* What the caller learns; a process that died has not succeeded.
Told == IF outcome = "dead" THEN "failure" ELSE outcome

Transfer == INSTANCE OrderedTransfer WITH Items <- 1 .. Pieces, outcome <- Told

\* Both writers are ordered transfers: the commands of the batches reach the
\* file in the order of the batches, whichever task finishes first, on whichever
\* thread a batch was read and wherever a palette was refused; nothing is
\* written after a failure, success means everything was, and the function
\* returns although loader, pool and caller wait for each other.
TransferSpec == Transfer!Spec

\* What is held in memory at once: futures with their commands, the batch in
\* the caller's hand, the loader's queue and the batch it is reading.  The
\* budget is divided by max_in_flight + worker_count + prefetch_batches + 2
\* (task_memory_limit); tasks an early return has abandoned count as well.  "A
\* configured temporary-file limit is global to this conversion": the files of
\* all tasks together stay below it, those of failed tasks included.
HeldBounded ==
  /\ Cardinality(Tasks) <= MaxInFlight
  /\ McFunction =>
       Cardinality(Tasks) + Len(hand) + Len(loaded) + (IF loader = "inside" THEN 1 ELSE 0)
         <= MaxInFlight + PrefetchBatches + 1
  /\ job.limit # 0 => FoldFunction(+, 0, spills) <= job.limit

\* MCFunction's tasks find their worker context and their temporary directory
\* until the last one has finished, also when the function is left early.
TasksKeepTheirContext ==
  McFunction /\ running # {} => contexts /\ temp # "removed"

\* Readers may own mutable caches: the calling thread and the loader thread are
\* never inside the structure together.
OneReader == ~(visiting /\ loader = "inside")
=============================================================================
