---------------------------- MODULE WorldEncoder ----------------------------
(***************************************************************************)
(* BedrockWorldAdapter::encode_chunks and save_chunks                      *)
(* (src/src/world/world.cpp): a batch of chunks is split into ranges that  *)
(* a reusable thread pool encodes in parallel; the payloads are merged in  *)
(* chunk order and written with one LevelDB WriteBatch.                    *)
(*                                                                         *)
(* The pool is used by what BoundedThreadPool proves of it: tasks start in *)
(* submission order, submit() waits while the queue is full, and the       *)
(* destructor returns when queue and workers are empty.  A task refers to  *)
(* the stack frame of the call that submitted it (encode_range and the     *)
(* span of chunks).                                                        *)
(*                                                                         *)
(* The calls come one after another, as convert_to_world and the writers   *)
(* make them; the BDX writer, which calls encode_chunks from several       *)
(* threads, is BdxWorldCache.                                              *)
(***************************************************************************)
EXTENDS Integers, Sequences, FiniteSets

CONSTANTS
  Batches,   \* Seq(Nat): the numbers of chunks of the successive calls
  Requested, \* mConfiguredWorkerCount
  Env        \* WATER_STRUCTURE_WORLD_ENCODE_THREADS, -1 when unset or no number

ASSUME EncoderAssumption ==
  /\ Batches \in Seq(Nat)
  /\ Requested \in Nat
  /\ Env \in Nat \cup {-1}

Least(a, b) == IF a < b THEN a ELSE b

\* world_encode_worker_count(): never more workers than chunks, nor than 16.
WorkerCount(n) ==
  LET configured == IF Requested # 0 THEN Requested
                    ELSE IF Env > 0 THEN Env
                    ELSE IF Env = 0 THEN 1
                    ELSE 2
  IN  IF n < 2 THEN 1 ELSE Least(Least(configured, 16), n)

\* Mutant: the remainder of the division is not handed out.
ShareTruncated(n, k) ==
  LET base == n \div WorkerCount(n)
  IN  SubSeq([i \in 1 .. n |-> i], base * (k - 1) + 1, base * k)

\* The chunks of range k: the first n % workers ranges take one more.
Share(n, k) ==
  LET base == n \div WorkerCount(n)
      remainder == n % WorkerCount(n)
      begin == base * (k - 1) + Least(k - 1, remainder)
      count == base + (IF k <= remainder THEN 1 ELSE 0)
  IN  SubSeq([i \in 1 .. n |-> i], begin + 1, begin + count)

VARIABLES
  pc,                 \* "idle", "direct", "pool", "drain", "submit", "collect", "write"
  call,               \* calls begun
  submitted, collected, payload, \* of the call in progress
  results,            \* history: results of the calls
  mEncodePoolWorkers, \* of the current pool, 0 without a pool
  queue,              \* the pool's waiting tasks, as deep as it has workers
  running,            \* tasks its workers are running
  finished,           \* results of the tasks whose future is alive
  db,                 \* history: the WriteBatches committed
  life                \* "open", "closed", "dead"

callerVars == <<pc, call, submitted, collected, payload, results>>
poolVars == <<mEncodePoolWorkers, queue, running, finished>>
vars == <<callerVars, poolVars, db, life>>

Size == Batches[call]
Task(k) == [call |-> call, range |-> k]
\* The frame a task refers to is still there.
FrameAlive(task) == task.call = call /\ pc # "idle"
Drained == queue = <<>> /\ running = {}

Init ==
  /\ pc = "idle"
  /\ call = 0
  /\ submitted = 0
  /\ collected = 0
  /\ payload = <<>>
  /\ results = <<>>
  /\ mEncodePoolWorkers = 0
  /\ queue = <<>>
  /\ running = {}
  /\ finished = {}
  /\ db = <<>>
  /\ life = "open"

\* The call returns: its frame and its futures are gone.
Return(res) ==
  /\ pc' = "idle"
  /\ results' = Append(results, res)
  /\ finished' = {}

-----------------------------------------------------------------------------
(* encode_chunks()                                                         *)

Begin ==
  /\ pc = "idle"
  /\ call < Len(Batches)
  /\ life = "open"
  /\ call' = call + 1
  /\ submitted' = 0
  /\ collected' = 0
  /\ payload' = <<>>
  /\ LET n == Batches[call + 1]
     IN  pc' = IF n = 0 THEN "write" ELSE IF WorkerCount(n) = 1 THEN "direct" ELSE "pool"
  /\ UNCHANGED <<results, poolVars, db, life>>

\* A closed world refuses the call.
Refuse ==
  /\ pc = "idle"
  /\ call < Len(Batches)
  /\ life = "closed"
  /\ call' = call + 1
  /\ results' = Append(results, "failure")
  /\ UNCHANGED <<pc, submitted, collected, payload, poolVars, db, life>>

\* One worker: the caller encodes the batch itself.
EncodeDirectly ==
  /\ pc = "direct"
  /\ \/ /\ payload' = [i \in 1 .. Size |-> i]
        /\ pc' = "write"
        /\ UNCHANGED <<results, finished>>
     \/ Return("failure") /\ UNCHANGED payload
  /\ UNCHANGED <<call, submitted, collected, mEncodePoolWorkers, queue, running, db, life>>

\* A pool of another size is not reused.
Reusable == mEncodePoolWorkers = WorkerCount(Size)

ReusePool ==
  /\ pc = "pool"
  /\ Reusable
  /\ pc' = "submit"
  /\ UNCHANGED <<call, submitted, collected, payload, results, poolVars, db, life>>

\* mEncodePool.reset(new ...): the old pool works off its queue and joins its
\* workers while the caller waits in its destructor.
ReplacePool ==
  /\ pc = "pool"
  /\ ~Reusable
  /\ pc' = "drain"
  /\ UNCHANGED <<call, submitted, collected, payload, results, poolVars, db, life>>

OldPoolJoined ==
  /\ pc = "drain"
  /\ Drained
  /\ mEncodePoolWorkers' = WorkerCount(Size)
  /\ pc' = "submit"
  /\ UNCHANGED <<call, submitted, collected, payload, results, queue, running, finished, db, life>>

Submit ==
  /\ pc = "submit"
  /\ Len(queue) < mEncodePoolWorkers
  /\ submitted' = submitted + 1
  /\ queue' = Append(queue, Task(submitted'))
  /\ pc' = IF submitted' = WorkerCount(Size) THEN "collect" ELSE "submit"
  /\ UNCHANGED <<call, collected, payload, results, mEncodePoolWorkers, running, finished, db, life>>

-----------------------------------------------------------------------------
(* The workers.                                                            *)

Take ==
  /\ queue # <<>>
  /\ Cardinality(running) < mEncodePoolWorkers
  /\ running' = running \cup {Head(queue)}
  /\ queue' = Tail(queue)
  /\ UNCHANGED <<callerVars, mEncodePoolWorkers, finished, db, life>>

\* Mutant: a failing range never satisfies its future.
CompleteLosesFailure(task) ==
  /\ running' = running \ {task}
  /\ \/ /\ FrameAlive(task)
        /\ finished' = finished \cup {[task |-> task, ok |-> TRUE]}
     \/ UNCHANGED finished
  /\ UNCHANGED <<callerVars, mEncodePoolWorkers, queue, db, life>>

\* A range was encoded or failed; nobody reads the future of a call that has
\* returned.
Complete(task) ==
  /\ running' = running \ {task}
  /\ IF FrameAlive(task)
     THEN \E ok \in BOOLEAN : finished' = finished \cup {[task |-> task, ok |-> ok]}
     ELSE UNCHANGED finished
  /\ UNCHANGED <<callerVars, mEncodePoolWorkers, queue, db, life>>

\* A task whose frame is gone reads whatever is there now; the process may die.
ReadDeadFrame(task) ==
  /\ ~FrameAlive(task)
  /\ life' = "dead"
  /\ UNCHANGED <<callerVars, poolVars, db>>

-----------------------------------------------------------------------------
(* Collecting the payloads and writing them.                               *)

NextResult == {f \in finished : f.task = Task(collected + 1)}

\* Mutant: a failed range is skipped.
CollectFailsSkips ==
  /\ pc = "collect"
  /\ \E f \in NextResult : ~f.ok
  /\ collected' = collected + 1
  /\ pc' = IF collected' = WorkerCount(Size) THEN "write" ELSE "collect"
  /\ UNCHANGED <<call, submitted, payload, results, poolVars, db, life>>

CollectOk ==
  /\ pc = "collect"
  /\ \E f \in NextResult : f.ok
  /\ payload' = payload \o Share(Size, collected + 1)
  /\ collected' = collected + 1
  /\ pc' = IF collected' = WorkerCount(Size) THEN "write" ELSE "collect"
  /\ UNCHANGED <<call, submitted, results, poolVars, db, life>>

\* The first failure returns at once, whatever the later ranges are doing.
CollectFails ==
  /\ pc = "collect"
  /\ \E f \in NextResult : ~f.ok
  /\ Return("failure")
  /\ UNCHANGED <<call, submitted, collected, payload, mEncodePoolWorkers, queue, running, db, life>>

\* Mutant: the database's answer is ignored.
WriteIgnoresError ==
  /\ pc = "write"
  /\ Return("success")
  /\ db' \in {db, Append(db, [call |-> call, chunks |-> payload])}
  /\ UNCHANGED <<call, submitted, collected, payload, mEncodePoolWorkers, queue, running, life>>

\* save_subchunk_payloads(): one WriteBatch, all or nothing.
Write ==
  /\ pc = "write"
  /\ \/ Return("success") /\ db' = Append(db, [call |-> call, chunks |-> payload])
     \/ Return("failure") /\ UNCHANGED db
  /\ UNCHANGED <<call, submitted, collected, payload, mEncodePoolWorkers, queue, running, life>>

\* close() and discard() destroy the pool, which joins its workers.
Close ==
  /\ life = "open" /\ pc = "idle"
  /\ Drained
  /\ mEncodePoolWorkers' = 0
  /\ life' = "closed"
  /\ UNCHANGED <<callerVars, queue, running, finished, db>>

Caller ==
  \/ EncodeDirectly \/ ReusePool \/ ReplacePool \/ OldPoolJoined \/ Submit
  \/ CollectOk \/ CollectFails \/ Write

Workers == Take \/ \E task \in running : Complete(task)

Quiet == (life = "dead" \/ call = Len(Batches)) /\ UNCHANGED vars

Next ==
  \/ /\ life # "dead"
     /\ \/ Begin \/ Refuse \/ Caller \/ Workers \/ Close
        \/ \E task \in running : ReadDeadFrame(task)
  \/ Quiet

\* The scheduler runs every thread; nobody has to begin a call or to close.
Spec ==
  /\ Init /\ [][Next]_vars
  /\ WF_vars(life # "dead" /\ Caller)
  /\ WF_vars(life # "dead" /\ Workers)

-----------------------------------------------------------------------------
TaskSet == [call : DOMAIN Batches, range : 1 .. 16]

\* Types; a range has at least one chunk, so no worker is started for nothing.
TypeOK ==
  /\ pc \in {"idle", "direct", "pool", "drain", "submit", "collect", "write"}
  /\ call \in 0 .. Len(Batches)
  /\ submitted \in 0 .. 16 /\ collected \in 0 .. submitted
  /\ payload \in Seq(Nat \ {0})
  /\ results \in Seq({"success", "failure"})
  /\ mEncodePoolWorkers \in 0 .. 16
  /\ queue \in Seq(TaskSet)
  /\ running \subseteq TaskSet
  /\ \A task \in running : Share(Batches[task.call], task.range) # <<>>
  /\ finished \subseteq [task : TaskSet, ok : BOOLEAN]
  /\ life \in {"open", "closed", "dead"}

\* The database only ever receives whole batches, each at most once and in the
\* order of the calls, with the payloads in chunk order, however the workers
\* are scheduled and whichever ranges fail.
BatchesAreWhole ==
  /\ \A i \in DOMAIN db : db[i].chunks = [j \in 1 .. Batches[db[i].call] |-> j]
  /\ \A i, j \in DOMAIN db : i < j => db[i].call < db[j].call

\* save_chunks reports success exactly for the calls whose batch is in the
\* database.
SuccessMeansWritten ==
  \A c \in DOMAIN results :
    (results[c] = "success") <=> \E i \in DOMAIN db : db[i].call = c

\* Every call returns, also when ranges fail and when the pool still works off
\* the ranges of an earlier, failed call.
CallsReturn ==
  \A c \in DOMAIN Batches : (call = c) ~> (Len(results) >= c \/ life = "dead")

\* "All save_chunks() calls join their encoding futures before returning" (the
\* comment in close()): no task is queued or running for a call that is over.
NoTaskOutlivesCall ==
  /\ \A task \in running : FrameAlive(task)
  /\ \A i \in DOMAIN queue : FrameAlive(queue[i])
=============================================================================
