------------------------- MODULE BoundedThreadPool -------------------------
(***************************************************************************)
(* The fixed-size worker pool of src/src/core/bounded_thread_pool.hpp: a   *)
(* bounded FIFO of tasks, a mutex, two condition variables (mTaskReady for *)
(* the workers, mQueueSpace for the submitters) and a destructor that      *)
(* stops admission, wakes everybody and joins the workers.                 *)
(*                                                                         *)
(* A step is one critical section, or one notification: the code always    *)
(* notifies after it has released the mutex, so other threads run between  *)
(* the two.  A thread blocked in wait() is "waiting"; a notification or a  *)
(* spurious wake-up moves it to "locking", where it takes the mutex again  *)
(* and re-evaluates its predicate.  A task may throw: packaged_task keeps  *)
(* the exception in its future, the worker carries on.                     *)
(***************************************************************************)
EXTENDS Integers, Sequences, FiniteSets

CONSTANTS
  WorkerCount,    \* constructor argument worker_count
  RequestedCap,   \* constructor argument queue_capacity
  Submitters,     \* threads that call submit or submit_indexed
  Tasks,          \* the callables ever submitted; each is submitted once
  NoTask          \* stands for "no task"

ASSUME PoolAssumption ==
  /\ WorkerCount \in Nat
  /\ RequestedCap \in Nat
  /\ IsFiniteSet(Submitters)
  /\ IsFiniteSet(Tasks)
  /\ NoTask \notin Tasks

\* Both sizes are clamped to at least one.
Workers == 0 .. (IF WorkerCount > 1 THEN WorkerCount - 1 ELSE 0)
Capacity == IF RequestedCap > 1 THEN RequestedCap ELSE 1

VARIABLES
  mTasks,      \* the deque of queued tasks
  mAccepting,  \* cleared by the destructor
  sub,         \* sub[s]: where submitter s is inside submit()
  arg,         \* arg[s]: the task s is submitting
  wrk,         \* wrk[w]: where worker w is inside worker_loop()
  running,     \* running[w]: the task worker w has popped
  owner,       \* progress of the destructor
  accepted,    \* history: tasks in the order they entered the deque
  started,     \* history: tasks in the order they left it
  finished     \* history: tasks whose call has returned

vars == <<mTasks, mAccepting, sub, arg, wrk, running, owner,
          accepted, started, finished>>

queueVars == <<mTasks, mAccepting, accepted, started>>

Init ==
  /\ mTasks = <<>>
  /\ mAccepting = TRUE
  /\ sub = [s \in Submitters |-> "outside"]
  /\ arg = [s \in Submitters |-> NoTask]
  /\ wrk = [w \in Workers |-> "locking"]
  /\ running = [w \in Workers |-> NoTask]
  /\ owner = "alive"
  /\ accepted = <<>>
  /\ started = <<>>
  /\ finished = {}

-----------------------------------------------------------------------------
(* Condition variables: the waiters, and what a notification does to them. *)

ReadyWaiters == {w \in Workers : wrk[w] = "waiting"}
SpaceWaiters == {s \in Submitters : sub[s] = "waiting"}

\* notify_one on mQueueSpace: some sleeping submitter, if there is one.
NotifyOneSpace ==
  IF SpaceWaiters = {}
  THEN UNCHANGED sub
  ELSE \E s \in SpaceWaiters : sub' = [sub EXCEPT ![s] = "locking"]

NotifyOneReady ==
  IF ReadyWaiters = {}
  THEN UNCHANGED wrk
  ELSE \E w \in ReadyWaiters : wrk' = [wrk EXCEPT ![w] = "locking"]

-----------------------------------------------------------------------------
(* submit() and submit_indexed(): the same protocol around the deque.      *)

SubmitCall(s) ==
  /\ sub[s] = "outside"
  /\ owner = "alive"
  /\ \E t \in Tasks :
       /\ \A i \in DOMAIN accepted : accepted[i] # t
       /\ \A r \in Submitters : arg[r] # t
       /\ arg' = [arg EXCEPT ![s] = t]
  /\ sub' = [sub EXCEPT ![s] = "locking"]
  /\ UNCHANGED <<queueVars, wrk, running, owner, finished>>

\* The wait predicate is false: block on mQueueSpace.
SubmitWait(s) ==
  /\ sub[s] = "locking"
  /\ mAccepting
  /\ Len(mTasks) >= Capacity
  /\ sub' = [sub EXCEPT ![s] = "waiting"]
  /\ UNCHANGED <<queueVars, arg, wrk, running, owner, finished>>

\* The pool is being destroyed: submit throws.
SubmitThrow(s) ==
  /\ sub[s] = "locking"
  /\ ~mAccepting
  /\ sub' = [sub EXCEPT ![s] = "thrown"]
  /\ UNCHANGED <<queueVars, arg, wrk, running, owner, finished>>

\* Mutant: the size of the deque is not re-checked before the push.
SubmitPushUnbounded(s) ==
  /\ sub[s] = "locking"
  /\ mAccepting
  /\ mTasks' = Append(mTasks, arg[s])
  /\ accepted' = Append(accepted, arg[s])
  /\ sub' = [sub EXCEPT ![s] = "notifying"]
  /\ UNCHANGED <<mAccepting, started, arg, wrk, running, owner, finished>>

\* Mutant: the task was moved away before it is queued.
SubmitPushMovedFrom(s) ==
  /\ sub[s] = "locking"
  /\ mAccepting
  /\ Len(mTasks) < Capacity
  /\ mTasks' = Append(mTasks, NoTask)
  /\ accepted' = Append(accepted, NoTask)
  /\ sub' = [sub EXCEPT ![s] = "notifying"]
  /\ UNCHANGED <<mAccepting, started, arg, wrk, running, owner, finished>>

SubmitPush(s) ==
  /\ sub[s] = "locking"
  /\ mAccepting
  /\ Len(mTasks) < Capacity
  /\ mTasks' = Append(mTasks, arg[s])
  /\ accepted' = Append(accepted, arg[s])
  /\ sub' = [sub EXCEPT ![s] = "notifying"]
  /\ UNCHANGED <<mAccepting, started, arg, wrk, running, owner, finished>>

\* mTaskReady.notify_one() after the unlock, then submit returns the future.
SubmitNotify(s) ==
  /\ sub[s] = "notifying"
  /\ NotifyOneReady
  /\ sub' = [sub EXCEPT ![s] = "outside"]
  /\ arg' = [arg EXCEPT ![s] = NoTask]
  /\ UNCHANGED <<queueVars, running, owner, finished>>

-----------------------------------------------------------------------------
(* worker_loop()                                                           *)

WorkerWait(w) ==
  /\ wrk[w] = "locking"
  /\ mTasks = <<>>
  /\ mAccepting
  /\ wrk' = [wrk EXCEPT ![w] = "waiting"]
  /\ UNCHANGED <<queueVars, sub, arg, running, owner, finished>>

\* Mutant: a worker leaves as soon as the pool stops accepting.
WorkerExitEarly(w) ==
  /\ wrk[w] = "locking"
  /\ ~mAccepting
  /\ wrk' = [wrk EXCEPT ![w] = "exited"]
  /\ UNCHANGED <<queueVars, sub, arg, running, owner, finished>>

\* Only an empty deque lets a worker leave: queued tasks are drained first.
WorkerExit(w) ==
  /\ wrk[w] = "locking"
  /\ mTasks = <<>>
  /\ ~mAccepting
  /\ wrk' = [wrk EXCEPT ![w] = "exited"]
  /\ UNCHANGED <<queueVars, sub, arg, running, owner, finished>>

WorkerPop(w) ==
  /\ wrk[w] = "locking"
  /\ mTasks # <<>>
  /\ running' = [running EXCEPT ![w] = Head(mTasks)]
  /\ started' = Append(started, Head(mTasks))
  /\ mTasks' = Tail(mTasks)
  /\ wrk' = [wrk EXCEPT ![w] = "notifying"]
  /\ UNCHANGED <<mAccepting, accepted, sub, arg, owner, finished>>

WorkerNotify(w) ==
  /\ wrk[w] = "notifying"
  /\ NotifyOneSpace
  /\ wrk' = [wrk EXCEPT ![w] = "running"]
  /\ UNCHANGED <<queueVars, arg, running, owner, finished>>

WorkerFinish(w) ==
  /\ wrk[w] = "running"
  /\ finished' = finished \cup {running[w]}
  /\ running' = [running EXCEPT ![w] = NoTask]
  /\ wrk' = [wrk EXCEPT ![w] = "locking"]
  /\ UNCHANGED <<queueVars, sub, arg, owner>>

-----------------------------------------------------------------------------
(* The destructor: flag, notify_all twice, join.                           *)

DestroyFlag ==
  /\ owner = "alive"
  /\ mAccepting' = FALSE
  /\ owner' = "flagged"
  /\ UNCHANGED <<mTasks, accepted, started, sub, arg, wrk, running, finished>>

DestroyWakeWorkers ==
  /\ owner = "flagged"
  /\ wrk' = [w \in Workers |-> IF wrk[w] = "waiting" THEN "locking" ELSE wrk[w]]
  /\ owner' = "wokeWorkers"
  /\ UNCHANGED <<queueVars, sub, arg, running, finished>>

\* Mutant: the submitters are not woken.
DestroyWakeNoSubmitter ==
  /\ owner = "wokeWorkers"
  /\ owner' = "joining"
  /\ UNCHANGED <<queueVars, sub, arg, wrk, running, finished>>

DestroyWakeSubmitters ==
  /\ owner = "wokeWorkers"
  /\ sub' = [s \in Submitters |-> IF sub[s] = "waiting" THEN "locking" ELSE sub[s]]
  /\ owner' = "joining"
  /\ UNCHANGED <<queueVars, arg, wrk, running, finished>>

DestroyJoined ==
  /\ owner = "joining"
  /\ \A w \in Workers : wrk[w] = "exited"
  /\ owner' = "destroyed"
  /\ UNCHANGED <<queueVars, sub, arg, wrk, running, finished>>

-----------------------------------------------------------------------------
(* std::condition_variable may return from wait without a notification.    *)

SpuriousWakeup ==
  /\ \/ \E w \in ReadyWaiters : wrk' = [wrk EXCEPT ![w] = "locking"] /\ UNCHANGED sub
     \/ \E s \in SpaceWaiters : sub' = [sub EXCEPT ![s] = "locking"] /\ UNCHANGED wrk
  /\ UNCHANGED <<queueVars, arg, running, owner, finished>>

Submit(s) == SubmitWait(s) \/ SubmitThrow(s) \/ SubmitPush(s) \/ SubmitNotify(s)

WorkerLoop(w) ==
  WorkerWait(w) \/ WorkerExit(w) \/ WorkerPop(w) \/ WorkerNotify(w) \/ WorkerFinish(w)

Destroy == DestroyFlag \/ DestroyWakeWorkers \/ DestroyWakeSubmitters \/ DestroyJoined

\* Everything is over: the pool is gone and no call of submit is in progress.
Terminated ==
  /\ owner = "destroyed"
  /\ \A s \in Submitters : sub[s] \in {"outside", "thrown"}
  /\ UNCHANGED vars

Next ==
  \/ \E s \in Submitters : SubmitCall(s) \/ Submit(s)
  \/ \E w \in Workers : WorkerLoop(w)
  \/ Destroy
  \/ SpuriousWakeup
  \/ Terminated

\* Threads inside the pool's own code are scheduled; callers need not call
\* submit, nor destroy the pool, and nobody owes a spurious wake-up.
Fairness ==
  /\ \A s \in Submitters : WF_vars(Submit(s))
  /\ \A w \in Workers : WF_vars(WorkerLoop(w))
  /\ WF_vars(Destroy /\ owner # "alive")

Spec == Init /\ [][Next]_vars /\ Fairness

-----------------------------------------------------------------------------
TypeOK ==
  /\ mTasks \in Seq(Tasks)
  /\ mAccepting \in BOOLEAN
  /\ sub \in [Submitters -> {"outside", "locking", "waiting", "notifying", "thrown"}]
  /\ arg \in [Submitters -> Tasks \cup {NoTask}]
  /\ wrk \in [Workers -> {"locking", "waiting", "notifying", "running", "exited"}]
  /\ running \in [Workers -> Tasks \cup {NoTask}]
  /\ owner \in {"alive", "flagged", "wokeWorkers", "joining", "destroyed"}
  /\ accepted \in Seq(Tasks)
  /\ started \in Seq(Tasks)
  /\ finished \in SUBSET Tasks

\* Tasks leave the deque in the order they entered it, each exactly once, and
\* the deque never holds more than its capacity: this is the backpressure and
\* the submission order every ordered drain of the writers builds on.
FifoWithinCapacity ==
  /\ accepted = started \o mTasks
  /\ Len(mTasks) <= Capacity

\* The destructor loses no work: when it has joined the workers, every task
\* that submit accepted has run, also the ones queued after the flag was read.
DestroyedMeansDrained ==
  owner = "destroyed" =>
    /\ mTasks = <<>>
    /\ \A i \in DOMAIN accepted : accepted[i] \in finished

\* A call of submit returns or throws: nobody sleeps on mQueueSpace for ever,
\* even when the destructor runs meanwhile.
SubmitReturns ==
  \A s \in Submitters :
    (sub[s] = "locking") ~> (sub[s] \in {"outside", "thrown"})

=============================================================================
