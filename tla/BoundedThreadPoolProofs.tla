---------------------- MODULE BoundedThreadPoolProofs ----------------------
(***************************************************************************)
(* The worker pool is type correct, keeps its tasks in FIFO order within   *)
(* the capacity, and its destructor returns only when every accepted task  *)
(* has run, for every number of workers, submitters, tasks and slots.      *)
(***************************************************************************)
EXTENDS BoundedThreadPool, SequenceTheorems, TLAPS

(***************************************************************************)
(* Two facts about queues, used by submit and by worker_loop.              *)
(***************************************************************************)

\* Appending to the queue behind a history appends to the whole.
LEMMA AppendBehind ==
  ASSUME NEW S, NEW h \in Seq(S), NEW q \in Seq(S), NEW e \in S,
         NEW whole, whole = h \o q,
         NEW longer, longer = Append(q, e)
  PROVE  Append(whole, e) = h \o longer
<1>1. /\ Append(h \o q, e) \in Seq(S)
      /\ h \o Append(q, e) \in Seq(S)
      /\ h \o q \in Seq(S)
      /\ Append(q, e) \in Seq(S)
  BY ConcatProperties, AppendProperties
<1>2. Len(Append(h \o q, e)) = Len(h \o Append(q, e))
  BY <1>1, ConcatProperties, AppendProperties, LenProperties
<1>3. \A i \in 1 .. Len(Append(h \o q, e)) : Append(h \o q, e)[i] = (h \o Append(q, e))[i]
  BY <1>1, ConcatProperties, AppendProperties, LenProperties
<1>4. QED
  BY <1>1, <1>2, <1>3, SeqEqual

\* Moving the head of the queue to the end of the history keeps the whole.
LEMMA MoveHead ==
  ASSUME NEW S, NEW h \in Seq(S), NEW q \in Seq(S), q # <<>>
  PROVE  h \o q = Append(h, Head(q)) \o Tail(q)
<1>1. /\ Head(q) \in S
      /\ Tail(q) \in Seq(S)
      /\ Len(Tail(q)) = Len(q) - 1
      /\ \A i \in 1 .. Len(Tail(q)) : Tail(q)[i] = q[i + 1]
      /\ Head(q) = q[1]
  BY HeadTailProperties
<1>2. /\ h \o q \in Seq(S)
      /\ Append(h, Head(q)) \in Seq(S)
      /\ Append(h, Head(q)) \o Tail(q) \in Seq(S)
  BY <1>1, ConcatProperties, AppendProperties
<1>3. Len(h) \in Nat /\ Len(q) \in Nat \ {0}
  BY LenProperties, EmptySeq
<1>4. Len(h \o q) = Len(Append(h, Head(q)) \o Tail(q))
  BY <1>1, <1>2, <1>3, ConcatProperties, AppendProperties
<1>5. ASSUME NEW i \in 1 .. Len(h \o q)
      PROVE  (h \o q)[i] = (Append(h, Head(q)) \o Tail(q))[i]
  BY <1>1, <1>2, <1>3, ConcatProperties, AppendProperties
<1>6. QED
  BY <1>2, <1>4, <1>5, SeqEqual

(***************************************************************************)
(* Type correctness.                                                       *)
(***************************************************************************)

\* A task is in a worker's hands exactly between its pop and its end, and a
\* submitter inside submit holds the task it submits.
HandsInv ==
  /\ \A w \in Workers : wrk[w] \in {"notifying", "running"} <=> running[w] # NoTask
  /\ \A s \in Submitters : sub[s] # "outside" => arg[s] \in Tasks

TypeInv == TypeOK /\ HandsInv

LEMMA TypeInvInit == Init => TypeInv
  BY PoolAssumption, EmptySeq DEF Init, TypeInv, TypeOK, HandsInv

LEMMA TypeInvStep == TypeInv /\ [Next]_vars => TypeInv'
<1> SUFFICES ASSUME TypeInv, [Next]_vars PROVE TypeInv'
  OBVIOUS
<1> USE PoolAssumption DEF TypeInv, TypeOK, HandsInv, queueVars
<1>1. ASSUME NEW s \in Submitters, SubmitCall(s) PROVE TypeInv'
  BY <1>1 DEF SubmitCall
<1>2. ASSUME NEW s \in Submitters, SubmitWait(s) PROVE TypeInv'
  BY <1>2 DEF SubmitWait
<1>3. ASSUME NEW s \in Submitters, SubmitThrow(s) PROVE TypeInv'
  BY <1>3 DEF SubmitThrow
<1>4. ASSUME NEW s \in Submitters, SubmitPush(s) PROVE TypeInv'
  <2>1. arg[s] \in Tasks
    BY <1>4 DEF SubmitPush
  <2>2. mTasks' \in Seq(Tasks) /\ accepted' \in Seq(Tasks)
    BY <1>4, <2>1, AppendProperties DEF SubmitPush
  <2>3. QED
    BY <1>4, <2>2 DEF SubmitPush
<1>5. ASSUME NEW s \in Submitters, SubmitNotify(s) PROVE TypeInv'
  BY <1>5 DEF SubmitNotify, NotifyOneReady, ReadyWaiters
<1>6. ASSUME NEW w \in Workers, WorkerWait(w) PROVE TypeInv'
  BY <1>6 DEF WorkerWait
<1>7. ASSUME NEW w \in Workers, WorkerExit(w) PROVE TypeInv'
  BY <1>7 DEF WorkerExit
<1>8. ASSUME NEW w \in Workers, WorkerPop(w) PROVE TypeInv'
  <2>1. Head(mTasks) \in Tasks /\ Tail(mTasks) \in Seq(Tasks)
    BY <1>8, HeadTailProperties DEF WorkerPop
  <2>2. mTasks' \in Seq(Tasks) /\ started' \in Seq(Tasks)
    BY <1>8, <2>1, AppendProperties DEF WorkerPop
  <2>3. QED
    BY <1>8, <2>1, <2>2 DEF WorkerPop
<1>9. ASSUME NEW w \in Workers, WorkerNotify(w) PROVE TypeInv'
  BY <1>9 DEF WorkerNotify, NotifyOneSpace, SpaceWaiters
<1>10. ASSUME NEW w \in Workers, WorkerFinish(w) PROVE TypeInv'
  BY <1>10 DEF WorkerFinish
<1>11. CASE Destroy
  BY <1>11 DEF Destroy, DestroyFlag, DestroyWakeWorkers, DestroyWakeSubmitters, DestroyJoined
<1>12. CASE SpuriousWakeup
  BY <1>12 DEF SpuriousWakeup, ReadyWaiters, SpaceWaiters
<1>13. CASE UNCHANGED vars
  BY <1>13 DEF vars
<1>14. QED
  BY <1>1, <1>2, <1>3, <1>4, <1>5, <1>6, <1>7, <1>8, <1>9, <1>10, <1>11, <1>12, <1>13
  DEF Next, Submit, WorkerLoop, Terminated

\* The pool is type correct: in particular no worker is ever handed an empty
\* slot instead of a task.
THEOREM PoolTypeOK == Spec => []TypeOK
<1>1. TypeInv => TypeOK
  BY DEF TypeInv
<1>2. QED
  BY TypeInvInit, TypeInvStep, <1>1, PTL DEF Spec

LEMMA PoolTypeInv == Spec => []TypeInv
  BY TypeInvInit, TypeInvStep, PTL DEF Spec

(***************************************************************************)
(* FIFO order and capacity.                                                *)
(***************************************************************************)

\* The push of submit keeps history and deque together.
LEMMA PushKeepsOrder ==
  ASSUME mTasks \in Seq(Tasks), started \in Seq(Tasks),
         accepted = started \o mTasks, NEW e \in Tasks
  PROVE  Append(accepted, e) = started \o Append(mTasks, e)
  BY AppendBehind

LEMMA FifoStep ==
  TypeInv /\ FifoWithinCapacity /\ [Next]_vars => FifoWithinCapacity'
<1> SUFFICES ASSUME TypeInv, FifoWithinCapacity, [Next]_vars
             PROVE  FifoWithinCapacity'
  OBVIOUS
<1> USE PoolAssumption DEF queueVars
<1>1. ASSUME NEW s \in Submitters, SubmitPush(s) PROVE FifoWithinCapacity'
  <2>1. /\ arg[s] \in Tasks
        /\ mTasks \in Seq(Tasks)
        /\ started \in Seq(Tasks)
    BY <1>1 DEF SubmitPush, TypeInv, TypeOK, HandsInv
  <2>2. accepted' = started' \o mTasks'
    <3>1. accepted = started \o mTasks
      BY DEF FifoWithinCapacity
    <3>2. mTasks' = Append(mTasks, arg[s])
      BY <1>1 DEF SubmitPush
    <3>3. Append(accepted, arg[s]) = started \o Append(mTasks, arg[s])
      BY <2>1, <3>1, PushKeepsOrder
    <3>4. accepted' = Append(accepted, arg[s]) /\ started' = started
      BY <1>1 DEF SubmitPush
    <3>5. QED
      BY <3>2, <3>3, <3>4
  <2>3. Len(mTasks') = Len(mTasks) + 1 /\ Len(mTasks) \in Nat /\ Capacity \in Nat
    BY <1>1, <2>1, AppendProperties, LenProperties DEF SubmitPush, Capacity
  <2>4. QED
    BY <1>1, <2>2, <2>3 DEF SubmitPush, FifoWithinCapacity
<1>2. ASSUME NEW w \in Workers, WorkerPop(w) PROVE FifoWithinCapacity'
  <2>1. /\ mTasks \in Seq(Tasks)
        /\ mTasks # <<>>
        /\ started \in Seq(Tasks)
    BY <1>2 DEF WorkerPop, TypeInv, TypeOK
  <2>2. accepted' = started' \o mTasks'
    BY <1>2, <2>1, MoveHead DEF WorkerPop, FifoWithinCapacity
  <2>3. Len(mTasks') = Len(mTasks) - 1 /\ Len(mTasks) \in Nat /\ Capacity \in Nat
    BY <1>2, <2>1, HeadTailProperties, LenProperties DEF WorkerPop, Capacity
  <2>4. QED
    BY <1>2, <2>2, <2>3 DEF FifoWithinCapacity
<1>3. CASE UNCHANGED <<mTasks, accepted, started>>
  BY <1>3 DEF FifoWithinCapacity
<1>4. QED
  BY <1>1, <1>2, <1>3
  DEF Next, vars, Submit, WorkerLoop, Destroy, Terminated, SubmitCall, SubmitWait,
      SubmitThrow, SubmitNotify, WorkerWait, WorkerExit, WorkerNotify, WorkerFinish,
      DestroyFlag, DestroyWakeWorkers, DestroyWakeSubmitters, DestroyJoined, SpuriousWakeup

\* Tasks start in submission order, each once, and the deque respects its
\* capacity, however submitters, workers and destructor interleave.
THEOREM PoolFifo == Spec => []FifoWithinCapacity
<1>1. Init => FifoWithinCapacity
  BY PoolAssumption, EmptySeq, ConcatEmptySeq DEF Init, FifoWithinCapacity, Capacity
<1>2. QED
  BY <1>1, FifoStep, PoolTypeInv, PTL DEF Spec

(***************************************************************************)
(* No accepted task is dropped by the destructor.                          *)
(***************************************************************************)

\* Every task that has left the deque is finished or in a worker's hands, and
\* a worker exits only for good: the deque is empty and stays so.
ProgressInv ==
  /\ \A i \in DOMAIN started :
       started[i] \in finished \/ \E w \in Workers : running[w] = started[i]
  /\ \A w \in Workers : wrk[w] = "exited" => mTasks = <<>> /\ ~mAccepting
  /\ owner = "destroyed" => \A w \in Workers : wrk[w] = "exited"

LEMMA ProgressStep ==
  TypeInv /\ ProgressInv /\ [Next]_vars => ProgressInv'
<1> SUFFICES ASSUME TypeInv, ProgressInv, [Next]_vars
             PROVE  ProgressInv'
  OBVIOUS
<1> USE PoolAssumption DEF ProgressInv, TypeInv, TypeOK, HandsInv, queueVars
<1>1. ASSUME NEW s \in Submitters, SubmitPush(s) PROVE ProgressInv'
  BY <1>1 DEF SubmitPush
<1>2. ASSUME NEW s \in Submitters, SubmitCall(s) \/ SubmitWait(s) \/ SubmitThrow(s)
      PROVE  ProgressInv'
  BY <1>2 DEF SubmitCall, SubmitWait, SubmitThrow
<1>3. ASSUME NEW s \in Submitters, SubmitNotify(s) PROVE ProgressInv'
  BY <1>3 DEF SubmitNotify, NotifyOneReady, ReadyWaiters
<1>4. ASSUME NEW w \in Workers, WorkerWait(w) \/ WorkerExit(w) PROVE ProgressInv'
  BY <1>4 DEF WorkerWait, WorkerExit
<1>5. ASSUME NEW w \in Workers, WorkerPop(w) PROVE ProgressInv'
  <2>1. /\ Head(mTasks) \in Tasks
        /\ started \in Seq(Tasks)
        /\ running[w] = NoTask
    BY <1>5, HeadTailProperties DEF WorkerPop
  <2>2. /\ DOMAIN started' = 1 .. Len(started) + 1
        /\ DOMAIN started = 1 .. Len(started)
        /\ Len(started) \in Nat
        /\ \A i \in 1 .. Len(started) : started'[i] = started[i]
        /\ started'[Len(started) + 1] = Head(mTasks)
    BY <1>5, <2>1, AppendProperties, LenProperties DEF WorkerPop
  <2>3. running'[w] = Head(mTasks) /\ finished' = finished
    BY <1>5 DEF WorkerPop
  <2>4. ASSUME NEW i \in DOMAIN started'
        PROVE  started'[i] \in finished' \/ \E v \in Workers : running'[v] = started'[i]
    <3>1. CASE i = Len(started) + 1
      BY <2>2, <2>3, <3>1
    <3>2. CASE i \in 1 .. Len(started) /\ started[i] \in finished
      BY <2>2, <2>3, <3>2
    <3>3. CASE i \in 1 .. Len(started) /\ \E v \in Workers : running[v] = started[i]
      <4>1. PICK v \in Workers : running[v] = started[i]
        BY <3>3
      <4>2. started[i] \in Tasks
        BY <2>1, <3>3, ElementOfSeq
      <4>3. v # w /\ running'[v] = running[v]
        BY <1>5, <2>1, <4>1, <4>2 DEF WorkerPop
      <4>4. QED
        BY <2>2, <3>3, <4>1, <4>3
    <3>4. QED
      BY <2>2, <3>1, <3>2, <3>3
  <2>5. /\ \A v \in Workers : wrk'[v] = "exited" => mTasks' = <<>> /\ ~mAccepting'
        /\ owner' = "destroyed" => \A v \in Workers : wrk'[v] = "exited"
    BY <1>5 DEF WorkerPop
  <2>6. QED
    BY <2>4, <2>5
<1>6. ASSUME NEW w \in Workers, WorkerNotify(w) PROVE ProgressInv'
  BY <1>6 DEF WorkerNotify, NotifyOneSpace
<1>7. ASSUME NEW w \in Workers, WorkerFinish(w) PROVE ProgressInv'
  <2>1. ASSUME NEW i \in DOMAIN started'
        PROVE  started'[i] \in finished' \/ \E v \in Workers : running'[v] = started'[i]
    <3>1. started' = started /\ finished' = finished \cup {running[w]}
      BY <1>7 DEF WorkerFinish
    <3>2. \A v \in Workers : v # w => running'[v] = running[v]
      BY <1>7 DEF WorkerFinish
    <3>3. QED
      BY <3>1, <3>2
  <2>2. QED
    BY <1>7, <2>1 DEF WorkerFinish
<1>8. CASE Destroy
  BY <1>8 DEF Destroy, DestroyFlag, DestroyWakeWorkers, DestroyWakeSubmitters, DestroyJoined
<1>9. CASE SpuriousWakeup
  BY <1>9 DEF SpuriousWakeup, ReadyWaiters, SpaceWaiters
<1>10. CASE UNCHANGED vars
  BY <1>10 DEF vars
<1>11. QED
  BY <1>1, <1>2, <1>3, <1>4, <1>5, <1>6, <1>7, <1>8, <1>9, <1>10
  DEF Next, Submit, WorkerLoop, Terminated

LEMMA ProgressDrains ==
  TypeInv /\ FifoWithinCapacity /\ ProgressInv => DestroyedMeansDrained
<1> SUFFICES ASSUME TypeInv, FifoWithinCapacity, ProgressInv, owner = "destroyed"
             PROVE  mTasks = <<>> /\ \A i \in DOMAIN accepted : accepted[i] \in finished
  BY DEF DestroyedMeansDrained
<1>1. 0 \in Workers
  BY PoolAssumption DEF Workers
<1>2. mTasks = <<>>
  BY <1>1 DEF ProgressInv
<1>3. started \in Seq(Tasks)
  BY DEF TypeInv, TypeOK
<1>4. accepted = started
  BY <1>2, <1>3, ConcatEmptySeq DEF FifoWithinCapacity
<1>5. \A w \in Workers : running[w] = NoTask
  BY DEF ProgressInv, TypeInv, TypeOK, HandsInv
<1>6. \A i \in DOMAIN started : started[i] \in Tasks
  BY <1>3, ElementOfSeq, LenProperties
<1>7. QED
  BY <1>2, <1>4, <1>5, <1>6, PoolAssumption DEF ProgressInv

\* When the destructor has returned, every task that submit accepted has run
\* to its end: destruction drains the deque instead of dropping it.
THEOREM PoolDrains == Spec => []DestroyedMeansDrained
<1>1. Init => ProgressInv
  BY PoolAssumption DEF Init, ProgressInv
<1>2. QED
  BY <1>1, ProgressStep, ProgressDrains, PoolTypeInv, PoolFifo, PTL DEF Spec
=============================================================================
