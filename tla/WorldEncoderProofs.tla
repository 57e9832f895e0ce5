-------------------------- MODULE WorldEncoderProofs --------------------------
(***************************************************************************)
(* The parallel encoder merges the shares of its workers into exactly the  *)
(* batch it was given, commits whole batches in the order of the calls and *)
(* reports success exactly for those, for every sequence of batch sizes,   *)
(* every requested number of workers and every scheduling of the tasks.    *)
(***************************************************************************)
EXTENDS WorldEncoder, SequenceTheorems, TLAPS

(***************************************************************************)
(* The shares of the workers are adjacent and cover the batch.             *)
(***************************************************************************)

Whole(n) == [i \in 1 .. n |-> i]

\* Where range k of a batch of n chunks ends.
ShareEnd(n, k) == (n \div WorkerCount(n)) * k + Least(k, n % WorkerCount(n))

CallPcs == {"direct", "pool", "drain", "submit", "collect", "write"}

\* Where the call in progress stands, what it has collected, which calls have
\* answered.
CallInv ==
  /\ pc \in {"idle"} \cup CallPcs
  /\ call \in 0 .. Len(Batches)
  /\ results \in Seq({"success", "failure"})
  /\ pc = "idle" => Len(results) = call
  /\ pc # "idle" => call \in DOMAIN Batches /\ Len(results) + 1 = call
  /\ pc \in {"pool", "drain", "submit"} => Size > 0 /\ collected = 0 /\ payload = <<>>
  /\ pc = "collect" => /\ Size > 0
                       /\ collected \in 0 .. WorkerCount(Size) - 1
                       /\ payload = SubSeq(Whole(Size), 1, ShareEnd(Size, collected))
  /\ pc = "write" => payload = Whole(Size)

\* What is in the database belongs to calls that reported success.
DbInv ==
  /\ db \in Seq([call : DOMAIN Batches, chunks : Seq(Nat)])
  /\ \A i \in DOMAIN db : /\ db[i].chunks = Whole(Batches[db[i].call])
                          /\ db[i].call \in DOMAIN results
                          /\ results[db[i].call] = "success"
  /\ \A i, j \in DOMAIN db : i < j => db[i].call < db[j].call
  /\ \A c \in DOMAIN results : results[c] = "success" => \E i \in DOMAIN db : db[i].call = c

\* A task of one of the first c calls, with a range its batch really has.
TaskOf(c, task) ==
  /\ task \in TaskSet
  /\ task.call <= c
  /\ task.range \in 1 .. WorkerCount(Batches[task.call])
  /\ Batches[task.call] > 0

\* The tasks in the pool belong to the call in progress or to an earlier one.
PoolInv ==
  /\ queue \in Seq(TaskSet)
  /\ running \subseteq TaskSet
  /\ \A i \in DOMAIN queue : TaskOf(call, queue[i])
  /\ \A task \in running : TaskOf(call, task)
  /\ finished \subseteq [task : TaskSet, ok : BOOLEAN]

\* The counters of the call in progress and the size of the pool.
CounterInv ==
  /\ mEncodePoolWorkers \in 0 .. 16
  /\ submitted \in 0 .. 16
  /\ collected \in 0 .. submitted
  /\ pc = "submit" => submitted < WorkerCount(Size) /\ mEncodePoolWorkers = WorkerCount(Size)
  /\ pc = "collect" => submitted = WorkerCount(Size)
  /\ pc \in {"pool", "drain"} => submitted = 0
  /\ life \in {"open", "closed", "dead"}
  /\ payload \in Seq(Nat \ {0})

(***************************************************************************)
(* Arithmetic of the shares.                                               *)
(***************************************************************************)

LEMMA WorkerCountType ==
  ASSUME NEW n \in Nat
  PROVE  /\ WorkerCount(n) \in 1 .. 16
         /\ n > 0 => WorkerCount(n) <= n
  BY EncoderAssumption DEF WorkerCount, Least

LEMMA DivMod ==
  ASSUME NEW n \in Nat, NEW w \in Nat \ {0}
  PROVE  /\ n \div w \in Nat /\ n % w \in 0 .. w - 1
         /\ n = (n \div w) * w + (n % w)
  OBVIOUS

LEMMA ShareEndFacts ==
  ASSUME NEW n \in Nat \ {0}, NEW k \in 0 .. WorkerCount(n)
  PROVE  /\ ShareEnd(n, 0) = 0
         /\ ShareEnd(n, WorkerCount(n)) = n
         /\ ShareEnd(n, k) \in 0 .. n
         /\ k < WorkerCount(n) => ShareEnd(n, k) < ShareEnd(n, k + 1)
<1> DEFINE w == WorkerCount(n)
           base == n \div w
           rest == n % w
<1>1. w \in Nat \ {0} /\ w <= n /\ k \in Nat /\ k <= w
  BY WorkerCountType
<1> HIDE DEF w
<1>2. base \in Nat /\ rest \in 0 .. w - 1 /\ n = base * w + rest
  BY <1>1, DivMod
<1>3. base \in Nat \ {0}
  <2>1. base # 0
    BY <1>1, <1>2
  <2>2. QED
    BY <1>2, <2>1
<1> HIDE DEF base, rest
<1>4. ShareEnd(n, 0) = 0
  BY <1>2 DEF ShareEnd, Least, base, rest, w
<1>5. ShareEnd(n, w) = n
  BY <1>1, <1>2 DEF ShareEnd, Least, base, rest, w
<1>6. ShareEnd(n, k) = base * k + Least(k, rest)
  BY DEF ShareEnd, base, rest, w
<1>7. base * k \in Nat /\ base * k <= base * w
  <2>1. base * (w - k) \in Nat
    BY <1>1, <1>2
  <2>2. base * w = base * k + base * (w - k)
    BY <1>1, <1>2
  <2>3. base * k \in Nat /\ base * w \in Nat
    BY <1>1, <1>2
  <2>4. QED
    BY <2>1, <2>2, <2>3
<1>8. Least(k, rest) \in Nat /\ Least(k, rest) <= rest
  BY <1>1, <1>2 DEF Least
<1>9. ShareEnd(n, k) \in 0 .. n
  BY <1>1, <1>2, <1>6, <1>7, <1>8
<1>10. ShareEnd(n, k + 1) = base * k + base + Least(k + 1, rest)
  <2>1. base * (k + 1) = base * k + base
    BY <1>1, <1>2
  <2>2. QED
    BY <2>1 DEF ShareEnd, base, rest, w
<1>11. Least(k, rest) <= Least(k + 1, rest) /\ Least(k + 1, rest) \in Nat
  BY <1>1, <1>2 DEF Least
<1>12. ShareEnd(n, k) < ShareEnd(n, k + 1)
  BY <1>3, <1>6, <1>7, <1>8, <1>10, <1>11
<1>13. QED
  BY <1>4, <1>5, <1>9, <1>12 DEF w

\* Range k is the part of the batch between the ends of ranges k - 1 and k: the
\* first n % workers ranges take the one chunk more that the others lack.
LEMMA ShareIsAdjacent ==
  ASSUME NEW n \in Nat \ {0}, NEW k \in 1 .. WorkerCount(n)
  PROVE  Share(n, k) = SubSeq(Whole(n), ShareEnd(n, k - 1) + 1, ShareEnd(n, k))
<1> DEFINE w == WorkerCount(n)
           base == n \div w
           rest == n % w
<1>1. w \in Nat \ {0} /\ k \in Nat \ {0} /\ k <= w
  BY WorkerCountType
<1> HIDE DEF w
<1>2. base \in Nat /\ rest \in Nat
  <2>1. rest \in 0 .. w - 1 /\ base \in Nat
    BY <1>1, DivMod
  <2> HIDE DEF base, rest
  <2>2. QED
    BY <1>1, <2>1
<1> HIDE DEF base, rest
<1>3. base * k = base * (k - 1) + base /\ base * (k - 1) \in Nat
  BY <1>1, <1>2
<1>4. ShareEnd(n, k - 1) = base * (k - 1) + Least(k - 1, rest)
  BY DEF ShareEnd, base, rest, w
<1>5. ShareEnd(n, k) = base * (k - 1) + Least(k - 1, rest) + (base + (IF k <= rest THEN 1 ELSE 0))
  <2>1. Least(k, rest) = Least(k - 1, rest) + (IF k <= rest THEN 1 ELSE 0)
    BY <1>1, <1>2 DEF Least
  <2>2. ShareEnd(n, k) = base * k + Least(k, rest)
    BY DEF ShareEnd, base, rest, w
  <2>3. Least(k - 1, rest) \in Nat
    BY <1>1, <1>2 DEF Least
  <2>4. QED
    BY <1>2, <1>3, <2>1, <2>2, <2>3
<1>6. QED
  BY <1>4, <1>5 DEF Share, Whole, base, rest, w

LEMMA WholeType ==
  ASSUME NEW n \in Nat
  PROVE  Whole(n) \in Seq(Nat \ {0}) /\ Len(Whole(n)) = n
<1>1. Whole(n) \in [1 .. n -> Nat \ {0}]
  BY DEF Whole
<1>2. QED
  BY <1>1, SeqDef, LenProperties

\* Appending the next share to the shares merged so far gives the shares up to
\* it; all of them together are the batch.
LEMMA MergeShare ==
  ASSUME NEW n \in Nat \ {0}, NEW k \in 0 .. WorkerCount(n) - 1
  PROVE  SubSeq(Whole(n), 1, ShareEnd(n, k)) \o Share(n, k + 1)
           = SubSeq(Whole(n), 1, ShareEnd(n, k + 1))
<1>1. WorkerCount(n) \in Nat \ {0} /\ k \in 0 .. WorkerCount(n) /\ k + 1 \in 1 .. WorkerCount(n)
  BY WorkerCountType
<1>2. /\ ShareEnd(n, k) \in 0 .. n /\ ShareEnd(n, k + 1) \in 0 .. n
      /\ ShareEnd(n, k) < ShareEnd(n, k + 1)
  <2>1. k + 1 \in 0 .. WorkerCount(n)
    BY <1>1
  <2>2. QED
    BY <1>1, <2>1, ShareEndFacts
<1>3. Share(n, k + 1) = SubSeq(Whole(n), ShareEnd(n, k) + 1, ShareEnd(n, k + 1))
  <2>1. (k + 1) - 1 = k
    BY <1>1
  <2>2. QED
    BY <1>1, <2>1, ShareIsAdjacent
<1>4. Whole(n) \in Seq(Nat \ {0}) /\ Len(Whole(n)) = n
  BY WholeType
<1>5. /\ 1 \in 1 .. Len(Whole(n)) + 1
      /\ ShareEnd(n, k) \in 1 - 1 .. Len(Whole(n))
      /\ ShareEnd(n, k + 1) \in ShareEnd(n, k) .. Len(Whole(n))
  BY <1>2, <1>4
<1>6. QED
  BY <1>3, <1>4, <1>5, ConcatAdjacentSubSeq

LEMMA MergeAll ==
  ASSUME NEW n \in Nat \ {0}
  PROVE  /\ SubSeq(Whole(n), 1, ShareEnd(n, 0)) = <<>>
         /\ SubSeq(Whole(n), 1, ShareEnd(n, WorkerCount(n))) = Whole(n)
<1>1. ShareEnd(n, 0) = 0 /\ ShareEnd(n, WorkerCount(n)) = n
  <2>1. 0 \in 0 .. WorkerCount(n)
    BY WorkerCountType
  <2>2. QED
    BY <2>1, ShareEndFacts
<1>2. Whole(n) \in Seq(Nat \ {0}) /\ Len(Whole(n)) = n
  BY WholeType
<1>3. SubSeq(Whole(n), 1, 0) = <<>>
  BY SubSeqEmpty
<1>4. SubSeq(Whole(n), 1, n) = Whole(n)
  BY <1>2, SubSeqFull
<1>5. QED
  BY <1>1, <1>3, <1>4

(***************************************************************************)
(* The invariants are inductive.                                           *)
(***************************************************************************)

\* The size of the batch in progress.
LEMMA SizeType == ASSUME CallInv, pc # "idle" PROVE Size \in Nat
<1>1. call \in DOMAIN Batches
  BY DEF CallInv
<1>2. QED
  BY <1>1, EncoderAssumption, LenProperties DEF Size

LEMMA AnswerType ==
  ASSUME CallInv, NEW res \in {"success", "failure"}, results' = Append(results, res)
  PROVE  /\ results' \in Seq({"success", "failure"}) /\ Len(results') = Len(results) + 1
         /\ Len(results) \in Nat
         /\ DOMAIN results = 1 .. Len(results) /\ DOMAIN results' = 1 .. Len(results) + 1
         /\ \A c \in DOMAIN results : results'[c] = results[c]
         /\ results'[Len(results) + 1] = res
<1>1. results \in Seq({"success", "failure"})
  BY DEF CallInv
<1>2. QED
  BY <1>1, AppendProperties, LenProperties

\* There is a first worker, and a last one.
LEMMA WorkersOfBatch ==
  ASSUME NEW n \in Nat \ {0}
  PROVE  WorkerCount(n) \in Nat \ {0} /\ WorkerCount(n) \in 1 .. 16 /\ 0 \in 0 .. WorkerCount(n) - 1
<1>1. WorkerCount(n) \in 1 .. 16
  BY WorkerCountType
<1>2. QED
  BY <1>1

LEMMA CallInvStep == CallInv /\ [Next]_vars => CallInv'
<1> SUFFICES ASSUME CallInv, [Next]_vars PROVE CallInv'
  OBVIOUS
<1> USE EncoderAssumption DEF CallInv, CallPcs, callerVars, poolVars
<1>1. CASE Begin
  <2>1. call + 1 \in 1 .. Len(Batches) /\ Len(Batches) \in Nat /\ DOMAIN Batches = 1 .. Len(Batches)
    BY <1>1, LenProperties DEF Begin
  <2>2. Size' \in Nat /\ Size' = Batches[call + 1]
    BY <1>1, <2>1 DEF Begin, Size
  <2>3. CASE Size' = 0
    <3>1. pc' = "write" /\ payload' = <<>>
      BY <1>1, <2>2, <2>3 DEF Begin
    <3>2. Whole(Size') = <<>>
      BY <2>2, <2>3, WholeType, EmptySeq
    <3>3. QED
      BY <1>1, <2>1, <2>3, <3>1, <3>2 DEF Begin
  <2>4. CASE Size' # 0
    <3>1. pc' \in {"direct", "pool"} /\ payload' = <<>> /\ collected' = 0 /\ Size' > 0
      BY <1>1, <2>2, <2>4 DEF Begin
    <3>2. QED
      BY <1>1, <2>1, <3>1 DEF Begin
  <2>5. QED
    BY <2>3, <2>4
<1>2. CASE Refuse
  <2>1. /\ results' \in Seq({"success", "failure"}) /\ Len(results') = Len(results) + 1
        /\ Len(results) \in Nat /\ call + 1 \in 0 .. Len(Batches)
    BY <1>2, AnswerType, LenProperties DEF Refuse
  <2>2. QED
    BY <1>2, <2>1 DEF Refuse
<1>3. CASE EncodeDirectly
  <2>1. CASE payload' = [i \in 1 .. Size |-> i] /\ pc' = "write" /\ UNCHANGED results
    BY <1>3, <2>1 DEF EncodeDirectly, Whole, Size
  <2>2. CASE Return("failure")
    <3>1. /\ results' \in Seq({"success", "failure"}) /\ Len(results') = Len(results) + 1
          /\ Len(results) \in Nat /\ pc' = "idle"
      BY <2>2, AnswerType DEF Return
    <3>2. QED
      BY <1>3, <3>1 DEF EncodeDirectly
  <2>3. QED
    BY <1>3, <2>1, <2>2 DEF EncodeDirectly
<1>4. CASE ReusePool
  BY <1>4 DEF ReusePool, Size
<1>5. CASE ReplacePool
  BY <1>5 DEF ReplacePool, Size
<1>6. CASE OldPoolJoined
  BY <1>6 DEF OldPoolJoined, Size
<1>7. CASE Submit
  <2>1. Size \in Nat \ {0} /\ Size' = Size /\ UNCHANGED <<call, results, collected, payload>>
    BY <1>7, SizeType DEF Submit, Size
  <2>2. CASE pc' = "submit"
    BY <1>7, <2>1, <2>2 DEF Submit
  <2>3. CASE pc' = "collect"
    <3>1. payload = SubSeq(Whole(Size), 1, ShareEnd(Size, 0))
      BY <1>7, <2>1, MergeAll DEF Submit
    <3>2. 0 \in 0 .. WorkerCount(Size) - 1
      <4> HIDE DEF CallInv
      <4>1. QED
        BY <2>1, WorkersOfBatch
    <3>3. QED
      BY <1>7, <2>1, <2>3, <3>1, <3>2 DEF Submit
  <2>4. QED
    BY <1>7, <2>2, <2>3 DEF Submit
<1>8. CASE CollectOk
  <2>1. /\ Size \in Nat \ {0} /\ Size' = Size /\ UNCHANGED <<call, results>>
        /\ collected \in 0 .. WorkerCount(Size) - 1 /\ collected' = collected + 1
    BY <1>8, SizeType DEF CollectOk, Size
  <2>2. payload' = SubSeq(Whole(Size), 1, ShareEnd(Size, collected + 1))
    BY <1>8, <2>1, MergeShare DEF CollectOk
  <2>3. CASE pc' = "write"
    <3>1. collected + 1 = WorkerCount(Size)
      BY <1>8, <2>1, <2>3 DEF CollectOk
    <3>2. payload' = Whole(Size)
      BY <2>1, <2>2, <3>1, MergeAll
    <3>3. QED
      BY <1>8, <2>1, <2>3, <3>2 DEF CollectOk
  <2>4. CASE pc' = "collect"
    <3>1. collected + 1 # WorkerCount(Size)
      BY <1>8, <2>1, <2>4 DEF CollectOk
    <3>2. collected' \in 0 .. WorkerCount(Size) - 1
      <4> HIDE DEF CallInv
      <4>1. WorkerCount(Size) \in Nat \ {0}
        BY <2>1, WorkersOfBatch
      <4>2. QED
        BY <2>1, <3>1, <4>1
    <3>3. QED
      BY <1>8, <2>1, <2>2, <2>4, <3>2 DEF CollectOk
  <2>5. QED
    BY <1>8, <2>3, <2>4 DEF CollectOk
<1>9. CASE CollectFails
  <2>1. PICK res \in {"success", "failure"} : results' = Append(results, res)
    BY <1>9 DEF CollectFails, Return
  <2>2. /\ results' \in Seq({"success", "failure"}) /\ Len(results') = Len(results) + 1
        /\ Len(results) \in Nat
    BY <2>1, AnswerType
  <2>3. QED
    BY <1>9, <2>2 DEF CollectFails, Return
<1>10. CASE Write
  <2>1. PICK res \in {"success", "failure"} : results' = Append(results, res)
    BY <1>10 DEF Write, Return
  <2>2. /\ results' \in Seq({"success", "failure"}) /\ Len(results') = Len(results) + 1
        /\ Len(results) \in Nat
    BY <2>1, AnswerType
  <2>3. QED
    BY <1>10, <2>2 DEF Write, Return
<1>11. CASE Take
  BY <1>11 DEF Take, Size
<1>12. ASSUME NEW task \in running, Complete(task) PROVE CallInv'
  BY <1>12 DEF Complete, Size
<1>13. CASE Close
  BY <1>13 DEF Close, Size
<1>14. ASSUME NEW task \in running, ReadDeadFrame(task) PROVE CallInv'
  BY <1>14 DEF ReadDeadFrame, Size
<1>15. CASE UNCHANGED vars
  BY <1>15 DEF vars, Size
<1>16. QED
  BY <1>1, <1>2, <1>3, <1>4, <1>5, <1>6, <1>7, <1>8, <1>9, <1>10, <1>11, <1>12, <1>13, <1>14, <1>15
  DEF Next, Caller, Workers, Quiet

\* A committed batch is the whole batch of the call in progress, and that call is
\* later than all whose batches are in the database.
LEMMA CommitStep ==
  ASSUME CallInv, DbInv, pc = "write", results' = Append(results, "success"),
         db' = Append(db, [call |-> call, chunks |-> payload])
  PROVE  DbInv'
<1> DEFINE entry == [call |-> call, chunks |-> payload]
           Entries == [call : DOMAIN Batches, chunks : Seq(Nat)]
<1>1. /\ call \in DOMAIN Batches /\ Len(results) + 1 = call /\ payload = Whole(Size) /\ Size \in Nat
  BY SizeType DEF CallInv
<1>2. /\ DOMAIN results = 1 .. Len(results) /\ DOMAIN results' = 1 .. Len(results) + 1
      /\ \A c \in DOMAIN results : results'[c] = results[c]
      /\ results'[call] = "success" /\ Len(results) \in Nat
  BY <1>1, AnswerType
<1>3. entry \in Entries
  <2>1. payload \in [1 .. Size -> Nat]
    BY <1>1 DEF Whole
  <2>2. payload \in Seq(Nat)
    BY <1>1, <2>1, SeqDef
  <2>3. QED
    BY <1>1, <2>2
<1>4. db \in Seq(Entries)
  BY DEF DbInv
<1>5. entry.call = call /\ entry.chunks = Whole(Batches[call])
  BY <1>1 DEF Size
<1> HIDE DEF entry, Entries
<1>6. /\ db' \in Seq(Entries)
      /\ Len(db) \in Nat /\ DOMAIN db = 1 .. Len(db) /\ DOMAIN db' = 1 .. Len(db) + 1
      /\ \A i \in DOMAIN db : db'[i] = db[i]
      /\ db'[Len(db) + 1] = entry
  BY <1>3, <1>4, AppendProperties, LenProperties DEF entry
<1>7. \A i \in DOMAIN db : /\ db[i].chunks = Whole(Batches[db[i].call])
                           /\ db[i].call \in 1 .. Len(results)
                           /\ results[db[i].call] = "success"
  BY <1>2 DEF DbInv
<1>8. \A i \in 1 .. Len(db) + 1 : i \in DOMAIN db \/ i = Len(db) + 1
  BY <1>6
<1>9. Len(db) + 1 \in DOMAIN db' /\ DOMAIN db \subseteq DOMAIN db'
  BY <1>6
<1>10. ASSUME NEW i \in DOMAIN db'
       PROVE  /\ db'[i].chunks = Whole(Batches[db'[i].call])
              /\ db'[i].call \in DOMAIN results' /\ results'[db'[i].call] = "success"
  <2>1. CASE i \in DOMAIN db
    <3>1. db'[i] = db[i] /\ db[i].call \in DOMAIN results /\ db[i].call \in DOMAIN results'
      BY <1>2, <1>6, <1>7, <2>1
    <3>2. QED
      BY <1>2, <1>7, <2>1, <3>1
  <2>2. CASE i = Len(db) + 1
    <3>1. db'[i] = entry
      BY <1>6, <2>2
    <3>2. call \in DOMAIN results'
      BY <1>1, <1>2
    <3>3. QED
      BY <1>2, <1>5, <3>1, <3>2
  <2>3. QED
    BY <1>6, <1>8, <2>1, <2>2
<1>11. ASSUME NEW i \in DOMAIN db', NEW j \in DOMAIN db', i < j
       PROVE  db'[i].call < db'[j].call
  <2>1. i \in DOMAIN db
    BY <1>6, <1>11
  <2>2. db'[i] = db[i]
    BY <1>6, <2>1
  <2>3. CASE j \in DOMAIN db
    <3>1. db'[j] = db[j]
      BY <1>6, <2>3
    <3>2. db[i].call < db[j].call
      BY <1>11, <2>1, <2>3 DEF DbInv
    <3>3. QED
      BY <2>2, <3>1, <3>2
  <2>4. CASE j = Len(db) + 1
    <3>1. db'[j].call = call
      BY <1>5, <1>6, <2>4
    <3>2. db[i].call \in 1 .. Len(results)
      BY <1>7, <2>1
    <3>3. db[i].call < call
      BY <1>1, <1>2, <3>2
    <3>4. QED
      BY <2>2, <3>1, <3>3
  <2>5. QED
    BY <1>6, <1>8, <2>3, <2>4
<1>12. ASSUME NEW c \in DOMAIN results', results'[c] = "success"
       PROVE  \E i \in DOMAIN db' : db'[i].call = c
  <2>1. CASE c \in DOMAIN results
    <3>1. results[c] = "success"
      BY <1>2, <1>12, <2>1
    <3>2. PICK i \in DOMAIN db : db[i].call = c
      BY <2>1, <3>1 DEF DbInv
    <3>3. i \in DOMAIN db' /\ db'[i].call = c
      BY <1>6, <1>9, <3>2
    <3>4. QED
      BY <3>3
  <2>2. CASE c = call
    BY <1>5, <1>6, <1>9, <2>2
  <2>3. QED
    BY <1>1, <1>2, <2>1, <2>2
<1>13. QED
  BY <1>6, <1>10, <1>11, <1>12 DEF DbInv, Entries

LEMMA DbInvStep == CallInv /\ DbInv /\ [Next]_vars => DbInv'
<1> SUFFICES ASSUME CallInv, DbInv, [Next]_vars PROVE DbInv'
  OBVIOUS
<1> USE EncoderAssumption DEF DbInv, callerVars, poolVars
<1>1. CASE Begin
  BY <1>1 DEF Begin
<1>2. CASE Refuse
  <2>1. results' = Append(results, "failure") /\ UNCHANGED db
    BY <1>2 DEF Refuse
  <2>2. /\ DOMAIN results = 1 .. Len(results) /\ DOMAIN results' = 1 .. Len(results) + 1
        /\ \A c \in DOMAIN results : results'[c] = results[c]
        /\ results'[Len(results) + 1] = "failure" /\ Len(results) \in Nat
    BY <2>1, AnswerType
  <2>3. QED
    BY <2>1, <2>2
<1>3. CASE EncodeDirectly
  <2>1. CASE UNCHANGED results
    BY <1>3, <2>1 DEF EncodeDirectly
  <2>2. CASE Return("failure")
    <3>1. results' = Append(results, "failure") /\ UNCHANGED db
      BY <1>3, <2>2 DEF EncodeDirectly, Return
    <3>2. /\ DOMAIN results = 1 .. Len(results) /\ DOMAIN results' = 1 .. Len(results) + 1
          /\ \A c \in DOMAIN results : results'[c] = results[c]
          /\ results'[Len(results) + 1] = "failure" /\ Len(results) \in Nat
      BY <3>1, AnswerType
    <3>3. QED
      BY <3>1, <3>2
  <2>3. QED
    BY <1>3, <2>1, <2>2 DEF EncodeDirectly
<1>4. CASE ReusePool
  BY <1>4 DEF ReusePool
<1>5. CASE ReplacePool
  BY <1>5 DEF ReplacePool
<1>6. CASE OldPoolJoined
  BY <1>6 DEF OldPoolJoined
<1>7. CASE Submit
  BY <1>7 DEF Submit
<1>8. CASE CollectOk
  BY <1>8 DEF CollectOk
<1>9. CASE CollectFails
  <2>1. results' = Append(results, "failure") /\ UNCHANGED db
    BY <1>9 DEF CollectFails, Return
  <2>2. /\ DOMAIN results = 1 .. Len(results) /\ DOMAIN results' = 1 .. Len(results) + 1
        /\ \A c \in DOMAIN results : results'[c] = results[c]
        /\ results'[Len(results) + 1] = "failure" /\ Len(results) \in Nat
    BY <2>1, AnswerType
  <2>3. QED
    BY <2>1, <2>2
<1>10. CASE Write
  <2>1. CASE Return("failure") /\ UNCHANGED db
    <3>1. results' = Append(results, "failure") /\ UNCHANGED db
      BY <2>1 DEF Return
    <3>2. /\ DOMAIN results = 1 .. Len(results) /\ DOMAIN results' = 1 .. Len(results) + 1
          /\ \A c \in DOMAIN results : results'[c] = results[c]
          /\ results'[Len(results) + 1] = "failure" /\ Len(results) \in Nat
      BY <3>1, AnswerType
    <3>3. QED
      BY <3>1, <3>2
  <2>2. CASE Return("success") /\ db' = Append(db, [call |-> call, chunks |-> payload])
    <3>1. results' = Append(results, "success") /\ pc = "write"
      BY <1>10, <2>2 DEF Write, Return
    <3> HIDE DEF DbInv
    <3>2. QED
      BY <2>2, <3>1, CommitStep
  <2>3. QED
    BY <1>10, <2>1, <2>2 DEF Write
<1>11. CASE Take
  BY <1>11 DEF Take
<1>12. ASSUME NEW task \in running, Complete(task) PROVE DbInv'
  BY <1>12 DEF Complete
<1>13. CASE Close
  BY <1>13 DEF Close
<1>14. ASSUME NEW task \in running, ReadDeadFrame(task) PROVE DbInv'
  BY <1>14 DEF ReadDeadFrame
<1>15. CASE UNCHANGED vars
  BY <1>15 DEF vars
<1>16. QED
  BY <1>1, <1>2, <1>3, <1>4, <1>5, <1>6, <1>7, <1>8, <1>9, <1>10, <1>11, <1>12, <1>13, <1>14, <1>15
  DEF Next, Caller, Workers, Quiet

\* A range has at least one chunk.
LEMMA ShareNotEmpty ==
  ASSUME NEW n \in Nat \ {0}, NEW k \in 1 .. WorkerCount(n)
  PROVE  Share(n, k) # <<>>
<1>1. WorkerCount(n) \in Nat \ {0} /\ k - 1 \in 0 .. WorkerCount(n) /\ k \in 0 .. WorkerCount(n)
      /\ k - 1 < WorkerCount(n) /\ (k - 1) + 1 = k
  BY WorkersOfBatch
<1>2. ShareEnd(n, k - 1) \in 0 .. n /\ ShareEnd(n, k) \in 0 .. n /\ ShareEnd(n, k - 1) < ShareEnd(n, k)
  BY <1>1, ShareEndFacts
<1>3. Whole(n) \in Seq(Nat \ {0}) /\ Len(Whole(n)) = n
  BY WholeType
<1>4. Len(SubSeq(Whole(n), ShareEnd(n, k - 1) + 1, ShareEnd(n, k))) = ShareEnd(n, k) - ShareEnd(n, k - 1)
  <2>1. /\ ShareEnd(n, k - 1) + 1 \in 1 .. Len(Whole(n)) + 1
        /\ ShareEnd(n, k) \in (ShareEnd(n, k - 1) + 1) - 1 .. Len(Whole(n))
    BY <1>2, <1>3
  <2>2. QED
    BY <1>2, <1>3, <2>1, SubSeqProperties
<1>5. QED
  BY <1>2, <1>4, ShareIsAdjacent

\* What has been merged is a sequence of chunk numbers.
LEMMA MergedType ==
  ASSUME NEW n \in Nat \ {0}, NEW k \in 0 .. WorkerCount(n)
  PROVE  SubSeq(Whole(n), 1, ShareEnd(n, k)) \in Seq(Nat \ {0})
<1>1. ShareEnd(n, k) \in 0 .. n
  BY ShareEndFacts
<1>2. Whole(n) \in Seq(Nat \ {0}) /\ Len(Whole(n)) = n
  BY WholeType
<1>3. 1 \in 1 .. Len(Whole(n)) + 1 /\ ShareEnd(n, k) \in 1 - 1 .. Len(Whole(n))
  BY <1>1, <1>2
<1>4. QED
  BY <1>2, <1>3, SubSeqProperties

\* The tasks of the first c calls are tasks of the first d calls.
LEMMA TaskLater ==
  ASSUME NEW c \in Nat, NEW d \in Nat, c <= d, NEW task, TaskOf(c, task)
  PROVE  TaskOf(d, task)
<1>1. task.call \in Nat
  BY EncoderAssumption, LenProperties DEF TaskOf, TaskSet
<1>2. QED
  BY <1>1 DEF TaskOf

LEMMA PoolInvStep == CallInv /\ CounterInv /\ PoolInv /\ [Next]_vars => PoolInv'
<1> SUFFICES ASSUME CallInv, CounterInv, PoolInv, [Next]_vars PROVE PoolInv'
  OBVIOUS
<1>1. CASE Begin
  <2>1. /\ call \in Nat /\ call' \in Nat /\ call <= call'
        /\ UNCHANGED <<queue, running, finished>>
    BY <1>1, LenProperties, EncoderAssumption DEF Begin, PoolInv, callerVars, poolVars, CallInv
  <2>2. /\ \A i \in DOMAIN queue : TaskOf(call', queue[i])
        /\ \A task \in running : TaskOf(call', task)
    BY <2>1, TaskLater DEF PoolInv
  <2>3. QED
    BY <2>1, <2>2 DEF PoolInv
<1>2. CASE Refuse
  <2>1. /\ call \in Nat /\ call' \in Nat /\ call <= call'
        /\ UNCHANGED <<queue, running, finished>>
    BY <1>2, LenProperties, EncoderAssumption DEF Refuse, PoolInv, callerVars, poolVars, CallInv
  <2>2. /\ \A i \in DOMAIN queue : TaskOf(call', queue[i])
        /\ \A task \in running : TaskOf(call', task)
    BY <2>1, TaskLater DEF PoolInv
  <2>3. QED
    BY <2>1, <2>2 DEF PoolInv
<1>3. CASE EncodeDirectly
  BY <1>3 DEF EncodeDirectly, Return, PoolInv, callerVars, poolVars
<1>4. CASE ReusePool
  BY <1>4 DEF ReusePool, PoolInv, callerVars, poolVars
<1>5. CASE ReplacePool
  BY <1>5 DEF ReplacePool, PoolInv, callerVars, poolVars
<1>6. CASE OldPoolJoined
  BY <1>6 DEF OldPoolJoined, PoolInv, callerVars, poolVars
<1>7. CASE Submit
  <2>1. Size \in Nat \ {0} /\ call \in DOMAIN Batches /\ call \in Nat
    BY <1>7, SizeType, EncoderAssumption, LenProperties DEF Submit, CallInv
  <2>2. submitted' \in 1 .. WorkerCount(Size) /\ WorkerCount(Size) \in 1 .. 16
    <3>1. WorkerCount(Size) \in 1 .. 16
      BY <2>1, WorkersOfBatch
    <3>2. submitted \in Nat /\ submitted < WorkerCount(Size) /\ submitted' = submitted + 1
      BY <1>7 DEF Submit, CounterInv
    <3>3. QED
      BY <3>1, <3>2
  <2>3. TaskOf(call, Task(submitted')) /\ Task(submitted') \in TaskSet
    BY <2>1, <2>2 DEF TaskOf, Task, TaskSet, Size
  <2>4. queue' = Append(queue, Task(submitted')) /\ UNCHANGED <<call, running, finished>>
    BY <1>7 DEF Submit
  <2>5. queue \in Seq(TaskSet) /\ \A i \in DOMAIN queue : TaskOf(call, queue[i])
    BY DEF PoolInv
  <2>6. queue' \in Seq(TaskSet) /\ \A i \in DOMAIN queue' : TaskOf(call, queue'[i])
    <3> HIDE DEF Task
    <3>1. /\ queue' \in Seq(TaskSet) /\ Len(queue) \in Nat /\ DOMAIN queue = 1 .. Len(queue)
          /\ DOMAIN queue' = 1 .. Len(queue) + 1
          /\ \A i \in DOMAIN queue : queue'[i] = queue[i]
          /\ queue'[Len(queue) + 1] = Task(submitted')
      BY <2>3, <2>4, <2>5, AppendProperties, LenProperties
    <3>2. \A i \in 1 .. Len(queue) + 1 : i \in 1 .. Len(queue) \/ i = Len(queue) + 1
      BY <3>1
    <3>3. QED
      BY <2>3, <2>5, <3>1, <3>2
  <2>7. QED
    BY <2>4, <2>6 DEF PoolInv
<1>8. CASE CollectOk
  BY <1>8 DEF CollectOk, PoolInv, callerVars, poolVars
<1>9. CASE CollectFails
  BY <1>9 DEF CollectFails, Return, PoolInv, callerVars, poolVars
<1>10. CASE Write
  BY <1>10 DEF Write, Return, PoolInv, callerVars, poolVars
<1>11. CASE Take
  <2>1. /\ queue \in Seq(TaskSet) /\ queue # <<>> /\ queue' = Tail(queue)
        /\ running' = running \cup {Head(queue)} /\ UNCHANGED <<call, finished>>
        /\ \A i \in DOMAIN queue : TaskOf(call, queue[i])
    BY <1>11 DEF Take, PoolInv, callerVars
  <2>2. /\ Head(queue) = queue[1] /\ 1 \in DOMAIN queue /\ Len(queue) \in Nat
        /\ DOMAIN queue = 1 .. Len(queue)
    BY <2>1, LenProperties, EmptySeq, HeadTailProperties
  <2>3. /\ queue' \in Seq(TaskSet) /\ Len(queue') = Len(queue) - 1
        /\ \A i \in 1 .. Len(queue') : queue'[i] = queue[i + 1]
        /\ DOMAIN queue' = 1 .. Len(queue')
    BY <2>1, HeadTailProperties, LenProperties
  <2>4. \A i \in DOMAIN queue' : i + 1 \in DOMAIN queue
    BY <2>2, <2>3
  <2>5. \A i \in DOMAIN queue' : TaskOf(call, queue'[i])
    BY <2>1, <2>3, <2>4
  <2>6. TaskOf(call, Head(queue)) /\ Head(queue) \in TaskSet
    BY <2>1, <2>2 DEF TaskOf
  <2>7. QED
    BY <2>1, <2>3, <2>5, <2>6 DEF PoolInv
<1>12. ASSUME NEW task \in running, Complete(task) PROVE PoolInv'
  <2>1. task \in TaskSet
    BY DEF PoolInv
  <2>2. \A ok \in BOOLEAN : [task |-> task, ok |-> ok] \in [task : TaskSet, ok : BOOLEAN]
    BY <2>1
  <2>3. finished' \subseteq [task : TaskSet, ok : BOOLEAN]
    BY <1>12, <2>2 DEF Complete, PoolInv
  <2>4. running' \subseteq running /\ UNCHANGED <<call, queue>>
    BY <1>12 DEF Complete, callerVars
  <2>5. QED
    BY <2>3, <2>4 DEF PoolInv
<1>13. CASE Close
  BY <1>13 DEF Close, PoolInv, callerVars, poolVars
<1>14. ASSUME NEW task \in running, ReadDeadFrame(task) PROVE PoolInv'
  BY <1>14 DEF ReadDeadFrame, PoolInv, callerVars, poolVars
<1>15. CASE UNCHANGED vars
  BY <1>15 DEF vars, PoolInv, callerVars, poolVars
<1>16. QED
  BY <1>1, <1>2, <1>3, <1>4, <1>5, <1>6, <1>7, <1>8, <1>9, <1>10, <1>11, <1>12, <1>13, <1>14, <1>15
  DEF Next, Caller, Workers, Quiet

LEMMA CounterInvStep == CallInv /\ CounterInv /\ [Next]_vars => CounterInv'
<1> SUFFICES ASSUME CallInv, CounterInv, [Next]_vars PROVE CounterInv'
  OBVIOUS
<1>1. CASE Begin
  <2>1. /\ pc' \in {"write", "direct", "pool"} /\ submitted' = 0 /\ collected' = 0 /\ payload' = <<>>
        /\ UNCHANGED <<mEncodePoolWorkers, life>>
    BY <1>1 DEF Begin, poolVars
  <2>2. QED
    BY <2>1 DEF CounterInv
<1>2. CASE Refuse
  BY <1>2 DEF Refuse, CounterInv, callerVars, poolVars, Size
<1>3. CASE EncodeDirectly
  <2>1. payload' \in Seq(Nat \ {0})
    <3>1. CASE payload' = [i \in 1 .. Size |-> i]
      BY <1>3, <3>1, SizeType, WholeType DEF EncodeDirectly, Whole
    <3>2. CASE UNCHANGED payload
      BY <3>2 DEF CounterInv
    <3>3. QED
      BY <1>3, <3>1, <3>2 DEF EncodeDirectly
  <2>2. pc' \in {"write", "idle"} /\ UNCHANGED <<submitted, collected, mEncodePoolWorkers, life>>
    BY <1>3 DEF EncodeDirectly, Return
  <2>3. QED
    BY <2>1, <2>2 DEF CounterInv
<1>4. CASE ReusePool
  <2>1. Size \in Nat \ {0} /\ Size' = Size
    BY <1>4, SizeType DEF ReusePool, CallInv, Size
  <2>2. WorkerCount(Size) \in Nat \ {0}
    BY <2>1, WorkersOfBatch
  <2>3. /\ pc' = "submit" /\ submitted = 0 /\ mEncodePoolWorkers = WorkerCount(Size)
        /\ UNCHANGED <<submitted, collected, payload, mEncodePoolWorkers, life>>
    BY <1>4 DEF ReusePool, Reusable, CounterInv, poolVars
  <2>4. WorkerCount(Size)' = WorkerCount(Size)
    BY <2>1 DEF WorkerCount
  <2>5. QED
    BY <2>2, <2>3, <2>4 DEF CounterInv
<1>5. CASE ReplacePool
  BY <1>5 DEF ReplacePool, CounterInv, callerVars, poolVars, Size
<1>6. CASE OldPoolJoined
  <2>1. Size \in Nat \ {0} /\ Size' = Size
    BY <1>6, SizeType DEF OldPoolJoined, CallInv, Size
  <2>2. WorkerCount(Size) \in 1 .. 16
    BY <2>1, WorkersOfBatch
  <2>3. /\ pc' = "submit" /\ submitted = 0 /\ mEncodePoolWorkers' = WorkerCount(Size)
        /\ UNCHANGED <<submitted, collected, payload, life>>
    BY <1>6 DEF OldPoolJoined, CounterInv
  <2>4. WorkerCount(Size)' = WorkerCount(Size)
    BY <2>1 DEF WorkerCount
  <2>5. QED
    BY <2>2, <2>3, <2>4 DEF CounterInv
<1>7. CASE Submit
  <2>1. Size \in Nat \ {0} /\ Size' = Size
    BY <1>7, SizeType DEF Submit, CallInv, Size
  <2>2. WorkerCount(Size) \in 1 .. 16 /\ WorkerCount(Size)' = WorkerCount(Size)
    BY <2>1, WorkersOfBatch DEF WorkerCount
  <2>3. /\ submitted \in Nat /\ submitted < WorkerCount(Size) /\ submitted' = submitted + 1
        /\ mEncodePoolWorkers = WorkerCount(Size) /\ collected \in 0 .. submitted
        /\ pc' = IF submitted' = WorkerCount(Size) THEN "collect" ELSE "submit"
        /\ UNCHANGED <<collected, payload, mEncodePoolWorkers, life>>
    BY <1>7 DEF Submit, CounterInv
  <2>4. submitted' \in 0 .. 16 /\ collected' \in 0 .. submitted' /\ submitted' <= WorkerCount(Size)
    BY <2>2, <2>3
  <2>5. pc' = "submit" => submitted' < WorkerCount(Size)
    BY <2>2, <2>3, <2>4
  <2>6. QED
    BY <2>2, <2>3, <2>4, <2>5 DEF CounterInv
<1>8. CASE CollectOk
  <2>1. /\ Size \in Nat \ {0} /\ Size' = Size /\ collected \in 0 .. WorkerCount(Size) - 1
        /\ payload = SubSeq(Whole(Size), 1, ShareEnd(Size, collected))
    BY <1>8, SizeType DEF CollectOk, CallInv, Size
  <2>2. WorkerCount(Size) \in 1 .. 16 /\ WorkerCount(Size)' = WorkerCount(Size)
    BY <2>1, WorkersOfBatch DEF WorkerCount
  <2>3. /\ submitted = WorkerCount(Size) /\ collected' = collected + 1
        /\ payload' = payload \o Share(Size, collected + 1)
        /\ pc' \in {"write", "collect"}
        /\ UNCHANGED <<submitted, mEncodePoolWorkers, life>>
    BY <1>8 DEF CollectOk, CounterInv, poolVars
  <2>4. collected' \in 0 .. WorkerCount(Size)
    <3>1. collected \in 0 .. WorkerCount(Size) - 1 /\ WorkerCount(Size) \in Nat
      BY <2>1, <2>2
    <3>2. collected' = collected + 1
      BY <2>3
    <3>3. QED
      BY <3>1, <3>2
  <2>5. payload' \in Seq(Nat \ {0})
    BY <2>1, <2>3, <2>4, MergeShare, MergedType
  <2>6. submitted' = WorkerCount(Size)' /\ collected' \in 0 .. submitted'
    BY <2>2, <2>3, <2>4
  <2>7. pc' \notin {"submit", "pool", "drain"}
    BY <2>3
  <2>8. mEncodePoolWorkers' \in 0 .. 16 /\ submitted' \in 0 .. 16 /\ life' \in {"open", "closed", "dead"}
    BY <2>3 DEF CounterInv
  <2>9. QED
    BY <2>5, <2>6, <2>7, <2>8 DEF CounterInv
<1>9. CASE CollectFails
  BY <1>9 DEF CollectFails, Return, CounterInv, callerVars, poolVars, Size
<1>10. CASE Write
  BY <1>10 DEF Write, Return, CounterInv, callerVars, poolVars, Size
<1>11. CASE Take
  BY <1>11 DEF Take, CounterInv, callerVars, poolVars, Size
<1>12. ASSUME NEW task \in running, Complete(task) PROVE CounterInv'
  BY <1>12 DEF Complete, CounterInv, callerVars, poolVars, Size
<1>13. CASE Close
  BY <1>13 DEF Close, CounterInv, callerVars, poolVars, Size
<1>14. ASSUME NEW task \in running, ReadDeadFrame(task) PROVE CounterInv'
  BY <1>14 DEF ReadDeadFrame, CounterInv, callerVars, poolVars, Size
<1>15. CASE UNCHANGED vars
  BY <1>15 DEF vars, CounterInv, callerVars, poolVars, Size
<1>16. QED
  BY <1>1, <1>2, <1>3, <1>4, <1>5, <1>6, <1>7, <1>8, <1>9, <1>10, <1>11, <1>12, <1>13, <1>14, <1>15
  DEF Next, Caller, Workers, Quiet

(***************************************************************************)
(* The theorems.                                                           *)
(***************************************************************************)

EncoderInv == CallInv /\ DbInv /\ CounterInv /\ PoolInv

LEMMA EncoderInvariant == Spec => []EncoderInv
<1>1. Init => EncoderInv
  <2> SUFFICES ASSUME Init PROVE EncoderInv
    OBVIOUS
  <2>1. /\ <<>> \in Seq({"success", "failure"}) /\ <<>> \in Seq(TaskSet) /\ <<>> \in Seq(Nat \ {0})
        /\ <<>> \in Seq([call : DOMAIN Batches, chunks : Seq(Nat)])
        /\ Len(<<>>) = 0 /\ DOMAIN <<>> = {}
    BY EmptySeq
  <2>2. Len(Batches) \in Nat
    BY EncoderAssumption, LenProperties
  <2>3. CallInv
    BY <2>1, <2>2 DEF Init, CallInv
  <2>4. DbInv
    BY <2>1 DEF Init, DbInv
  <2>5. CounterInv
    BY <2>1 DEF Init, CounterInv
  <2>6. PoolInv
    BY <2>1 DEF Init, PoolInv
  <2>7. QED
    BY <2>3, <2>4, <2>5, <2>6 DEF EncoderInv
<1>2. EncoderInv /\ [Next]_vars => EncoderInv'
  BY CallInvStep, DbInvStep, CounterInvStep, PoolInvStep DEF EncoderInv
<1>3. QED
  BY <1>1, <1>2, PTL DEF Spec

\* The counters of a call, the tasks in the pool and their results stay within
\* their types, and every range handed to a worker of
\* BedrockWorldAdapter::encode_chunks has at least one chunk.
THEOREM EncoderTypeOK == Spec => []TypeOK
<1>1. EncoderInv => TypeOK
  <2> SUFFICES ASSUME EncoderInv PROVE TypeOK
    OBVIOUS
  <2> USE DEF EncoderInv
  <2>1. ASSUME NEW task \in running PROVE Share(Batches[task.call], task.range) # <<>>
    <3>1. TaskOf(call, task)
      BY DEF PoolInv
    <3>2. Batches[task.call] \in Nat \ {0} /\ task.range \in 1 .. WorkerCount(Batches[task.call])
      BY <3>1, EncoderAssumption, LenProperties DEF TaskOf, TaskSet
    <3>3. QED
      BY <3>2, ShareNotEmpty
  <2>2. QED
    BY <2>1 DEF TypeOK, CallInv, CallPcs, CounterInv, PoolInv
<1>2. QED
  BY <1>1, EncoderInvariant, PTL

\* The database receives whole batches only, each at most once and in the order
\* of the calls, with the payloads in chunk order (encode_chunks merges the
\* ranges, save_subchunk_payloads writes them).
THEOREM BatchesStayWhole == Spec => []BatchesAreWhole
<1>1. EncoderInv => BatchesAreWhole
  BY DEF EncoderInv, DbInv, BatchesAreWhole, Whole
<1>2. QED
  BY <1>1, EncoderInvariant, PTL

\* save_chunks has reported success exactly for the calls whose batch is in the
\* database.
THEOREM SuccessIsWritten == Spec => []SuccessMeansWritten
<1>1. EncoderInv => SuccessMeansWritten
  BY DEF EncoderInv, DbInv, SuccessMeansWritten
<1>2. QED
  BY <1>1, EncoderInvariant, PTL

===============================================================================
