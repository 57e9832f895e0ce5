---------------------------- MODULE DurableStore ----------------------------
(***************************************************************************)
(* What the world directory's key-value store promises its callers: a      *)
(* write puts all of its batch into the store or nothing, an accepted      *)
(* write is there from the moment it is acknowledged, and no restart or    *)
(* crash of the process takes it away again.  A write that was running     *)
(* when the process died may be there or not, but as a whole.              *)
(***************************************************************************)
EXTENDS Integers, Sequences, FiniteSets, SequencesExt

CONSTANTS
  Keys,
  Batches   \* Batches[b]: the operations of write b, [key, del]

Absent == 0

VARIABLES
  db,       \* for every key the write that stored it last
  status    \* "new", "open", "ok", "error" or, after a crash, "lost"

Writes == DOMAIN Batches

Applied(contents, b) ==
  [k \in Keys |->
     LET ops == {i \in DOMAIN Batches[b] : Batches[b][i].key = k}
     IN  IF ops = {} THEN contents[k]
         ELSE IF Batches[b][CHOOSE i \in ops : \A j \in ops : j <= i].del THEN Absent ELSE b]

Init == db = [k \in Keys |-> Absent] /\ status = [b \in Writes |-> "new"]

Mark(set, mark) == status' = [b \in Writes |-> IF b \in set THEN mark ELSE status[b]]
Running == {b \in Writes : status[b] = "open"}

Call(b) == status[b] = "new" /\ Mark({b}, "open") /\ UNCHANGED db

Refuse(b) == b \in Running /\ Mark({b}, "error") /\ UNCHANGED db

\* db becomes what it was with the writes of a group applied in some order.
Apply(group) == \E order \in SetToSeqs(group) : db' = FoldLeft(Applied, db, order)

\* Several writers may be served together.
Commit(group) == group # {} /\ Mark(group, "ok") /\ Apply(group)

\* The writes that were running are lost or not.
Crash(group) == Mark(Running, "lost") /\ Apply(group)

Next ==
  \/ \E b \in Writes : Call(b) \/ Refuse(b)
  \/ \E group \in SUBSET Running : Commit(group) \/ Crash(group)

StoreSpec == Init /\ [][Next]_<<db, status>>
=============================================================================
