-------------------------- MODULE OrderedTransfer --------------------------
(***************************************************************************)
(* What a conversion pipeline promises to the code around it, without any  *)
(* thread, queue or lock: the items of the source reach the destination in *)
(* source order, none skipped and none twice; the transfer may fail at any *)
(* moment and then delivers nothing more; it reports success only when     *)
(* everything was delivered; and it ends.  ChunkStream and the ordered     *)
(* drains of the MCFunction reader and writers are implementations of it.  *)
(***************************************************************************)
EXTENDS Integers, Sequences

CONSTANT Items    \* the source: natural numbers, in their natural order

VARIABLES
  delivered,  \* what the destination has accepted, in order
  outcome     \* what the caller has been told

transferVars == <<delivered, outcome>>

Remaining == Items \ {delivered[i] : i \in DOMAIN delivered}

Init ==
  /\ delivered = <<>>
  /\ outcome = "running"

Deliver ==
  /\ outcome = "running"
  /\ \E i \in Remaining :
       /\ \A j \in Remaining : i <= j
       /\ delivered' = Append(delivered, i)
  /\ UNCHANGED outcome

Succeed ==
  /\ outcome = "running"
  /\ Remaining = {}
  /\ outcome' = "success"
  /\ UNCHANGED delivered

Fail ==
  /\ outcome = "running"
  /\ outcome' = "failure"
  /\ UNCHANGED delivered

Next == Deliver \/ Succeed \/ Fail

Spec == Init /\ [][Next]_transferVars /\ WF_transferVars(Next)
=============================================================================
