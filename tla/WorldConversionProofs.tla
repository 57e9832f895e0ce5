----------------------- MODULE WorldConversionProofs -----------------------
(***************************************************************************)
(* The conversion of a structure into a world keeps the sink's protocol,   *)
(* writes every chunk in order or marks the world for discarding, reports  *)
(* only saved progress, stays inside its memory window and implements the  *)
(* ordered transfer, for every grid, every set of missing, tall or         *)
(* NBT-bearing chunks and every window.                                    *)
(***************************************************************************)
EXTENDS WorldConversion, SequenceTheorems, FiniteSetTheorems, TLAPS

(***************************************************************************)
(* The stream: its two threads, and why it fails.                          *)
(***************************************************************************)

P == pc["producer"]
C == pc["consumer"]

ProducerPcs == {"batch", "visit", "push", "waiting", "pushed", "fail",
                "failed", "cancel", "close", "closed", "join", "returned"}
ConsumerPcs == {"locking", "waiting", "popped", "pushing", "fail",
                "failed", "cancel", "done"}

StreamTypeOK ==
  /\ pc \in [Stream!Threads -> ProducerPcs \cup ConsumerPcs]
  /\ P \in ProducerPcs /\ C \in ConsumerPcs
  /\ next \in 1 .. N + 1
  /\ batchEnd \in 0 .. N
  /\ held \in SUBSET (1 .. N)
  /\ mQueue \in Seq(Yields)
  /\ mClosed \in BOOLEAN
  /\ mError \in {"none"} \cup Stream!Errors
  /\ inHand \in Yields \cup {0}
  /\ verdict \in [Stream!Threads -> {"ok"} \cup Stream!Errors]
  /\ delivered \in Seq(Yields)
  /\ cancels \in Nat
  /\ finished \in BOOLEAN
  /\ failures \in SUBSET Stream!Errors
  /\ latePushes \in Nat
  /\ outcome \in {"running", "success"} \cup Stream!Errors

\* Where the threads stand tells what the batch, the hand and the verdicts hold.
PositionInv ==
  /\ P \in {"push", "waiting", "pushed"} => next <= batchEnd /\ next \in Yields
  /\ P = "visit" => next <= batchEnd + 1
  /\ inHand # 0 <=> C \in {"popped", "pushing"}
  /\ P \in {"batch", "visit", "push", "waiting", "pushed"} => verdict["producer"] = "ok"
  /\ P \in {"fail", "failed", "cancel"} => verdict["producer"] # "ok"
  /\ (P \in {"close", "closed", "join", "returned"} /\ verdict["producer"] = "ok") => next = N + 1
  /\ C \in {"locking", "waiting", "popped", "pushing"} => verdict["consumer"] = "ok"
  /\ C \in {"fail", "failed", "cancel"} => verdict["consumer"] # "ok"
  /\ P = "returned" <=> outcome # "running"
  /\ P = "returned" => C = "done"

\* A failed queue is closed and empty; an intact one is closed only by close().
FailureInv ==
  /\ mError # "none" => mClosed /\ mQueue = <<>>
  /\ (mClosed /\ mError = "none") => P \in {"closed", "join", "returned"}
  /\ C = "done" => mClosed /\ mQueue = <<>>
  /\ P \in {"failed", "cancel"} \/ C \in {"failed", "cancel"} => mError # "none"
  /\ cancels > 0 => mError # "none"
  /\ latePushes > 0 => latePushes = 1 /\ C # "popped" /\ mError # "none"
  /\ \A t \in Stream!Threads : verdict[t] # "ok" => verdict[t] \in failures
  /\ mError # "none" => mError \in failures
  /\ \A e \in failures :
       \/ e = verdict["producer"] \/ e = verdict["consumer"]
       \/ e = "finish" /\ finished
  /\ finished => P = "returned" /\ Stream!NoErrorSeen

\* The error pump returns, or its success.
OutcomeInv ==
  /\ outcome = "success" => finished
  /\ outcome # "running" =>
       IF failures = {} THEN outcome = "success" ELSE outcome \in failures

(***************************************************************************)
(* The flow of the chunks: delivered, in the consumer's hand, queued.      *)
(***************************************************************************)

Rising(s) == \A i, j \in DOMAIN s : i < j => s[i] < s[j]
Below(S, T) == \A x \in S, y \in T : x < y

Hand == IF inHand = 0 THEN {} ELSE {inHand}
\* The chunks the producer has enqueued.
Sent == {y \in Yields : y < next \/ (y = next /\ P = "pushed")}

FlowInv ==
  /\ Rising(delivered) /\ Rising(mQueue)
  /\ Below(Elements(delivered), Hand \cup Elements(mQueue))
  /\ Below(Hand, Elements(mQueue))
  /\ Elements(delivered) \cup Hand \cup Elements(mQueue) \subseteq Sent
  /\ (mError = "none" /\ verdict["consumer"] = "ok") =>
       Sent = Elements(delivered) \cup Hand \cup Elements(mQueue)
  /\ \A y \in Yields : inHand # 0 /\ y < inHand => y \in Elements(delivered)

\* Neither the structure's batch nor the queue outgrows the window.
WindowInv ==
  /\ Cardinality(held) <= BatchSize
  /\ Len(mQueue) <= BatchSize

(***************************************************************************)
(* The sink: what is saved, what waits in its batch.                       *)
(***************************************************************************)

SinkTypeOK ==
  /\ phase \in PhaseNames
  /\ tooHigh \subseteq Yields
  /\ mChunks \in Seq(Yields)
  /\ mReceived \in Nat
  /\ saved \in Seq(Yields)
  /\ savedNbt \subseteq HasNbt
  /\ completed \in Nat
  /\ progress \in Nat
  /\ errorChunk \in {0} \cup Yields
  /\ stage \in StageNames
  /\ discardOnClose \in BOOLEAN
  /\ result \in {"none", "success", "failure"}

\* No flush has failed so far.
Intact == verdict["consumer"] = "ok" /\ outcome \in {"running", "success"}

SinkInv ==
  /\ phase = "sizing" => outcome = "running" /\ C = "locking" /\ P = "batch"
  /\ Rising(saved)
  /\ Intact =>
       /\ Elements(delivered) = Elements(saved) \cup Elements(mChunks)
       /\ Rising(mChunks) /\ Below(Elements(saved), Elements(mChunks))
       /\ Elements(delivered) \cap tooHigh = {}
       /\ mReceived = Len(delivered)
       /\ Len(delivered) = Len(saved) + Len(mChunks)
       /\ savedNbt = Elements(saved) \cap HasNbt
  /\ Intact /\ phase # "returned" => progress = Len(saved) /\ completed = Len(saved)
  /\ Intact /\ outcome = "running" => Len(mChunks) < BatchSize
  /\ outcome = "success" => mChunks = <<>>
  /\ Len(mChunks) <= BatchSize
  /\ mReceived <= N
  /\ (phase = "returned") = (result # "none")
  /\ result = "success" => outcome = "success" /\ progress = N /\ completed = N
  /\ result = "failure" => discardOnClose
  /\ result # "success" =>
       /\ progress <= Len(saved)
       /\ \A i \in 1 .. progress : saved[i] \in HasNbt => saved[i] \in savedNbt
       /\ completed = progress


(***************************************************************************)
(* Rising sequences.                                                       *)
(***************************************************************************)

LEMMA AppendElements ==
  ASSUME NEW S, NEW s \in Seq(S), NEW e \in S
  PROVE  Elements(Append(s, e)) = Elements(s) \cup {e}
<1>1. /\ Append(s, e) \in Seq(S) /\ Len(s) \in Nat
      /\ Len(Append(s, e)) = Len(s) + 1
      /\ \A i \in 1 .. Len(s) : Append(s, e)[i] = s[i]
      /\ Append(s, e)[Len(s) + 1] = e
  BY AppendProperties, LenProperties
<1>2. DOMAIN s = 1 .. Len(s) /\ DOMAIN Append(s, e) = 1 .. Len(s) + 1
  BY <1>1, LenProperties
<1>3. QED
  BY <1>1, <1>2 DEF Elements

LEMMA HeadTailElements ==
  ASSUME NEW S, NEW s \in Seq(S), s # <<>>
  PROVE  Elements(s) = {Head(s)} \cup Elements(Tail(s))
<1>1. /\ Tail(s) \in Seq(S) /\ Len(s) \in Nat \ {0}
      /\ Len(Tail(s)) = Len(s) - 1 /\ Head(s) = s[1]
      /\ \A i \in 1 .. Len(Tail(s)) : Tail(s)[i] = s[i + 1]
  BY HeadTailProperties, LenProperties, EmptySeq
<1>2. DOMAIN s = 1 .. Len(s) /\ DOMAIN Tail(s) = 1 .. Len(s) - 1
  BY <1>1, LenProperties
<1>3. ASSUME NEW i \in DOMAIN s PROVE s[i] \in {Head(s)} \cup Elements(Tail(s))
  <2>1. CASE i = 1
    BY <1>1, <2>1
  <2>2. CASE i # 1
    <3>1. i - 1 \in DOMAIN Tail(s) /\ Tail(s)[i - 1] = s[i]
      BY <1>1, <1>2, <2>2
    <3>2. QED
      BY <3>1 DEF Elements
  <2>3. QED
    BY <2>1, <2>2
<1>4. ASSUME NEW i \in DOMAIN Tail(s) PROVE Tail(s)[i] \in Elements(s)
  BY <1>1, <1>2 DEF Elements
<1>5. Head(s) \in Elements(s)
  BY <1>1, <1>2 DEF Elements
<1>6. QED
  BY <1>3, <1>4, <1>5 DEF Elements

LEMMA ConcatElements ==
  ASSUME NEW S, NEW s \in Seq(S), NEW t \in Seq(S)
  PROVE  Elements(s \o t) = Elements(s) \cup Elements(t)
<1>1. /\ s \o t \in Seq(S) /\ Len(s) \in Nat /\ Len(t) \in Nat
      /\ Len(s \o t) = Len(s) + Len(t)
      /\ \A i \in 1 .. Len(s) + Len(t) :
            (s \o t)[i] = IF i <= Len(s) THEN s[i] ELSE t[i - Len(s)]
  BY ConcatProperties, LenProperties
<1>2. /\ DOMAIN s = 1 .. Len(s) /\ DOMAIN t = 1 .. Len(t)
      /\ DOMAIN (s \o t) = 1 .. Len(s) + Len(t)
  BY <1>1, LenProperties
<1>3. ASSUME NEW i \in DOMAIN (s \o t) PROVE (s \o t)[i] \in Elements(s) \cup Elements(t)
  <2>1. CASE i <= Len(s)
    BY <1>1, <1>2, <2>1 DEF Elements
  <2>2. CASE ~(i <= Len(s))
    <3>1. i - Len(s) \in DOMAIN t
      BY <1>1, <1>2, <2>2
    <3>2. QED
      BY <1>1, <1>2, <2>2, <3>1 DEF Elements
  <2>3. QED
    BY <2>1, <2>2
<1>4. ASSUME NEW i \in DOMAIN s PROVE s[i] \in Elements(s \o t)
  BY <1>1, <1>2 DEF Elements
<1>5. ASSUME NEW i \in DOMAIN t PROVE t[i] \in Elements(s \o t)
  <2>1. i + Len(s) \in DOMAIN (s \o t) /\ (s \o t)[i + Len(s)] = t[i]
    BY <1>1, <1>2
  <2>2. QED
    BY <2>1 DEF Elements
<1>6. QED
  BY <1>3, <1>4, <1>5 DEF Elements

LEMMA WidenSeq ==
  ASSUME NEW S, NEW T, S \subseteq T, NEW s \in Seq(S)
  PROVE  s \in Seq(T)
<1>1. Len(s) \in Nat /\ s \in [1 .. Len(s) -> S]
  BY LenProperties
<1>2. s \in [1 .. Len(s) -> T]
  BY <1>1
<1>3. QED
  BY <1>1, <1>2, SeqDef

LEMMA RisingAppend ==
  ASSUME NEW S \in SUBSET Int, NEW s \in Seq(S), NEW e \in S,
         Rising(s), Below(Elements(s), {e})
  PROVE  Rising(Append(s, e))
<1>1. /\ Append(s, e) \in Seq(S) /\ Len(s) \in Nat
      /\ Len(Append(s, e)) = Len(s) + 1
      /\ \A i \in 1 .. Len(s) : Append(s, e)[i] = s[i]
      /\ Append(s, e)[Len(s) + 1] = e
  BY AppendProperties, LenProperties
<1>2. DOMAIN s = 1 .. Len(s) /\ DOMAIN Append(s, e) = 1 .. Len(s) + 1
  BY <1>1, LenProperties
<1>3. \A i \in DOMAIN s : s[i] < e
  BY DEF Below, Elements
<1>4. QED
  BY <1>1, <1>2, <1>3 DEF Rising

LEMMA RisingTail ==
  ASSUME NEW S \in SUBSET Int, NEW s \in Seq(S), s # <<>>, Rising(s)
  PROVE  Rising(Tail(s)) /\ Below({Head(s)}, Elements(Tail(s)))
<1>1. /\ Tail(s) \in Seq(S) /\ Len(s) \in Nat \ {0}
      /\ Len(Tail(s)) = Len(s) - 1 /\ Head(s) = s[1]
      /\ \A i \in 1 .. Len(Tail(s)) : Tail(s)[i] = s[i + 1]
  BY HeadTailProperties, LenProperties, EmptySeq
<1>2. DOMAIN s = 1 .. Len(s) /\ DOMAIN Tail(s) = 1 .. Len(s) - 1
  BY <1>1, LenProperties
<1>3. Rising(Tail(s))
  BY <1>1, <1>2 DEF Rising
<1>4. \A i \in DOMAIN Tail(s) : Head(s) < Tail(s)[i]
  BY <1>1, <1>2 DEF Rising
<1>5. QED
  BY <1>3, <1>4 DEF Below, Elements

LEMMA RisingConcat ==
  ASSUME NEW S \in SUBSET Int, NEW s \in Seq(S), NEW t \in Seq(S),
         Rising(s), Rising(t), Below(Elements(s), Elements(t))
  PROVE  Rising(s \o t)
<1>1. /\ s \o t \in Seq(S) /\ Len(s) \in Nat /\ Len(t) \in Nat
      /\ Len(s \o t) = Len(s) + Len(t)
      /\ \A i \in 1 .. Len(s) + Len(t) :
            (s \o t)[i] = IF i <= Len(s) THEN s[i] ELSE t[i - Len(s)]
  BY ConcatProperties, LenProperties
<1>2. /\ DOMAIN s = 1 .. Len(s) /\ DOMAIN t = 1 .. Len(t)
      /\ DOMAIN (s \o t) = 1 .. Len(s) + Len(t)
  BY <1>1, LenProperties
<1>3. \A i \in DOMAIN s, j \in DOMAIN t : s[i] < t[j]
  BY DEF Below, Elements
<1>4. ASSUME NEW i \in DOMAIN (s \o t), NEW j \in DOMAIN (s \o t), i < j
      PROVE  (s \o t)[i] < (s \o t)[j]
  <2>1. CASE j <= Len(s)
    BY <1>1, <1>2, <1>4, <2>1 DEF Rising
  <2>2. CASE i <= Len(s) /\ ~(j <= Len(s))
    <3>1. i \in DOMAIN s /\ j - Len(s) \in DOMAIN t
      BY <1>1, <1>2, <2>2
    <3>2. QED
      BY <1>1, <1>2, <1>3, <2>2, <3>1
  <2>3. CASE ~(i <= Len(s))
    <3>1. i - Len(s) \in DOMAIN t /\ j - Len(s) \in DOMAIN t /\ i - Len(s) < j - Len(s)
      BY <1>1, <1>2, <1>4, <2>3
    <3>2. (s \o t)[i] = t[i - Len(s)] /\ (s \o t)[j] = t[j - Len(s)]
      BY <1>1, <1>2, <1>4, <2>3
    <3>3. QED
      BY <3>1, <3>2 DEF Rising
  <2>4. QED
    BY <1>1, <1>2, <2>1, <2>2, <2>3
<1>5. QED
  BY <1>4 DEF Rising

\* A rising sequence of chunk numbers is no longer than the grid.
LEMMA RisingLength ==
  ASSUME NEW n \in Nat, NEW s \in Seq(1 .. n), Rising(s)
  PROVE  Len(s) <= n
<1>1. Len(s) \in Nat /\ DOMAIN s = 1 .. Len(s) /\ s \in [1 .. Len(s) -> 1 .. n]
  BY LenProperties
<1>2. s \in Injection(1 .. Len(s), 1 .. n)
  <2>1. ASSUME NEW i \in 1 .. Len(s), NEW j \in 1 .. Len(s), s[i] = s[j] PROVE i = j
    <3>1. ~(i < j) /\ ~(j < i)
      BY <1>1, <2>1 DEF Rising
    <3>2. QED
      BY <1>1, <3>1
  <2>2. QED
    BY <1>1, <2>1 DEF Injection, IsInjective
<1>3. IsFiniteSet(1 .. n) /\ Cardinality(1 .. n) = n /\ Cardinality(1 .. Len(s)) = Len(s)
  <2>1. \A m \in Nat : IsFiniteSet(1 .. m) /\ Cardinality(1 .. m) = m
    <3>1. ASSUME NEW m \in Nat PROVE IsFiniteSet(1 .. m) /\ Cardinality(1 .. m) = m
      <4>1. 1 \in Int /\ m \in Int
        OBVIOUS
      <4>2. Cardinality(1 .. m) = IF 1 > m THEN 0 ELSE m - 1 + 1
        BY <4>1, FS_Interval
      <4>3. QED
        BY <4>1, <4>2, FS_Interval
    <3>2. QED
      BY <3>1
  <2>2. QED
    BY <1>1, <2>1
<1>4. Cardinality(1 .. Len(s)) <= Cardinality(1 .. n)
  BY <1>2, <1>3, FS_Injection
<1>5. QED
  BY <1>3, <1>4

(***************************************************************************)
(* The steps of the stream.                                                *)
(***************************************************************************)

\* The window is never empty, and neither the structure's batch nor the queue is
\* given more than it.
LEMMA Windows ==
  /\ BatchSize \in Nat \ {0}
  /\ Stream!Batch = BatchSize
  /\ Stream!Capacity \in Nat \ {0}
  /\ Stream!Capacity <= BatchSize
<1>1. BatchSize \in Nat \ {0}
  BY ConversionAssumption DEF BatchSize, Greatest, Least
<1>2. Stream!BudgetCapacity \in Nat \ {0}
  BY ConversionAssumption DEF Stream!BudgetCapacity, Stream!Clamp
<1> HIDE DEF BatchSize
<1>3. QED
  BY <1>1, <1>2 DEF Stream!Batch, Stream!Capacity, Stream!Clamp

StreamNext ==
  \/ Stream!ProducerSteps \/ Stream!ConsumerSteps
  \/ Stream!SinkAccepts \/ Stream!SinkRefuses \/ Stream!Finish
  \/ \E t \in Stream!Threads : Stream!SpuriousWakeup(t)
  \/ UNCHANGED streamVars

\* Whatever the conversion does, the stream takes one of its own steps.
LEMMA StreamSteps == [Next]_convVars => StreamNext
<1>1. CASE Caller
  BY <1>1 DEF Caller, RefuseSize, Begin, ReportFailure, ReportSuccess, FinishFlushes, FinishFails,
              StreamNext, Finish
<1>2. CASE ConsumerThread
  BY <1>2 DEF ConsumerThread, Sink, PushBuffers, PushFlushes, PushOutOfRange, PushFlushFails, StreamNext
<1>3. CASE SpuriousWakeup \/ Done \/ UNCHANGED convVars
  BY <1>3 DEF SpuriousWakeup, Done, convVars, StreamNext
<1>4. QED
  BY <1>1, <1>2, <1>3 DEF Next

LEMMA StreamTypeOKStep == StreamTypeOK /\ PositionInv /\ FailureInv /\ StreamNext => StreamTypeOK'
<1> SUFFICES ASSUME StreamTypeOK, PositionInv, FailureInv, StreamNext PROVE StreamTypeOK'
  OBVIOUS
<1> USE ConversionAssumption DEF StreamTypeOK, PositionInv, FailureInv, ProducerPcs, ConsumerPcs, Stream!Errors, Stream!SourceErrors, Stream!Threads, Stream!queueVars, Stream!sourceVars, Stream!sinkVars, Stream!NoChunk, P, C
<1>1. CASE Stream!BeginBatch
  BY <1>1, Windows DEF Stream!BeginBatch, Stream!Goto
<1>2. CASE Stream!SourceFails
  BY <1>2 DEF Stream!SourceFails
<1>3. CASE Stream!SkipChunk
  BY <1>3 DEF Stream!SkipChunk, Stream!Goto
<1>4. CASE Stream!VisitChunk
  BY <1>4 DEF Stream!VisitChunk, Stream!Goto
<1>5. CASE Stream!PushWait
  BY <1>5 DEF Stream!PushWait, Stream!Goto
<1>6. CASE Stream!PushRefused
  BY <1>6 DEF Stream!PushRefused, Stream!Goto
<1>7. CASE Stream!PushEnqueue
  BY <1>7 DEF Stream!PushEnqueue, Stream!Goto
<1>8. CASE Stream!PushNotify
  BY <1>8 DEF Stream!PushNotify, Stream!Woken
<1>9. CASE Stream!EndBatch
  BY <1>9 DEF Stream!EndBatch, Stream!Goto
<1>10. CASE Stream!ProducerReturns
  BY <1>10 DEF Stream!ProducerReturns, Stream!Goto
<1>11. ASSUME NEW t \in Stream!Threads, Stream!FailLocked(t) PROVE StreamTypeOK'
  BY <1>11 DEF Stream!FailLocked, Stream!Goto
<1>12. ASSUME NEW t \in Stream!Threads, Stream!FailWake(t) PROVE StreamTypeOK'
  BY <1>12 DEF Stream!FailWake, Stream!Woken
<1>13. ASSUME NEW t \in Stream!Threads, Stream!FailCancel(t) PROVE StreamTypeOK'
  BY <1>13 DEF Stream!FailCancel, Stream!Goto
<1>14. CASE Stream!CloseLocked
  BY <1>14 DEF Stream!CloseLocked, Stream!Goto
<1>15. CASE Stream!CloseWake
  BY <1>15 DEF Stream!CloseWake, Stream!Woken
<1>16. CASE Stream!ReturnError
  BY <1>16 DEF Stream!ReturnError, Stream!Joined
<1>17. CASE Stream!ConsumeWait
  BY <1>17 DEF Stream!ConsumeWait, Stream!Goto
<1>18. CASE Stream!ConsumeEnd
  BY <1>18 DEF Stream!ConsumeEnd, Stream!Goto
<1>19. CASE Stream!ConsumePop
  BY <1>19 DEF Stream!ConsumePop, Stream!Goto
<1>20. CASE Stream!ConsumeNotify
  BY <1>20 DEF Stream!ConsumeNotify, Stream!Woken
<1>21. CASE Stream!SinkAccepts
  BY <1>21 DEF Stream!SinkAccepts, Stream!Goto
<1>22. CASE Stream!SinkRefuses
  BY <1>22 DEF Stream!SinkRefuses, Stream!Goto
<1>23. CASE Stream!Finish
  BY <1>23 DEF Stream!Finish, Stream!Joined, Stream!NoErrorSeen
<1>24. ASSUME NEW t \in Stream!Threads, Stream!SpuriousWakeup(t) PROVE StreamTypeOK'
  BY <1>24 DEF Stream!SpuriousWakeup, Stream!Woken
<1>25. CASE UNCHANGED streamVars
  BY <1>25 DEF streamVars
<1>26. QED
  BY <1>1, <1>2, <1>3, <1>4, <1>5, <1>6, <1>7, <1>8, <1>9, <1>10, <1>11, <1>12, <1>13,
     <1>14, <1>15, <1>16, <1>17, <1>18, <1>19, <1>20, <1>21, <1>22, <1>23, <1>24, <1>25
  DEF StreamNext, Stream!ProducerSteps, Stream!ConsumerSteps, Stream!Fail, Stream!Threads

LEMMA PositionInvStep == StreamTypeOK /\ PositionInv /\ FailureInv /\ StreamNext => PositionInv'
<1> SUFFICES ASSUME StreamTypeOK, PositionInv, FailureInv, StreamNext PROVE PositionInv'
  OBVIOUS
<1> USE ConversionAssumption DEF StreamTypeOK, PositionInv, FailureInv, ProducerPcs, ConsumerPcs, Stream!Errors, Stream!SourceErrors, Stream!Threads, Stream!queueVars, Stream!sourceVars, Stream!sinkVars, Stream!NoChunk, P, C
<1>1. CASE Stream!BeginBatch
  BY <1>1, Windows DEF Stream!BeginBatch, Stream!Goto
<1>2. CASE Stream!SourceFails
  BY <1>2 DEF Stream!SourceFails
<1>3. CASE Stream!SkipChunk
  BY <1>3 DEF Stream!SkipChunk, Stream!Goto
<1>4. CASE Stream!VisitChunk
  BY <1>4 DEF Stream!VisitChunk, Stream!Goto
<1>5. CASE Stream!PushWait
  BY <1>5 DEF Stream!PushWait, Stream!Goto
<1>6. CASE Stream!PushRefused
  BY <1>6 DEF Stream!PushRefused, Stream!Goto
<1>7. CASE Stream!PushEnqueue
  BY <1>7 DEF Stream!PushEnqueue, Stream!Goto
<1>8. CASE Stream!PushNotify
  BY <1>8 DEF Stream!PushNotify, Stream!Woken
<1>9. CASE Stream!EndBatch
  BY <1>9 DEF Stream!EndBatch, Stream!Goto
<1>10. CASE Stream!ProducerReturns
  BY <1>10 DEF Stream!ProducerReturns, Stream!Goto
<1>11. ASSUME NEW t \in Stream!Threads, Stream!FailLocked(t) PROVE PositionInv'
  BY <1>11 DEF Stream!FailLocked, Stream!Goto
<1>12. ASSUME NEW t \in Stream!Threads, Stream!FailWake(t) PROVE PositionInv'
  BY <1>12 DEF Stream!FailWake, Stream!Woken
<1>13. ASSUME NEW t \in Stream!Threads, Stream!FailCancel(t) PROVE PositionInv'
  BY <1>13 DEF Stream!FailCancel, Stream!Goto
<1>14. CASE Stream!CloseLocked
  BY <1>14 DEF Stream!CloseLocked, Stream!Goto
<1>15. CASE Stream!CloseWake
  BY <1>15 DEF Stream!CloseWake, Stream!Woken
<1>16. CASE Stream!ReturnError
  BY <1>16 DEF Stream!ReturnError, Stream!Joined
<1>17. CASE Stream!ConsumeWait
  BY <1>17 DEF Stream!ConsumeWait, Stream!Goto
<1>18. CASE Stream!ConsumeEnd
  BY <1>18 DEF Stream!ConsumeEnd, Stream!Goto
<1>19. CASE Stream!ConsumePop
  BY <1>19 DEF Stream!ConsumePop, Stream!Goto
<1>20. CASE Stream!ConsumeNotify
  BY <1>20 DEF Stream!ConsumeNotify, Stream!Woken
<1>21. CASE Stream!SinkAccepts
  BY <1>21 DEF Stream!SinkAccepts, Stream!Goto
<1>22. CASE Stream!SinkRefuses
  BY <1>22 DEF Stream!SinkRefuses, Stream!Goto
<1>23. CASE Stream!Finish
  BY <1>23 DEF Stream!Finish, Stream!Joined, Stream!NoErrorSeen
<1>24. ASSUME NEW t \in Stream!Threads, Stream!SpuriousWakeup(t) PROVE PositionInv'
  BY <1>24 DEF Stream!SpuriousWakeup, Stream!Woken
<1>25. CASE UNCHANGED streamVars
  BY <1>25 DEF streamVars
<1>26. QED
  BY <1>1, <1>2, <1>3, <1>4, <1>5, <1>6, <1>7, <1>8, <1>9, <1>10, <1>11, <1>12, <1>13,
     <1>14, <1>15, <1>16, <1>17, <1>18, <1>19, <1>20, <1>21, <1>22, <1>23, <1>24, <1>25
  DEF StreamNext, Stream!ProducerSteps, Stream!ConsumerSteps, Stream!Fail, Stream!Threads

LEMMA FailureInvStep == StreamTypeOK /\ PositionInv /\ FailureInv /\ StreamNext => FailureInv'
<1> SUFFICES ASSUME StreamTypeOK, PositionInv, FailureInv, StreamNext PROVE FailureInv'
  OBVIOUS
<1> USE ConversionAssumption DEF StreamTypeOK, PositionInv, FailureInv, ProducerPcs, ConsumerPcs, Stream!Errors, Stream!SourceErrors, Stream!NoErrorSeen, Stream!Threads, Stream!queueVars, Stream!sourceVars, Stream!sinkVars, Stream!NoChunk, P, C
<1>1. CASE Stream!BeginBatch
  BY <1>1, Windows DEF Stream!BeginBatch, Stream!Goto
<1>2. CASE Stream!SourceFails
  BY <1>2 DEF Stream!SourceFails
<1>3. CASE Stream!SkipChunk
  BY <1>3 DEF Stream!SkipChunk, Stream!Goto
<1>4. CASE Stream!VisitChunk
  BY <1>4 DEF Stream!VisitChunk, Stream!Goto
<1>5. CASE Stream!PushWait
  BY <1>5 DEF Stream!PushWait, Stream!Goto
<1>6. CASE Stream!PushRefused
  BY <1>6 DEF Stream!PushRefused, Stream!Goto
<1>7. CASE Stream!PushEnqueue
  BY <1>7 DEF Stream!PushEnqueue, Stream!Goto
<1>8. CASE Stream!PushNotify
  BY <1>8 DEF Stream!PushNotify, Stream!Woken
<1>9. CASE Stream!EndBatch
  BY <1>9 DEF Stream!EndBatch, Stream!Goto
<1>10. CASE Stream!ProducerReturns
  BY <1>10 DEF Stream!ProducerReturns, Stream!Goto
<1>11. ASSUME NEW t \in Stream!Threads, Stream!FailLocked(t) PROVE FailureInv'
  BY <1>11 DEF Stream!FailLocked, Stream!Goto
<1>12. ASSUME NEW t \in Stream!Threads, Stream!FailWake(t) PROVE FailureInv'
  BY <1>12 DEF Stream!FailWake, Stream!Woken
<1>13. ASSUME NEW t \in Stream!Threads, Stream!FailCancel(t) PROVE FailureInv'
  BY <1>13 DEF Stream!FailCancel, Stream!Goto
<1>14. CASE Stream!CloseLocked
  BY <1>14 DEF Stream!CloseLocked, Stream!Goto
<1>15. CASE Stream!CloseWake
  BY <1>15 DEF Stream!CloseWake, Stream!Woken
<1>16. CASE Stream!ReturnError
  BY <1>16 DEF Stream!ReturnError, Stream!Joined
<1>17. CASE Stream!ConsumeWait
  BY <1>17 DEF Stream!ConsumeWait, Stream!Goto
<1>18. CASE Stream!ConsumeEnd
  BY <1>18 DEF Stream!ConsumeEnd, Stream!Goto
<1>19. CASE Stream!ConsumePop
  BY <1>19 DEF Stream!ConsumePop, Stream!Goto
<1>20. CASE Stream!ConsumeNotify
  BY <1>20 DEF Stream!ConsumeNotify, Stream!Woken
<1>21. CASE Stream!SinkAccepts
  BY <1>21 DEF Stream!SinkAccepts, Stream!Goto
<1>22. CASE Stream!SinkRefuses
  BY <1>22 DEF Stream!SinkRefuses, Stream!Goto
<1>23. CASE Stream!Finish
  BY <1>23 DEF Stream!Finish, Stream!Joined, Stream!NoErrorSeen
<1>24. ASSUME NEW t \in Stream!Threads, Stream!SpuriousWakeup(t) PROVE FailureInv'
  BY <1>24 DEF Stream!SpuriousWakeup, Stream!Woken
<1>25. CASE UNCHANGED streamVars
  BY <1>25 DEF streamVars
<1>26. QED
  BY <1>1, <1>2, <1>3, <1>4, <1>5, <1>6, <1>7, <1>8, <1>9, <1>10, <1>11, <1>12, <1>13,
     <1>14, <1>15, <1>16, <1>17, <1>18, <1>19, <1>20, <1>21, <1>22, <1>23, <1>24, <1>25
  DEF StreamNext, Stream!ProducerSteps, Stream!ConsumerSteps, Stream!Fail, Stream!Threads

LEMMA OutcomeInvStep == StreamTypeOK /\ PositionInv /\ FailureInv /\ OutcomeInv /\ StreamNext => OutcomeInv'
<1> SUFFICES ASSUME StreamTypeOK, PositionInv, FailureInv, OutcomeInv, StreamNext PROVE OutcomeInv'
  OBVIOUS
<1> USE ConversionAssumption DEF StreamTypeOK, PositionInv, FailureInv, ProducerPcs, ConsumerPcs, Stream!Errors, Stream!SourceErrors, OutcomeInv, Stream!Threads, Stream!queueVars, Stream!sourceVars, Stream!sinkVars, Stream!NoChunk, P, C
<1>1. CASE Stream!BeginBatch
  BY <1>1 DEF Stream!BeginBatch, Stream!Goto
<1>2. CASE Stream!SourceFails
  BY <1>2 DEF Stream!SourceFails
<1>3. CASE Stream!SkipChunk
  BY <1>3 DEF Stream!SkipChunk, Stream!Goto
<1>4. CASE Stream!VisitChunk
  BY <1>4 DEF Stream!VisitChunk, Stream!Goto
<1>5. CASE Stream!PushWait
  BY <1>5 DEF Stream!PushWait, Stream!Goto
<1>6. CASE Stream!PushRefused
  BY <1>6 DEF Stream!PushRefused, Stream!Goto
<1>7. CASE Stream!PushEnqueue
  BY <1>7 DEF Stream!PushEnqueue, Stream!Goto
<1>8. CASE Stream!PushNotify
  BY <1>8 DEF Stream!PushNotify, Stream!Woken
<1>9. CASE Stream!EndBatch
  BY <1>9 DEF Stream!EndBatch, Stream!Goto
<1>10. CASE Stream!ProducerReturns
  BY <1>10 DEF Stream!ProducerReturns, Stream!Goto
<1>11. ASSUME NEW t \in Stream!Threads, Stream!FailLocked(t) PROVE OutcomeInv'
  BY <1>11 DEF Stream!FailLocked, Stream!Goto
<1>12. ASSUME NEW t \in Stream!Threads, Stream!FailWake(t) PROVE OutcomeInv'
  BY <1>12 DEF Stream!FailWake, Stream!Woken
<1>13. ASSUME NEW t \in Stream!Threads, Stream!FailCancel(t) PROVE OutcomeInv'
  BY <1>13 DEF Stream!FailCancel, Stream!Goto
<1>14. CASE Stream!CloseLocked
  BY <1>14 DEF Stream!CloseLocked, Stream!Goto
<1>15. CASE Stream!CloseWake
  BY <1>15 DEF Stream!CloseWake, Stream!Woken
<1>16. CASE Stream!ReturnError
  BY <1>16 DEF Stream!ReturnError, Stream!Joined
<1>17. CASE Stream!ConsumeWait
  BY <1>17 DEF Stream!ConsumeWait, Stream!Goto
<1>18. CASE Stream!ConsumeEnd
  BY <1>18 DEF Stream!ConsumeEnd, Stream!Goto
<1>19. CASE Stream!ConsumePop
  BY <1>19 DEF Stream!ConsumePop, Stream!Goto
<1>20. CASE Stream!ConsumeNotify
  BY <1>20 DEF Stream!ConsumeNotify, Stream!Woken
<1>21. CASE Stream!SinkAccepts
  BY <1>21 DEF Stream!SinkAccepts, Stream!Goto
<1>22. CASE Stream!SinkRefuses
  BY <1>22 DEF Stream!SinkRefuses, Stream!Goto
<1>23. CASE Stream!Finish
  BY <1>23 DEF Stream!Finish, Stream!Joined, Stream!NoErrorSeen
<1>24. ASSUME NEW t \in Stream!Threads, Stream!SpuriousWakeup(t) PROVE OutcomeInv'
  BY <1>24 DEF Stream!SpuriousWakeup, Stream!Woken
<1>25. CASE UNCHANGED streamVars
  BY <1>25 DEF streamVars
<1>26. QED
  BY <1>1, <1>2, <1>3, <1>4, <1>5, <1>6, <1>7, <1>8, <1>9, <1>10, <1>11, <1>12, <1>13,
     <1>14, <1>15, <1>16, <1>17, <1>18, <1>19, <1>20, <1>21, <1>22, <1>23, <1>24, <1>25
  DEF StreamNext, Stream!ProducerSteps, Stream!ConsumerSteps, Stream!Fail, Stream!Threads

LEMMA FlowInvStep == StreamTypeOK /\ PositionInv /\ FailureInv /\ FlowInv /\ StreamNext => FlowInv'
<1> SUFFICES ASSUME StreamTypeOK, PositionInv, FailureInv, FlowInv, StreamNext PROVE FlowInv'
  OBVIOUS
<1> USE ConversionAssumption DEF StreamTypeOK, PositionInv, FailureInv, ProducerPcs, ConsumerPcs, Stream!Errors, Stream!SourceErrors, FlowInv, Hand, Sent, Below, Stream!Threads, Stream!queueVars, Stream!sourceVars, Stream!sinkVars, Stream!NoChunk, P, C
<1>1. CASE Stream!BeginBatch
  BY <1>1 DEF Stream!BeginBatch, Stream!Goto
<1>2. CASE Stream!SourceFails
  BY <1>2 DEF Stream!SourceFails
<1>3. CASE Stream!SkipChunk
  <2>1. Sent' = Sent
    <3>1. next' = next + 1 /\ next \notin Yields /\ P = "visit" /\ P' = "visit"
      BY <1>3 DEF Stream!SkipChunk, Stream!Goto
    <3>2. next \in Nat /\ \A y \in Yields : y \in Nat /\ (y < next + 1 <=> y < next)
      BY <3>1
    <3>3. Sent = {y \in Yields : y < next}
      BY <3>1
    <3>4. Sent' = {y \in Yields : y < next}
      BY <3>1, <3>2
    <3>5. QED
      BY <3>3, <3>4
  <2>2. QED
    BY <1>3, <2>1 DEF Stream!SkipChunk
<1>4. CASE Stream!VisitChunk
  BY <1>4 DEF Stream!VisitChunk, Stream!Goto
<1>5. CASE Stream!PushWait
  BY <1>5 DEF Stream!PushWait, Stream!Goto
<1>6. CASE Stream!PushRefused
  BY <1>6 DEF Stream!PushRefused, Stream!Goto
<1>7. CASE Stream!PushEnqueue
  <2>1. mQueue' = Append(mQueue, next) /\ next \in Yields /\ mError = "none" /\ ~mClosed
        /\ P = "push" /\ P' = "pushed"
    BY <1>7 DEF Stream!PushEnqueue, Stream!Goto
  <2>2. UNCHANGED <<next, mClosed, mError, inHand, verdict, delivered>>
    BY <1>7 DEF Stream!PushEnqueue
  <2>3. Elements(mQueue') = Elements(mQueue) \cup {next}
    BY <2>1, AppendElements
  <2>4. Below(Sent, {next})
    BY <2>1
  <2>5. Rising(mQueue')
    BY <2>1, <2>4, RisingAppend
  <2>6. Sent' = Sent \cup {next}
    BY <2>1, <2>2
  <2>7. CASE verdict["consumer"] = "ok"
    <3>1. Sent = Elements(delivered) \cup Hand \cup Elements(mQueue)
      BY <2>1, <2>7
    <3>2. QED
      BY <2>1, <2>2, <2>3, <2>4, <2>5, <2>6, <3>1
  <2>8. CASE verdict["consumer"] # "ok"
    BY <2>1, <2>2, <2>3, <2>4, <2>5, <2>6, <2>8
  <2>9. QED
    BY <2>7, <2>8
<1>8. CASE Stream!PushNotify
  <2>1. Sent' = Sent
    <3>1. next' = next + 1 /\ P = "pushed" /\ P' = "visit"
      BY <1>8 DEF Stream!PushNotify
    <3>2. next \in Nat /\ \A y \in Yields : y \in Nat /\ (y < next + 1 <=> y < next \/ y = next)
      OBVIOUS
    <3>3. QED
      BY <3>1, <3>2
  <2>2. QED
    BY <1>8, <2>1 DEF Stream!PushNotify
<1>9. CASE Stream!EndBatch
  BY <1>9 DEF Stream!EndBatch, Stream!Goto
<1>10. CASE Stream!ProducerReturns
  BY <1>10 DEF Stream!ProducerReturns, Stream!Goto
<1>11. ASSUME NEW t \in Stream!Threads, Stream!FailLocked(t) PROVE FlowInv'
  <2>1. Sent' = Sent /\ Hand' = Hand
    BY <1>11 DEF Stream!FailLocked, Stream!Goto
  <2>2. Elements(mQueue') = {} /\ Rising(mQueue') /\ mError' # "none"
    BY <1>11, EmptySeq DEF Stream!FailLocked, Stream!Goto, Elements, Rising
  <2>3. QED
    BY <1>11, <2>1, <2>2 DEF Stream!FailLocked
<1>12. ASSUME NEW t \in Stream!Threads, Stream!FailWake(t) PROVE FlowInv'
  BY <1>12 DEF Stream!FailWake, Stream!Woken
<1>13. ASSUME NEW t \in Stream!Threads, Stream!FailCancel(t) PROVE FlowInv'
  BY <1>13 DEF Stream!FailCancel, Stream!Goto
<1>14. CASE Stream!CloseLocked
  BY <1>14 DEF Stream!CloseLocked, Stream!Goto
<1>15. CASE Stream!CloseWake
  BY <1>15 DEF Stream!CloseWake, Stream!Woken
<1>16. CASE Stream!ReturnError
  BY <1>16 DEF Stream!ReturnError, Stream!Joined
<1>17. CASE Stream!ConsumeWait
  BY <1>17 DEF Stream!ConsumeWait, Stream!Goto
<1>18. CASE Stream!ConsumeEnd
  BY <1>18 DEF Stream!ConsumeEnd, Stream!Goto
<1>19. CASE Stream!ConsumePop
  <2>1. mQueue # <<>> /\ inHand' = Head(mQueue) /\ mQueue' = Tail(mQueue) /\ inHand = 0
        /\ mError = "none" /\ verdict["consumer"] = "ok" /\ P' = P
    BY <1>19 DEF Stream!ConsumePop, Stream!Goto
  <2>2. UNCHANGED <<next, mClosed, mError, verdict, delivered>>
    BY <1>19 DEF Stream!ConsumePop
  <2>3. Head(mQueue) \in Yields /\ Elements(mQueue) = {inHand'} \cup Elements(mQueue')
    BY <2>1, HeadTailElements, HeadTailProperties
  <2>4. Rising(mQueue') /\ Below({inHand'}, Elements(mQueue'))
    BY <2>1, RisingTail
  <2>5. Hand = {} /\ Hand' = {inHand'} /\ Sent' = Sent
    BY <2>1, <2>2, <2>3
  <2>6. \A y \in Yields : y < inHand' => y \in Elements(delivered)
    <3>1. Sent = Elements(delivered) \cup {inHand'} \cup Elements(mQueue')
      BY <2>1, <2>3, <2>5
    <3>2. ASSUME NEW y \in Yields, y < inHand' PROVE y \in Sent /\ y \notin Elements(mQueue')
      <4>1. inHand' \in Sent /\ inHand' <= next
        <5>1. inHand' \in Sent /\ inHand' \in Yields
          BY <2>3, <3>1
        <5>2. QED
          BY <5>1
      <4>2. QED
        BY <2>3, <2>4, <3>2, <4>1
    <3>3. QED
      BY <3>1, <3>2
  <2>7. QED
    BY <2>1, <2>2, <2>3, <2>4, <2>5, <2>6
<1>20. CASE Stream!ConsumeNotify
  BY <1>20 DEF Stream!ConsumeNotify, Stream!Woken
<1>21. CASE Stream!SinkAccepts
  <2>1. delivered' = Append(delivered, inHand) /\ inHand \in Yields /\ inHand # 0 /\ inHand' = 0 /\ P' = P
    BY <1>21 DEF Stream!SinkAccepts, Stream!Goto
  <2>2. UNCHANGED <<next, mQueue, mClosed, mError, verdict>>
    BY <1>21 DEF Stream!SinkAccepts
  <2>3. Elements(delivered') = Elements(delivered) \cup {inHand}
    BY <2>1, AppendElements
  <2>4. Rising(delivered')
    BY <2>1, RisingAppend
  <2>5. Hand = {inHand} /\ Hand' = {} /\ Sent' = Sent
    BY <2>1, <2>2
  <2>6. QED
    BY <2>1, <2>2, <2>3, <2>4, <2>5
<1>22. CASE Stream!SinkRefuses
  BY <1>22 DEF Stream!SinkRefuses, Stream!Goto
<1>23. CASE Stream!Finish
  BY <1>23 DEF Stream!Finish, Stream!Joined, Stream!NoErrorSeen
<1>24. ASSUME NEW t \in Stream!Threads, Stream!SpuriousWakeup(t) PROVE FlowInv'
  BY <1>24 DEF Stream!SpuriousWakeup, Stream!Woken
<1>25. CASE UNCHANGED streamVars
  BY <1>25 DEF streamVars
<1>26. QED
  BY <1>1, <1>2, <1>3, <1>4, <1>5, <1>6, <1>7, <1>8, <1>9, <1>10, <1>11, <1>12, <1>13,
     <1>14, <1>15, <1>16, <1>17, <1>18, <1>19, <1>20, <1>21, <1>22, <1>23, <1>24, <1>25
  DEF StreamNext, Stream!ProducerSteps, Stream!ConsumerSteps, Stream!Fail, Stream!Threads

LEMMA WindowInvStep == StreamTypeOK /\ WindowInv /\ StreamNext => WindowInv'
<1> SUFFICES ASSUME StreamTypeOK, WindowInv, StreamNext PROVE WindowInv'
  OBVIOUS
<1> USE ConversionAssumption, Windows DEF StreamTypeOK, WindowInv, Stream!Threads, Stream!queueVars, Stream!sourceVars, Stream!sinkVars, Stream!NoChunk, P, C
<1>1. CASE Stream!BeginBatch
  <2>1. held' = next .. batchEnd' /\ batchEnd' \in Nat /\ batchEnd' - next + 1 <= BatchSize /\ next \in Nat
    BY <1>1 DEF Stream!BeginBatch
  <2>2. Cardinality(held') = IF next > batchEnd' THEN 0 ELSE batchEnd' - next + 1
    <3>1. next \in Int /\ batchEnd' \in Int
      BY <2>1
    <3>2. QED
      <4>1. \A a, b \in Int : Cardinality(a .. b) = IF a > b THEN 0 ELSE b - a + 1
        BY FS_Interval
      <4>2. QED
        BY <2>1, <3>1, <4>1
  <2>3. QED
    BY <1>1, <2>1, <2>2 DEF Stream!BeginBatch
<1>2. CASE Stream!SourceFails
  BY <1>2, FS_EmptySet DEF Stream!SourceFails
<1>3. CASE Stream!SkipChunk
  BY <1>3 DEF Stream!SkipChunk, Stream!Goto
<1>4. CASE Stream!VisitChunk
  BY <1>4 DEF Stream!VisitChunk, Stream!Goto
<1>5. CASE Stream!PushWait
  BY <1>5 DEF Stream!PushWait, Stream!Goto
<1>6. CASE Stream!PushRefused
  BY <1>6, FS_EmptySet DEF Stream!PushRefused
<1>7. CASE Stream!PushEnqueue
  <2>1. Len(mQueue') = Len(mQueue) + 1 /\ Len(mQueue) < Stream!Capacity /\ Len(mQueue) \in Nat
    BY <1>7, AppendProperties, LenProperties DEF Stream!PushEnqueue, Stream!Goto
  <2>2. QED
    BY <1>7, <2>1 DEF Stream!PushEnqueue
<1>8. CASE Stream!PushNotify
  BY <1>8 DEF Stream!PushNotify, Stream!Woken
<1>9. CASE Stream!EndBatch
  BY <1>9, FS_EmptySet DEF Stream!EndBatch
<1>10. CASE Stream!ProducerReturns
  BY <1>10 DEF Stream!ProducerReturns, Stream!Goto
<1>11. ASSUME NEW t \in Stream!Threads, Stream!FailLocked(t) PROVE WindowInv'
  BY <1>11, EmptySeq, FS_EmptySet DEF Stream!FailLocked
<1>12. ASSUME NEW t \in Stream!Threads, Stream!FailWake(t) PROVE WindowInv'
  BY <1>12 DEF Stream!FailWake, Stream!Woken
<1>13. ASSUME NEW t \in Stream!Threads, Stream!FailCancel(t) PROVE WindowInv'
  BY <1>13 DEF Stream!FailCancel, Stream!Goto
<1>14. CASE Stream!CloseLocked
  BY <1>14 DEF Stream!CloseLocked, Stream!Goto
<1>15. CASE Stream!CloseWake
  BY <1>15 DEF Stream!CloseWake, Stream!Woken
<1>16. CASE Stream!ReturnError
  BY <1>16 DEF Stream!ReturnError, Stream!Joined
<1>17. CASE Stream!ConsumeWait
  BY <1>17 DEF Stream!ConsumeWait, Stream!Goto
<1>18. CASE Stream!ConsumeEnd
  BY <1>18 DEF Stream!ConsumeEnd, Stream!Goto
<1>19. CASE Stream!ConsumePop
  <2>1. Len(mQueue') <= Len(mQueue) /\ Len(mQueue') \in Nat /\ Len(mQueue) \in Nat
    BY <1>19, HeadTailProperties, LenProperties DEF Stream!ConsumePop
  <2>2. QED
    BY <1>19, <2>1 DEF Stream!ConsumePop
<1>20. CASE Stream!ConsumeNotify
  BY <1>20 DEF Stream!ConsumeNotify, Stream!Woken
<1>21. CASE Stream!SinkAccepts
  BY <1>21 DEF Stream!SinkAccepts, Stream!Goto
<1>22. CASE Stream!SinkRefuses
  BY <1>22 DEF Stream!SinkRefuses, Stream!Goto
<1>23. CASE Stream!Finish
  BY <1>23 DEF Stream!Finish, Stream!Joined, Stream!NoErrorSeen
<1>24. ASSUME NEW t \in Stream!Threads, Stream!SpuriousWakeup(t) PROVE WindowInv'
  BY <1>24 DEF Stream!SpuriousWakeup, Stream!Woken
<1>25. CASE UNCHANGED streamVars
  BY <1>25 DEF streamVars
<1>26. QED
  BY <1>1, <1>2, <1>3, <1>4, <1>5, <1>6, <1>7, <1>8, <1>9, <1>10, <1>11, <1>12, <1>13,
     <1>14, <1>15, <1>16, <1>17, <1>18, <1>19, <1>20, <1>21, <1>22, <1>23, <1>24, <1>25
  DEF StreamNext, Stream!ProducerSteps, Stream!ConsumerSteps, Stream!Fail, Stream!Threads

(***************************************************************************)
(* The steps of the sink.                                                  *)
(***************************************************************************)

StreamInv == StreamTypeOK /\ PositionInv /\ FailureInv /\ OutcomeInv /\ FlowInv /\ WindowInv

\* A step of the stream that does not involve the sink delivers nothing, and the
\* only outcome it can set is an error.
LEMMA QuietStep ==
  ASSUME StreamTypeOK, PositionInv, FailureInv,
         \/ Stream!ProducerSteps \/ Stream!ConsumerSteps
         \/ \E t \in Stream!Threads : Stream!SpuriousWakeup(t)
  PROVE  /\ UNCHANGED delivered
         /\ UNCHANGED outcome \/ (outcome = "running" /\ outcome' \notin {"running", "success"})
         /\ verdict'["consumer"] = "ok" => verdict["consumer"] = "ok"
<1> USE DEF Stream!sinkVars, StreamTypeOK, Stream!Threads
<1>1. CASE \E t \in Stream!Threads : Stream!Fail(t)
  BY <1>1 DEF Stream!Fail, Stream!FailLocked, Stream!FailWake, Stream!FailCancel
<1>2. CASE Stream!ReturnError
  BY <1>2 DEF Stream!ReturnError, Stream!Joined, Stream!Errors, Stream!SourceErrors, PositionInv, P, C
<1>3. CASE \/ Stream!BeginBatch \/ Stream!SkipChunk \/ Stream!VisitChunk \/ Stream!PushWait
           \/ Stream!PushEnqueue \/ Stream!PushNotify \/ Stream!EndBatch
           \/ Stream!ProducerReturns \/ Stream!CloseLocked \/ Stream!CloseWake
           \/ Stream!ConsumeWait \/ Stream!ConsumePop \/ Stream!ConsumeNotify
           \/ \E t \in Stream!Threads : Stream!SpuriousWakeup(t)
  BY <1>3 DEF Stream!BeginBatch, Stream!SkipChunk, Stream!VisitChunk, Stream!PushWait,
              Stream!PushEnqueue, Stream!PushNotify, Stream!EndBatch, Stream!ProducerReturns,
              Stream!CloseLocked, Stream!CloseWake, Stream!ConsumeWait, Stream!ConsumePop,
              Stream!ConsumeNotify, Stream!SpuriousWakeup
<1>4. CASE Stream!SourceFails \/ Stream!PushRefused
  BY <1>4 DEF Stream!SourceFails, Stream!PushRefused
<1>5. CASE Stream!ConsumeEnd
  BY <1>5 DEF Stream!ConsumeEnd, Stream!Goto, PositionInv, C
<1>6. QED
  BY <1>1, <1>2, <1>3, <1>4, <1>5 DEF Stream!ProducerSteps, Stream!ConsumerSteps

\* What push() finds: an intact sink with room for the chunk in hand, which is
\* larger than everything saved and batched.
LEMMA AtPush ==
  ASSUME StreamInv, SinkTypeOK, SinkInv, C = "pushing"
  PROVE  /\ Intact /\ outcome = "running" /\ inHand \in Yields
         /\ Batched \in Seq(Yields) /\ Len(Batched) = Len(mChunks) + 1
         /\ Elements(Batched) = Elements(mChunks) \cup {inHand}
         /\ Rising(Batched) /\ Below(Elements(saved), Elements(Batched))
         /\ Len(delivered) + 1 <= N
<1>1. /\ verdict["consumer"] = "ok" /\ P # "returned" /\ outcome = "running"
      /\ inHand \in Yields /\ inHand # 0
  BY DEF StreamInv, PositionInv, StreamTypeOK
<1>2. Intact
  BY <1>1 DEF Intact
<1>3. Below(Elements(delivered), {inHand})
  BY <1>1 DEF StreamInv, FlowInv, Below, Hand
<1>4. Yields \in SUBSET Int
  BY ConversionAssumption
<1>5. /\ Elements(delivered) = Elements(saved) \cup Elements(mChunks)
      /\ Rising(mChunks) /\ Below(Elements(saved), Elements(mChunks))
  BY <1>2 DEF SinkInv
<1>6. Rising(Append(delivered, inHand)) /\ Append(delivered, inHand) \in Seq(1 .. N)
  <2>1. Rising(Append(delivered, inHand))
    BY <1>1, <1>3, <1>4, RisingAppend DEF StreamInv, FlowInv, StreamTypeOK
  <2>2. delivered \in Seq(1 .. N) /\ inHand \in 1 .. N
    <3>1. Yields \subseteq 1 .. N
      BY ConversionAssumption
    <3>2. delivered \in Seq(Yields)
      BY DEF StreamInv, StreamTypeOK
    <3>3. QED
      BY <1>1, <3>1, <3>2, WidenSeq
  <2>3. QED
    BY <2>1, <2>2, AppendProperties
<1>7. Len(delivered) + 1 <= N
  <2>1. Len(Append(delivered, inHand)) <= N
    BY <1>6, ConversionAssumption, RisingLength
  <2>2. Len(Append(delivered, inHand)) = Len(delivered) + 1
    BY <1>1, AppendProperties DEF StreamInv, StreamTypeOK
  <2>3. QED
    BY <2>1, <2>2
<1>8. Batched \in Seq(Yields) /\ Len(Batched) = Len(mChunks) + 1
  BY <1>1, AppendProperties DEF Batched, SinkTypeOK
<1>9. Elements(Batched) = Elements(mChunks) \cup {inHand}
  BY <1>1, AppendElements DEF Batched, SinkTypeOK
<1>10. Below(Elements(mChunks), {inHand}) /\ Below(Elements(saved), {inHand})
  BY <1>3, <1>5 DEF Below
<1>11. Rising(Batched)
  BY <1>1, <1>4, <1>5, <1>10, RisingAppend DEF Batched, SinkTypeOK
<1>12. Below(Elements(saved), Elements(Batched))
  BY <1>5, <1>9, <1>10 DEF Below
<1>13. QED
  BY <1>1, <1>2, <1>7, <1>8, <1>9, <1>11, <1>12

\* A write batch behind what is already in the world.
LEMMA WriteBatch ==
  ASSUME SinkTypeOK, Rising(saved), NEW batch \in Seq(Yields), Rising(batch),
         Below(Elements(saved), Elements(batch)), saved' = saved \o batch
  PROVE  /\ saved' \in Seq(Yields) /\ Rising(saved')
         /\ Elements(saved') = Elements(saved) \cup Elements(batch)
         /\ Len(saved') = Len(saved) + Len(batch)
         /\ \A i \in 1 .. Len(saved) : saved'[i] = saved[i]
<1>1. Yields \in SUBSET Int
  BY ConversionAssumption
<1>2. Rising(saved \o batch)
  BY <1>1, RisingConcat DEF SinkTypeOK
<1>3. Elements(saved \o batch) = Elements(saved) \cup Elements(batch)
  BY ConcatElements DEF SinkTypeOK
<1>4. /\ saved \o batch \in Seq(Yields) /\ Len(saved \o batch) = Len(saved) + Len(batch)
      /\ \A i \in 1 .. Len(saved) : (saved \o batch)[i] = saved[i]
  <2>1. saved \in Seq(Yields) /\ Len(saved) \in Nat /\ Len(batch) \in Nat
    BY LenProperties DEF SinkTypeOK
  <2>2. QED
    BY <2>1, ConcatProperties
<1>5. QED
  BY <1>2, <1>3, <1>4

\* The chunks of a batch that have block entities.
LEMMA BatchNbt ==
  ASSUME NEW batch
  PROVE  {batch[i] : i \in {j \in DOMAIN batch : batch[j] \in HasNbt}} = Elements(batch) \cap HasNbt
  BY DEF Elements

\* A flush that succeeds leaves an intact sink with an empty batch.
LEMMA FlushedSink ==
  ASSUME SinkTypeOK, Rising(saved), NEW batch \in Seq(Yields), Rising(batch),
         Below(Elements(saved), Elements(batch)), FlushSucceeds(batch),
         progress = Len(saved), completed = Len(saved), savedNbt = Elements(saved) \cap HasNbt
  PROVE  /\ Rising(saved')
         /\ Elements(saved') = Elements(saved) \cup Elements(batch)
         /\ Len(saved') = Len(saved) + Len(batch)
         /\ savedNbt' = Elements(saved') \cap HasNbt
         /\ mChunks' = <<>> /\ Elements(mChunks') = {} /\ Rising(mChunks') /\ Len(mChunks') = 0
         /\ progress' = Len(saved') /\ completed' = Len(saved')
         /\ \A i \in 1 .. progress' : saved'[i] \in HasNbt => saved'[i] \in savedNbt'
<1>1. /\ saved' \in Seq(Yields) /\ Rising(saved')
      /\ Elements(saved') = Elements(saved) \cup Elements(batch)
      /\ Len(saved') = Len(saved) + Len(batch)
  BY WriteBatch DEF FlushSucceeds
<1>2. savedNbt' = savedNbt \cup (Elements(batch) \cap HasNbt)
  BY BatchNbt DEF FlushSucceeds
<1>3. mChunks' = <<>> /\ Elements(mChunks') = {} /\ Rising(mChunks') /\ Len(mChunks') = 0
  BY EmptySeq DEF FlushSucceeds, Elements, Rising
<1>4. progress' = Len(saved') /\ completed' = Len(saved')
  BY <1>1 DEF FlushSucceeds
<1>5. savedNbt' = Elements(saved') \cap HasNbt
  BY <1>1, <1>2
<1>6. \A i \in 1 .. Len(saved') : saved'[i] \in Elements(saved')
  BY <1>1, LenProperties DEF Elements
<1>7. QED
  BY <1>1, <1>3, <1>4, <1>5, <1>6

\* A flush that fails may leave the whole batch in the world, but no progress.
LEMMA HalfFlushedSink ==
  ASSUME SinkTypeOK, Rising(saved), NEW batch \in Seq(Yields), batch # <<>>, Rising(batch),
         Below(Elements(saved), Elements(batch)), FlushFails(batch), progress <= Len(saved),
         \A i \in 1 .. progress : saved[i] \in HasNbt => saved[i] \in savedNbt
  PROVE  /\ saved' \in Seq(Yields) /\ Rising(saved') /\ savedNbt' \subseteq HasNbt
         /\ errorChunk' \in Yields
         /\ progress' <= Len(saved')
         /\ \A i \in 1 .. progress' : saved'[i] \in HasNbt => saved'[i] \in savedNbt'
<1>1. CASE errorChunk' = Head(batch) /\ UNCHANGED <<saved, savedNbt>>
  BY <1>1, HeadTailProperties DEF FlushFails, SinkTypeOK
<1>2. ASSUME NEW k \in DOMAIN batch, batch[k] \in HasNbt, errorChunk' = batch[k], saved' = saved \o batch,
             savedNbt' = savedNbt \cup {batch[i] : i \in {j \in 1 .. k - 1 : batch[j] \in HasNbt}}
      PROVE  /\ saved' \in Seq(Yields) /\ Rising(saved') /\ savedNbt' \subseteq HasNbt
             /\ errorChunk' \in Yields
             /\ progress' <= Len(saved')
             /\ \A i \in 1 .. progress' : saved'[i] \in HasNbt => saved'[i] \in savedNbt'
  <2>1. /\ saved' \in Seq(Yields) /\ Rising(saved')
        /\ Len(saved') = Len(saved) + Len(batch)
        /\ \A i \in 1 .. Len(saved) : saved'[i] = saved[i]
    BY <1>2, WriteBatch
  <2>2. progress' = progress /\ progress \in Nat /\ Len(saved) \in Nat /\ Len(batch) \in Nat
    BY LenProperties DEF FlushFails, SinkTypeOK
  <2>3. errorChunk' \in Yields /\ savedNbt' \subseteq HasNbt /\ savedNbt \subseteq savedNbt'
    BY <1>2, ConversionAssumption DEF SinkTypeOK
  <2>4. QED
    BY <2>1, <2>2, <2>3
<1>3. QED
  BY <1>1, <1>2 DEF FlushFails

LEMMA SinkTypeOKStep == StreamInv /\ SinkTypeOK /\ SinkInv /\ [Next]_convVars => SinkTypeOK'
<1> SUFFICES ASSUME StreamInv, SinkTypeOK, SinkInv, [Next]_convVars PROVE SinkTypeOK'
  OBVIOUS
<1> USE ConversionAssumption DEF sinkState, reportVars
<1>1. CASE RefuseSize
  BY <1>1 DEF RefuseSize, Finish, SinkTypeOK, PhaseNames, StageNames
<1>2. CASE Begin
  BY <1>2 DEF Begin, SinkTypeOK, PhaseNames, StageNames
<1>3. CASE ReportFailure
  BY <1>3 DEF ReportFailure, Finish, SinkTypeOK, PhaseNames, StageNames
<1>4. CASE ReportSuccess
  <2>1. progress' \in Nat
    <3>1. progress \in Nat /\ mReceived \in Nat /\ N \in Nat
      BY DEF SinkTypeOK
    <3>2. progress' = progress + (IF N > mReceived THEN N - mReceived ELSE 0)
      BY <1>4 DEF ReportSuccess
    <3>3. QED
      BY <3>1, <3>2
  <2>2. QED
    BY <1>4, <2>1 DEF ReportSuccess, Finish, SinkTypeOK, PhaseNames, StageNames
<1>5. CASE phase = "pumping" /\ Stream!ProducerSteps /\ UNCHANGED <<sinkState, reportVars>>
  BY <1>5 DEF SinkTypeOK, PhaseNames, StageNames
<1>6. CASE phase = "pumping" /\ FinishFlushes
  <2>1. saved' \in Seq(Yields) /\ mChunks' \in Seq(Yields)
    BY <1>6, ConcatProperties, EmptySeq DEF FinishFlushes, FlushSucceeds, SinkTypeOK, PhaseNames, StageNames
  <2>2. savedNbt' \subseteq HasNbt
    BY <1>6, BatchNbt DEF FinishFlushes, FlushSucceeds, SinkTypeOK, PhaseNames, StageNames
  <2>3. completed' \in Nat /\ progress' \in Nat
    <3>1. Len(mChunks) \in Nat /\ completed \in Nat /\ progress \in Nat
      BY LenProperties DEF SinkTypeOK
    <3>2. completed' = completed + Len(mChunks) /\ progress' = progress + Len(mChunks)
      BY <1>6 DEF FinishFlushes, FlushSucceeds
    <3>3. QED
      BY <3>1, <3>2
  <2>4. QED
    BY <1>6, <2>1, <2>2, <2>3 DEF FinishFlushes, FlushSucceeds, SinkTypeOK, PhaseNames, StageNames
<1>7. CASE phase = "pumping" /\ FinishFails
  <2>1. Intact /\ Rising(mChunks) /\ Below(Elements(saved), Elements(mChunks)) /\ Rising(saved)
        /\ progress <= Len(saved) /\ \A i \in 1 .. progress : saved[i] \in HasNbt => saved[i] \in savedNbt
    BY <1>7 DEF FinishFails, Stream!Finish, Stream!NoErrorSeen, Stream!Joined, Intact, SinkInv, StreamInv, PositionInv, StreamTypeOK, P, SinkTypeOK, PhaseNames, StageNames
  <2>2. saved' \in Seq(Yields) /\ savedNbt' \subseteq HasNbt /\ errorChunk' \in Yields
    BY <1>7, <2>1, HalfFlushedSink DEF FinishFails, SinkTypeOK, PhaseNames, StageNames
  <2>3. QED
    BY <1>7, <2>2 DEF FinishFails, FlushFails, SinkTypeOK, PhaseNames, StageNames
<1>8. CASE phase = "pumping" /\ PushBuffers
  <2>1. Batched \in Seq(Yields)
    BY <1>8, AtPush DEF PushBuffers, Stream!SinkAccepts, Stream!Goto, C
  <2>2. QED
    <3>1. mChunks' = Batched /\ mReceived' = mReceived + 1
          /\ UNCHANGED <<saved, savedNbt, completed, progress, errorChunk, reportVars>>
      BY <1>8 DEF PushBuffers
    <3>2. mReceived + 1 \in Nat
      BY DEF SinkTypeOK
    <3> HIDE DEF Batched
    <3>3. QED
      BY <2>1, <3>1, <3>2 DEF SinkTypeOK
<1>9. CASE phase = "pumping" /\ PushFlushes
  <2>1. Batched \in Seq(Yields)
    BY <1>9, AtPush DEF PushFlushes, Stream!SinkAccepts, Stream!Goto, C
  <2>2. saved' \in Seq(Yields) /\ mChunks' \in Seq(Yields)
    BY <1>9, <2>1, ConcatProperties, EmptySeq DEF PushFlushes, FlushSucceeds, SinkTypeOK, PhaseNames, StageNames
  <2>3. savedNbt' \subseteq HasNbt
    BY <1>9, BatchNbt DEF PushFlushes, FlushSucceeds, SinkTypeOK, PhaseNames, StageNames
  <2>4. completed' \in Nat /\ progress' \in Nat
    <3>1. Len(Batched) \in Nat /\ completed \in Nat /\ progress \in Nat
      BY <2>1, LenProperties DEF SinkTypeOK
    <3>2. completed' = completed + Len(Batched) /\ progress' = progress + Len(Batched)
      BY <1>9 DEF PushFlushes, FlushSucceeds
    <3>3. QED
      BY <3>1, <3>2
  <2>5. QED
    <3>1. mReceived' = mReceived + 1 /\ UNCHANGED <<errorChunk, reportVars>>
      BY <1>9 DEF PushFlushes, FlushSucceeds
    <3>2. mReceived + 1 \in Nat
      BY DEF SinkTypeOK
    <3>3. QED
      BY <2>2, <2>3, <2>4, <3>1, <3>2 DEF SinkTypeOK
<1>10. CASE phase = "pumping" /\ PushOutOfRange
  <2>1. inHand \in Yields
    BY <1>10, AtPush DEF PushOutOfRange, Stream!SinkRefuses, Stream!Goto, C
  <2>2. QED
    BY <1>10, <2>1 DEF PushOutOfRange, SinkTypeOK, PhaseNames, StageNames
<1>11. CASE phase = "pumping" /\ PushFlushFails
  <2>1. /\ Batched \in Seq(Yields) /\ Batched # <<>> /\ Rising(Batched) /\ Rising(saved)
        /\ Below(Elements(saved), Elements(Batched)) /\ progress <= Len(saved)
        /\ \A i \in 1 .. progress : saved[i] \in HasNbt => saved[i] \in savedNbt
    <3>1. C = "pushing"
      BY <1>11 DEF PushFlushFails, Stream!SinkRefuses, Stream!Goto, C
    <3>2. Batched # <<>>
      <4>1. Len(Batched) = Len(mChunks) + 1 /\ Len(mChunks) \in Nat
        BY <3>1, AtPush, LenProperties DEF SinkTypeOK
      <4>2. QED
        BY <4>1, EmptySeq
    <3>3. result # "success"
      BY <3>1, AtPush DEF SinkInv
    <3>4. QED
      BY <3>1, <3>2, <3>3, AtPush DEF SinkInv
  <2>2. saved' \in Seq(Yields) /\ savedNbt' \subseteq HasNbt /\ errorChunk' \in Yields
    BY <1>11, <2>1, HalfFlushedSink DEF PushFlushFails, SinkTypeOK, PhaseNames, StageNames
  <2>3. QED
    <3>1. mChunks' = Batched /\ mReceived' = mReceived + 1 /\ UNCHANGED <<completed, progress, reportVars>>
      BY <1>11 DEF PushFlushFails, FlushFails
    <3>2. mReceived + 1 \in Nat
      BY DEF SinkTypeOK
    <3>3. QED
      BY <2>1, <2>2, <3>1, <3>2 DEF SinkTypeOK
<1>12. CASE phase = "pumping" /\ Stream!ConsumerSteps /\ UNCHANGED <<sinkState, reportVars>>
  BY <1>12 DEF SinkTypeOK, PhaseNames, StageNames
<1>13. CASE SpuriousWakeup
  BY <1>13 DEF SpuriousWakeup, SinkTypeOK, PhaseNames, StageNames
<1>14. CASE UNCHANGED convVars
  BY <1>14 DEF convVars, SinkTypeOK, PhaseNames, StageNames
<1>15. QED
  BY <1>1, <1>2, <1>3, <1>4, <1>5, <1>6, <1>7, <1>8, <1>9, <1>10, <1>11, <1>12, <1>13, <1>14
  DEF Next, Caller, ConsumerThread, Sink, Done

LEMMA SinkInvStep == StreamInv /\ SinkTypeOK /\ SinkInv /\ [Next]_convVars => SinkInv'
<1> SUFFICES ASSUME StreamInv, SinkTypeOK, SinkInv, [Next]_convVars PROVE SinkInv'
  OBVIOUS
<1> USE ConversionAssumption DEF sinkState, reportVars
<1>1. CASE RefuseSize
  BY <1>1 DEF RefuseSize, Finish, SinkInv, Intact, streamVars
<1>2. CASE Begin
  BY <1>2 DEF Begin, SinkInv, Intact, streamVars
<1>3. CASE ReportFailure
  BY <1>3 DEF ReportFailure, Finish, SinkInv, Intact, streamVars
<1>4. CASE ReportSuccess
  <2>1. /\ outcome = "success" /\ phase = "pumping" /\ result = "none"
        /\ UNCHANGED <<streamVars, mChunks, mReceived, saved, savedNbt, errorChunk, tooHigh>>
        /\ completed' = N /\ phase' = "returned" /\ result' = "success"
        /\ progress' = progress + (IF N > mReceived THEN N - mReceived ELSE 0)
    BY <1>4 DEF ReportSuccess, Finish, SinkInv, SinkTypeOK
  <2>2. Intact
    BY <2>1 DEF Intact, StreamInv, OutcomeInv, FailureInv, Stream!NoErrorSeen
  <2>3. progress = mReceived /\ mReceived \in Nat /\ mReceived <= N
    <3>1. progress = Len(saved) /\ mReceived = Len(saved) + Len(mChunks) /\ mChunks = <<>>
      BY <2>1, <2>2 DEF SinkInv
    <3>2. Len(mChunks) = 0 /\ Len(saved) \in Nat
      BY <3>1, EmptySeq, LenProperties DEF SinkTypeOK
    <3>3. QED
      BY <3>1, <3>2 DEF SinkInv, SinkTypeOK
  <2>4. progress' = N
    BY <2>1, <2>3
  <2>5. QED
    BY <2>1, <2>2, <2>4 DEF SinkInv, Intact, streamVars
<1>5. CASE phase = "pumping" /\ Stream!ProducerSteps /\ UNCHANGED <<sinkState, reportVars>>
  <2>1. /\ UNCHANGED delivered
        /\ UNCHANGED outcome \/ (outcome = "running" /\ outcome' \notin {"running", "success"})
        /\ verdict'["consumer"] = "ok" => verdict["consumer"] = "ok"
    BY <1>5, QuietStep DEF StreamInv
  <2>2. Intact' => Intact /\ UNCHANGED outcome
    BY <2>1 DEF Intact
  <2>3. QED
    BY <1>5, <2>1, <2>2 DEF SinkInv
<1>6. CASE phase = "pumping" /\ FinishFlushes
  <2>1. /\ outcome = "running" /\ verdict["consumer"] = "ok" /\ Intact /\ result = "none"
    BY <1>6 DEF FinishFlushes, Stream!Finish, Stream!NoErrorSeen, Stream!Joined, Intact, SinkInv, SinkTypeOK,
             StreamInv, PositionInv, StreamTypeOK, P
  <2>2. /\ outcome' = "success" /\ UNCHANGED <<verdict, delivered, mReceived, reportVars>>
    BY <1>6 DEF FinishFlushes, Stream!Finish
  <2>3. /\ mChunks \in Seq(Yields) /\ Rising(mChunks) /\ Rising(saved)
        /\ Below(Elements(saved), Elements(mChunks))
        /\ progress = Len(saved) /\ completed = Len(saved) /\ savedNbt = Elements(saved) \cap HasNbt
    BY <1>6, <2>1 DEF SinkInv, SinkTypeOK
  <2>4. /\ Rising(saved')
        /\ Elements(saved') = Elements(saved) \cup Elements(mChunks)
        /\ Len(saved') = Len(saved) + Len(mChunks)
        /\ savedNbt' = Elements(saved') \cap HasNbt
        /\ mChunks' = <<>> /\ Elements(mChunks') = {} /\ Rising(mChunks') /\ Len(mChunks') = 0
        /\ progress' = Len(saved') /\ completed' = Len(saved')
        /\ \A i \in 1 .. progress' : saved'[i] \in HasNbt => saved'[i] \in savedNbt'
    BY <1>6, <2>3, FlushedSink DEF FinishFlushes
  <2>5. Len(saved) \in Nat /\ Len(mChunks) \in Nat
    BY LenProperties DEF SinkTypeOK
  <2>6. /\ Elements(delivered') = Elements(saved') \cup Elements(mChunks')
        /\ Below(Elements(saved'), Elements(mChunks'))
        /\ Elements(delivered') \cap tooHigh' = {}
        /\ mReceived' = Len(delivered')
        /\ Len(delivered') = Len(saved') + Len(mChunks')
        /\ BatchSize \in Nat \ {0}
    BY <1>6, <2>1, <2>2, <2>4, <2>5, Windows DEF SinkInv, Below
  <2>7. QED
    BY <1>6, <2>1, <2>2, <2>4, <2>5, <2>6 DEF SinkInv, Intact
<1>7. CASE phase = "pumping" /\ FinishFails
  <2>1. /\ outcome = "running" /\ verdict["consumer"] = "ok" /\ Intact /\ result = "none"
        /\ outcome' = "finish" /\ UNCHANGED <<verdict, delivered, mReceived, reportVars>>
    BY <1>7 DEF FinishFails, Stream!Finish, Stream!NoErrorSeen, Stream!Joined, Intact, SinkInv, SinkTypeOK,
             StreamInv, PositionInv, StreamTypeOK, P
  <2>2. /\ mChunks \in Seq(Yields) /\ Rising(mChunks) /\ Rising(saved)
        /\ Below(Elements(saved), Elements(mChunks)) /\ progress <= Len(saved)
        /\ \A i \in 1 .. progress : saved[i] \in HasNbt => saved[i] \in savedNbt
    BY <2>1 DEF SinkInv, SinkTypeOK
  <2>3. /\ Rising(saved') /\ progress' <= Len(saved')
        /\ \A i \in 1 .. progress' : saved'[i] \in HasNbt => saved'[i] \in savedNbt'
    BY <1>7, <2>2, HalfFlushedSink DEF FinishFails
  <2>4. UNCHANGED <<mChunks, completed, progress>>
    BY <1>7 DEF FinishFails, FlushFails
  <2>5. ~Intact'
    BY <2>1 DEF Intact
  <2>6. QED
    BY <1>7, <2>1, <2>3, <2>4, <2>5 DEF SinkInv
<1>8. CASE phase = "pumping" /\ PushBuffers
  <2>1. C = "pushing" /\ delivered' = Append(delivered, inHand) /\ UNCHANGED <<verdict, outcome>>
    BY <1>8 DEF PushBuffers, Stream!SinkAccepts, Stream!Goto, C
  <2>2. /\ mChunks' = Batched /\ mReceived' = mReceived + 1 /\ Len(Batched) < BatchSize
        /\ UNCHANGED <<saved, savedNbt, completed, progress, errorChunk, reportVars>> /\ inHand \notin tooHigh
    BY <1>8 DEF PushBuffers, Fits
  <2>3. /\ Intact /\ outcome = "running" /\ inHand \in Yields
        /\ Batched \in Seq(Yields) /\ Len(Batched) = Len(mChunks) + 1
        /\ Elements(Batched) = Elements(mChunks) \cup {inHand}
        /\ Rising(Batched) /\ Below(Elements(saved), Elements(Batched))
        /\ Len(delivered) + 1 <= N
    BY <2>1, AtPush
  <2>4. Elements(delivered') = Elements(delivered) \cup {inHand} /\ Len(delivered') = Len(delivered) + 1
    BY <2>1, <2>3, AppendElements, AppendProperties DEF StreamInv, StreamTypeOK
  <2>5. /\ Len(saved) \in Nat /\ Len(mChunks) \in Nat /\ Len(delivered) \in Nat /\ BatchSize \in Nat
    BY LenProperties, Windows DEF SinkTypeOK, StreamInv, StreamTypeOK
  <2>6. /\ Elements(delivered') = Elements(saved') \cup Elements(mChunks')
        /\ Rising(mChunks') /\ Below(Elements(saved'), Elements(mChunks'))
        /\ Elements(delivered') \cap tooHigh' = {}
        /\ mReceived' = Len(delivered')
        /\ Len(delivered') = Len(saved') + Len(mChunks')
        /\ savedNbt' = Elements(saved') \cap HasNbt
    BY <2>1, <2>2, <2>3, <2>4, <2>5 DEF SinkInv
  <2>7. result = "none" /\ mReceived' <= N
    BY <1>8, <2>3, <2>4, <2>6 DEF SinkInv, SinkTypeOK
  <2>8. QED
    BY <1>8, <2>1, <2>2, <2>3, <2>5, <2>6, <2>7 DEF SinkInv
<1>9. CASE phase = "pumping" /\ PushFlushes
  <2>1. C = "pushing" /\ delivered' = Append(delivered, inHand) /\ UNCHANGED <<verdict, outcome>>
    BY <1>9 DEF PushFlushes, Stream!SinkAccepts, Stream!Goto, C
  <2>2. /\ FlushSucceeds(Batched) /\ mReceived' = mReceived + 1
        /\ UNCHANGED reportVars /\ inHand \notin tooHigh
    BY <1>9 DEF PushFlushes, Fits
  <2>3. /\ Intact /\ outcome = "running" /\ inHand \in Yields
        /\ Batched \in Seq(Yields) /\ Len(Batched) = Len(mChunks) + 1
        /\ Elements(Batched) = Elements(mChunks) \cup {inHand}
        /\ Rising(Batched) /\ Below(Elements(saved), Elements(Batched))
        /\ Len(delivered) + 1 <= N
    BY <2>1, AtPush
  <2>4. Elements(delivered') = Elements(delivered) \cup {inHand} /\ Len(delivered') = Len(delivered) + 1
    BY <2>1, <2>3, AppendElements, AppendProperties DEF StreamInv, StreamTypeOK
  <2>5. /\ Len(saved) \in Nat /\ Len(mChunks) \in Nat /\ Len(delivered) \in Nat /\ BatchSize \in Nat \ {0}
    BY LenProperties, Windows DEF SinkTypeOK, StreamInv, StreamTypeOK
  <2>6. /\ Rising(saved) /\ progress = Len(saved) /\ completed = Len(saved)
        /\ savedNbt = Elements(saved) \cap HasNbt
    BY <1>9, <2>3 DEF SinkInv
  <2>7. /\ Rising(saved')
        /\ Elements(saved') = Elements(saved) \cup Elements(Batched)
        /\ Len(saved') = Len(saved) + Len(Batched)
        /\ savedNbt' = Elements(saved') \cap HasNbt
        /\ mChunks' = <<>> /\ Elements(mChunks') = {} /\ Rising(mChunks') /\ Len(mChunks') = 0
        /\ progress' = Len(saved') /\ completed' = Len(saved')
        /\ \A i \in 1 .. progress' : saved'[i] \in HasNbt => saved'[i] \in savedNbt'
    BY <2>2, <2>3, <2>6, FlushedSink
  <2>8. /\ Elements(delivered') = Elements(saved') \cup Elements(mChunks')
        /\ Below(Elements(saved'), Elements(mChunks'))
        /\ Elements(delivered') \cap tooHigh' = {}
        /\ mReceived' = Len(delivered')
        /\ Len(delivered') = Len(saved') + Len(mChunks')
    <3>1. /\ Elements(delivered) = Elements(saved) \cup Elements(mChunks)
          /\ Elements(delivered) \cap tooHigh = {}
          /\ mReceived = Len(delivered)
          /\ Len(delivered) = Len(saved) + Len(mChunks)
      BY <2>3 DEF SinkInv
    <3>2. Elements(delivered') = Elements(saved') \cup Elements(mChunks')
      BY <2>3, <2>4, <2>7, <3>1
    <3>3. Below(Elements(saved'), Elements(mChunks'))
      BY <2>7 DEF Below
    <3>4. Elements(delivered') \cap tooHigh' = {}
      BY <2>2, <2>4, <3>1
    <3>5. mReceived' = Len(delivered') /\ Len(delivered') = Len(saved') + Len(mChunks')
      BY <2>2, <2>3, <2>4, <2>5, <2>7, <3>1
    <3>6. QED
      BY <3>2, <3>3, <3>4, <3>5
  <2>9. result = "none" /\ mReceived' <= N /\ progress' <= Len(saved')
    BY <1>9, <2>3, <2>4, <2>5, <2>7, <2>8 DEF SinkInv, SinkTypeOK
  <2>10. QED
    BY <1>9, <2>1, <2>2, <2>3, <2>5, <2>7, <2>8, <2>9 DEF SinkInv
<1>10. CASE phase = "pumping" /\ PushOutOfRange
  <2>1. C = "pushing" /\ verdict'["consumer"] = "sink" /\ UNCHANGED outcome
    BY <1>10 DEF PushOutOfRange, Stream!SinkRefuses, Stream!Goto, C, StreamInv, StreamTypeOK, Stream!Threads
  <2>2. ~Intact' /\ outcome = "running"
    BY <2>1, AtPush DEF Intact
  <2>3. UNCHANGED <<mChunks, mReceived, saved, savedNbt, completed, progress, reportVars>>
    BY <1>10 DEF PushOutOfRange
  <2>4. QED
    BY <1>10, <2>1, <2>2, <2>3 DEF SinkInv
<1>11. CASE phase = "pumping" /\ PushFlushFails
  <2>1. C = "pushing" /\ verdict'["consumer"] = "sink" /\ UNCHANGED outcome
    BY <1>11 DEF PushFlushFails, Stream!SinkRefuses, Stream!Goto, C, StreamInv, StreamTypeOK, Stream!Threads
  <2>2. /\ Intact /\ outcome = "running" /\ ~Intact' /\ Batched \in Seq(Yields)
        /\ Len(Batched) = Len(mChunks) + 1 /\ Rising(Batched)
        /\ Below(Elements(saved), Elements(Batched)) /\ Len(delivered) + 1 <= N
    BY <2>1, AtPush DEF Intact
  <2>3. /\ FlushFails(Batched) /\ mReceived' = mReceived + 1 /\ UNCHANGED reportVars
    BY <1>11 DEF PushFlushFails
  <2>4. /\ Len(mChunks) \in Nat /\ BatchSize \in Nat /\ Batched # <<>>
    BY <2>2, LenProperties, EmptySeq, Windows DEF SinkTypeOK
  <2>5. /\ result = "none" /\ Len(mChunks) < BatchSize /\ mReceived = Len(delivered) /\ Rising(saved)
        /\ progress <= Len(saved) /\ completed = progress
        /\ \A i \in 1 .. progress : saved[i] \in HasNbt => saved[i] \in savedNbt
    BY <1>11, <2>2 DEF SinkInv, SinkTypeOK
  <2>6. /\ Rising(saved') /\ progress' <= Len(saved')
        /\ \A i \in 1 .. progress' : saved'[i] \in HasNbt => saved'[i] \in savedNbt'
    BY <2>2, <2>3, <2>4, <2>5, HalfFlushedSink
  <2>7. mChunks' = Batched /\ UNCHANGED <<completed, progress>>
    BY <2>3 DEF FlushFails
  <2>8. Len(mChunks') <= BatchSize /\ mReceived' <= N
    BY <2>2, <2>3, <2>4, <2>5, <2>7
  <2>9. QED
    BY <1>11, <2>1, <2>2, <2>3, <2>5, <2>6, <2>7, <2>8 DEF SinkInv
<1>12. CASE phase = "pumping" /\ Stream!ConsumerSteps /\ UNCHANGED <<sinkState, reportVars>>
  <2>1. /\ UNCHANGED delivered
        /\ UNCHANGED outcome \/ (outcome = "running" /\ outcome' \notin {"running", "success"})
        /\ verdict'["consumer"] = "ok" => verdict["consumer"] = "ok"
    BY <1>12, QuietStep DEF StreamInv
  <2>2. Intact' => Intact /\ UNCHANGED outcome
    BY <2>1 DEF Intact
  <2>3. QED
    BY <1>12, <2>1, <2>2 DEF SinkInv
<1>13. CASE SpuriousWakeup
  <2>1. /\ UNCHANGED delivered
        /\ UNCHANGED outcome \/ (outcome = "running" /\ outcome' \notin {"running", "success"})
        /\ verdict'["consumer"] = "ok" => verdict["consumer"] = "ok"
    BY <1>13, QuietStep DEF StreamInv, SpuriousWakeup
  <2>2. PICK t \in Stream!Threads : Stream!SpuriousWakeup(t)
    BY <1>13 DEF SpuriousWakeup
  <2>3. UNCHANGED <<sinkState, reportVars, outcome>> /\ pc[t] = "waiting" /\ t \in {"producer", "consumer"}
    BY <1>13, <2>2 DEF SpuriousWakeup, Stream!SpuriousWakeup, Stream!Threads
  <2>4. Intact' => Intact
    BY <2>1, <2>3 DEF Intact
  <2>5. phase # "sizing"
    BY <2>3 DEF SinkInv, P, C
  <2>6. QED
    BY <2>1, <2>3, <2>4, <2>5 DEF SinkInv
<1>14. CASE UNCHANGED convVars
  BY <1>14 DEF convVars, streamVars, SinkInv, Intact, P, C
<1>15. QED
  BY <1>1, <1>2, <1>3, <1>4, <1>5, <1>6, <1>7, <1>8, <1>9, <1>10, <1>11, <1>12, <1>13, <1>14
  DEF Next, Caller, ConsumerThread, Sink, Done

(***************************************************************************)
(* The theorems.                                                           *)
(***************************************************************************)

ConversionInv == StreamInv /\ SinkTypeOK /\ SinkInv

LEMMA ConversionInvInit == Init => ConversionInv
<1> SUFFICES ASSUME Init PROVE ConversionInv
  OBVIOUS
<1> USE ConversionAssumption DEF Init, Stream!Init, Stream!NoChunk, Stream!Threads, P, C
<1>1. StreamTypeOK
  <2>1. /\ pc \in [Stream!Threads -> ProducerPcs \cup ConsumerPcs]
        /\ P \in ProducerPcs /\ C \in ConsumerPcs
        /\ verdict \in [Stream!Threads -> {"ok"} \cup Stream!Errors]
    BY DEF ProducerPcs, ConsumerPcs
  <2>2. next \in 1 .. N + 1 /\ batchEnd \in 0 .. N /\ held \in SUBSET (1 .. N) /\ inHand \in Yields \cup {0}
    OBVIOUS
  <2>3. mQueue \in Seq(Yields) /\ delivered \in Seq(Yields)
    BY EmptySeq
  <2>4. QED
    BY <2>1, <2>2, <2>3 DEF StreamTypeOK
<1>2. PositionInv /\ FailureInv /\ OutcomeInv
  BY DEF PositionInv, FailureInv, OutcomeInv
<1>3. FlowInv
  <2>1. Hand = {} /\ Sent = {} /\ Elements(mQueue) = {} /\ Elements(delivered) = {}
    <3>1. Sent = {}
      <4>1. P # "pushed"
        OBVIOUS
      <4>2. ASSUME NEW y \in Yields PROVE ~(y < next)
        OBVIOUS
      <4> HIDE DEF Init, P
      <4>3. QED
        BY <4>1, <4>2 DEF Sent
    <3>2. QED
      BY <3>1, EmptySeq DEF Hand, Elements
  <2>2. Rising(mQueue) /\ Rising(delivered)
    BY EmptySeq DEF Rising
  <2>3. QED
    BY <2>1, <2>2 DEF FlowInv, Below
<1>4. WindowInv
  BY EmptySeq, FS_EmptySet, Windows DEF WindowInv
<1>5. SinkTypeOK
  BY EmptySeq DEF SinkTypeOK, PhaseNames, StageNames
<1>6. SinkInv
  <2>1. Elements(delivered) = {} /\ Elements(saved) = {} /\ Elements(mChunks) = {}
        /\ Rising(mChunks) /\ Rising(saved) /\ Len(saved) = 0 /\ Len(mChunks) = 0 /\ Len(delivered) = 0
    BY EmptySeq DEF Elements, Rising
  <2>2. QED
    BY <2>1, Windows DEF SinkInv, Below
<1>7. QED
  BY <1>1, <1>2, <1>3, <1>4, <1>5, <1>6 DEF ConversionInv, StreamInv

LEMMA ConversionInvStep == ConversionInv /\ [Next]_convVars => ConversionInv'
<1> SUFFICES ASSUME ConversionInv, [Next]_convVars PROVE ConversionInv'
  OBVIOUS
<1>1. StreamInv'
  BY StreamSteps, StreamTypeOKStep, PositionInvStep, FailureInvStep, OutcomeInvStep, FlowInvStep,
     WindowInvStep DEF ConversionInv, StreamInv
<1>2. SinkTypeOK' /\ SinkInv'
  BY SinkTypeOKStep, SinkInvStep DEF ConversionInv
<1>3. QED
  BY <1>1, <1>2 DEF ConversionInv

LEMMA ConversionInvariant == Spec => []ConversionInv
  BY ConversionInvInit, ConversionInvStep, PTL DEF Spec

\* The length of what is saved never exceeds the grid.
LEMMA SavedFits ==
  ASSUME ConversionInv
  PROVE  Len(saved) \in Nat /\ Len(saved) <= N
<1>1. Yields \subseteq 1 .. N /\ N \in Nat
  BY ConversionAssumption
<1>2. saved \in Seq(1 .. N) /\ Rising(saved)
  BY <1>1, WidenSeq DEF ConversionInv, SinkTypeOK, SinkInv
<1>3. QED
  BY <1>1, <1>2, RisingLength, LenProperties

\* Every variable of the conversion and of its stream keeps its type; the
\* counters shown to the caller never exceed the number of chunks announced.
THEOREM ConversionTypeOK == Spec => [](TypeOK /\ Stream!TypeOK)
<1>1. ConversionInv => TypeOK
  <2> SUFFICES ASSUME ConversionInv PROVE TypeOK
    OBVIOUS
  <2>1. completed \in 0 .. N /\ progress \in 0 .. N
    BY SavedFits, ConversionAssumption DEF ConversionInv, SinkTypeOK, SinkInv
  <2>2. mReceived \in 0 .. N
    BY ConversionAssumption DEF ConversionInv, SinkTypeOK, SinkInv
  <2>3. QED
    BY <2>1, <2>2 DEF ConversionInv, SinkTypeOK, TypeOK
<1>2. ConversionInv => Stream!TypeOK
  <2> SUFFICES ASSUME ConversionInv PROVE Stream!TypeOK
    OBVIOUS
  <2>1. Yields \subseteq Stream!Chunks /\ 0 = Stream!NoChunk
    BY ConversionAssumption DEF Stream!Chunks, Stream!NoChunk
  <2>2. mQueue \in Seq(Stream!Chunks) /\ delivered \in Seq(Stream!Chunks)
    BY <2>1, WidenSeq DEF ConversionInv, StreamInv, StreamTypeOK
  <2>3. pc = [producer |-> pc["producer"], consumer |-> pc["consumer"]]
    BY DEF ConversionInv, StreamInv, StreamTypeOK, Stream!Threads
  <2>4. QED
    BY <2>1, <2>2, <2>3 DEF ConversionInv, StreamInv, StreamTypeOK, Stream!TypeOK, P, C, ProducerPcs,
       ConsumerPcs, Stream!Chunks
<1>3. QED
  BY <1>1, <1>2, ConversionInvariant, PTL

\* Once the structure is exhausted everything it yields has been sent.
LEMMA AllSent ==
  ASSUME next = N + 1, mQueue = <<>>, inHand = 0
  PROVE  Sent = Yields /\ Hand = {} /\ Elements(mQueue) = {}
<1>1. \A y \in Yields : y < next
  BY ConversionAssumption
<1>2. Sent = Yields
  BY <1>1 DEF Sent
<1>3. QED
  BY <1>2, EmptySeq DEF Hand, Elements

\* finish() comes only after the consumer thread is gone, with every chunk
\* delivered and nothing cancelled; after cancel() at most one chunk arrives;
\* and pump() returns an error exactly when one occurred, and one that did.
THEOREM ConversionSinkProtocol == Spec => []SinkProtocol
<1>1. ConversionInv => SinkProtocol
  <2> SUFFICES ASSUME ConversionInv PROVE SinkProtocol
    OBVIOUS
  <2> USE DEF ConversionInv, StreamInv
  <2>1. ASSUME finished
        PROVE  /\ Stream!RangeOf(delivered) = Yields /\ pc["consumer"] = "done"
               /\ cancels = 0 /\ failures \subseteq {"finish"}
    <3>1. /\ P = "returned" /\ C = "done" /\ mError = "none"
          /\ verdict["producer"] = "ok" /\ verdict["consumer"] = "ok"
      BY <2>1 DEF FailureInv, PositionInv, Stream!NoErrorSeen
    <3>2. cancels = 0
      BY <3>1 DEF FailureInv, StreamTypeOK
    <3>3. failures \subseteq {"finish"}
      BY <3>1 DEF FailureInv, StreamTypeOK, Stream!Errors, Stream!SourceErrors
    <3>4. mQueue = <<>> /\ inHand = 0 /\ next = N + 1
      BY <3>1 DEF FailureInv, PositionInv
    <3>5. Sent = Yields /\ Hand = {} /\ Elements(mQueue) = {}
      BY <3>4, AllSent
    <3>6. Elements(delivered) = Yields
      BY <3>1, <3>5 DEF FlowInv
    <3>7. QED
      BY <3>1, <3>2, <3>3, <3>6 DEF Stream!RangeOf, Elements, C
  <2>2. latePushes <= 1
    BY DEF FailureInv, StreamTypeOK
  <2>3. QED
    BY <2>1, <2>2 DEF OutcomeInv, SinkProtocol, Stream!SinkProtocol
<1>2. QED
  BY <1>1, ConversionInvariant, PTL

\* What a successful stream has delivered, and so what a successful sink saved.
LEMMA SuccessIsWhole ==
  ASSUME ConversionInv, outcome = "success"
  PROVE  /\ Elements(delivered) = Yields /\ Elements(saved) = Yields
         /\ savedNbt = HasNbt /\ mChunks = <<>> /\ tooHigh = {}
<1> USE DEF ConversionInv, StreamInv
<1>1. /\ finished /\ P = "returned" /\ C = "done" /\ mError = "none"
      /\ verdict["producer"] = "ok" /\ verdict["consumer"] = "ok"
  BY DEF OutcomeInv, FailureInv, PositionInv, Stream!NoErrorSeen
<1>2. mQueue = <<>> /\ inHand = 0 /\ next = N + 1
  BY <1>1 DEF FailureInv, PositionInv
<1>3. Sent = Yields /\ Hand = {} /\ Elements(mQueue) = {}
  BY <1>2, AllSent
<1>4. Elements(delivered) = Yields
  BY <1>1, <1>3 DEF FlowInv
<1>5. mChunks = <<>> /\ Elements(mChunks) = {} /\ Intact
  BY <1>1, EmptySeq DEF SinkInv, Intact, Elements
<1>6. QED
  BY <1>4, <1>5, ConversionAssumption DEF SinkInv, SinkTypeOK

\* The world receives every chunk at most once and in grid order; success means
\* that all of the structure is in it, and a failure that close() discards it.
THEOREM ConversionIsWhole == Spec => []WholeOrDiscarded
<1>1. ConversionInv => WholeOrDiscarded
  BY SuccessIsWhole DEF WholeOrDiscarded, ConversionInv, SinkInv, Rising
<1>2. QED
  BY <1>1, ConversionInvariant, PTL

\* Reported progress never runs ahead of the chunks and block entities saved,
\* and a successful conversion has reported its whole total.
THEOREM ConversionProgress == Spec => []ProgressIsSaved
<1>1. ConversionInv => ProgressIsSaved
  BY DEF ProgressIsSaved, ConversionInv, SinkInv
<1>2. QED
  BY <1>1, ConversionInvariant, PTL

\* The structure's batch, the queue and the sink's batch each stay within the
\* window the memory budget was divided by.
THEOREM ConversionWindow == Spec => []PipelineWindow
<1>1. ConversionInv => PipelineWindow
  BY DEF PipelineWindow, ConversionInv, StreamInv, WindowInv, SinkInv
<1>2. QED
  BY <1>1, ConversionInvariant, PTL

\* The conversion is an ordered transfer: each of its steps delivers the next
\* chunk in grid order, reports success when none remains, reports failure, or
\* is invisible to the caller.
THEOREM ConversionIsTransfer ==
  Spec => Transfer!Init /\ [][Transfer!Next]_(Transfer!transferVars)
<1> DEFINE told == IF result = "none" THEN "running" ELSE result
<1>1. Init => Transfer!Init
  BY DEF Init, Stream!Init, Transfer!Init
<1>2. ConversionInv /\ [Next]_convVars => [Transfer!Next]_(Transfer!transferVars)
  <2> SUFFICES ASSUME ConversionInv, [Next]_convVars
               PROVE  Transfer!Next \/ UNCHANGED <<delivered, told>>
    BY DEF Transfer!transferVars
  <2>1. ASSUME Stream!SinkAccepts, phase = "pumping", UNCHANGED reportVars
        PROVE  Transfer!Deliver
    <3>1. C = "pushing" /\ delivered' = Append(delivered, inHand) /\ UNCHANGED result
      BY <2>1 DEF Stream!SinkAccepts, Stream!Goto, C, reportVars
    <3>2. result = "none"
      BY <2>1 DEF ConversionInv, SinkInv, SinkTypeOK
    <3>3. /\ inHand \in Yields /\ inHand # 0 /\ inHand \notin Elements(delivered)
          /\ \A y \in Yields : y < inHand => y \in Elements(delivered)
      <4>1. inHand \in Yields /\ inHand # 0
        BY <3>1 DEF ConversionInv, StreamInv, PositionInv, StreamTypeOK
      <4>2. Below(Elements(delivered), {inHand})
        BY <4>1 DEF ConversionInv, StreamInv, FlowInv, Below, Hand
      <4>3. ~(inHand < inHand)
        BY <4>1, ConversionAssumption
      <4>4. QED
        BY <4>1, <4>2, <4>3 DEF ConversionInv, StreamInv, FlowInv, Below
    <3>4. Transfer!Remaining = Yields \ Elements(delivered)
      BY DEF Transfer!Remaining, Elements
    <3>5. \A y \in Transfer!Remaining : inHand <= y
      BY <3>3, <3>4, ConversionAssumption
    <3>6. QED
      BY <3>1, <3>2, <3>3, <3>4, <3>5 DEF Transfer!Deliver
  <2>2. CASE RefuseSize \/ ReportFailure
    BY <2>2 DEF RefuseSize, ReportFailure, Finish, streamVars, ConversionInv, SinkInv, SinkTypeOK,
                Transfer!Next, Transfer!Fail
  <2>3. CASE ReportSuccess
    <3>1. Transfer!Remaining = {}
      BY <2>3, SuccessIsWhole DEF ReportSuccess, Transfer!Remaining, Elements
    <3>2. QED
      BY <2>3, <3>1 DEF ReportSuccess, Finish, streamVars, ConversionInv, SinkInv, SinkTypeOK,
                        Transfer!Next, Transfer!Succeed
  <2>4. CASE Begin \/ Done \/ UNCHANGED convVars
    BY <2>4 DEF Begin, Done, convVars, streamVars, reportVars
  <2>5. CASE Caller /\ ~(RefuseSize \/ Begin \/ ReportFailure \/ ReportSuccess)
    <3>1. CASE Stream!ProducerSteps /\ UNCHANGED <<sinkState, reportVars>>
      BY <3>1, QuietStep DEF ConversionInv, StreamInv, reportVars
    <3>2. CASE FinishFlushes \/ FinishFails
      BY <3>2 DEF FinishFlushes, FinishFails, Stream!Finish, reportVars
    <3>3. QED
      BY <2>5, <3>1, <3>2 DEF Caller
  <2>6. CASE ConsumerThread
    <3>1. CASE Stream!ConsumerSteps /\ UNCHANGED <<sinkState, reportVars>>
      BY <3>1, QuietStep DEF ConversionInv, StreamInv, reportVars
    <3>2. CASE PushOutOfRange \/ PushFlushFails
      BY <3>2 DEF PushOutOfRange, PushFlushFails, Stream!SinkRefuses, Stream!sinkVars, reportVars
    <3>3. CASE PushBuffers \/ PushFlushes
      BY <2>1, <2>6, <3>3 DEF ConsumerThread, PushBuffers, PushFlushes, Transfer!Next
    <3>4. QED
      BY <2>6, <3>1, <3>2, <3>3 DEF ConsumerThread, Sink
  <2>7. CASE SpuriousWakeup
    BY <2>7, QuietStep DEF SpuriousWakeup, ConversionInv, StreamInv, reportVars
  <2>8. QED
    BY <2>2, <2>3, <2>4, <2>5, <2>6, <2>7 DEF Next
<1>3. QED
  BY <1>1, <1>2, ConversionInvariant, PTL DEF Spec

============================================================================
