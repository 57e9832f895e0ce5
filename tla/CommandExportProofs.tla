------------------------- MODULE CommandExportProofs -------------------------
(***************************************************************************)
(* The command writers keep their structure to one reader, their tasks     *)
(* never lose what they work on, memory and temporary files stay within    *)
(* their shares, and the file receives the commands in order: for every    *)
(* number of tasks, every set of options and every way to fail.            *)
(***************************************************************************)
EXTENDS CommandExport, SequenceTheorems, FiniteSetTheorems, WellFoundedInduction, TLAPS

(***************************************************************************)
(* The invariant.                                                          *)
(***************************************************************************)

PieceSet == 1 .. Pieces
PcNames == {"start", "next", "inside", "tail", "nbt", "unwind", "returned"}
Objects == {"cancel", "loader", "pending", "pool", "contexts", "temp"}

CallerTypes ==
  /\ job \in Jobs /\ pc \in PcNames
  /\ verdict \in {"ok", "failed"} /\ mode \in {"probe", "palette", "generic"}
  /\ visiting \in BOOLEAN /\ taken \in 0 .. Pieces
  /\ hand \in Seq(PieceSet) /\ pending \in Seq(PieceSet) /\ delivered \in Seq(PieceSet)
  /\ outcome \in {"running", "success", "failure", "dead"}

OtherTypes ==
  /\ queue \in Seq(PieceSet) /\ running \subseteq PieceSet
  /\ DOMAIN result \subseteq PieceSet /\ DOMAIN spills \subseteq PieceSet
  /\ loader \in {"none", "wait", "inside", "ended"}
  /\ loaded \in Seq(0 .. Pieces) /\ fetched \in 0 .. Pieces
  /\ unwind \in Seq(Objects) /\ temp \in {"none", "there", "removed"}

TypeInv == CallerTypes /\ OtherTypes

Working == pc \notin {"unwind", "returned"}

\* The structure is read by the calling thread or by the loader.
ReaderInv ==
  /\ visiting => loader = "none" /\ pc \in {"inside", "next"}
  /\ pc = "inside" => visiting
  /\ McFunction /\ visiting => pc = "inside"
  /\ loader # "none" => McFunction
  /\ loader = "none" => loaded = <<>>

\* Pieces are taken in order, and whole batches while nobody is visited.
TakenInv ==
  /\ pc = "start" => taken = 0 /\ hand = <<>>
  /\ pc = "inside" => taken < Pieces /\ taken % job.per = 0 /\ hand = <<>>
  /\ pc = "next" /\ ~visiting => taken % job.per = 0
  /\ pc \in {"tail", "nbt"} => taken = Pieces /\ hand = <<>>
  /\ McFunction => Len(hand) <= 1

\* What was taken is in the file, in a future or in the hand, in this order.
OrderInv ==
  /\ \A i \in DOMAIN delivered : delivered[i] = i
  /\ Working =>
       /\ taken = Len(delivered) + Len(pending) + Len(hand)
       /\ \A i \in DOMAIN pending : pending[i] = Len(delivered) + i
       /\ \A i \in DOMAIN hand : hand[i] = Len(delivered) + Len(pending) + i
  /\ pc = "nbt" => pending = <<>>
  /\ verdict = "ok" /\ pc = "unwind" => Len(delivered) = Pieces

\* What the loader has read comes next.
LoaderInv ==
  /\ loader = "inside" => fetched < Pieces
  /\ Working /\ loader # "none" =>
       /\ fetched = taken + Len(loaded)
       /\ \A i \in DOMAIN loaded : loaded[i] \in {0, taken + i}

\* What the pool still has to do.
Waiting == ToSet(queue) \cup running

PoolInv ==
  /\ \A i, j \in DOMAIN queue : queue[i] = queue[j] => i = j
  /\ ToSet(queue) \cap running = {}
  /\ Waiting \cap DOMAIN result = {}
  /\ Working => /\ Waiting \cup DOMAIN spills \subseteq ToSet(pending)
                /\ DOMAIN result \subseteq 1 .. Len(delivered) + Len(pending)
  /\ pc = "start" \/ Sequential => Waiting = {} /\ pending = <<>> /\ DOMAIN result = {}

\* The pool is joined before what its tasks use is destroyed.
ScopeInv ==
  /\ Working => unwind = <<>>
  /\ Working /\ pc # "start" => contexts = ~Sequential /\ temp # "removed"
  /\ Waiting # {} => Working \/ (pc = "unwind" /\ \E i \in DOMAIN unwind : unwind[i] = "pool")
  /\ McFunction =>
       /\ (\E i \in DOMAIN unwind : unwind[i] = "pool") => contexts /\ temp # "removed"
       /\ \A i, j \in DOMAIN unwind :
            unwind[j] = "pool" /\ unwind[i] \in {"contexts", "temp"} => j < i

OutcomeInv ==
  /\ outcome \in {"success", "failure"} => pc = "returned"
  /\ pc = "returned" => outcome # "running"

\* Memory and files: each task's future, its place in the pool and its file.
Charged == Tasks \cup DOMAIN spills
SpillFits(size) == size \in Nat /\ (job.limit # 0 => size <= SpillShare)
WindowInv ==
  /\ Len(pending) <= MaxInFlight
  /\ Cardinality(Charged) <= MaxInFlight
  /\ Len(loaded) + (IF loader = "inside" THEN 1 ELSE 0) <= PrefetchBatches
  /\ \A i \in DOMAIN spills : SpillFits(spills[i])

ExportInv ==
  /\ TypeInv /\ ReaderInv /\ TakenInv /\ OrderInv /\ LoaderInv
  /\ PoolInv /\ ScopeInv /\ OutcomeInv /\ WindowInv

(***************************************************************************)
(* Sequences and numbers.                                                  *)
(***************************************************************************)

LEMMA AppendElements ==
  ASSUME NEW S, NEW s \in Seq(S), NEW e \in S
  PROVE  /\ Append(s, e) \in Seq(S) /\ Len(s) \in Nat /\ Len(Append(s, e)) = Len(s) + 1
         /\ DOMAIN s = 1 .. Len(s) /\ DOMAIN Append(s, e) = 1 .. Len(s) + 1
         /\ \A i \in 1 .. Len(s) : Append(s, e)[i] = s[i]
         /\ Append(s, e)[Len(s) + 1] = e
         /\ \A i \in 1 .. Len(s) + 1 : i \in 1 .. Len(s) \/ i = Len(s) + 1
<1>1. Len(s) \in Nat
  BY LenProperties
<1>2. \A i \in 1 .. Len(s) + 1 : i \in 1 .. Len(s) \/ i = Len(s) + 1
  BY <1>1
<1>3. QED
  BY <1>1, <1>2, AppendProperties, LenProperties

LEMMA TailElements ==
  ASSUME NEW S, NEW s \in Seq(S), s # <<>>
  PROVE  /\ Head(s) = s[1] /\ Len(s) \in Nat \ {0} /\ DOMAIN s = 1 .. Len(s) /\ 1 \in DOMAIN s
         /\ Tail(s) \in Seq(S) /\ Len(Tail(s)) = Len(s) - 1 /\ DOMAIN Tail(s) = 1 .. Len(s) - 1
         /\ \A i \in DOMAIN Tail(s) : i + 1 \in DOMAIN s /\ i + 1 # 1 /\ Tail(s)[i] = s[i + 1]
         /\ \A i \in DOMAIN s : i = 1 \/ (i - 1 \in DOMAIN Tail(s) /\ Tail(s)[i - 1] = s[i])
<1>1. Len(s) \in Nat \ {0} /\ DOMAIN s = 1 .. Len(s) /\ Head(s) = s[1]
  BY LenProperties, EmptySeq, HeadTailProperties
<1>2. /\ Tail(s) \in Seq(S) /\ Len(Tail(s)) = Len(s) - 1 /\ DOMAIN Tail(s) = 1 .. Len(s) - 1
      /\ \A i \in 1 .. Len(s) - 1 : Tail(s)[i] = s[i + 1]
  <2>1. Tail(s) \in Seq(S) /\ Len(Tail(s)) = Len(s) - 1
    BY HeadTailProperties
  <2>2. DOMAIN Tail(s) = 1 .. Len(s) - 1
    BY <2>1, LenProperties
  <2>3. \A i \in 1 .. Len(Tail(s)) : Tail(s)[i] = s[i + 1]
    BY HeadTailProperties
  <2>4. QED
    BY <2>1, <2>2, <2>3
<1>3. \A i \in 1 .. Len(s) - 1 : i + 1 \in 1 .. Len(s) /\ i + 1 # 1
  BY <1>1
<1>4. \A i \in 1 .. Len(s) : i = 1 \/ (i - 1 \in 1 .. Len(s) - 1 /\ (i - 1) + 1 = i)
  BY <1>1
<1>5. 1 \in DOMAIN s
  BY <1>1
<1>6. \A i \in DOMAIN Tail(s) : i + 1 \in DOMAIN s /\ i + 1 # 1 /\ Tail(s)[i] = s[i + 1]
  BY <1>1, <1>2, <1>3
<1>7. ASSUME NEW i \in DOMAIN s, i # 1 PROVE i - 1 \in DOMAIN Tail(s) /\ Tail(s)[i - 1] = s[i]
  <2>1. i - 1 \in 1 .. Len(s) - 1 /\ (i - 1) + 1 = i
    BY <1>1, <1>4, <1>7
  <2>2. QED
    BY <1>2, <2>1
<1>8. \A i \in DOMAIN s : i = 1 \/ (i - 1 \in DOMAIN Tail(s) /\ Tail(s)[i - 1] = s[i])
  BY <1>7
<1>9. Head(s) = s[1] /\ Len(s) \in Nat \ {0} /\ DOMAIN s = 1 .. Len(s) /\ 1 \in DOMAIN s
  BY <1>1, <1>5
<1>10. Tail(s) \in Seq(S) /\ Len(Tail(s)) = Len(s) - 1 /\ DOMAIN Tail(s) = 1 .. Len(s) - 1
  BY <1>2
<1>11. QED
  BY <1>6, <1>8, <1>9, <1>10

LEMMA AppendsSet ==
  ASSUME NEW S, NEW s \in Seq(S), NEW e \in S
  PROVE  ToSet(Append(s, e)) = ToSet(s) \cup {e}
<1>1. /\ DOMAIN s = 1 .. Len(s) /\ DOMAIN Append(s, e) = 1 .. Len(s) + 1 /\ Len(s) \in Nat
      /\ \A i \in 1 .. Len(s) : Append(s, e)[i] = s[i]
      /\ Append(s, e)[Len(s) + 1] = e
      /\ \A i \in 1 .. Len(s) + 1 : i \in 1 .. Len(s) \/ i = Len(s) + 1
  BY AppendElements
<1>2. 1 .. Len(s) \subseteq 1 .. Len(s) + 1 /\ Len(s) + 1 \in 1 .. Len(s) + 1
  BY <1>1
<1>3. QED
  BY <1>1, <1>2 DEF ToSet

LEMMA TailSet ==
  ASSUME NEW S, NEW s \in Seq(S), s # <<>>
  PROVE  /\ ToSet(Tail(s)) \subseteq ToSet(s) /\ ToSet(s) = ToSet(Tail(s)) \cup {Head(s)}
         /\ Head(s) \in ToSet(s) /\ Head(s) \in S
         /\ (\A i, j \in DOMAIN s : s[i] = s[j] => i = j) =>
              /\ Head(s) \notin ToSet(Tail(s))
              /\ \A i, j \in DOMAIN Tail(s) : Tail(s)[i] = Tail(s)[j] => i = j
<1>1. /\ Head(s) = s[1] /\ 1 \in DOMAIN s
      /\ \A i \in DOMAIN Tail(s) : i + 1 \in DOMAIN s /\ i + 1 # 1 /\ Tail(s)[i] = s[i + 1]
      /\ \A i \in DOMAIN s : i = 1 \/ (i - 1 \in DOMAIN Tail(s) /\ Tail(s)[i - 1] = s[i])
      /\ DOMAIN Tail(s) = 1 .. Len(s) - 1 /\ Len(s) \in Nat
  BY TailElements
<1>2. Head(s) \in S
  BY <1>1, ElementOfSeq, LenProperties
<1>3. ToSet(Tail(s)) \subseteq ToSet(s) /\ Head(s) \in ToSet(s)
  BY <1>1 DEF ToSet
<1>4. ToSet(s) \subseteq ToSet(Tail(s)) \cup {Head(s)}
  <2>1. ASSUME NEW i \in DOMAIN s PROVE s[i] \in ToSet(Tail(s)) \cup {Head(s)}
    <3>1. CASE i = 1
      BY <1>1, <3>1
    <3>2. CASE i # 1
      BY <1>1, <3>2 DEF ToSet
    <3>3. QED
      BY <3>1, <3>2
  <2>2. QED
    BY <2>1 DEF ToSet
<1>5. ASSUME \A i, j \in DOMAIN s : s[i] = s[j] => i = j
      PROVE  /\ Head(s) \notin ToSet(Tail(s))
             /\ \A i, j \in DOMAIN Tail(s) : Tail(s)[i] = Tail(s)[j] => i = j
  <2>1. Head(s) \notin ToSet(Tail(s))
    BY <1>1, <1>5 DEF ToSet
  <2>2. ASSUME NEW i \in DOMAIN Tail(s), NEW j \in DOMAIN Tail(s), Tail(s)[i] = Tail(s)[j] PROVE i = j
    <3>1. i + 1 = j + 1 /\ i \in Int /\ j \in Int
      BY <1>1, <1>5, <2>2
    <3>2. QED
      BY <3>1
  <2>3. QED
    BY <2>1, <2>2
<1>6. QED
  BY <1>2, <1>3, <1>4, <1>5

\* A sequence has no more members than places.
LEMMA SetOfSeq ==
  ASSUME NEW S, NEW s \in Seq(S)
  PROVE  IsFiniteSet(ToSet(s)) /\ Cardinality(ToSet(s)) <= Len(s) /\ Len(s) \in Nat
<1>1. Len(s) \in Nat /\ DOMAIN s = 1 .. Len(s) /\ s \in [1 .. Len(s) -> S]
  BY LenProperties
<1>2. s \in Surjection(1 .. Len(s), ToSet(s))
  BY <1>1 DEF ToSet, Surjection
<1>3. 1 \in Int /\ Len(s) \in Int /\ (1 > Len(s) => Len(s) = 0) /\ Len(s) - 1 + 1 = Len(s)
  BY <1>1
<1>4. IsFiniteSet(1 .. Len(s)) /\ Cardinality(1 .. Len(s)) = Len(s)
  BY <1>3, FS_Interval
<1>5. QED
  BY <1>1, <1>2, <1>4, FS_Surjection

LEMMA PairBounds ==
  ASSUME NEW a \in Nat, NEW b \in Nat
  PROVE  /\ Max({a, b}) \in Nat /\ Max({a, b}) >= a /\ Max({a, b}) >= b
         /\ Min({a, b}) \in {a, b}
<1>1. \E x \in {a, b} : \A y \in {a, b} : x >= y
  OBVIOUS
<1>2. \E x \in {a, b} : \A y \in {a, b} : x =< y
  OBVIOUS
<1>3. Max({a, b}) \in {a, b} /\ \A y \in {a, b} : Max({a, b}) >= y
  BY <1>1 DEF Max
<1>4. Min({a, b}) \in {a, b}
  BY <1>2 DEF Min
<1>5. QED
  BY <1>3, <1>4

LEMMA TripleMin ==
  ASSUME NEW a \in Nat, NEW b \in Nat, NEW c \in Nat
  PROVE  Min({a, b, c}) \in Nat
<1>1. \E x \in {a, b, c} : \A y \in {a, b, c} : x =< y
  OBVIOUS
<1>2. Min({a, b, c}) \in {a, b, c}
  BY <1>1 DEF Min
<1>3. QED
  BY <1>2

(***************************************************************************)
(* The sum of the sizes of the files: FoldFunction takes one element after *)
(* the other, so the facts about it go by the number of elements left, and *)
(* look at the least number that would contradict them.                    *)
(***************************************************************************)

\* A set of naturals that is not empty has a least element.
LEMMA LeastNat ==
  ASSUME NEW S \in SUBSET Nat, S # {}
  PROVE  \E n \in S : \A k \in S : n <= k
<1> DEFINE R == {ss \in Nat \X Nat : ss[1] < ss[2]}
<1>1. IsWellFoundedOn(R, Nat)
  BY NatLessThanWellFounded DEF OpToRel
<1>2. PICK n \in S : \A k \in S : ~ (<<k, n>> \in R)
  <2>1. S \subseteq Nat /\ S # {} OBVIOUS
  <2> HIDE DEF R
  <2> QED BY <1>1, <2>1, WFMin
<1>3. \A k \in S : ~ (k < n)
  BY <1>2
<1> QED
  BY <1>3

\* The sum over s from the sum over s without one element.
SumStep(f, g, s) == IF s = {} THEN 0 ELSE f[CHOOSE x \in s : TRUE] + g[s \ {CHOOSE x \in s : TRUE}]

LEMMA SumStepNat ==
  ASSUME NEW f, \A i \in DOMAIN f : f[i] \in Nat,
         NEW g \in [SUBSET DOMAIN f -> Nat], NEW s \in SUBSET DOMAIN f
  PROVE  SumStep(f, g, s) \in Nat
<1>1. CASE s = {}
  BY <1>1 DEF SumStep
<1>2. CASE s # {}
  <2> DEFINE x == CHOOSE x \in s : TRUE
  <2>1. x \in s
    BY <1>2
  <2>2. f[x] \in Nat /\ g[s \ {x}] \in Nat
    <3>1. x \in DOMAIN f /\ s \ {x} \in SUBSET DOMAIN f
      BY <2>1
    <3> HIDE DEF x
    <3> QED BY <3>1
  <2>3. SumStep(f, g, s) = f[x] + g[s \ {x}]
    BY <1>2 DEF SumStep
  <2> QED
    BY <2>2, <2>3
<1> QED
  BY <1>1, <1>2

LEMMA SumExists ==
  ASSUME NEW f, \A i \in DOMAIN f : f[i] \in Nat, IsFiniteSet(DOMAIN f)
  PROVE  \E g \in [SUBSET DOMAIN f -> Nat] : g = [s \in SUBSET DOMAIN f |-> SumStep(f, g, s)]
<1> DEFINE D == DOMAIN f
           Upto(g, n) == \A s \in SUBSET D : Cardinality(s) <= n => g[s] = SumStep(f, g, s)
           Missing == {n \in Nat : ~ \E g \in [SUBSET D -> Nat] : Upto(g, n)}
<1>1. \A s \in SUBSET D : IsFiniteSet(s) /\ Cardinality(s) \in Nat /\ Cardinality(s) <= Cardinality(D)
  BY FS_Subset, FS_CardinalityType
<1>2. Cardinality(D) \in Nat
  BY FS_CardinalityType
<1>3. \A s \in SUBSET D : \A x \in s : /\ s \ {x} \in SUBSET D
                                       /\ Cardinality(s \ {x}) = Cardinality(s) - 1
  BY <1>1, FS_RemoveElement
<1>4. 0 \notin Missing
  <2> DEFINE g == [s \in SUBSET D |-> 0]
  <2>1. g \in [SUBSET D -> Nat]
    OBVIOUS
  <2>2. ASSUME NEW s \in SUBSET D, Cardinality(s) <= 0 PROVE g[s] = SumStep(f, g, s)
    <3>1. s = {}
      <4>1. Cardinality(s) = 0
        BY <1>1, <2>2
      <4> QED
        BY <1>1, <4>1, FS_EmptySet
    <3> QED
      BY <3>1 DEF SumStep
  <2>3. Upto(g, 0)
    BY <2>2
  <2> QED
    BY <2>1, <2>3
<1>5. ASSUME NEW n \in Nat \ {0}, n - 1 \notin Missing
      PROVE  n \notin Missing
  <2>1. n - 1 \in Nat
    OBVIOUS
  <2>2. PICK g \in [SUBSET D -> Nat] : Upto(g, n - 1)
    BY <1>5, <2>1
  <2> DEFINE h == [s \in SUBSET D |-> SumStep(f, g, s)]
  <2>3. h \in [SUBSET D -> Nat]
    BY SumStepNat
  <2>4. ASSUME NEW s \in SUBSET D, Cardinality(s) <= n PROVE h[s] = SumStep(f, h, s)
    <3>1. CASE s = {}
      BY <3>1 DEF SumStep
    <3>2. CASE s # {}
      <4> DEFINE x == CHOOSE x \in s : TRUE
      <4>1. x \in s
        BY <3>2
      <4>2. /\ s \ {x} \in SUBSET D /\ Cardinality(s \ {x}) = Cardinality(s) - 1
            /\ Cardinality(s) \in Nat
        <5> HIDE DEF x
        <5> QED BY <1>1, <1>3, <4>1
      <4>3. Cardinality(s \ {x}) <= n - 1
        <5> HIDE DEF x
        <5> QED BY <2>4, <4>2
      <4>4. h[s \ {x}] = g[s \ {x}]
        <5> HIDE DEF x
        <5>1. g[s \ {x}] = SumStep(f, g, s \ {x})
          BY <2>2, <4>2, <4>3
        <5> QED BY <4>2, <5>1
      <4>5. SumStep(f, h, s) = f[x] + h[s \ {x}] /\ SumStep(f, g, s) = f[x] + g[s \ {x}]
        BY <3>2 DEF SumStep
      <4> QED
        BY <4>4, <4>5
    <3> QED
      BY <3>1, <3>2
  <2>5. Upto(h, n)
    BY <2>4
  <2> HIDE DEF h, Upto
  <2> QED
    BY <2>3, <2>5
<1>6. Missing = {}
  <2> SUFFICES ASSUME Missing # {} PROVE FALSE
    OBVIOUS
  <2>1. Missing \in SUBSET Nat
    OBVIOUS
  <2> HIDE DEF Missing
  <2>2. PICK n \in Missing : \A k \in Missing : n <= k
    BY <2>1, LeastNat
  <2>3. n \in Nat \ {0} /\ n - 1 \notin Missing
    BY <1>4, <2>1, <2>2
  <2> QED
    BY <1>5, <2>2, <2>3
<1>7. PICK g \in [SUBSET D -> Nat] : Upto(g, Cardinality(D))
  BY <1>2, <1>6
<1>8. g = [s \in SUBSET D |-> SumStep(f, g, s)]
  BY <1>1, <1>7
<1> QED
  BY <1>8

\* Files that hold at most k each hold together at most k times their number.
LEMMA SumBounded ==
  ASSUME NEW f, NEW k \in Nat, IsFiniteSet(DOMAIN f), \A i \in DOMAIN f : f[i] \in Nat /\ f[i] <= k
  PROVE  FoldFunction(+, 0, f) \in Nat /\ FoldFunction(+, 0, f) <= k * Cardinality(DOMAIN f)
<1> DEFINE D == DOMAIN f
           sum == CHOOSE g : g = [s \in SUBSET D |-> SumStep(f, g, s)]
           Fits(s, n) == sum[s] \in Nat /\ sum[s] <= k * n
           TooLarge == {n \in Nat : \E s \in SUBSET D : Cardinality(s) = n /\ ~ Fits(s, n)}
<1>1. FoldFunction(+, 0, f) = sum[D]
  BY DEF FoldFunction, FoldFunctionOnSet, MapThenFoldSet, SumStep
<1>2. sum = [s \in SUBSET D |-> SumStep(f, sum, s)]
  BY SumExists
<1> HIDE DEF sum
<1>3. \A s \in SUBSET D : Cardinality(s) \in Nat /\ IsFiniteSet(s)
  BY FS_Subset, FS_CardinalityType
<1>4. ASSUME NEW n \in TooLarge PROVE n # 0 /\ n - 1 \in TooLarge
  <2>1. PICK s \in SUBSET D : Cardinality(s) = n /\ ~ Fits(s, n)
    OBVIOUS
  <2>2. sum[s] = SumStep(f, sum, s)
    BY <1>2
  <2>3. s # {}
    <3> SUFFICES ASSUME s = {} PROVE FALSE
      OBVIOUS
    <3>1. n = 0 /\ sum[s] = 0
      BY <2>1, <2>2, FS_EmptySet DEF SumStep
    <3>2. k * 0 = 0
      OBVIOUS
    <3>3. QED
      BY <2>1, <3>1, <3>2
  <2> DEFINE x == CHOOSE x \in s : TRUE
  <2>4. x \in s /\ sum[s] = f[x] + sum[s \ {x}]
    BY <2>2, <2>3 DEF SumStep
  <2> HIDE DEF x
  <2>5. s \ {x} \in SUBSET D /\ Cardinality(s \ {x}) = n - 1 /\ n - 1 \in Nat
    <3>1. Cardinality(s \ {x}) = n - 1
      BY <1>3, <2>1, <2>4, FS_RemoveElement
    <3>2. QED
      BY <1>3, <3>1
  <2>6. f[x] \in Nat /\ f[x] <= k
    BY <2>4
  <2>7. ~ Fits(s \ {x}, n - 1)
    <3> SUFFICES ASSUME Fits(s \ {x}, n - 1) PROVE Fits(s, n)
      BY <2>1
    <3>1. k * (n - 1) \in Int /\ k * n = k * (n - 1) + k
      BY <2>5
    <3>2. QED
      BY <2>4, <2>6, <3>1
  <2>8. QED
    BY <2>5, <2>7
<1>5. TooLarge = {}
  <2> SUFFICES ASSUME TooLarge # {} PROVE FALSE
    OBVIOUS
  <2>1. TooLarge \in SUBSET Nat
    OBVIOUS
  <2> HIDE DEF TooLarge
  <2>2. PICK n \in TooLarge : \A m \in TooLarge : n <= m
    BY <2>1, LeastNat
  <2>3. n - 1 \in TooLarge /\ n \in Nat
    BY <1>4, <2>1, <2>2
  <2>4. QED
    BY <2>2, <2>3
<1>6. D \in SUBSET D /\ Cardinality(D) \in Nat
  BY FS_CardinalityType
<1>7. Fits(D, Cardinality(D))
  BY <1>5, <1>6
<1>8. QED
  BY <1>1, <1>7
(***************************************************************************)
(* The job and its batches.                                                *)
(***************************************************************************)

LEMMA JobFacts ==
  ASSUME job \in Jobs
  PROVE  /\ job.per \in Nat \ {0} /\ Pieces % job.per = 0 /\ (McFunction => job.per = 1)
         /\ Workers \in Nat /\ MaxInFlight \in Nat \ {0} /\ PrefetchBatches \in Nat \ {0}
         /\ job.limit \in Nat /\ SpillShare \in Nat /\ Pieces \in Nat \ {0}
<1>1. /\ job.per \in Nat \ {0} /\ Pieces % job.per = 0 /\ (McFunction => job.per = 1)
      /\ job.window \in Nat \ {0} /\ job.threads \in Nat /\ job.tasks \in Nat /\ job.limit \in Nat
      /\ Pieces \in Nat \ {0}
  BY ExportAssumption DEF JobSet, McFunction
<1>2. Workers \in Nat
  <2>1. Max({job.threads, 1}) \in Nat
    BY <1>1, PairBounds
  <2>2. Min({Max({job.threads, 1}), Pieces, job.window}) \in Nat
    BY <1>1, <2>1, TripleMin
  <2>3. Min({IF job.threads = 0 THEN 3 ELSE job.threads, job.window}) \in Nat
    <3> DEFINE wanted == IF job.threads = 0 THEN 3 ELSE job.threads
    <3>1. wanted \in Nat
      BY <1>1
    <3> HIDE DEF wanted
    <3>2. Min({wanted, job.window}) \in {wanted, job.window}
      BY <1>1, <3>1, PairBounds
    <3>3. QED
      BY <1>1, <3>1, <3>2 DEF wanted
  <2>4. QED
    BY <2>2, <2>3 DEF Workers
<1>3. MaxInFlight \in Nat \ {0}
  <2> DEFINE wanted == IF job.tasks = 0 THEN 2 * Workers ELSE job.tasks
  <2>1. wanted \in Nat
    BY <1>1, <1>2
  <2> HIDE DEF wanted
  <2>2. Min({wanted, job.window}) \in Nat
    BY <1>1, <2>1, PairBounds
  <2>3. Max({1, Min({wanted, job.window})}) \in Nat /\ Max({1, Min({wanted, job.window})}) >= 1
    BY <2>2, PairBounds
  <2>4. QED
    BY <2>3 DEF MaxInFlight, wanted
<1>4. PrefetchBatches \in Nat \ {0}
  <2>1. job.window \div 2 \in Nat
    BY <1>1
  <2>2. Min({3, job.window \div 2}) \in Nat
    BY <2>1, PairBounds
  <2>3. Max({1, Min({3, job.window \div 2})}) \in Nat /\ Max({1, Min({3, job.window \div 2})}) >= 1
    BY <2>2, PairBounds
  <2>4. QED
    BY <2>3 DEF PrefetchBatches
<1>5. SpillShare \in Nat
  BY <1>1, <1>3 DEF SpillShare
<1>6. QED
  BY <1>1, <1>2, <1>3, <1>4, <1>5

\* A whole batch fits behind whole batches.
LEMMA BatchFits ==
  ASSUME NEW p \in Nat \ {0}, NEW t \in Nat, NEW n \in Nat, t % p = 0, n % p = 0, t < n
  PROVE  t + p <= n /\ (t + p) % p = 0
<1> DEFINE q == t \div p
           r == n \div p
<1>1. t = p * q /\ q \in Int
  OBVIOUS
<1>2. n = p * r /\ r \in Int
  OBVIOUS
<1> HIDE DEF q, r
<1>3. q < r
  <2>1. \A x, y \in Int : x <= y => p * x <= p * y
    OBVIOUS
  <2>2. QED
    BY <1>1, <1>2, <2>1
<1>4. t + p = p * (q + 1)
  BY <1>1
<1>5. p * (q + 1) <= p * r
  <2>1. \A x, y \in Int : x <= y => p * x <= p * y
    OBVIOUS
  <2>2. QED
    BY <1>1, <1>2, <1>3, <2>1
<1>6. (p * (q + 1)) % p = 0
  BY <1>1
<1>7. QED
  BY <1>2, <1>4, <1>5, <1>6

(***************************************************************************)
(* Types.                                                                  *)
(***************************************************************************)

LEMMA BatchFacts ==
  ASSUME TypeInv, TakenInv, pc = "inside"
  PROVE  LET batch == [k \in 1 .. job.per |-> taken + k]
         IN  /\ batch \in Seq(PieceSet) /\ Len(batch) = job.per /\ DOMAIN batch = 1 .. job.per
             /\ taken + job.per \in 0 .. Pieces /\ (taken + job.per) % job.per = 0
<1> DEFINE batch == [k \in 1 .. job.per |-> taken + k]
<1>1. /\ job \in Jobs /\ taken \in Nat /\ taken < Pieces /\ taken % job.per = 0
      /\ job.per \in Nat \ {0} /\ Pieces % job.per = 0 /\ Pieces \in Nat
  BY JobFacts DEF TypeInv, CallerTypes, TakenInv
<1>2. taken + job.per <= Pieces /\ (taken + job.per) % job.per = 0
  BY <1>1, BatchFits
<1>3. batch \in [1 .. job.per -> PieceSet]
  BY <1>1, <1>2 DEF PieceSet
<1>4. batch \in Seq(PieceSet)
  BY <1>1, <1>3, SeqDef
<1>5. Len(batch) = job.per /\ DOMAIN batch = 1 .. job.per
  BY <1>1, <1>3, <1>4, LenProperties
<1>6. QED
  BY <1>1, <1>2, <1>4, <1>5

LEMMA ScopeFacts ==
  /\ Scope \in Seq(Objects)
  /\ McFunction => \A i, j \in DOMAIN Scope :
                     Scope[j] = "pool" /\ Scope[i] \in {"contexts", "temp"} => j < i
  /\ ~Sequential => \E i \in DOMAIN Scope : Scope[i] = "pool"
  /\ Sequential => Scope = <<>>
<1>1. CASE Sequential
  BY <1>1 DEF Scope, Objects
<1>2. CASE ~Sequential /\ McFunction
  <2> DEFINE s == <<"cancel", "loader", "pending", "pool", "contexts", "temp">>
  <2>1. Scope = s /\ s \in Seq(Objects) /\ DOMAIN s = 1 .. 6 /\ s[4] = "pool" /\ 4 \in 1 .. 6
    BY <1>2 DEF Scope, Objects
  <2>2. \A i \in 1 .. 6 : (s[i] = "pool" => i = 4) /\ (s[i] \in {"contexts", "temp"} => i \in {5, 6})
    OBVIOUS
  <2> HIDE DEF s
  <2>3. QED
    BY <1>2, <2>1, <2>2
<1>3. CASE ~Sequential /\ ~McFunction
  <2> DEFINE s == <<"pending", "contexts", "pool">>
  <2>1. Scope = s /\ s \in Seq(Objects) /\ s[3] = "pool" /\ DOMAIN s = 1 .. 3
    BY <1>3 DEF Scope, Objects
  <2> HIDE DEF s
  <2>2. QED
    BY <1>3, <2>1
<1>4. QED
  BY <1>1, <1>2, <1>3

LEMMA TypeStep ==
  ASSUME TypeInv, ReaderInv, TakenInv, LoaderInv, Next
  PROVE  TypeInv'
<1>1. /\ job \in Jobs /\ pc \in PcNames
      /\ verdict \in {"ok", "failed"} /\ mode \in {"probe", "palette", "generic"}
      /\ visiting \in BOOLEAN /\ taken \in 0 .. Pieces
      /\ hand \in Seq(PieceSet) /\ pending \in Seq(PieceSet) /\ delivered \in Seq(PieceSet)
      /\ outcome \in {"running", "success", "failure", "dead"}
      /\ queue \in Seq(PieceSet) /\ running \subseteq PieceSet
      /\ DOMAIN result \subseteq PieceSet /\ DOMAIN spills \subseteq PieceSet
      /\ loader \in {"none", "wait", "inside", "ended"}
      /\ loaded \in Seq(0 .. Pieces) /\ fetched \in 0 .. Pieces
      /\ unwind \in Seq(Objects) /\ temp \in {"none", "there", "removed"}
  BY DEF TypeInv, CallerTypes, OtherTypes
<1>2. Pieces \in Nat \ {0}
  BY <1>1, JobFacts
<1>3. CASE Start \/ Enter \/ FallBack \/ VisitReturns \/ ReadFails \/ AllTaken \/ AllDrained
           \/ ScanNbt \/ Return \/ ReadFreedContext \/ UNCHANGED vars
  <2>1. job' \in Jobs /\ pc' \in PcNames /\ verdict' \in {"ok", "failed"}
        /\ mode' \in {"probe", "palette", "generic"} /\ visiting' \in BOOLEAN
        /\ outcome' \in {"running", "success", "failure", "dead"}
        /\ UNCHANGED <<taken, hand, pending, delivered>>
    BY <1>1, <1>3 DEF Start, Enter, WantsBatch, FallBack, VisitReturns, ReadFails, AllTaken, AllDrained,
       ScanNbt, Return, ReadFreedContext, Leave, PcNames, vars, callerVars
  <2>2. UNCHANGED <<queue, running, result, spills, loader, loaded, fetched>>
    BY <1>3 DEF Start, Enter, FallBack, VisitReturns, ReadFails, AllTaken, AllDrained,
       ScanNbt, Return, ReadFreedContext, vars, poolVars, loaderVars
  <2>3. unwind' \in {unwind, Scope} /\ temp' \in {"none", "there", "removed"}
    BY <1>1, <1>3 DEF Start, Enter, FallBack, VisitReturns, ReadFails, AllTaken, AllDrained,
       ScanNbt, Return, ReadFreedContext, Leave, vars, scopeVars
  <2>4. unwind' \in Seq(Objects)
    BY <1>1, <2>3, ScopeFacts
  <2>5. QED
    BY <1>1, <2>1, <2>2, <2>3, <2>4 DEF TypeInv, CallerTypes, OtherTypes
<1>4. CASE LoadBatch
  <2>1. /\ hand' \in Seq(PieceSet) /\ taken' \in 0 .. Pieces
    BY <1>4, BatchFacts DEF LoadBatch
  <2>2. /\ pc' \in PcNames /\ mode' \in {"probe", "palette", "generic"} /\ visiting' \in BOOLEAN
        /\ loader' \in {"none", "wait", "inside", "ended"} /\ fetched' \in 0 .. Pieces
        /\ UNCHANGED <<job, verdict, pending, delivered, outcome>>
        /\ UNCHANGED <<queue, running, result, spills, loaded, unwind, temp>>
    BY <1>1, <1>4, <2>1 DEF LoadBatch, PcNames, poolVars, scopeVars
  <2>3. QED
    BY <1>1, <2>1, <2>2 DEF TypeInv, CallerTypes, OtherTypes
<1>5. CASE Callback
  <2>1. taken < Pieces
    <3>1. CASE pc = "inside"
      BY <3>1 DEF TakenInv
    <3>2. CASE pc # "inside"
      <4>1. taken % job.per # 0 /\ Pieces % job.per = 0
        BY <1>1, <1>5, <3>2, JobFacts DEF Callback
      <4>2. taken # Pieces
        BY <4>1
      <4>3. QED
        BY <1>1, <1>2, <4>2
    <3>3. QED
      BY <3>1, <3>2
  <2>2. taken + 1 \in PieceSet /\ taken + 1 \in 0 .. Pieces
    BY <1>1, <1>2, <2>1 DEF PieceSet
  <2>3. /\ hand' \in Seq(PieceSet) /\ taken' \in 0 .. Pieces /\ pc' \in PcNames
        /\ UNCHANGED <<job, verdict, mode, visiting, pending, delivered, outcome>>
        /\ UNCHANGED <<queue, running, result, spills, loader, loaded, fetched, unwind, temp>>
    BY <1>5, <2>2 DEF Callback, PcNames, poolVars, loaderVars, scopeVars
  <2>4. QED
    BY <1>1, <2>3 DEF TypeInv, CallerTypes, OtherTypes
<1>6. CASE TakeLoaded
  <2>1. loaded # <<>> /\ loaded' = Tail(loaded) /\ WantsBatch
    BY <1>6 DEF TakeLoaded
  <2>2. loaded' \in Seq(0 .. Pieces) /\ Head(loaded) \in 0 .. Pieces
    BY <1>1, <2>1, TailElements, TailSet
  <2>3. /\ hand' \in Seq(PieceSet) /\ taken' \in 0 .. Pieces
        /\ pc' \in PcNames /\ verdict' \in {"ok", "failed"} /\ unwind' \in {unwind, Scope}
    <3>1. CASE Head(loaded) = 0
      <4>1. Leave("failed") /\ UNCHANGED <<taken, hand>>
        BY <1>6, <3>1 DEF TakeLoaded
      <4>2. QED
        BY <1>1, <4>1 DEF Leave, PcNames
    <3>2. CASE Head(loaded) # 0
      <4>1. hand' = <<Head(loaded)>> /\ taken' = taken + 1 /\ UNCHANGED <<pc, verdict, unwind>>
        BY <1>6, <3>2 DEF TakeLoaded
      <4>2. taken \in Nat /\ taken < Pieces
        BY <1>1, <1>2, <2>1 DEF WantsBatch
      <4>3. taken' \in 0 .. Pieces
        BY <1>2, <4>1, <4>2
      <4>4. Head(loaded) \in PieceSet
        BY <1>2, <2>2, <3>2 DEF PieceSet
      <4>5. QED
        BY <1>1, <4>1, <4>3, <4>4
    <3>3. QED
      BY <3>1, <3>2
  <2>4. UNCHANGED <<job, mode, visiting, pending, delivered, outcome, queue, running, result, spills,
                    loader, fetched, temp>>
    BY <1>6 DEF TakeLoaded, poolVars
  <2>5. unwind' \in Seq(Objects)
    BY <1>1, <2>3, ScopeFacts
  <2>6. QED
    BY <1>1, <2>2, <2>3, <2>4, <2>5 DEF TypeInv, CallerTypes, OtherTypes
<1>7. CASE EncodeDirectly
  <2>1. Head(hand) \in PieceSet
    BY <1>1, <1>7, TailSet DEF EncodeDirectly
  <2>2. Append(delivered, Head(hand)) \in Seq(PieceSet)
    BY <1>1, <2>1, AppendElements
  <2>3. /\ hand' \in Seq(PieceSet) /\ delivered' \in Seq(PieceSet)
        /\ pc' \in PcNames /\ verdict' \in {"ok", "failed"} /\ unwind' \in {unwind, Scope}
    <3>1. CASE delivered' = Append(delivered, Head(hand)) /\ hand' = <<>> /\ UNCHANGED <<pc, verdict, unwind>>
      BY <1>1, <2>2, <3>1
    <3>2. CASE Leave("failed") /\ UNCHANGED <<delivered, hand>>
      BY <1>1, <3>2 DEF Leave, PcNames
    <3>3. QED
      BY <1>7, <3>1, <3>2 DEF EncodeDirectly
  <2>4. UNCHANGED <<job, mode, visiting, taken, pending, outcome, queue, running, result, spills,
                    loader, loaded, fetched, temp>>
    BY <1>7 DEF EncodeDirectly, poolVars, loaderVars
  <2>5. unwind' \in Seq(Objects)
    BY <1>1, <2>3, ScopeFacts
  <2>6. QED
    BY <1>1, <2>3, <2>4, <2>5 DEF TypeInv, CallerTypes, OtherTypes
<1>8. CASE Submit
  <2>1. Head(hand) \in PieceSet /\ Tail(hand) \in Seq(PieceSet)
    BY <1>1, <1>8, TailSet, TailElements DEF Submit
  <2>2. queue' \in Seq(PieceSet) /\ pending' \in Seq(PieceSet) /\ hand' \in Seq(PieceSet)
    BY <1>1, <1>8, <2>1, AppendElements DEF Submit
  <2>3. UNCHANGED <<job, pc, verdict, mode, visiting, taken, delivered, outcome, running, result, spills,
                    loader, loaded, fetched, unwind, temp>>
    BY <1>8 DEF Submit, loaderVars, scopeVars
  <2>4. QED
    BY <1>1, <2>2, <2>3 DEF TypeInv, CallerTypes, OtherTypes
<1>9. CASE Drain \/ DrainFails
  <2>1. pending # <<>> /\ pending' = Tail(pending)
    BY <1>9 DEF Drain, DrainFails, MayDrain
  <2>2. pending' \in Seq(PieceSet) /\ Head(pending) \in PieceSet
    BY <1>1, <2>1, TailSet, TailElements
  <2>3. delivered' \in Seq(PieceSet)
    <3>1. Append(delivered, Head(pending)) \in Seq(PieceSet)
      BY <1>1, <2>2, AppendElements
    <3>2. delivered' \in {delivered, Append(delivered, Head(pending))}
      BY <1>9 DEF Drain, DrainFails
    <3>3. QED
      BY <1>1, <3>1, <3>2
  <2>4. DOMAIN spills' \subseteq PieceSet
    BY <1>1, <1>9 DEF Drain, DrainFails, Restrict, poolVars
  <2>5. /\ pc' \in PcNames /\ verdict' \in {"ok", "failed"} /\ unwind' \in {unwind, Scope}
        /\ visiting' \in BOOLEAN
        /\ UNCHANGED <<job, mode, taken, hand, outcome, queue, running, result,
                       loader, loaded, fetched, temp>>
    BY <1>1, <1>9 DEF Drain, DrainFails, Leave, PcNames, poolVars, loaderVars, scopeVars
  <2>6. unwind' \in Seq(Objects)
    BY <1>1, <2>5, ScopeFacts
  <2>7. QED
    BY <1>1, <2>2, <2>3, <2>4, <2>5, <2>6 DEF TypeInv, CallerTypes, OtherTypes
<1>10. CASE CancelLoader \/ JoinLoader \/ DropPending \/ JoinPool \/ DropContexts \/ RemoveTemp
  <2>1. unwind # <<>> /\ unwind' = Tail(unwind)
    BY <1>10 DEF CancelLoader, JoinLoader, DropPending, JoinPool, DropContexts, RemoveTemp, Destroy
  <2>2. unwind' \in Seq(Objects)
    BY <1>1, <2>1, TailElements
  <2>3. loaded' \in {loaded, <<>>} /\ pending' \in {pending, <<>>}
    BY <1>10 DEF CancelLoader, JoinLoader, DropPending, JoinPool, DropContexts, RemoveTemp,
                 callerVars, loaderVars
  <2>4. temp' \in {"none", "there", "removed"}
    BY <1>1, <1>10 DEF CancelLoader, JoinLoader, DropPending, JoinPool, DropContexts, RemoveTemp
  <2>5. DOMAIN spills' \subseteq PieceSet
    BY <1>1, <1>10 DEF CancelLoader, JoinLoader, DropPending, JoinPool, DropContexts, RemoveTemp, Restrict,
                       poolVars
  <2>6. loaded' \in Seq(0 .. Pieces) /\ pending' \in Seq(PieceSet)
    <3>1. <<>> \in Seq(0 .. Pieces) /\ <<>> \in Seq(PieceSet)
      OBVIOUS
    <3>2. QED
      BY <1>1, <2>3, <3>1
  <2>7. UNCHANGED <<job, pc, verdict, mode, visiting, taken, hand, delivered, outcome,
                    queue, running, result, loader, fetched>>
    BY <1>10 DEF CancelLoader, JoinLoader, DropPending, JoinPool, DropContexts, RemoveTemp,
                 callerVars, poolVars, loaderVars
  <2>8. QED
    BY <1>1, <2>2, <2>4, <2>5, <2>6, <2>7 DEF TypeInv, CallerTypes, OtherTypes
<1>11. CASE Loader
  <2>1. /\ loader' \in {"none", "wait", "inside", "ended"} /\ mode' \in {"probe", "palette", "generic"}
        /\ UNCHANGED <<job, pc, verdict, visiting, taken, hand, pending, delivered, outcome>>
        /\ UNCHANGED <<queue, running, result, spills, unwind, temp>>
    BY <1>1, <1>11 DEF Loader, LoaderEnter, LoaderEnds, LoaderReturns, callerVars, poolVars, scopeVars
  <2>2. CASE LoaderReturns
    <3>1. fetched' \in 0 .. Pieces /\ 0 \in 0 .. Pieces
      BY <1>1, <1>2, <2>2 DEF LoaderReturns, LoaderInv
    <3>2. loaded' \in Seq(0 .. Pieces)
      <4>1. Append(loaded, fetched') \in Seq(0 .. Pieces)
        BY <1>1, <3>1, AppendElements
      <4>2. Append(loaded, 0) \in Seq(0 .. Pieces)
        BY <1>1, <3>1, AppendElements
      <4>3. loaded' \in {Append(loaded, fetched'), Append(loaded, 0)}
        BY <2>2 DEF LoaderReturns
      <4>4. QED
        BY <4>1, <4>2, <4>3
    <3>3. QED
      BY <1>1, <2>1, <3>1, <3>2 DEF TypeInv, CallerTypes, OtherTypes
  <2>3. CASE LoaderEnter \/ LoaderEnds
    BY <1>1, <2>1, <2>3 DEF TypeInv, CallerTypes, OtherTypes, LoaderEnter, LoaderEnds
  <2>4. QED
    BY <1>11, <2>2, <2>3 DEF Loader
<1>12. CASE Worker
  <2>1. UNCHANGED <<job, pc, verdict, mode, visiting, taken, hand, pending, delivered, outcome>>
        /\ UNCHANGED <<loader, loaded, fetched, unwind, temp>>
    BY <1>12 DEF Worker, TakeTask, EncodeInMemory, EncodeToFile, callerVars, loaderVars, scopeVars
  <2>2. CASE TakeTask
    <3>1. queue' \in Seq(PieceSet) /\ running' \subseteq PieceSet
      BY <1>1, <2>2, TailSet, TailElements DEF TakeTask
    <3>2. QED
      BY <1>1, <2>1, <2>2, <3>1 DEF TypeInv, CallerTypes, OtherTypes, TakeTask
  <2>3. ASSUME NEW i \in running, EncodeInMemory(i) \/ EncodeToFile(i) PROVE TypeInv'
    <3>1. queue' = queue /\ running' = running \ {i}
      BY <2>3 DEF EncodeInMemory, EncodeToFile, Finish
    <3>2. DOMAIN result' = DOMAIN result \cup {i}
      BY <2>3 DEF EncodeInMemory, EncodeToFile, Finish, Noted
    <3>3. DOMAIN spills' \subseteq DOMAIN spills \cup {i}
      BY <2>3 DEF EncodeInMemory, EncodeToFile, Noted
    <3>4. QED
      BY <1>1, <2>1, <3>1, <3>2, <3>3 DEF TypeInv, CallerTypes, OtherTypes
  <2>4. QED
    BY <1>12, <2>2, <2>3 DEF Worker
<1>13. QED
  BY <1>3, <1>4, <1>5, <1>6, <1>7, <1>8, <1>9, <1>10, <1>11, <1>12
  DEF Next, Caller, Reading, Writing, Unwinding, Finished

LEMMA ReaderStep ==
  ASSUME TypeInv, ReaderInv, Next
  PROVE  ReaderInv'
<1>1. CASE Start \/ Enter \/ FallBack \/ Callback \/ VisitReturns \/ ReadFails
  BY <1>1 DEF Start, Enter, WantsBatch, Pipelined, FallBack, Callback, VisitReturns, ReadFails, Leave,
     ReaderInv, McFunction, loaderVars
<1>2. CASE LoadBatch
  <2>1. visiting' = FALSE /\ pc' = "next" /\ UNCHANGED <<job, loaded>>
        /\ (loader' # "none" => loader' = loader \/ McFunction)
    BY <1>2 DEF LoadBatch
  <2>2. loader = "none" /\ loaded = <<>>
    BY <1>2 DEF ReaderInv, LoadBatch
  <2>3. QED
    BY <2>1, <2>2 DEF ReaderInv, McFunction
<1>3. CASE TakeLoaded
  <2>1. loader # "none" /\ UNCHANGED <<job, visiting, loader>> /\ pc' \in {"next", "unwind"}
    BY <1>3 DEF TakeLoaded, WantsBatch, Pipelined, Leave
  <2>2. QED
    BY <2>1 DEF ReaderInv, McFunction
<1>4. CASE EncodeDirectly \/ Submit \/ Drain \/ DrainFails \/ AllTaken \/ AllDrained \/ ScanNbt
  BY <1>4 DEF EncodeDirectly, Sequential, Submit, Drain, DrainFails, MayDrain, AllTaken, AllDrained, ScanNbt,
     Leave, ReaderInv, McFunction, loaderVars
<1>5. CASE Unwinding
  BY <1>5 DEF Unwinding, CancelLoader, JoinLoader, DropPending, JoinPool, DropContexts, RemoveTemp, Return,
     Destroy, ReaderInv, McFunction, callerVars, loaderVars
<1>6. CASE Loader
  BY <1>6 DEF Loader, LoaderEnter, LoaderEnds, LoaderReturns, ReaderInv, McFunction, callerVars
<1>7. CASE Worker \/ ReadFreedContext \/ UNCHANGED vars
  BY <1>7 DEF Worker, TakeTask, EncodeInMemory, EncodeToFile, ReadFreedContext, vars, ReaderInv, McFunction,
     callerVars, loaderVars
<1>8. QED
  BY <1>1, <1>2, <1>3, <1>4, <1>5, <1>6, <1>7 DEF Next, Caller, Reading, Writing, Finished

LEMMA TakenStep ==
  ASSUME TypeInv, ReaderInv, TakenInv, Next
  PROVE  TakenInv'
<1>1. /\ job \in Jobs /\ pc \in PcNames /\ taken \in 0 .. Pieces /\ hand \in Seq(PieceSet)
      /\ job.per \in Nat \ {0} /\ Pieces % job.per = 0 /\ (McFunction => job.per = 1)
      /\ Pieces \in Nat \ {0} /\ 0 % job.per = 0
  BY JobFacts DEF TypeInv, CallerTypes
<1>2. CASE Start \/ Enter \/ FallBack \/ VisitReturns \/ ReadFails
  BY <1>1, <1>2 DEF Start, Enter, WantsBatch, FallBack, VisitReturns, ReadFails, Leave, TakenInv, McFunction
<1>3. CASE LoadBatch
  <2>1. taken' % job'.per = 0 /\ Len(hand') = job.per
    BY <1>3, BatchFacts DEF LoadBatch
  <2>2. pc' = "next" /\ visiting' = FALSE /\ job' = job
    BY <1>3 DEF LoadBatch
  <2>3. QED
    BY <1>1, <2>1, <2>2 DEF TakenInv, McFunction
<1>4. CASE Callback
  BY <1>4 DEF Callback, TakenInv, McFunction
<1>5. CASE TakeLoaded
  <2>1. McFunction /\ job.per = 1 /\ pc = "next" /\ UNCHANGED <<job, visiting>>
    BY <1>1, <1>5 DEF TakeLoaded, Pipelined, WantsBatch, ReaderInv
  <2>2. (pc' = "unwind" /\ UNCHANGED hand) \/ (pc' = "next" /\ hand' = <<Head(loaded)>>)
    BY <1>5 DEF TakeLoaded, WantsBatch, Leave
  <2>3. Len(hand') <= 1
    <3>1. Len(hand) <= 1 /\ Len(<<Head(loaded)>>) <= 1
      BY <2>1 DEF TakenInv
    <3>2. QED
      BY <2>2, <3>1
  <2>4. taken' % 1 = 0
    <3>1. taken' \in {taken, taken + 1}
      BY <1>5 DEF TakeLoaded
    <3>2. \A x \in Int : x % 1 \in 0 .. 0
      OBVIOUS
    <3>3. taken' \in Int
      BY <1>1, <3>1
    <3>4. taken' % 1 \in 0 .. 0
      BY <3>2, <3>3
    <3>5. QED
      BY <3>4
  <2>5. QED
    BY <2>1, <2>2, <2>3, <2>4 DEF TakenInv, McFunction
<1>6. CASE EncodeDirectly
  <2>1. pc = "next" /\ UNCHANGED <<job, visiting, taken>>
    BY <1>6 DEF EncodeDirectly
  <2>2. (pc' = "unwind" /\ UNCHANGED hand) \/ (pc' = "next" /\ hand' = <<>>)
    BY <1>6 DEF EncodeDirectly, Leave
  <2>3. QED
    BY <2>1, <2>2 DEF TakenInv, McFunction
<1>7. CASE Submit
  <2>1. pc = "next" /\ hand # <<>> /\ hand' = Tail(hand) /\ UNCHANGED <<job, pc, visiting, taken>>
    BY <1>7 DEF Submit
  <2>2. Len(hand') = Len(hand) - 1 /\ Len(hand) \in Nat
    BY <1>1, <2>1, TailElements
  <2>3. QED
    BY <2>1, <2>2 DEF TakenInv, McFunction
<1>8. CASE Drain \/ DrainFails \/ AllTaken \/ AllDrained \/ ScanNbt
  BY <1>8 DEF Drain, DrainFails, MayDrain, AllTaken, AllDrained, ScanNbt, Leave, TakenInv, McFunction
<1>9. CASE Unwinding
  BY <1>9 DEF Unwinding, CancelLoader, JoinLoader, DropPending, JoinPool, DropContexts, RemoveTemp, Return,
     Destroy, TakenInv, McFunction, callerVars
<1>10. CASE Loader \/ Worker \/ ReadFreedContext \/ UNCHANGED vars
  <2>1. UNCHANGED <<job, pc, visiting, taken, hand>>
    BY <1>10 DEF Loader, LoaderEnter, LoaderEnds, LoaderReturns, Worker, TakeTask, EncodeInMemory, EncodeToFile,
       ReadFreedContext, vars, callerVars
  <2>2. QED
    BY <2>1 DEF TakenInv, McFunction
<1>11. QED
  BY <1>2, <1>3, <1>4, <1>5, <1>6, <1>7, <1>8, <1>9, <1>10 DEF Next, Caller, Reading, Writing, Finished

(***************************************************************************)
(* Order.                                                                  *)
(***************************************************************************)

LEMMA OrderKept ==
  ASSUME OrderInv, UNCHANGED <<taken, hand, pending, delivered>>,
         Working' => Working,
         pc' = "nbt" => pending = <<>>,
         verdict' = "ok" /\ pc' = "unwind" => Len(delivered) = Pieces
  PROVE  OrderInv'
BY DEF OrderInv

LEMMA OrderStep ==
  ASSUME TypeInv, ReaderInv, TakenInv, OrderInv, LoaderInv, PoolInv, Next
  PROVE  OrderInv'
<1>1. /\ hand \in Seq(PieceSet) /\ pending \in Seq(PieceSet) /\ delivered \in Seq(PieceSet)
      /\ Len(hand) \in Nat /\ Len(pending) \in Nat /\ Len(delivered) \in Nat
      /\ taken \in Nat /\ loaded \in Seq(0 .. Pieces) /\ pc \in PcNames /\ Pieces \in Nat
  BY JobFacts, LenProperties DEF TypeInv, CallerTypes, OtherTypes
<1>2. /\ \A i \in DOMAIN delivered : delivered[i] = i
      /\ Working =>
           /\ taken = Len(delivered) + Len(pending) + Len(hand)
           /\ \A i \in DOMAIN pending : pending[i] = Len(delivered) + i
           /\ \A i \in DOMAIN hand : hand[i] = Len(delivered) + Len(pending) + i
  BY DEF OrderInv
<1>3. CASE Start \/ Enter \/ FallBack \/ VisitReturns \/ ReadFails \/ AllTaken
  <2>1. /\ UNCHANGED <<taken, hand, pending, delivered>>
        /\ Working /\ pc' # "nbt" /\ (pc' = "unwind" => verdict' = "failed")
    BY <1>3 DEF Start, Enter, WantsBatch, FallBack, VisitReturns, ReadFails, AllTaken, Leave, Working
  <2>2. QED
    BY <2>1, OrderKept
<1>4. CASE AllDrained \/ ScanNbt
  <2>1. UNCHANGED <<taken, hand, pending, delivered>> /\ pc \in {"tail", "nbt"} /\ pending = <<>>
    BY <1>4 DEF AllDrained, ScanNbt, OrderInv
  <2>2. Len(delivered) = Pieces /\ Working
    BY <1>1, <1>2, <2>1 DEF TakenInv, Working
  <2>3. QED
    BY <2>1, <2>2, OrderKept
<1>5. CASE LoadBatch
  <2>1. pc = "inside" /\ hand = <<>> /\ Working /\ Working' /\ pc' = "next"
    BY <1>5 DEF LoadBatch, TakenInv, Working
  <2>2. /\ Len(hand') = job.per /\ DOMAIN hand' = 1 .. job.per /\ job.per \in Nat
        /\ hand' = [k \in 1 .. job.per |-> taken + k] /\ taken' = taken + job.per
        /\ UNCHANGED <<pending, delivered>>
    BY <1>5, <2>1, BatchFacts, JobFacts DEF LoadBatch, TypeInv, CallerTypes
  <2>3. taken = Len(delivered) + Len(pending)
    BY <1>1, <1>2, <2>1
  <2>4. taken' = Len(delivered) + Len(pending) + Len(hand')
    BY <1>1, <2>2, <2>3
  <2>5. \A k \in DOMAIN hand' : hand'[k] = Len(delivered) + Len(pending) + k
    BY <1>1, <2>2, <2>3
  <2>6. QED
    BY <1>2, <2>1, <2>2, <2>4, <2>5 DEF OrderInv
<1>6. ASSUME NEW e, e = taken + 1, hand = <<>>, Working, hand' = <<e>>, taken' = taken + 1,
             pc' = "next", UNCHANGED <<pending, delivered>>
      PROVE  OrderInv'
  <2>1. taken = Len(delivered) + Len(pending)
    BY <1>1, <1>2, <1>6
  <2>2. DOMAIN hand' = {1} /\ Len(hand') = 1 /\ hand'[1] = e
    BY <1>6
  <2>3. taken' = Len(delivered) + Len(pending) + Len(hand') /\ hand'[1] = Len(delivered) + Len(pending) + 1
    BY <1>1, <1>6, <2>1, <2>2
  <2>4. QED
    BY <1>2, <1>6, <2>2, <2>3 DEF OrderInv
<1>7. CASE Callback
  <2>1. /\ hand = <<>> /\ hand' = <<taken + 1>> /\ taken' = taken + 1 /\ pc' = "next"
        /\ UNCHANGED <<pending, delivered>> /\ Working
    BY <1>7 DEF Callback, Working
  <2>2. QED
    BY <1>6, <2>1
<1>8. CASE TakeLoaded
  <2>1. Working /\ loader # "none" /\ loaded # <<>> /\ hand = <<>> /\ pc = "next"
        /\ UNCHANGED <<pending, delivered>>
    BY <1>8 DEF TakeLoaded, WantsBatch, Pipelined, Working
  <2>2. CASE Head(loaded) = 0
    <3>1. UNCHANGED <<taken, hand, pending, delivered>> /\ pc' = "unwind" /\ verdict' = "failed"
      BY <1>8, <2>2 DEF TakeLoaded, Leave
    <3>2. QED
      BY <2>1, <3>1, OrderKept
  <2>3. CASE Head(loaded) # 0
    <3>1. Head(loaded) = loaded[1] /\ 1 \in DOMAIN loaded
      BY <1>1, <2>1, TailElements
    <3>2. Head(loaded) = taken + 1
      BY <2>1, <2>3, <3>1 DEF LoaderInv
    <3>3. hand' = <<Head(loaded)>> /\ taken' = taken + 1 /\ pc' = "next"
      BY <1>8, <2>1, <2>3 DEF TakeLoaded
    <3>4. QED
      BY <1>6, <2>1, <3>2, <3>3
  <2>4. QED
    BY <2>2, <2>3
<1>9. ASSUME NEW e \in PieceSet, e = Len(delivered) + 1, delivered' = Append(delivered, e)
      PROVE  /\ Len(delivered') = Len(delivered) + 1 /\ Len(delivered') \in Nat
             /\ \A i \in DOMAIN delivered' : delivered'[i] = i
  <2>1. /\ Len(delivered') = Len(delivered) + 1 /\ DOMAIN delivered = 1 .. Len(delivered)
        /\ DOMAIN delivered' = 1 .. Len(delivered) + 1
        /\ \A i \in 1 .. Len(delivered) : delivered'[i] = delivered[i]
        /\ delivered'[Len(delivered) + 1] = e
        /\ \A i \in 1 .. Len(delivered) + 1 : i \in 1 .. Len(delivered) \/ i = Len(delivered) + 1
    BY <1>1, <1>9, AppendElements
  <2>2. QED
    BY <1>1, <1>2, <1>9, <2>1
<1>10. CASE EncodeDirectly
  <2>1. Working /\ hand # <<>> /\ Sequential /\ pc = "next" /\ UNCHANGED <<taken, pending>> /\ McFunction
    BY <1>10 DEF EncodeDirectly, Working, Sequential
  <2>2. pending = <<>> /\ Len(hand) = 1 /\ Head(hand) = hand[1] /\ 1 \in DOMAIN hand
        /\ Head(hand) \in PieceSet
    <3>1. Head(hand) = hand[1] /\ 1 \in DOMAIN hand /\ Len(hand) \in Nat \ {0} /\ Head(hand) \in PieceSet
      BY <1>1, <2>1, TailElements, TailSet
    <3>2. pending = <<>> /\ Len(hand) <= 1
      BY <2>1 DEF PoolInv, TakenInv
    <3>3. Len(hand) = 1
      BY <3>1, <3>2
    <3>4. QED
      BY <3>1, <3>2, <3>3
  <2>3. CASE delivered' = Append(delivered, Head(hand)) /\ hand' = <<>> /\ UNCHANGED <<pc, verdict, unwind>>
    <3>1. Len(pending) = 0 /\ Len(hand') = 0 /\ DOMAIN hand' = {} /\ DOMAIN pending = {}
      BY <2>2, <2>3
    <3>2. Head(hand) = Len(delivered) + 1 /\ taken = Len(delivered) + 1
      BY <1>1, <1>2, <2>1, <2>2, <3>1
    <3>3. /\ Len(delivered') = Len(delivered) + 1 /\ Len(delivered') \in Nat
          /\ \A i \in DOMAIN delivered' : delivered'[i] = i
      BY <1>9, <2>2, <2>3, <3>2
    <3>4. taken' = Len(delivered') + Len(pending') + Len(hand') /\ pc' = "next" /\ DOMAIN pending' = {}
      BY <1>1, <2>1, <2>3, <3>1, <3>2, <3>3
    <3>5. QED
      BY <3>1, <3>3, <3>4 DEF OrderInv
  <2>4. CASE Leave("failed") /\ UNCHANGED <<delivered, hand>>
    BY <2>1, <2>4, OrderKept DEF Leave
  <2>5. QED
    BY <1>10, <2>3, <2>4 DEF EncodeDirectly
<1>11. CASE Submit
  <2>1. /\ pc = "next" /\ pc' = "next" /\ hand # <<>> /\ Working
        /\ pending' = Append(pending, Head(hand)) /\ hand' = Tail(hand)
        /\ UNCHANGED <<taken, delivered>>
    BY <1>11 DEF Submit, Working
  <2>2. /\ Head(hand) = hand[1] /\ 1 \in DOMAIN hand /\ Len(hand) \in Nat \ {0}
        /\ Len(hand') = Len(hand) - 1
        /\ \A i \in DOMAIN hand' : i + 1 \in DOMAIN hand /\ hand'[i] = hand[i + 1]
        /\ DOMAIN hand' = 1 .. Len(hand) - 1 /\ Head(hand) \in PieceSet
    BY <1>1, <2>1, TailElements, TailSet
  <2>3. Head(hand) = Len(delivered) + Len(pending) + 1
    BY <1>1, <1>2, <2>1, <2>2
  <2>4. /\ Len(pending') = Len(pending) + 1 /\ DOMAIN pending = 1 .. Len(pending)
        /\ DOMAIN pending' = 1 .. Len(pending) + 1
        /\ \A i \in 1 .. Len(pending) : pending'[i] = pending[i]
        /\ pending'[Len(pending) + 1] = Head(hand)
        /\ \A i \in 1 .. Len(pending) + 1 : i \in 1 .. Len(pending) \/ i = Len(pending) + 1
    BY <1>1, <2>1, <2>2, AppendElements
  <2>5. ASSUME NEW i \in DOMAIN pending' PROVE pending'[i] = Len(delivered) + i
    <3>1. CASE i \in 1 .. Len(pending)
      BY <1>2, <2>1, <2>4, <3>1
    <3>2. CASE i = Len(pending) + 1
      BY <1>1, <2>3, <2>4, <3>2
    <3>3. QED
      BY <2>4, <3>1, <3>2
  <2>6. ASSUME NEW i \in DOMAIN hand' PROVE hand'[i] = Len(delivered) + Len(pending') + i
    <3>1. hand'[i] = Len(delivered) + Len(pending) + (i + 1) /\ i \in Nat
      BY <1>1, <1>2, <2>1, <2>2
    <3>2. QED
      BY <1>1, <2>4, <3>1
  <2>7. taken' = Len(delivered') + Len(pending') + Len(hand')
    BY <1>1, <1>2, <2>1, <2>2, <2>4
  <2>8. QED
    BY <1>2, <2>1, <2>5, <2>6, <2>7 DEF OrderInv
<1>12. CASE Drain
  <2>1. /\ pc \in {"next", "tail"} /\ pc' = pc /\ pending # <<>> /\ Working
        /\ delivered' = Append(delivered, Head(pending)) /\ pending' = Tail(pending)
        /\ UNCHANGED <<taken, hand, verdict>>
    BY <1>12 DEF Drain, MayDrain, Working
  <2>2. /\ Head(pending) = pending[1] /\ 1 \in DOMAIN pending /\ Len(pending) \in Nat \ {0}
        /\ Len(pending') = Len(pending) - 1
        /\ \A i \in DOMAIN pending' : i + 1 \in DOMAIN pending /\ pending'[i] = pending[i + 1]
        /\ DOMAIN pending' = 1 .. Len(pending) - 1 /\ Head(pending) \in PieceSet
    BY <1>1, <2>1, TailElements, TailSet
  <2>3. Head(pending) = Len(delivered) + 1
    BY <1>1, <1>2, <2>1, <2>2
  <2>4. /\ Len(delivered') = Len(delivered) + 1 /\ Len(delivered') \in Nat
        /\ \A i \in DOMAIN delivered' : delivered'[i] = i
    BY <1>9, <2>1, <2>2, <2>3
  <2>5. ASSUME NEW i \in DOMAIN pending' PROVE pending'[i] = Len(delivered') + i
    <3>1. pending'[i] = Len(delivered) + (i + 1) /\ i \in Nat
      BY <1>1, <1>2, <2>1, <2>2
    <3>2. QED
      BY <1>1, <2>4, <3>1
  <2>6. \A i \in DOMAIN hand' : hand'[i] = Len(delivered') + Len(pending') + i
    <3>1. Len(delivered') + Len(pending') = Len(delivered) + Len(pending)
      BY <1>1, <2>2, <2>4
    <3>2. QED
      BY <1>2, <2>1, <3>1
  <2>7. taken' = Len(delivered') + Len(pending') + Len(hand')
    BY <1>1, <1>2, <2>1, <2>2, <2>4
  <2>8. QED
    BY <2>1, <2>4, <2>5, <2>6, <2>7 DEF OrderInv
<1>13. CASE DrainFails
  <2>1. pc' = "unwind" /\ verdict' = "failed" /\ UNCHANGED delivered
    BY <1>13 DEF DrainFails, Leave
  <2>2. QED
    BY <1>2, <2>1 DEF OrderInv, Working
<1>14. CASE Unwinding
  <2>1. pc = "unwind" /\ pc' \in {"unwind", "returned"} /\ UNCHANGED <<verdict, delivered>>
    BY <1>14 DEF Unwinding, CancelLoader, JoinLoader, DropPending, JoinPool, DropContexts, RemoveTemp, Return,
       Destroy, callerVars
  <2>2. QED
    BY <2>1 DEF OrderInv, Working
<1>15. CASE Loader \/ Worker \/ ReadFreedContext \/ UNCHANGED vars
  <2>1. UNCHANGED <<pc, verdict, taken, hand, pending, delivered>>
    BY <1>15 DEF Loader, LoaderEnter, LoaderEnds, LoaderReturns, Worker, TakeTask, EncodeInMemory, EncodeToFile,
       ReadFreedContext, vars, callerVars
  <2>2. QED
    BY <2>1 DEF OrderInv, Working
<1>16. QED
  BY <1>3, <1>4, <1>5, <1>7, <1>8, <1>10, <1>11, <1>12, <1>13, <1>14, <1>15
  DEF Next, Caller, Reading, Writing, Finished

(***************************************************************************)
(* The loader and the pool.                                                *)
(***************************************************************************)

LEMMA JobKept ==
  ASSUME Next
  PROVE  /\ job' = job /\ McFunction' = McFunction /\ Sequential' = Sequential /\ Workers' = Workers
         /\ MaxInFlight' = MaxInFlight /\ PrefetchBatches' = PrefetchBatches /\ SpillShare' = SpillShare
<1>1. CASE Caller
  BY <1>1 DEF Caller, Start, Reading, Enter, FallBack, LoadBatch, Callback, VisitReturns, ReadFails, TakeLoaded,
     Writing, EncodeDirectly, Submit, Drain, DrainFails, AllTaken, AllDrained, ScanNbt,
     Unwinding, CancelLoader, JoinLoader, DropPending, JoinPool, DropContexts, RemoveTemp, Return, callerVars,
     McFunction, Sequential, Workers, MaxInFlight, PrefetchBatches, SpillShare
<1>2. CASE Loader \/ Worker \/ ReadFreedContext \/ UNCHANGED vars
  BY <1>2 DEF Loader, LoaderEnter, LoaderEnds, LoaderReturns, Worker, TakeTask, EncodeInMemory, EncodeToFile,
     ReadFreedContext, vars, callerVars,
     McFunction, Sequential, Workers, MaxInFlight, PrefetchBatches, SpillShare
<1>3. QED
  BY <1>1, <1>2 DEF Next, Finished

LEMMA LoaderStep ==
  ASSUME TypeInv, ReaderInv, TakenInv, LoaderInv, Next
  PROVE  LoaderInv'
<1>1. /\ loaded \in Seq(0 .. Pieces) /\ taken \in Nat /\ fetched \in Nat /\ Pieces \in Nat
      /\ Len(loaded) \in Nat
  BY JobFacts, LenProperties DEF TypeInv, CallerTypes, OtherTypes
<1>2. /\ loader = "inside" => fetched < Pieces
      /\ Working /\ loader # "none" =>
           fetched = taken + Len(loaded) /\ \A i \in DOMAIN loaded : loaded[i] \in {0, taken + i}
  BY DEF LoaderInv
<1>3. CASE /\ UNCHANGED <<taken, loader, loaded, fetched>>
           /\ Working' => Working
  BY <1>3 DEF LoaderInv
<1>4. CASE Start \/ Enter \/ FallBack \/ VisitReturns \/ ReadFails
  <2>1. UNCHANGED <<taken, loader, loaded, fetched>> /\ Working
    BY <1>4 DEF Start, Enter, WantsBatch, FallBack, VisitReturns, ReadFails, loaderVars, Working
  <2>2. QED
    BY <1>3, <2>1
<1>5. CASE LoadBatch
  <2>1. loader = "none" /\ loaded = <<>> /\ UNCHANGED loaded
        /\ ((loader' = "wait" /\ fetched' = taken') \/ UNCHANGED <<loader, fetched>>)
    BY <1>5 DEF LoadBatch, ReaderInv
  <2>2. Len(loaded') = 0 /\ DOMAIN loaded' = {} /\ taken' \in Nat
    BY <1>5, <2>1, BatchFacts DEF LoadBatch
  <2>3. QED
    BY <2>1, <2>2 DEF LoaderInv
<1>6. CASE Callback
  <2>1. loader = "none" /\ loader' = "none"
    BY <1>6 DEF Callback, ReaderInv, loaderVars
  <2>2. QED
    BY <2>1 DEF LoaderInv
<1>7. CASE TakeLoaded
  <2>1. Working /\ loader # "none" /\ loaded # <<>> /\ loaded' = Tail(loaded) /\ UNCHANGED <<loader, fetched>>
    BY <1>7 DEF TakeLoaded, WantsBatch, Pipelined, Working
  <2>2. CASE Head(loaded) = 0
    <3>1. ~Working'
      BY <1>7, <2>2 DEF TakeLoaded, Leave, Working
    <3>2. QED
      BY <1>2, <2>1, <3>1 DEF LoaderInv
  <2>3. CASE Head(loaded) # 0
    <3>1. taken' = taken + 1
      BY <1>7, <2>3 DEF TakeLoaded
    <3>2. /\ Len(loaded') = Len(loaded) - 1 /\ DOMAIN loaded' = 1 .. Len(loaded) - 1
          /\ \A i \in DOMAIN loaded' : i + 1 \in DOMAIN loaded /\ loaded'[i] = loaded[i + 1]
      BY <1>1, <2>1, TailElements
    <3>3. fetched' = taken' + Len(loaded')
      BY <1>1, <1>2, <2>1, <3>1, <3>2
    <3>4. ASSUME NEW i \in DOMAIN loaded' PROVE loaded'[i] \in {0, taken' + i}
      <4>1. loaded'[i] \in {0, taken + (i + 1)} /\ i \in Nat
        BY <1>1, <1>2, <2>1, <3>2
      <4>2. taken + (i + 1) = taken' + i
        BY <1>1, <3>1, <4>1
      <4>3. QED
        BY <4>1, <4>2
    <3>5. QED
      BY <1>2, <2>1, <3>3, <3>4 DEF LoaderInv
  <2>4. QED
    BY <2>2, <2>3
<1>8. CASE EncodeDirectly \/ Submit \/ Drain \/ DrainFails \/ AllTaken \/ AllDrained \/ ScanNbt
  <2>1. UNCHANGED <<taken, loader, loaded, fetched>> /\ Working
    BY <1>8 DEF EncodeDirectly, Submit, Drain, DrainFails, MayDrain, AllTaken, AllDrained, ScanNbt,
       loaderVars, Working
  <2>2. QED
    BY <1>3, <2>1
<1>9. CASE Unwinding
  <2>1. pc' \in {"unwind", "returned"} /\ UNCHANGED <<loader, fetched>>
    BY <1>9 DEF Unwinding, CancelLoader, JoinLoader, DropPending, JoinPool, DropContexts, RemoveTemp, Return,
       Destroy, callerVars, loaderVars
  <2>2. QED
    BY <2>1, <1>2 DEF LoaderInv, Working
<1>10. CASE LoaderEnter \/ LoaderEnds
  <2>1. UNCHANGED <<pc, taken, loaded, fetched>> /\ loader # "none" /\ (loader' = "inside" => fetched < Pieces)
    BY <1>10 DEF LoaderEnter, LoaderEnds, callerVars
  <2>2. QED
    BY <2>1, <1>2 DEF LoaderInv, Working
<1>11. CASE LoaderReturns
  <2>1. loader = "inside" /\ loader' \in {"wait", "ended"} /\ fetched' = fetched + 1 /\ UNCHANGED <<pc, taken>>
    BY <1>11 DEF LoaderReturns
  <2>2. PICK e \in {0, fetched + 1} : loaded' = Append(loaded, e)
    BY <1>11 DEF LoaderReturns
  <2>3. e \in 0 .. Pieces
    BY <1>1, <1>2, <2>1
  <2>4. /\ Len(loaded') = Len(loaded) + 1 /\ DOMAIN loaded = 1 .. Len(loaded)
        /\ DOMAIN loaded' = 1 .. Len(loaded) + 1
        /\ \A i \in 1 .. Len(loaded) : loaded'[i] = loaded[i]
        /\ loaded'[Len(loaded) + 1] = e
        /\ \A i \in 1 .. Len(loaded) + 1 : i \in 1 .. Len(loaded) \/ i = Len(loaded) + 1
    BY <1>1, <2>2, <2>3, AppendElements
  <2>5. ASSUME Working PROVE fetched' = taken' + Len(loaded') /\ e \in {0, taken' + (Len(loaded) + 1)}
    BY <1>1, <1>2, <2>1, <2>2, <2>4, <2>5
  <2>6. ASSUME Working, NEW i \in DOMAIN loaded' PROVE loaded'[i] \in {0, taken' + i}
    <3>1. CASE i \in 1 .. Len(loaded)
      BY <1>2, <2>1, <2>4, <2>6, <3>1
    <3>2. CASE i = Len(loaded) + 1
      BY <2>4, <2>5, <2>6, <3>2
    <3>3. QED
      BY <2>4, <3>1, <3>2
  <2>7. QED
    BY <2>1, <2>5, <2>6 DEF LoaderInv, Working
<1>12. CASE Worker \/ ReadFreedContext \/ UNCHANGED vars
  <2>1. UNCHANGED <<pc, taken, loader, loaded, fetched>>
    BY <1>12 DEF Worker, TakeTask, EncodeInMemory, EncodeToFile, ReadFreedContext, vars, callerVars, loaderVars
  <2>2. QED
    BY <1>3, <2>1 DEF Working
<1>13. QED
  BY <1>4, <1>5, <1>6, <1>7, <1>8, <1>9, <1>10, <1>11, <1>12
  DEF Next, Caller, Reading, Writing, Loader, Finished

LEMMA PoolStep ==
  ASSUME TypeInv, ReaderInv, TakenInv, OrderInv, PoolInv, Next
  PROVE  PoolInv'
<1>1. /\ hand \in Seq(PieceSet) /\ pending \in Seq(PieceSet) /\ queue \in Seq(PieceSet)
      /\ Len(hand) \in Nat /\ Len(pending) \in Nat /\ Len(delivered) \in Nat
      /\ DOMAIN pending = 1 .. Len(pending)
  BY LenProperties DEF TypeInv, CallerTypes, OtherTypes
<1>2. /\ \A i, j \in DOMAIN queue : queue[i] = queue[j] => i = j
      /\ ToSet(queue) \cap running = {} /\ Waiting \cap DOMAIN result = {}
      /\ Working => /\ Waiting \cup DOMAIN spills \subseteq ToSet(pending)
                    /\ DOMAIN result \subseteq 1 .. Len(delivered) + Len(pending)
      /\ pc = "start" \/ Sequential => Waiting = {} /\ pending = <<>> /\ DOMAIN result = {}
  BY DEF PoolInv
<1>3. Sequential' = Sequential
  BY JobKept
<1>4. CASE /\ UNCHANGED <<poolVars, delivered, pending>>
           /\ Working' => Working
           /\ pc' = "start" => pc = "start"
  BY <1>3, <1>4 DEF PoolInv, Waiting, poolVars
<1>5. CASE Start \/ Reading \/ AllTaken \/ AllDrained \/ ScanNbt
  <2>1. UNCHANGED <<poolVars, delivered, pending>> /\ Working /\ pc' # "start"
    BY <1>5 DEF Start, Reading, Enter, WantsBatch, FallBack, LoadBatch, Callback, VisitReturns, ReadFails,
       TakeLoaded, AllTaken, AllDrained, ScanNbt, Leave, Working
  <2>2. QED
    BY <1>4, <2>1
<1>6. CASE EncodeDirectly
  <2>1. Sequential /\ UNCHANGED <<poolVars, pending>> /\ pc' # "start"
    BY <1>6 DEF EncodeDirectly, Leave
  <2>2. Waiting' = {} /\ DOMAIN result' = {} /\ pending' = <<>> /\ DOMAIN spills' = {}
    <3>1. ToSet(pending) = {}
      BY <1>2, <2>1 DEF ToSet
    <3>2. Working
      BY <1>6 DEF EncodeDirectly, Working
    <3>3. QED
      BY <1>2, <2>1, <3>1, <3>2 DEF poolVars, Waiting
  <2>3. UNCHANGED <<queue, running>>
    BY <2>1 DEF poolVars
  <2>4. QED
    BY <1>2, <2>2, <2>3 DEF PoolInv
<1>7. CASE Submit
  <2>1. /\ pc = "next" /\ pc' = "next" /\ hand # <<>> /\ Working /\ ~Sequential
        /\ pending' = Append(pending, Head(hand)) /\ queue' = Append(queue, Head(hand))
        /\ UNCHANGED <<running, result, spills, delivered>>
    BY <1>7 DEF Submit, Working
  <2>2. Head(hand) = hand[1] /\ 1 \in DOMAIN hand /\ Head(hand) \in PieceSet
    BY <1>1, <2>1, TailElements, TailSet
  <2>3. Head(hand) = Len(delivered) + Len(pending) + 1
    BY <1>1, <2>1, <2>2 DEF OrderInv
  <2>4. Head(hand) \notin ToSet(pending)
    <3>1. \A i \in DOMAIN pending : pending[i] = Len(delivered) + i
      BY <2>1 DEF OrderInv
    <3>2. ASSUME NEW i \in DOMAIN pending PROVE pending[i] # Head(hand)
      BY <1>1, <2>3, <3>1, <3>2
    <3>3. QED
      BY <3>2 DEF ToSet
  <2>5. Head(hand) \notin Waiting /\ Head(hand) \notin DOMAIN result /\ Head(hand) \notin ToSet(queue)
        /\ Head(hand) \notin running
    <3>1. Head(hand) \notin 1 .. Len(delivered) + Len(pending)
      BY <1>1, <2>3
    <3>2. QED
      BY <1>2, <2>1, <2>4, <3>1 DEF Waiting
  <2>6. ToSet(queue') = ToSet(queue) \cup {Head(hand)} /\ ToSet(pending') = ToSet(pending) \cup {Head(hand)}
    BY <1>1, <2>1, <2>2, AppendsSet
  <2>7. Waiting' = Waiting \cup {Head(hand)}
    BY <2>1, <2>6 DEF Waiting
  <2>8. \A i, j \in DOMAIN queue' : queue'[i] = queue'[j] => i = j
    <3>1. /\ DOMAIN queue = 1 .. Len(queue) /\ DOMAIN queue' = 1 .. Len(queue) + 1
          /\ \A i \in 1 .. Len(queue) : queue'[i] = queue[i]
          /\ queue'[Len(queue) + 1] = Head(hand)
          /\ \A i \in 1 .. Len(queue) + 1 : i \in 1 .. Len(queue) \/ i = Len(queue) + 1
      BY <1>1, <2>1, <2>2, AppendElements
    <3>2. \A i \in 1 .. Len(queue) : queue[i] # Head(hand)
      BY <2>5, <3>1 DEF ToSet
    <3>3. QED
      BY <1>2, <3>1, <3>2
  <2>9. 1 .. Len(delivered) + Len(pending) \subseteq 1 .. Len(delivered') + Len(pending')
    <3>1. Len(pending') = Len(pending) + 1 /\ Len(delivered') = Len(delivered)
      BY <1>1, <2>1, <2>2, AppendElements
    <3>2. QED
      BY <1>1, <3>1
  <2>10. ToSet(queue') \cap running' = {} /\ Waiting' \cap DOMAIN result' = {}
         /\ Waiting' \cup DOMAIN spills' \subseteq ToSet(pending')
         /\ DOMAIN result' \subseteq 1 .. Len(delivered') + Len(pending')
    BY <1>2, <2>1, <2>5, <2>6, <2>7, <2>9
  <2>11. QED
    BY <1>3, <2>1, <2>8, <2>10 DEF PoolInv
<1>8. CASE Drain
  <2>1. /\ pc \in {"next", "tail"} /\ pc' = pc /\ pending # <<>> /\ Working
        /\ delivered' = Append(delivered, Head(pending)) /\ pending' = Tail(pending)
        /\ DOMAIN spills' = DOMAIN spills \ {Head(pending)} /\ Head(pending) \in DOMAIN result
        /\ UNCHANGED <<queue, running, result>>
    BY <1>8 DEF Drain, MayDrain, Working, Restrict
  <2>2. /\ ToSet(pending) = ToSet(pending') \cup {Head(pending)} /\ Len(pending') = Len(pending) - 1
        /\ Head(pending) \in PieceSet
    BY <1>1, <2>1, TailElements, TailSet
  <2>3. Len(delivered') = Len(delivered) + 1
    BY <2>1, <2>2, AppendElements DEF TypeInv, CallerTypes
  <2>4. Len(delivered') + Len(pending') = Len(delivered) + Len(pending)
    BY <1>1, <2>2, <2>3
  <2>5. Waiting' = Waiting /\ Head(pending) \notin Waiting
    BY <1>2, <2>1 DEF Waiting
  <2>6. Waiting' \cup DOMAIN spills' \subseteq ToSet(pending')
    BY <1>2, <2>1, <2>2, <2>5
  <2>7. pc' # "start" /\ ~Sequential'
    BY <1>2, <1>3, <2>1
  <2>8. QED
    BY <1>2, <2>1, <2>4, <2>5, <2>6, <2>7 DEF PoolInv
<1>9. CASE DrainFails
  <2>1. pending # <<>> /\ UNCHANGED poolVars /\ pc' = "unwind"
    BY <1>9 DEF DrainFails, MayDrain, Leave
  <2>2. ~Sequential'
    BY <1>2, <1>3, <2>1
  <2>3. UNCHANGED <<queue, running, result, spills>> /\ Waiting' = Waiting
    BY <2>1 DEF poolVars, Waiting
  <2>4. QED
    BY <1>2, <2>1, <2>2, <2>3 DEF PoolInv, Working
<1>10. CASE Unwinding
  <2>1. /\ pc' \in {"unwind", "returned"} /\ pending' \in {pending, <<>>}
        /\ UNCHANGED <<queue, running, result>>
    BY <1>10 DEF Unwinding, CancelLoader, JoinLoader, DropPending, JoinPool, DropContexts, RemoveTemp, Return,
       Destroy, callerVars, poolVars
  <2>2. Waiting' = Waiting
    BY <2>1 DEF Waiting
  <2>3. QED
    BY <1>2, <1>3, <2>1, <2>2 DEF PoolInv, Working
<1>11. CASE Loader \/ ReadFreedContext \/ UNCHANGED vars
  <2>1. UNCHANGED <<poolVars, delivered, pending, pc>>
    BY <1>11 DEF Loader, LoaderEnter, LoaderEnds, LoaderReturns, ReadFreedContext, vars, callerVars
  <2>2. QED
    BY <1>4, <2>1 DEF Working
<1>12. CASE TakeTask
  <2>1. /\ queue # <<>> /\ queue' = Tail(queue) /\ running' = running \cup {Head(queue)}
        /\ UNCHANGED <<pc, delivered, pending, result, spills>>
    BY <1>12 DEF TakeTask, callerVars
  <2>2. /\ ToSet(queue) = ToSet(queue') \cup {Head(queue)} /\ Head(queue) \notin ToSet(queue')
        /\ \A i, j \in DOMAIN queue' : queue'[i] = queue'[j] => i = j
    BY <1>1, <1>2, <2>1, TailSet
  <2>3. Waiting' = Waiting
    BY <2>1, <2>2 DEF Waiting
  <2>4. ToSet(queue') \cap running' = {}
    BY <1>2, <2>1, <2>2
  <2>5. QED
    BY <1>2, <1>3, <2>1, <2>2, <2>3, <2>4 DEF PoolInv, Working
<1>13. ASSUME NEW i \in running, EncodeInMemory(i) \/ EncodeToFile(i) PROVE PoolInv'
  <2>1. /\ running' = running \ {i} /\ DOMAIN result' = DOMAIN result \cup {i}
        /\ DOMAIN spills' \subseteq DOMAIN spills \cup {i}
        /\ UNCHANGED <<pc, delivered, pending, queue>>
    BY <1>13 DEF EncodeInMemory, EncodeToFile, Finish, Noted, callerVars
  <2>2. i \in Waiting /\ ~Sequential' /\ pc # "start"
    BY <1>2, <1>3, <1>13 DEF Waiting
  <2>3. Waiting' = Waiting \ {i}
    BY <1>2, <1>13, <2>1 DEF Waiting
  <2>4. ASSUME Working PROVE i \in ToSet(pending) /\ i \in 1 .. Len(delivered) + Len(pending)
    <3>1. i \in ToSet(pending)
      BY <1>2, <2>2, <2>4
    <3>2. PICK k \in 1 .. Len(pending) : pending[k] = i
      BY <1>1, <3>1 DEF ToSet
    <3>3. i = Len(delivered) + k
      BY <1>1, <2>4, <3>2 DEF OrderInv
    <3>4. QED
      BY <1>1, <3>1, <3>2, <3>3
  <2>5. QED
    BY <1>2, <2>1, <2>2, <2>3, <2>4 DEF PoolInv, Working
<1>14. QED
  BY <1>5, <1>6, <1>7, <1>8, <1>9, <1>10, <1>11, <1>12, <1>13
  DEF Next, Caller, Writing, Worker, Finished

(***************************************************************************)
(* The scope, the outcome and the window.                                  *)
(***************************************************************************)

LEMMA ScopeStep ==
  ASSUME TypeInv, ReaderInv, PoolInv, ScopeInv, Next
  PROVE  ScopeInv'
<1>1. /\ unwind \in Seq(Objects) /\ pc \in PcNames
      /\ McFunction' = McFunction /\ Sequential' = Sequential
  BY JobKept DEF TypeInv, CallerTypes, OtherTypes
<1>2. /\ Working => unwind = <<>>
      /\ Working /\ pc # "start" => contexts = ~Sequential /\ temp # "removed"
      /\ Waiting # {} => Working \/ (pc = "unwind" /\ \E i \in DOMAIN unwind : unwind[i] = "pool")
  BY DEF ScopeInv
<1>3. McFunction =>
        /\ (\E i \in DOMAIN unwind : unwind[i] = "pool") => contexts /\ temp # "removed"
        /\ \A i, j \in DOMAIN unwind :
             unwind[j] = "pool" /\ unwind[i] \in {"contexts", "temp"} => j < i
  BY DEF ScopeInv
<1>4. pc = "start" \/ Sequential => Waiting = {}
  BY DEF PoolInv
<1>5. CASE Working /\ Working' /\ UNCHANGED scopeVars /\ pc # "start"
  BY <1>1, <1>2, <1>3, <1>5 DEF ScopeInv, scopeVars
<1>6. CASE Working /\ pc # "start" /\ Leave(verdict') /\ UNCHANGED <<contexts, temp, queue, running>>
  <2>1. pc' = "unwind" /\ unwind' = Scope /\ ~Working'
    BY <1>6 DEF Leave, Working
  <2>2. Waiting' # {} => \E i \in DOMAIN unwind' : unwind'[i] = "pool"
    BY <1>4, <1>6, <2>1, ScopeFacts DEF Waiting
  <2>3. Sequential => ~\E i \in DOMAIN unwind' : unwind'[i] = "pool"
    BY <2>1, ScopeFacts
  <2>4. (\E i \in DOMAIN unwind' : unwind'[i] = "pool") => contexts' /\ temp' # "removed"
    BY <1>2, <1>6, <2>3
  <2>5. McFunction' => \A i, j \in DOMAIN unwind' :
             unwind'[j] = "pool" /\ unwind'[i] \in {"contexts", "temp"} => j < i
    BY <1>1, <2>1, ScopeFacts
  <2>6. QED
    BY <2>1, <2>2, <2>4, <2>5 DEF ScopeInv
<1>7. CASE Start
  <2>1. UNCHANGED <<queue, running, unwind>> /\ pc = "start" /\ unwind = <<>>
    BY <1>2, <1>7 DEF Start, poolVars, Working
  <2>2. Waiting' = {} /\ DOMAIN unwind' = {} /\ unwind' = <<>>
    BY <1>4, <2>1 DEF Waiting
  <2>3. pc' = "unwind" \/ (contexts' = ~Sequential /\ temp' # "removed")
    BY <1>7 DEF Start
  <2>4. QED
    BY <1>1, <2>2, <2>3 DEF ScopeInv, Working
<1>8. CASE Reading
  <2>1. CASE Enter \/ FallBack \/ LoadBatch \/ Callback \/ VisitReturns
    <3>1. Working /\ Working' /\ UNCHANGED scopeVars /\ pc # "start"
      BY <2>1 DEF Enter, WantsBatch, FallBack, LoadBatch, Callback, VisitReturns, Working, scopeVars
    <3>2. QED
      BY <1>5, <3>1
  <2>2. CASE ReadFails
    <3>1. Working /\ pc # "start" /\ Leave(verdict') /\ UNCHANGED <<contexts, temp, queue, running>>
      BY <2>2 DEF ReadFails, Working, Leave, poolVars
    <3>2. QED
      BY <1>6, <3>1
  <2>3. CASE TakeLoaded
    <3>1. pc = "next" /\ UNCHANGED <<contexts, temp, queue, running>>
      BY <2>3 DEF TakeLoaded, WantsBatch, poolVars
    <3>2. Leave(verdict') \/ UNCHANGED <<pc, unwind>>
      BY <2>3 DEF TakeLoaded, Leave
    <3>3. QED
      BY <1>5, <1>6, <3>1, <3>2 DEF Working, scopeVars
  <2>4. QED
    BY <1>8, <2>1, <2>2, <2>3 DEF Reading
<1>9. CASE Writing
  <2>1. CASE Submit \/ Drain \/ AllTaken
    <3>1. Working /\ Working' /\ UNCHANGED scopeVars /\ pc # "start"
      BY <2>1 DEF Submit, Drain, MayDrain, AllTaken, Working, scopeVars
    <3>2. QED
      BY <1>5, <3>1
  <2>2. CASE DrainFails
    <3>1. Working /\ pc # "start" /\ Leave(verdict') /\ UNCHANGED <<contexts, temp, queue, running>>
      BY <2>2 DEF DrainFails, MayDrain, Working, Leave, poolVars
    <3>2. QED
      BY <1>6, <3>1
  <2>3. CASE EncodeDirectly \/ AllDrained \/ ScanNbt
    <3>1. pc \in {"next", "tail", "nbt"} /\ UNCHANGED <<contexts, temp, queue, running>>
      BY <2>3 DEF EncodeDirectly, AllDrained, ScanNbt, poolVars
    <3>2. Leave(verdict') \/ (pc' \in {pc, "nbt"} /\ UNCHANGED unwind)
      BY <2>3 DEF EncodeDirectly, AllDrained, ScanNbt, Leave
    <3>3. QED
      BY <1>5, <1>6, <3>1, <3>2 DEF Working, scopeVars
  <2>4. QED
    BY <1>9, <2>1, <2>2, <2>3 DEF Writing
<1>10. ASSUME NEW object, Destroy(object), UNCHANGED pc
       PROVE  /\ pc = "unwind" /\ unwind # <<>> /\ Head(unwind) = object /\ unwind' = Tail(unwind)
              /\ \A i \in DOMAIN unwind' : i + 1 \in DOMAIN unwind /\ unwind'[i] = unwind[i + 1] /\ i \in Nat
              /\ \A i \in DOMAIN unwind : i = 1 \/ (i - 1 \in DOMAIN unwind' /\ unwind'[i - 1] = unwind[i])
              /\ unwind[1] = object /\ 1 \in DOMAIN unwind
              /\ McFunction => \A i, j \in DOMAIN unwind' :
                   unwind'[j] = "pool" /\ unwind'[i] \in {"contexts", "temp"} => j < i
              /\ object # "pool" /\ (\E i \in DOMAIN unwind : unwind[i] = "pool")
                   => \E i \in DOMAIN unwind' : unwind'[i] = "pool"
              /\ McFunction /\ object \in {"contexts", "temp"} => ~\E i \in DOMAIN unwind' : unwind'[i] = "pool"
  <2>1. pc = "unwind" /\ unwind # <<>> /\ Head(unwind) = object /\ unwind' = Tail(unwind)
    BY <1>10 DEF Destroy
  <2>2. /\ Head(unwind) = unwind[1] /\ 1 \in DOMAIN unwind
        /\ \A i \in DOMAIN unwind' : i + 1 \in DOMAIN unwind /\ unwind'[i] = unwind[i + 1]
        /\ \A i \in DOMAIN unwind : i = 1 \/ (i - 1 \in DOMAIN unwind' /\ unwind'[i - 1] = unwind[i])
        /\ DOMAIN unwind' = 1 .. Len(unwind) - 1 /\ Len(unwind) \in Nat
    BY <1>1, <2>1, TailElements
  <2>3. \A i \in DOMAIN unwind' : i \in Nat
    BY <2>2
  <2>4. ASSUME McFunction, NEW i \in DOMAIN unwind', NEW j \in DOMAIN unwind',
               unwind'[j] = "pool" /\ unwind'[i] \in {"contexts", "temp"}
        PROVE  j < i
    <3>1. i + 1 \in DOMAIN unwind /\ j + 1 \in DOMAIN unwind /\ unwind[j + 1] = "pool"
          /\ unwind[i + 1] \in {"contexts", "temp"}
      BY <2>2, <2>4
    <3>2. j + 1 < i + 1
      BY <1>3, <2>4, <3>1
    <3>3. QED
      BY <2>3, <3>2
  <2>5. ASSUME object # "pool", NEW i \in DOMAIN unwind, unwind[i] = "pool"
        PROVE  \E k \in DOMAIN unwind' : unwind'[k] = "pool"
    <3>1. i # 1
      BY <2>1, <2>2, <2>5, Zenon
    <3>2. i - 1 \in DOMAIN unwind' /\ unwind'[i - 1] = unwind[i]
      BY <2>2, <3>1, Zenon
    <3>3. QED
      BY <2>5, <3>2, Zenon
  <2>6. ASSUME McFunction, object \in {"contexts", "temp"}, NEW i \in DOMAIN unwind', unwind'[i] = "pool"
        PROVE  FALSE
    <3>1. i + 1 \in DOMAIN unwind /\ unwind[i + 1] = "pool" /\ unwind[1] \in {"contexts", "temp"}
      BY <2>1, <2>2, <2>6
    <3>2. i + 1 < 1
      BY <1>3, <2>2, <2>6, <3>1
    <3>3. QED
      BY <2>3, <3>2
  <2>7. QED
    BY <2>1, <2>2, <2>3, <2>4, <2>5, <2>6
<1>11. ASSUME NEW object \in Objects, Destroy(object), UNCHANGED <<pc, queue, running>>,
              object # "pool" \/ Waiting = {},
              object \in {"contexts", "temp"} \/ UNCHANGED <<contexts, temp>>
       PROVE  ScopeInv'
  <2>1. pc' = "unwind" /\ ~Working' /\ Waiting' = Waiting /\ ~Working
    BY <1>10, <1>11 DEF Working, Waiting
  <2>2. McFunction' => \A i, j \in DOMAIN unwind' :
             unwind'[j] = "pool" /\ unwind'[i] \in {"contexts", "temp"} => j < i
    BY <1>1, <1>10, <1>11
  <2>3. Waiting' # {} => \E i \in DOMAIN unwind' : unwind'[i] = "pool"
    <3>1. object # "pool" /\ (\E i \in DOMAIN unwind : unwind[i] = "pool")
            => \E i \in DOMAIN unwind' : unwind'[i] = "pool"
      BY <1>10, <1>11
    <3>2. QED
      BY <1>2, <1>11, <2>1, <3>1
  <2>4. ASSUME McFunction, NEW i \in DOMAIN unwind', unwind'[i] = "pool" PROVE contexts' /\ temp' # "removed"
    <3>1. object \notin {"contexts", "temp"}
      BY <1>10, <1>11, <2>4
    <3>2. i + 1 \in DOMAIN unwind /\ unwind[i + 1] = "pool"
      BY <1>10, <1>11, <2>4
    <3>3. QED
      BY <1>3, <1>11, <2>4, <3>1, <3>2
  <2>5. QED
    BY <1>1, <2>1, <2>2, <2>3, <2>4 DEF ScopeInv
<1>12. CASE Unwinding
  <2>1. CASE CancelLoader \/ JoinLoader \/ DropPending
    <3>1. UNCHANGED <<pc, queue, running, contexts, temp>>
      BY <2>1 DEF CancelLoader, JoinLoader, DropPending, callerVars, poolVars
    <3>2. PICK object \in {"cancel", "loader", "pending"} : Destroy(object)
      BY <2>1 DEF CancelLoader, JoinLoader, DropPending
    <3>3. object \in Objects /\ object # "pool"
      BY <3>2 DEF Objects
    <3>4. QED
      BY <1>11, <3>1, <3>2, <3>3
  <2>2. CASE JoinPool
    <3>1. UNCHANGED <<pc, queue, running, contexts, temp>> /\ Destroy("pool") /\ queue = <<>> /\ running = {}
      BY <2>2 DEF JoinPool, callerVars, poolVars
    <3>2. Waiting = {} /\ "pool" \in Objects
      BY <3>1 DEF Waiting, ToSet, Objects
    <3>3. QED
      BY <1>11, <3>1, <3>2
  <2>3. CASE DropContexts
    <3>1. UNCHANGED <<pc, queue, running>> /\ Destroy("contexts") /\ "contexts" \in Objects
      BY <2>3 DEF DropContexts, callerVars, poolVars, Objects
    <3>2. QED
      BY <1>11, <3>1
  <2>4. CASE RemoveTemp
    <3>1. UNCHANGED <<pc, queue, running>> /\ Destroy("temp") /\ "temp" \in Objects
      BY <2>4 DEF RemoveTemp, callerVars, Objects
    <3>2. QED
      BY <1>11, <3>1
  <2>5. CASE Return
    <3>1. pc = "unwind" /\ pc' = "returned" /\ unwind = <<>> /\ unwind' = <<>> /\ UNCHANGED <<queue, running>>
      BY <2>5 DEF Return, poolVars, scopeVars
    <3>2. Waiting' = {} /\ DOMAIN unwind' = {}
      BY <1>2, <3>1 DEF Waiting, Working
    <3>3. QED
      BY <3>1, <3>2 DEF ScopeInv, Working
  <2>6. QED
    BY <1>12, <2>1, <2>2, <2>3, <2>4, <2>5 DEF Unwinding
<1>13. CASE Loader \/ ReadFreedContext \/ UNCHANGED vars
  <2>1. UNCHANGED <<pc, queue, running, unwind, contexts, temp>>
    BY <1>13 DEF Loader, LoaderEnter, LoaderEnds, LoaderReturns, ReadFreedContext, vars, callerVars, poolVars,
       scopeVars
  <2>2. QED
    BY <1>1, <2>1 DEF ScopeInv, Working, Waiting
<1>14. CASE Worker
  <2>1. UNCHANGED <<pc, unwind, contexts, temp>>
    BY <1>14 DEF Worker, TakeTask, EncodeInMemory, EncodeToFile, callerVars, scopeVars
  <2>2. Waiting' # {} => Waiting # {}
    <3>1. CASE TakeTask
      BY <3>1, TailSet DEF TakeTask, Waiting, TypeInv, OtherTypes
    <3>2. CASE \E i \in running : EncodeInMemory(i) \/ EncodeToFile(i)
      BY <3>2 DEF EncodeInMemory, EncodeToFile, Waiting
    <3>3. QED
      BY <1>14, <3>1, <3>2 DEF Worker
  <2>3. QED
    BY <1>1, <2>1, <2>2 DEF ScopeInv, Working
<1>15. QED
  BY <1>7, <1>8, <1>9, <1>12, <1>13, <1>14 DEF Next, Caller, Finished

LEMMA OutcomeStep ==
  ASSUME OutcomeInv, Next
  PROVE  OutcomeInv'
<1>1. CASE Start \/ Reading \/ Writing
  <2>1. pc \notin {"unwind", "returned"} /\ pc' # "returned" /\ outcome' = outcome
    BY <1>1 DEF Start, Reading, Enter, WantsBatch, FallBack, LoadBatch, Callback, VisitReturns, ReadFails,
       TakeLoaded, Writing, EncodeDirectly, Submit, Drain, DrainFails, MayDrain, AllTaken, AllDrained, ScanNbt,
       Leave
  <2>2. QED
    BY <2>1 DEF OutcomeInv
<1>2. CASE Return
  BY <1>2 DEF Return, OutcomeInv
<1>3. CASE ReadFreedContext
  BY <1>3 DEF ReadFreedContext, OutcomeInv
<1>4. CASE CancelLoader \/ JoinLoader \/ DropPending \/ JoinPool \/ DropContexts \/ RemoveTemp
           \/ Loader \/ Worker \/ UNCHANGED vars
  <2>1. UNCHANGED <<pc, outcome>>
    BY <1>4 DEF CancelLoader, JoinLoader, DropPending, JoinPool, DropContexts, RemoveTemp,
       Loader, LoaderEnter, LoaderEnds, LoaderReturns, Worker, TakeTask, EncodeInMemory, EncodeToFile, vars,
       callerVars
  <2>2. QED
    BY <2>1 DEF OutcomeInv
<1>5. QED
  BY <1>1, <1>2, <1>3, <1>4 DEF Next, Caller, Unwinding, Finished

LEMMA WindowStep ==
  ASSUME TypeInv, ReaderInv, PoolInv, PoolInv', WindowInv, TypeInv', Next
  PROVE  WindowInv'
<1>1. /\ pending \in Seq(PieceSet) /\ pending' \in Seq(PieceSet) /\ queue \in Seq(PieceSet)
      /\ Len(pending) \in Nat /\ Len(pending') \in Nat
      /\ loaded \in Seq(0 .. Pieces) /\ Len(loaded) \in Nat
      /\ MaxInFlight \in Nat \ {0} /\ PrefetchBatches \in Nat \ {0} /\ SpillShare \in Nat
      /\ MaxInFlight' = MaxInFlight /\ PrefetchBatches' = PrefetchBatches /\ SpillShare' = SpillShare
      /\ job' = job
  BY JobFacts, JobKept, LenProperties DEF TypeInv, CallerTypes, OtherTypes
<1>2. Len(pending') <= MaxInFlight
  <2>1. Len(pending) <= MaxInFlight
    BY DEF WindowInv
  <2>2. CASE UNCHANGED pending
    BY <2>1, <2>2
  <2>3. CASE Submit
    <3>1. Len(pending) < MaxInFlight /\ hand # <<>> /\ pending' = Append(pending, Head(hand))
      BY <2>3 DEF Submit
    <3>2. Head(hand) \in PieceSet
      BY <3>1, TailSet DEF TypeInv, CallerTypes
    <3>3. Len(pending') = Len(pending) + 1
      BY <1>1, <3>1, <3>2, AppendElements
    <3>4. QED
      BY <1>1, <3>1, <3>3
  <2>4. CASE Drain \/ DrainFails
    <3>1. pending # <<>> /\ pending' = Tail(pending)
      BY <2>4 DEF Drain, DrainFails, MayDrain
    <3>2. Len(pending') = Len(pending) - 1
      BY <1>1, <3>1, TailElements
    <3>3. QED
      BY <1>1, <2>1, <3>2
  <2>5. CASE DropPending
    <3>1. Len(pending') = 0
      BY <2>5 DEF DropPending
    <3>2. QED
      BY <1>1, <3>1
  <2>6. CASE \/ Start \/ Reading \/ EncodeDirectly \/ AllTaken \/ AllDrained \/ ScanNbt
             \/ CancelLoader \/ JoinLoader \/ JoinPool \/ DropContexts \/ RemoveTemp \/ Return
             \/ Loader \/ Worker \/ ReadFreedContext \/ UNCHANGED vars
    <3>1. UNCHANGED pending
      BY <2>6 DEF Start, Reading, Enter, FallBack, LoadBatch, Callback, VisitReturns, ReadFails, TakeLoaded,
         EncodeDirectly, AllTaken, AllDrained, ScanNbt,
         CancelLoader, JoinLoader, JoinPool, DropContexts, RemoveTemp, Return,
         Loader, LoaderEnter, LoaderEnds, LoaderReturns, Worker, TakeTask, EncodeInMemory, EncodeToFile,
         ReadFreedContext, vars, callerVars
    <3>2. QED
      BY <2>2, <3>1
  <2>7. QED
    BY <2>3, <2>4, <2>5, <2>6 DEF Next, Caller, Writing, Unwinding, Finished
<1>3. Cardinality(Charged') <= MaxInFlight
  <2>1. CASE Working'
    <3>1. Charged' \subseteq ToSet(pending')
      BY <2>1 DEF PoolInv, Charged, Tasks, Waiting
    <3>2. IsFiniteSet(ToSet(pending')) /\ Cardinality(ToSet(pending')) <= Len(pending')
      BY <1>1, SetOfSeq
    <3>3. Cardinality(Charged') <= Cardinality(ToSet(pending')) /\ Cardinality(Charged') \in Nat
          /\ Cardinality(ToSet(pending')) \in Nat
      BY <3>1, <3>2, FS_Subset, FS_CardinalityType
    <3>4. QED
      BY <1>1, <1>2, <3>2, <3>3
  <2>2. CASE ~Working'
    <3>1. Charged' \subseteq Charged
      <4>1. CASE Start \/ Reading \/ EncodeDirectly \/ AllDrained \/ ScanNbt \/ Loader \/ ReadFreedContext
                 \/ UNCHANGED vars
        <5>1. UNCHANGED <<queue, running, pending, spills>>
          BY <4>1 DEF Start, Reading, Enter, FallBack, LoadBatch, Callback, VisitReturns, ReadFails, TakeLoaded,
             EncodeDirectly, AllDrained, ScanNbt, Loader, LoaderEnter, LoaderEnds, LoaderReturns,
             ReadFreedContext, vars, callerVars, poolVars
        <5>2. QED
          BY <5>1 DEF Charged, Tasks
      <4>2. CASE Submit \/ Drain \/ AllTaken
        BY <2>2, <4>2 DEF Submit, Drain, MayDrain, AllTaken, Working
      <4>3. CASE DrainFails
        <5>1. pending # <<>> /\ pending' = Tail(pending) /\ UNCHANGED <<queue, running, spills>>
          BY <4>3 DEF DrainFails, MayDrain, poolVars
        <5>2. ToSet(pending') \subseteq ToSet(pending)
          BY <1>1, <5>1, TailSet
        <5>3. QED
          BY <5>1, <5>2 DEF Charged, Tasks
      <4>4. CASE Unwinding
        <5>1. pending' \in {pending, <<>>} /\ UNCHANGED <<queue, running>>
              /\ DOMAIN spills' \subseteq DOMAIN spills
          BY <4>4 DEF Unwinding, CancelLoader, JoinLoader, DropPending, JoinPool, DropContexts, RemoveTemp, Return,
             Restrict, callerVars, poolVars
        <5>2. ToSet(pending') \subseteq ToSet(pending)
          BY <5>1 DEF ToSet
        <5>3. QED
          BY <5>1, <5>2 DEF Charged, Tasks
      <4>5. CASE TakeTask
        <5>1. /\ queue # <<>> /\ queue' = Tail(queue) /\ running' = running \cup {Head(queue)}
              /\ UNCHANGED <<pending, spills>>
          BY <4>5 DEF TakeTask, callerVars
        <5>2. ToSet(queue) = ToSet(queue') \cup {Head(queue)}
          BY <1>1, <5>1, TailSet
        <5>3. QED
          BY <5>1, <5>2 DEF Charged, Tasks
      <4>6. ASSUME NEW i \in running, EncodeInMemory(i) \/ EncodeToFile(i) PROVE Charged' \subseteq Charged
        <5>1. /\ running' = running \ {i} /\ DOMAIN spills' \subseteq DOMAIN spills \cup {i}
              /\ UNCHANGED <<pending, queue>>
          BY <4>6 DEF EncodeInMemory, EncodeToFile, Finish, Noted, callerVars
        <5>2. QED
          BY <4>6, <5>1 DEF Charged, Tasks
      <4>7. QED
        BY <4>1, <4>2, <4>3, <4>4, <4>5, <4>6 DEF Next, Caller, Writing, Worker, Finished
    <3>2. IsFiniteSet(Charged)
      <4>1. Charged \subseteq PieceSet
        BY <1>1, TypeInv DEF TypeInv, OtherTypes, Charged, Tasks, ToSet
      <4>2. IsFiniteSet(PieceSet)
        <5>1. 1 \in Int /\ Pieces \in Int
          BY JobFacts DEF TypeInv, CallerTypes
        <5>2. QED
          BY <5>1, FS_Interval DEF PieceSet
      <4>3. QED
        BY <4>1, <4>2, FS_Subset
    <3>3. Cardinality(Charged') <= Cardinality(Charged) /\ Cardinality(Charged) \in Nat
          /\ Cardinality(Charged') \in Nat
      BY <3>1, <3>2, FS_Subset, FS_CardinalityType
    <3>4. QED
      BY <1>1, <3>3 DEF WindowInv
  <2>3. QED
    BY <2>1, <2>2
<1>4. Len(loaded') + (IF loader' = "inside" THEN 1 ELSE 0) <= PrefetchBatches
  <2>1. Len(loaded) + (IF loader = "inside" THEN 1 ELSE 0) <= PrefetchBatches
    BY DEF WindowInv
  <2>2. CASE UNCHANGED <<loaded, loader>>
    BY <2>1, <2>2
  <2>3. CASE LoadBatch
    <3>1. loaded' = <<>> /\ Len(loaded') = 0 /\ loader' \in {"none", "wait"}
      BY <2>3 DEF LoadBatch, ReaderInv
    <3>2. QED
      BY <1>1, <3>1
  <2>4. CASE TakeLoaded
    <3>1. loaded # <<>> /\ loaded' = Tail(loaded) /\ loader' = loader
      BY <2>4 DEF TakeLoaded
    <3>2. Len(loaded') = Len(loaded) - 1
      BY <1>1, <3>1, TailElements
    <3>3. QED
      BY <1>1, <2>1, <3>1, <3>2
  <2>5. CASE LoaderEnter
    BY <1>1, <2>5 DEF LoaderEnter
  <2>6. CASE LoaderEnds
    BY <1>1, <2>1, <2>6 DEF LoaderEnds
  <2>7. CASE LoaderReturns
    <3>1. loader = "inside" /\ loader' # "inside"
      BY <2>7 DEF LoaderReturns
    <3>2. PICK e \in {0, fetched'} : loaded' = Append(loaded, e)
      BY <2>7 DEF LoaderReturns
    <3>3. e \in 0 .. Pieces
      BY JobFacts, <3>2 DEF TypeInv, CallerTypes, OtherTypes
    <3>4. Len(loaded') = Len(loaded) + 1
      BY <1>1, <3>2, <3>3, AppendElements
    <3>5. QED
      BY <1>1, <2>1, <3>1, <3>4
  <2>8. CASE JoinLoader
    <3>1. Len(loaded') = 0 /\ loader' # "inside"
      BY <2>8 DEF JoinLoader
    <3>2. QED
      BY <1>1, <3>1
  <2>9. CASE \/ Start \/ Enter \/ FallBack \/ Callback \/ VisitReturns \/ ReadFails \/ Writing
             \/ CancelLoader \/ DropPending \/ JoinPool \/ DropContexts \/ RemoveTemp \/ Return
             \/ Worker \/ ReadFreedContext \/ UNCHANGED vars
    <3>1. UNCHANGED <<loaded, loader>>
      BY <2>9 DEF Start, Enter, FallBack, Callback, VisitReturns, ReadFails,
         Writing, EncodeDirectly, Submit, Drain, DrainFails, AllTaken, AllDrained, ScanNbt,
         CancelLoader, DropPending, JoinPool, DropContexts, RemoveTemp, Return,
         Worker, TakeTask, EncodeInMemory, EncodeToFile, ReadFreedContext, vars, loaderVars
    <3>2. QED
      BY <2>2, <3>1
  <2>10. QED
    BY <2>3, <2>4, <2>5, <2>6, <2>7, <2>8, <2>9 DEF Next, Caller, Reading, Unwinding, Loader, Finished
<1>5. \A i \in DOMAIN spills' : SpillFits(spills'[i])
  <2>1. \A i \in DOMAIN spills : SpillFits(spills[i])
    BY DEF WindowInv
  <2>2. CASE DOMAIN spills' \subseteq DOMAIN spills /\ \A i \in DOMAIN spills' : spills'[i] = spills[i]
    BY <2>1, <2>2
  <2>3. CASE Drain \/ RemoveTemp
    BY <2>2, <2>3 DEF Drain, RemoveTemp, Restrict
  <2>4. ASSUME NEW i \in running, EncodeToFile(i)
        PROVE  \A k \in DOMAIN spills' : SpillFits(spills'[k])
    <3>1. PICK size \in Sizes :
            spills' = Noted(spills, i, IF job.limit = 0 \/ size <= SpillShare THEN size ELSE SpillShare)
      BY <2>4 DEF EncodeToFile
    <3>2. DOMAIN spills' = DOMAIN spills \cup {i}
      BY <3>1 DEF Noted
    <3>3. \A k \in DOMAIN spills' : spills'[k] =
            IF k = i THEN IF job.limit = 0 \/ size <= SpillShare THEN size ELSE SpillShare ELSE spills[k]
      BY <3>1 DEF Noted
    <3>4. size \in Nat
      BY <3>1, ExportAssumption
    <3>5. SpillFits(spills'[i])
      BY <1>1, <3>2, <3>3, <3>4 DEF SpillFits
    <3>6. QED
      BY <2>1, <3>2, <3>3, <3>5
  <2>5. CASE \/ Start \/ Reading \/ EncodeDirectly \/ Submit \/ DrainFails \/ AllTaken \/ AllDrained \/ ScanNbt
             \/ CancelLoader \/ JoinLoader \/ DropPending \/ JoinPool \/ DropContexts \/ Return
             \/ Loader \/ TakeTask \/ (\E i \in running : EncodeInMemory(i)) \/ ReadFreedContext \/ UNCHANGED vars
    <3>1. UNCHANGED spills
      BY <2>5 DEF Start, Reading, Enter, FallBack, LoadBatch, Callback, VisitReturns, ReadFails, TakeLoaded,
         EncodeDirectly, Submit, DrainFails, AllTaken, AllDrained, ScanNbt,
         CancelLoader, JoinLoader, DropPending, JoinPool, DropContexts, Return,
         Loader, LoaderEnter, LoaderEnds, LoaderReturns, TakeTask, EncodeInMemory,
         ReadFreedContext, vars, poolVars
    <3>2. QED
      BY <2>2, <3>1
  <2>6. QED
    BY <2>3, <2>4, <2>5 DEF Next, Caller, Writing, Unwinding, Worker, Finished
<1>6. (\A i \in DOMAIN spills : SpillFits(spills[i]))'
  BY <1>1, <1>5 DEF SpillFits
<1>7. QED
  BY <1>1, <1>2, <1>3, <1>4, <1>6 DEF WindowInv, Charged, Tasks

(***************************************************************************)
(* The theorems.                                                           *)
(***************************************************************************)

LEMMA ExportInit == Init => ExportInv
<1> SUFFICES ASSUME Init PROVE ExportInv
  OBVIOUS
<1>1. /\ job \in Jobs /\ pc = "start" /\ verdict = "ok" /\ mode = "probe"
      /\ visiting = FALSE /\ taken = 0 /\ hand = <<>>
      /\ pending = <<>> /\ delivered = <<>> /\ outcome = "running"
      /\ queue = <<>> /\ running = {} /\ DOMAIN result = {}
      /\ loader = "none" /\ loaded = <<>> /\ fetched = 0
      /\ unwind = <<>> /\ temp = "none" /\ DOMAIN spills = {}
  BY DEF Init
<1>2. Pieces \in Nat \ {0} /\ MaxInFlight \in Nat \ {0} /\ PrefetchBatches \in Nat \ {0}
  BY <1>1, JobFacts
<1>3. TypeInv
  <2>1. <<>> \in Seq(PieceSet) /\ <<>> \in Seq(0 .. Pieces) /\ <<>> \in Seq(Objects)
    OBVIOUS
  <2>2. 0 \in 0 .. Pieces
    BY <1>2
  <2>3. QED
    BY <1>1, <2>1, <2>2 DEF TypeInv, CallerTypes, OtherTypes, PcNames
<1>4. ReaderInv
  BY <1>1 DEF ReaderInv
<1>5. TakenInv
  BY <1>1 DEF TakenInv
<1>6. OrderInv
  BY <1>1 DEF OrderInv
<1>7. LoaderInv
  BY <1>1 DEF LoaderInv
<1>8. ToSet(queue) = {} /\ ToSet(pending) = {} /\ Waiting = {} /\ Charged = {}
  BY <1>1 DEF ToSet, Waiting, Charged, Tasks
<1>9. PoolInv
  BY <1>1, <1>8 DEF PoolInv
<1>10. ScopeInv
  BY <1>1, <1>8 DEF ScopeInv
<1>11. OutcomeInv
  BY <1>1 DEF OutcomeInv
<1>12. WindowInv
  <2>1. Cardinality(Charged) = 0
    BY <1>8, FS_EmptySet
  <2>2. Len(pending) = 0 /\ Len(loaded) = 0
    BY <1>1
  <2>3. QED
    BY <1>1, <1>2, <2>1, <2>2 DEF WindowInv
<1>13. QED
  BY <1>3, <1>4, <1>5, <1>6, <1>7, <1>9, <1>10, <1>11, <1>12 DEF ExportInv

LEMMA ExportStep == ExportInv /\ [Next]_vars => ExportInv'
<1> SUFFICES ASSUME ExportInv, [Next]_vars PROVE ExportInv'
  OBVIOUS
<1>1. /\ TypeInv /\ ReaderInv /\ TakenInv /\ OrderInv /\ LoaderInv
      /\ PoolInv /\ ScopeInv /\ OutcomeInv /\ WindowInv
  BY DEF ExportInv
<1>2. CASE Next
  <2>1. TypeInv' /\ PoolInv'
    BY <1>1, <1>2, TypeStep, PoolStep
  <2>2. ReaderInv' /\ TakenInv' /\ OrderInv' /\ LoaderInv'
    BY <1>1, <1>2, ReaderStep, TakenStep, OrderStep, LoaderStep
  <2>3. ScopeInv' /\ OutcomeInv' /\ WindowInv'
    BY <1>1, <1>2, <2>1, ScopeStep, OutcomeStep, WindowStep
  <2>4. QED
    BY <2>1, <2>2, <2>3 DEF ExportInv
<1>3. CASE UNCHANGED vars
  <2>1. UNCHANGED <<job, pc, verdict, mode, visiting, taken, hand, pending, delivered, outcome>>
        /\ UNCHANGED <<queue, running, result, spills, loader, loaded, fetched, unwind, contexts, temp>>
    BY <1>3 DEF vars, callerVars, poolVars, loaderVars, scopeVars
  <2>2. TypeInv' /\ ReaderInv' /\ TakenInv' /\ OutcomeInv'
    BY <1>1, <2>1 DEF TypeInv, CallerTypes, OtherTypes, ReaderInv, TakenInv, OutcomeInv, McFunction
  <2>3. OrderInv' /\ LoaderInv'
    BY <1>1, <2>1 DEF OrderInv, LoaderInv, Working
  <2>4. McFunction' = McFunction /\ Sequential' = Sequential /\ MaxInFlight' = MaxInFlight
        /\ PrefetchBatches' = PrefetchBatches /\ SpillShare' = SpillShare
    BY <2>1 DEF McFunction, Sequential, Workers, MaxInFlight, PrefetchBatches, SpillShare
  <2>5. PoolInv' /\ ScopeInv'
    BY <1>1, <2>1, <2>4 DEF PoolInv, ScopeInv, Waiting, Working
  <2>6. WindowInv'
    BY <1>1, <2>1, <2>4 DEF WindowInv, SpillFits, Charged, Tasks
  <2>7. QED
    BY <2>2, <2>3, <2>5, <2>6 DEF ExportInv
<1>4. QED
  BY <1>2, <1>3

LEMMA ExportInvariant == Spec => []ExportInv
BY ExportInit, ExportStep, PTL DEF Spec

\* One reader: visit_chunk_palettes() and get_chunks_layer0() of one structure
\* never run on the calling thread and on the loader thread together.
THEOREM ExportOneReader == Spec => []OneReader
<1>1. ExportInv => OneReader
  BY DEF ExportInv, ReaderInv, OneReader
<1>2. QED
  BY <1>1, ExportInvariant, PTL

\* The tasks of write_mcfunction() find worker_contexts and the temporary
\* directory, however the function is left: a waiting task means that the pool
\* is still to be joined, and then the objects declared before it are alive.
THEOREM ExportContext == Spec => []TasksKeepTheirContext
<1>1. ExportInv => TasksKeepTheirContext
  <2> SUFFICES ASSUME ExportInv, McFunction, running # {} PROVE contexts /\ temp # "removed"
    BY DEF TasksKeepTheirContext
  <2>1. Waiting # {} /\ pc # "start" /\ ~Sequential
    BY DEF ExportInv, PoolInv, Waiting
  <2>2. CASE Working
    BY <2>1, <2>2 DEF ExportInv, ScopeInv
  <2>3. CASE \E i \in DOMAIN unwind : unwind[i] = "pool"
    BY <2>3 DEF ExportInv, ScopeInv
  <2>4. QED
    BY <2>1, <2>2, <2>3 DEF ExportInv, ScopeInv
<1>2. QED
  BY <1>1, ExportInvariant, PTL

\* Memory and files: there are at most max_in_flight tasks, running, queued or
\* with a result nobody has fetched, and the loader keeps to prefetch_batches.
\* A file is charged to a task, at most max_in_flight of them at a time, and
\* keeps to the task's share; so the files stay together below
\* temporary_file_limit_bytes.
THEOREM ExportWindow == Spec => []HeldBounded
<1>1. ASSUME ExportInv PROVE HeldBounded
  <2>1. /\ MaxInFlight \in Nat \ {0} /\ PrefetchBatches \in Nat \ {0} /\ job.limit \in Nat
        /\ Len(hand) \in Nat /\ Len(loaded) \in Nat /\ SpillShare \in Nat
    BY <1>1, JobFacts, LenProperties DEF ExportInv, TypeInv, CallerTypes, OtherTypes
  <2>2. Cardinality(Charged) <= MaxInFlight
    BY <1>1 DEF ExportInv, WindowInv
  <2>3. IsFiniteSet(Charged)
    <3>1. Charged \subseteq PieceSet
      BY <1>1 DEF ExportInv, TypeInv, CallerTypes, OtherTypes, Charged, Tasks, ToSet
    <3>2. 1 \in Int /\ Pieces \in Int
      BY <1>1, JobFacts DEF ExportInv, TypeInv, CallerTypes
    <3>3. IsFiniteSet(PieceSet)
      BY <3>2, FS_Interval DEF PieceSet
    <3>4. QED
      BY <3>1, <3>3, FS_Subset
  <2>4. /\ IsFiniteSet(Tasks) /\ Cardinality(Tasks) \in Nat /\ Cardinality(Tasks) <= Cardinality(Charged)
        /\ IsFiniteSet(DOMAIN spills) /\ Cardinality(DOMAIN spills) \in Nat
        /\ Cardinality(DOMAIN spills) <= Cardinality(Charged) /\ Cardinality(Charged) \in Nat
    <3>1. Tasks \subseteq Charged /\ DOMAIN spills \subseteq Charged
      BY DEF Charged
    <3>2. QED
      BY <2>3, <3>1, FS_Subset, FS_CardinalityType
  <2>5. Cardinality(Tasks) <= MaxInFlight /\ Cardinality(DOMAIN spills) <= MaxInFlight
    BY <2>1, <2>2, <2>4
  <2>6. ASSUME McFunction
        PROVE  Cardinality(Tasks) + Len(hand) + Len(loaded) + (IF loader = "inside" THEN 1 ELSE 0)
                 <= MaxInFlight + PrefetchBatches + 1
    <3>1. Len(hand) <= 1
      BY <1>1, <2>6 DEF ExportInv, TakenInv
    <3>2. Len(loaded) + (IF loader = "inside" THEN 1 ELSE 0) <= PrefetchBatches
      BY <1>1 DEF ExportInv, WindowInv
    <3> DEFINE entered == IF loader = "inside" THEN 1 ELSE 0
    <3>3. entered \in Nat
      OBVIOUS
    <3>4. Len(loaded) + entered <= PrefetchBatches
      BY <3>2
    <3> HIDE DEF entered
    <3>5. Cardinality(Tasks) + Len(hand) + Len(loaded) + entered <= MaxInFlight + PrefetchBatches + 1
      BY <2>1, <2>4, <2>5, <3>1, <3>3, <3>4
    <3>6. QED
      BY <3>5 DEF entered
  <2>7. ASSUME job.limit # 0 PROVE FoldFunction(+, 0, spills) <= job.limit
    <3>1. \A i \in DOMAIN spills : spills[i] \in Nat /\ spills[i] <= SpillShare
      BY <1>1, <2>7 DEF ExportInv, WindowInv, SpillFits
    <3> DEFINE sum == FoldFunction(+, 0, spills)
    <3>2. sum \in Nat /\ sum <= SpillShare * Cardinality(DOMAIN spills)
      BY <2>1, <2>4, <3>1, SumBounded
    <3> HIDE DEF sum
    <3>3. SpillShare * Cardinality(DOMAIN spills) <= SpillShare * MaxInFlight
      <4>1. \A s, n, m \in Nat : n <= m => s * n <= s * m
        OBVIOUS
      <4>2. QED
        BY <2>1, <2>4, <2>5, <4>1
    <3>4. SpillShare * MaxInFlight <= job.limit
      <4>1. \A n \in Nat, d \in Nat \ {0} : (n \div d) * d <= n
        OBVIOUS
      <4>2. QED
        BY <2>1, <4>1 DEF SpillShare
    <3>5. SpillShare * Cardinality(DOMAIN spills) \in Int /\ SpillShare * MaxInFlight \in Int
      BY <2>1, <2>4
    <3>6. sum <= job.limit
      BY <2>1, <3>2, <3>3, <3>4, <3>5
    <3>7. QED
      BY <3>6 DEF sum
  <2>8. QED
    BY <2>5, <2>6, <2>7 DEF HeldBounded
<1>2. QED
  BY <1>1, ExportInvariant, PTL

\* Every step of the writers is a step of an ordered transfer or none of its
\* business: the next piece is appended, success is reported after the last
\* one, and anything else that ends the transfer reports a failure.  (What
\* TransferSpec adds, that it ends, is checked by TLC.)
THEOREM ExportIsTransfer ==
  Spec => Transfer!Init /\ [][Transfer!Next]_(Transfer!transferVars)
<1>1. Init => Transfer!Init
  BY DEF Init, Transfer!Init, Told
<1>2. ExportInv /\ ExportInv' /\ [Next]_vars => [Transfer!Next]_(Transfer!transferVars)
  <2> SUFFICES ASSUME ExportInv, ExportInv', [Next]_vars
               PROVE  Transfer!Next \/ UNCHANGED <<delivered, Told>>
    BY DEF Transfer!transferVars
  <2>1. /\ delivered \in Seq(PieceSet) /\ Len(delivered) \in Nat /\ DOMAIN delivered = 1 .. Len(delivered)
        /\ \A i \in DOMAIN delivered : delivered[i] = i
        /\ Pieces \in Nat
    BY JobFacts, LenProperties DEF ExportInv, TypeInv, CallerTypes, OrderInv
  <2>2. Transfer!Remaining = PieceSet \ (1 .. Len(delivered))
    BY <2>1 DEF Transfer!Remaining, PieceSet
  <2>3. ASSUME pc \notin {"returned"}, outcome # "dead" PROVE outcome = "running" /\ Told = "running"
    BY <2>3 DEF ExportInv, OutcomeInv, TypeInv, CallerTypes, Told
  <2>4. ASSUME NEW e \in PieceSet, delivered' = Append(delivered, e), UNCHANGED outcome,
               pc # "returned", outcome # "dead"
        PROVE  Transfer!Next
    <3>1. /\ delivered'[Len(delivered) + 1] = e /\ Len(delivered) + 1 \in DOMAIN delivered'
      <4>1. delivered'[Len(delivered) + 1] = e /\ DOMAIN delivered' = 1 .. Len(delivered) + 1
        BY <2>1, <2>4, AppendElements
      <4>2. QED
        BY <2>1, <4>1
    <3>2. e = Len(delivered) + 1
      BY <3>1 DEF ExportInv, OrderInv
    <3>3. e \in Transfer!Remaining /\ \A j \in Transfer!Remaining : e <= j
      BY <2>1, <2>2, <2>4, <3>2 DEF PieceSet
    <3>4. Told = "running" /\ Told' = Told
      BY <2>3, <2>4 DEF Told
    <3>5. QED
      BY <2>4, <3>3, <3>4 DEF Transfer!Next, Transfer!Deliver
  <2>5. CASE outcome # "dead" /\ EncodeDirectly
    <3>1. pc = "next" /\ hand # <<>> /\ UNCHANGED outcome
      BY <2>5 DEF EncodeDirectly
    <3>2. Head(hand) \in PieceSet
      BY <3>1, TailSet DEF ExportInv, TypeInv, CallerTypes
    <3>3. delivered' = Append(delivered, Head(hand)) \/ UNCHANGED delivered
      BY <2>5 DEF EncodeDirectly
    <3>4. QED
      BY <2>4, <2>5, <3>1, <3>2, <3>3 DEF Told
  <2>6. CASE outcome # "dead" /\ Drain
    <3>1. pc \in {"next", "tail"} /\ pending # <<>> /\ UNCHANGED outcome
          /\ delivered' = Append(delivered, Head(pending))
      BY <2>6 DEF Drain, MayDrain
    <3>2. Head(pending) \in PieceSet
      BY <3>1, TailSet DEF ExportInv, TypeInv, CallerTypes
    <3>3. QED
      BY <2>4, <2>6, <3>1, <3>2
  <2>7. CASE outcome # "dead" /\ Return
    <3>1. pc = "unwind" /\ UNCHANGED <<delivered, verdict>> /\ Told = "running"
      BY <2>3, <2>7 DEF Return
    <3>2. CASE outcome' = "success"
      <4>1. verdict # "failed" /\ verdict = "ok"
        BY <2>7, <3>2 DEF Return, ExportInv, TypeInv, CallerTypes
      <4>2. Len(delivered) = Pieces
        BY <3>1, <4>1 DEF ExportInv, OrderInv
      <4>3. Transfer!Remaining = {}
        BY <2>1, <2>2, <4>2 DEF PieceSet
      <4>4. QED
        BY <3>1, <3>2, <4>3 DEF Transfer!Next, Transfer!Succeed, Told
    <3>3. CASE outcome' = "failure"
      BY <3>1, <3>3 DEF Transfer!Next, Transfer!Fail, Told
    <3>4. QED
      BY <2>7, <3>2, <3>3 DEF Return
  <2>8. CASE outcome # "dead" /\ ReadFreedContext
    <3>1. Waiting # {}
      BY <2>8 DEF ReadFreedContext, Waiting
    <3>2. pc # "returned"
      BY <3>1 DEF ExportInv, ScopeInv, Working
    <3>3. Told = "running" /\ Told' = "failure" /\ UNCHANGED delivered
      BY <2>3, <2>8, <3>2 DEF ReadFreedContext, Told
    <3>4. QED
      BY <3>3 DEF Transfer!Next, Transfer!Fail
  <2>9. CASE \/ Start \/ Reading \/ Submit \/ DrainFails \/ AllTaken \/ AllDrained \/ ScanNbt
             \/ CancelLoader \/ JoinLoader \/ DropPending \/ JoinPool \/ DropContexts \/ RemoveTemp
             \/ Loader \/ Worker \/ UNCHANGED vars
    <3>1. UNCHANGED <<delivered, outcome>>
      BY <2>9 DEF Start, Reading, Enter, FallBack, LoadBatch, Callback, VisitReturns, ReadFails, TakeLoaded,
         Submit, DrainFails, AllTaken, AllDrained, ScanNbt,
         CancelLoader, JoinLoader, DropPending, JoinPool, DropContexts, RemoveTemp,
         Loader, LoaderEnter, LoaderEnds, LoaderReturns, Worker, TakeTask, EncodeInMemory, EncodeToFile,
         vars, callerVars
    <3>2. QED
      BY <3>1 DEF Told
  <2>10. QED
    BY <2>5, <2>6, <2>7, <2>8, <2>9 DEF Next, Caller, Writing, Unwinding, Finished
<1>3. QED
  BY <1>1, <1>2, ExportInvariant, PTL DEF Spec
===============================================================================
