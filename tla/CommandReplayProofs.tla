----------------------- MODULE CommandReplayProofs -----------------------
(***************************************************************************)
(* Proofs about CommandReplay: reading a file in parallel is as good as    *)
(* reading it line by line, the index is complete and in file order for    *)
(* every thread that uses it, and get_chunks returns what replaying the    *)
(* whole file would.                                                       *)
(*                                                                         *)
(* Facts about all numbers of steps, blocks or lines are proved by the     *)
(* least element: the set of the numbers for which one fails is a set of   *)
(* naturals without a least element, and so empty (NoLeast).               *)
(***************************************************************************)
EXTENDS CommandReplay, SequenceTheorems, FiniteSetTheorems, WellFoundedInduction, TLAPS

\* A set of naturals that is not empty has a least element.
LEMMA LeastNat ==
  ASSUME NEW S \in SUBSET Nat, S # {}
  PROVE  \E n \in S : \A k \in S : n <= k
<1> DEFINE R == {ss \in Nat \X Nat : ss[1] < ss[2]}
<1>1. IsWellFoundedOn(R, Nat)
  BY NatLessThanWellFounded DEF OpToRel
<1>2. PICK n \in S : \A k \in S : ~ (<<k, n>> \in R)
  <2>1. S \subseteq Nat /\ S # {} 
    OBVIOUS
  <2> HIDE DEF R
  <2>2. QED
    BY <1>1, <2>1, WFMin
<1>3. \A k \in S : ~ (k < n)
  BY <1>2
<1>4. QED
  BY <1>3

\* A set of numbers without a least element is empty.
LEMMA NoLeast ==
  ASSUME NEW S \in SUBSET Nat, 0 \notin S, \A n \in Nat : n \notin S => n + 1 \notin S
  PROVE  S = {}
<1> SUFFICES ASSUME S # {} PROVE FALSE
  OBVIOUS
<1>1. PICK n \in S : \A k \in S : n <= k
  BY LeastNat
<1>2. n - 1 \in Nat /\ n - 1 \notin S /\ (n - 1) + 1 = n
  BY <1>1
<1>3. QED
  BY <1>2

(***************************************************************************)
(* Merging.                                                                *)
(***************************************************************************)

Increasing(s) == \A i, j \in DOMAIN s : i < j => s[i] < s[j]

Begun == [local |-> 0, broad |-> 0]
TakesLocal(p, a, b) == p.broad = Len(b) \/ (p.local < Len(a) /\ a[p.local + 1] < b[p.broad + 1])
After(p, a, b) == IF TakesLocal(p, a, b) THEN [p EXCEPT !.local = @ + 1] ELSE [p EXCEPT !.broad = @ + 1]
MergeStep(step, n, a, b) == IF n = 0 THEN Begun ELSE After(step[n - 1], a, b)

LEMMA MergingDefined ==
  ASSUME NEW a \in Seq(Int), NEW b \in Seq(Int)
  PROVE  Merging(a, b) = [n \in 0 .. Len(a) + Len(b) |-> MergeStep(Merging(a, b), n, a, b)]
<1> DEFINE K == Len(a) + Len(b)
           Upto(g, n) == \A m \in 0 .. K : m <= n => g[m] = MergeStep(g, m, a, b)
           Missing == {n \in Nat : ~ \E g : Upto(g, n)}
<1>1. K \in Nat
  BY LenProperties
<1> HIDE DEF K
<1>2. 0 \notin Missing
  <2> DEFINE g == [n \in 0 .. K |-> Begun]
  <2>1. \A m \in 0 .. K : m <= 0 => m = 0
    BY <1>1
  <2>2. Upto(g, 0)
    BY <2>1 DEF MergeStep
  <2> HIDE DEF g, Upto
  <2>3. QED
    BY <2>2
<1>3. ASSUME NEW n \in Nat, n \notin Missing PROVE n + 1 \notin Missing
  <2>1. PICK g : Upto(g, n)
    BY <1>3
  <2> DEFINE h == [m \in 0 .. K |-> MergeStep(g, m, a, b)]
  <2>2. ASSUME NEW m \in 0 .. K, m <= n + 1 PROVE h[m] = MergeStep(h, m, a, b)
    <3>1. CASE m = 0
      BY <3>1 DEF MergeStep
    <3>2. CASE m # 0
      <4>1. m - 1 \in 0 .. K /\ m - 1 <= n
        BY <1>1, <2>2, <3>2
      <4>2. h[m - 1] = g[m - 1]
        BY <2>1, <4>1
      <4>3. QED
        BY <3>2, <4>2 DEF MergeStep
    <3>3. QED
      BY <3>1, <3>2
  <2>3. Upto(h, n + 1)
    BY <2>2
  <2> HIDE DEF h, Upto
  <2>4. QED
    BY <2>3
<1>4. Missing = {}
  <2> HIDE DEF Upto
  <2>1. Missing \in SUBSET Nat
    OBVIOUS
  <2> HIDE DEF Missing
  <2>2. QED
    BY <1>2, <1>3, <2>1, NoLeast
<1>5. PICK g : Upto(g, K)
  <2> HIDE DEF Upto
  <2>1. QED
    BY <1>1, <1>4
<1>6. \E step : step = [n \in 0 .. K |-> MergeStep(step, n, a, b)]
  <2> DEFINE h == [n \in 0 .. K |-> MergeStep(g, n, a, b)]
  <2>1. \A n \in 0 .. K : h[n] = g[n]
    BY <1>1, <1>5
  <2>2. \A n \in 0 .. K : n # 0 => n - 1 \in 0 .. K
    BY <1>1
  <2>3. \A n \in 0 .. K : MergeStep(g, n, a, b) = MergeStep(h, n, a, b)
    BY <2>1, <2>2 DEF MergeStep
  <2>4. h = [n \in 0 .. K |-> MergeStep(h, n, a, b)]
    BY <2>3
  <2> HIDE DEF h
  <2>5. QED
    BY <2>4
<1>7. Merging(a, b) = CHOOSE step : step = [n \in 0 .. K |-> MergeStep(step, n, a, b)]
  BY DEF Merging, K, MergeStep, After, TakesLocal, Begun
<1>8. QED
  BY <1>6, <1>7 DEF K

\* The loop has replayed so many of each, and whatever comes later comes later.
Between(p, a, b) ==
  /\ \A i \in 1 .. p.local : p.broad < Len(b) => a[i] < b[p.broad + 1]
  /\ \A j \in 1 .. p.broad : p.local < Len(a) => b[j] < a[p.local + 1]
Position(p, n, a, b) ==
  /\ p \in [local : 0 .. Len(a), broad : 0 .. Len(b)]
  /\ p.local + p.broad = n
  /\ Between(p, a, b)

LEMMA SeqFacts ==
  ASSUME NEW a \in Seq(Int)
  PROVE  Len(a) \in Nat /\ DOMAIN a = 1 .. Len(a) /\ \A i \in 1 .. Len(a) : a[i] \in Int
BY LenProperties, ElementOfSeq

LEMMA PositionStep ==
  ASSUME NEW a \in Seq(Int), NEW b \in Seq(Int), Increasing(a), Increasing(b),
         ToSet(a) \cap ToSet(b) = {}, NEW p, NEW n \in Nat, n < Len(a) + Len(b), Position(p, n, a, b)
  PROVE  /\ Position(After(p, a, b), n + 1, a, b)
         /\ TakesLocal(p, a, b) => p.local < Len(a) /\ After(p, a, b) = [local |-> p.local + 1, broad |-> p.broad]
         /\ ~TakesLocal(p, a, b) => p.broad < Len(b) /\ After(p, a, b) = [local |-> p.local, broad |-> p.broad + 1]
<1> DEFINE la == Len(a)
           lb == Len(b)
           x == p.local
           y == p.broad
<1>1. /\ la \in Nat /\ DOMAIN a = 1 .. la /\ \A i \in 1 .. la : a[i] \in Int
      /\ lb \in Nat /\ DOMAIN b = 1 .. lb /\ \A i \in 1 .. lb : b[i] \in Int
  BY SeqFacts
<1>2. x \in 0 .. la /\ y \in 0 .. lb /\ x + y = n /\ p = [local |-> x, broad |-> y]
  BY DEF Position
<1>3. (\A i \in 1 .. x : y < lb => a[i] < b[y + 1]) /\ (\A j \in 1 .. y : x < la => b[j] < a[x + 1])
  BY DEF Position, Between
<1>4. (\A i, j \in 1 .. la : i < j => a[i] < a[j]) /\ (\A i, j \in 1 .. lb : i < j => b[i] < b[j])
  BY <1>1 DEF Increasing
<1>5. \A i \in 1 .. la, j \in 1 .. lb : a[i] # b[j]
  BY <1>1 DEF ToSet
<1> HIDE DEF la, lb, x, y
<1>6. CASE TakesLocal(p, a, b)
  <2>1. y = lb \/ (x < la /\ a[x + 1] < b[y + 1])
    BY <1>6 DEF TakesLocal, x, y, la, lb
  <2>2. x < la
    <3>1. n < la + lb
      BY DEF la, lb
    <3>2. QED
      BY <1>1, <1>2, <2>1, <3>1
  <2> DEFINE q == [local |-> x + 1, broad |-> y]
  <2>3. After(p, a, b) = q
    BY <1>2, <1>6 DEF After, x, y
  <2>4. q \in [local : 0 .. la, broad : 0 .. lb] /\ q.local = x + 1 /\ q.broad = y /\ (x + 1) + y = n + 1
    BY <1>1, <1>2, <2>2
  <2>5. ASSUME NEW i \in 1 .. x + 1, y < lb PROVE a[i] < b[y + 1]
    <3>1. i \in 1 .. x \/ i = x + 1
      BY <1>2
    <3>2. CASE i = x + 1
      BY <1>2, <2>1, <2>5, <3>2
    <3>3. QED
      BY <1>3, <2>5, <3>1, <3>2
  <2>6. ASSUME NEW j \in 1 .. y, x + 1 < la PROVE b[j] < a[x + 2]
    <3>1. b[j] < a[x + 1]
      BY <1>3, <2>2
    <3>2. x + 1 \in 1 .. la /\ x + 2 \in 1 .. la /\ j \in 1 .. lb
      BY <1>1, <1>2, <2>6
    <3>3. a[x + 1] < a[x + 2]
      BY <1>2, <1>4, <3>2
    <3>4. QED
      BY <1>1, <3>1, <3>2, <3>3
  <2>7. Between(q, a, b)
    <3>1. (x + 1) + 1 = x + 2
      BY <1>2
    <3>2. \A j \in 1 .. y : x + 1 < la => b[j] < a[(x + 1) + 1]
      BY <2>6, <3>1
    <3>3. QED
      BY <2>4, <2>5, <3>2 DEF Between, la, lb
  <2> HIDE DEF q
  <2>8. Position(q, n + 1, a, b)
    BY <2>4, <2>7 DEF Position, la, lb
  <2>9. QED
    BY <1>6, <2>2, <2>3, <2>8 DEF q, la, x, y
<1>7. CASE ~TakesLocal(p, a, b)
  <2>1. y < lb /\ ~(x < la /\ a[x + 1] < b[y + 1])
    <3>1. ~(y = lb) /\ ~(x < la /\ a[x + 1] < b[y + 1])
      BY <1>7 DEF TakesLocal, x, y, la, lb
    <3>2. QED
      BY <1>1, <1>2, <3>1
  <2> DEFINE q == [local |-> x, broad |-> y + 1]
  <2>2. After(p, a, b) = q
    BY <1>2, <1>7 DEF After, x, y
  <2>3. q \in [local : 0 .. la, broad : 0 .. lb] /\ q.local = x /\ q.broad = y + 1 /\ x + (y + 1) = n + 1
    BY <1>1, <1>2, <2>1
  <2>4. ASSUME NEW j \in 1 .. y + 1, x < la PROVE b[j] < a[x + 1]
    <3>1. j \in 1 .. y \/ j = y + 1
      BY <1>2
    <3>2. CASE j = y + 1
      <4>1. x + 1 \in 1 .. la /\ y + 1 \in 1 .. lb
        BY <1>1, <1>2, <2>1, <2>4
      <4>2. a[x + 1] # b[y + 1] /\ a[x + 1] \in Int /\ b[y + 1] \in Int
        BY <1>1, <1>5, <4>1
      <4>3. QED
        BY <2>1, <2>4, <3>2, <4>2
    <3>3. QED
      BY <1>3, <2>4, <3>1, <3>2
  <2>5. ASSUME NEW i \in 1 .. x, y + 1 < lb PROVE a[i] < b[y + 2]
    <3>1. a[i] < b[y + 1]
      BY <1>3, <2>1
    <3>2. y + 1 \in 1 .. lb /\ y + 2 \in 1 .. lb /\ i \in 1 .. la
      BY <1>1, <1>2, <2>5
    <3>3. b[y + 1] < b[y + 2]
      BY <1>2, <1>4, <3>2
    <3>4. QED
      BY <1>1, <3>1, <3>2, <3>3
  <2>6. Between(q, a, b)
    <3>1. (y + 1) + 1 = y + 2
      BY <1>2
    <3>2. \A i \in 1 .. x : y + 1 < lb => a[i] < b[(y + 1) + 1]
      BY <2>5, <3>1
    <3>3. QED
      BY <2>3, <2>4, <3>2 DEF Between, la, lb
  <2> HIDE DEF q
  <2>7. Position(q, n + 1, a, b)
    BY <2>3, <2>6 DEF Position, la, lb
  <2>8. QED
    BY <1>7, <2>1, <2>2, <2>7 DEF q, lb, x, y
<1>8. QED
  BY <1>6, <1>7

\* Where the loop is after n steps, and what the n-th step takes.
Advance(step, n, a, b) ==
  \/ step[n - 1].local < Len(a) /\ step[n] = [local |-> step[n - 1].local + 1, broad |-> step[n - 1].broad]
  \/ step[n - 1].broad < Len(b) /\ step[n] = [local |-> step[n - 1].local, broad |-> step[n - 1].broad + 1]

LEMMA MergePositions ==
  ASSUME NEW a \in Seq(Int), NEW b \in Seq(Int), Increasing(a), Increasing(b), ToSet(a) \cap ToSet(b) = {}
  PROVE  /\ Merging(a, b)[0] = Begun
         /\ \A n \in 0 .. Len(a) + Len(b) : Position(Merging(a, b)[n], n, a, b)
         /\ \A n \in 1 .. Len(a) + Len(b) : Advance(Merging(a, b), n, a, b)
<1> DEFINE K == Len(a) + Len(b)
           step == Merging(a, b)
           Wrong == {n \in Nat : n <= K /\ ~Position(step[n], n, a, b)}
<1>1. K \in Nat /\ Len(a) \in Nat /\ Len(b) \in Nat
  BY LenProperties
<1>2. \A n \in 0 .. K : step[n] = MergeStep(step, n, a, b)
  BY MergingDefined
<1> HIDE DEF K, step
<1>3. step[0] = Begun
  BY <1>1, <1>2 DEF MergeStep
<1>4. \A n \in Nat : n + 1 <= K => n + 1 \in 0 .. K /\ step[n + 1] = After(step[n], a, b)
  BY <1>1, <1>2 DEF MergeStep
<1>5. Position(step[0], 0, a, b)
  <2>1. Begun \in [local : 0 .. Len(a), broad : 0 .. Len(b)] /\ Begun.local = 0 /\ Begun.broad = 0
    BY <1>1 DEF Begun
  <2>2. QED
    BY <1>3, <2>1 DEF Position, Between
<1>6. ASSUME NEW n \in Nat, n \notin Wrong PROVE n + 1 \notin Wrong
  <2> SUFFICES ASSUME n + 1 <= K PROVE Position(step[n + 1], n + 1, a, b)
    OBVIOUS
  <2>1. Position(step[n], n, a, b) /\ n < Len(a) + Len(b)
    BY <1>1, <1>6 DEF K
  <2>2. QED
    BY <1>4, <2>1, PositionStep
<1>7. Wrong = {}
  <2>1. Wrong \in SUBSET Nat /\ 0 \notin Wrong
    BY <1>5
  <2> HIDE DEF Wrong
  <2>2. QED
    BY <1>6, <2>1, NoLeast
<1>8. \A n \in 0 .. K : Position(step[n], n, a, b)
  BY <1>1, <1>7
<1>9. ASSUME NEW n \in 1 .. K PROVE Advance(step, n, a, b)
  <2>1. n - 1 \in Nat /\ n - 1 \in 0 .. K /\ (n - 1) + 1 = n /\ n - 1 < Len(a) + Len(b) /\ n <= K
    BY <1>1 DEF K
  <2>2. Position(step[n - 1], n - 1, a, b) /\ step[n] = After(step[n - 1], a, b)
    BY <1>4, <1>8, <2>1
  <2>3. QED
    BY <2>1, <2>2, PositionStep DEF Advance
<1>10. QED
  BY <1>3, <1>8, <1>9 DEF K, step

MergeOf(a, b) ==
  [n \in 1 .. Len(a) + Len(b) |->
     IF Merging(a, b)[n].local > Merging(a, b)[n - 1].local
     THEN a[Merging(a, b)[n].local] ELSE b[Merging(a, b)[n].broad]]

\* The n-th step replays the next of the one or of the other, and neither goes
\* back.
LEMMA MergeTakes ==
  ASSUME NEW a \in Seq(Int), NEW b \in Seq(Int), Increasing(a), Increasing(b),
         ToSet(a) \cap ToSet(b) = {}, NEW n \in 1 .. Len(a) + Len(b)
  PROVE  LET p == Merging(a, b)[n - 1]
             q == Merging(a, b)[n]
         IN  \/ /\ q.local = p.local + 1 /\ q.broad = p.broad /\ q.local \in 1 .. Len(a)
                /\ MergeOf(a, b)[n] = a[q.local]
             \/ /\ q.local = p.local /\ q.broad = p.broad + 1 /\ q.broad \in 1 .. Len(b)
                /\ MergeOf(a, b)[n] = b[q.broad]
<1> DEFINE p == Merging(a, b)[n - 1]
           q == Merging(a, b)[n]
<1>1. n - 1 \in 0 .. Len(a) + Len(b) /\ Len(a) \in Nat /\ Len(b) \in Nat
  BY LenProperties
<1>2. p.local \in Nat /\ p.broad \in Nat
  <2>1. Position(p, n - 1, a, b)
    BY <1>1, MergePositions
  <2>2. QED
    BY <1>1, <2>1 DEF Position
<1>3. MergeOf(a, b)[n] = IF q.local > p.local THEN a[q.local] ELSE b[q.broad]
  BY DEF MergeOf
<1>4. \/ p.local < Len(a) /\ q = [local |-> p.local + 1, broad |-> p.broad]
      \/ p.broad < Len(b) /\ q = [local |-> p.local, broad |-> p.broad + 1]
  BY MergePositions DEF Advance
<1> HIDE DEF p, q
<1>5. CASE p.local < Len(a) /\ q = [local |-> p.local + 1, broad |-> p.broad]
  <2>1. q.local = p.local + 1 /\ q.broad = p.broad
    BY <1>5
  <2>2. q.local \in 1 .. Len(a) /\ q.local > p.local
    BY <1>1, <1>2, <1>5, <2>1
  <2>3. QED
    BY <1>3, <2>1, <2>2 DEF p, q
<1>6. CASE p.broad < Len(b) /\ q = [local |-> p.local, broad |-> p.broad + 1]
  <2>1. q.local = p.local /\ q.broad = p.broad + 1
    BY <1>6
  <2>2. q.broad \in 1 .. Len(b) /\ ~(q.local > p.local)
    BY <1>1, <1>2, <1>6, <2>1
  <2>3. QED
    BY <1>3, <2>1, <2>2 DEF p, q
<1>7. QED
  BY <1>4, <1>5, <1>6

LEMMA MergeGrows ==
  ASSUME NEW a \in Seq(Int), NEW b \in Seq(Int), Increasing(a), Increasing(b),
         ToSet(a) \cap ToSet(b) = {}, NEW k \in 0 .. Len(a) + Len(b)
  PROVE  \A n \in k .. Len(a) + Len(b) :
           Merging(a, b)[k].local <= Merging(a, b)[n].local /\ Merging(a, b)[k].broad <= Merging(a, b)[n].broad
<1> DEFINE K == Len(a) + Len(b)
           step == Merging(a, b)
           Past(n) == step[k].local <= step[n].local /\ step[k].broad <= step[n].broad
           Back == {d \in Nat : k + d <= K /\ ~Past(k + d)}
<1>1. K \in Nat /\ k \in Nat
  BY LenProperties
<1>2. \A n \in 0 .. K : step[n].local \in Int /\ step[n].broad \in Int
  <2>1. \A n \in 0 .. K : Position(step[n], n, a, b)
    BY MergePositions
  <2>2. \A n \in 0 .. K : step[n].local \in 0 .. Len(a) /\ step[n].broad \in 0 .. Len(b)
    BY <2>1 DEF Position
  <2>3. QED
    BY <2>2
<1>3. \A n \in 1 .. K : \/ step[n].local = step[n - 1].local + 1 /\ step[n].broad = step[n - 1].broad
                        \/ step[n].local = step[n - 1].local /\ step[n].broad = step[n - 1].broad + 1
  BY MergeTakes
<1> HIDE DEF K, step
<1>4. 0 \notin Back
  <2>1. k + 0 = k /\ k \in 0 .. K
    BY <1>1 DEF K
  <2>2. Past(k)
    BY <1>2, <2>1
  <2>3. QED
    BY <2>1, <2>2
<1>5. ASSUME NEW d \in Nat, d \notin Back PROVE d + 1 \notin Back
  <2> SUFFICES ASSUME k + (d + 1) <= K PROVE Past(k + (d + 1))
    OBVIOUS
  <2>1. k + d \in 0 .. K /\ k + (d + 1) \in 1 .. K /\ k + (d + 1) - 1 = k + d /\ k + d <= K /\ k \in 0 .. K
    BY <1>1
  <2>2. Past(k + d)
    BY <1>5, <2>1
  <2>3. step[k].local \in Int /\ step[k].broad \in Int /\ step[k + d].local \in Int /\ step[k + d].broad \in Int
    BY <1>2, <2>1
  <2>4. \/ step[k + (d + 1)].local = step[k + d].local + 1 /\ step[k + (d + 1)].broad = step[k + d].broad
        \/ step[k + (d + 1)].local = step[k + d].local /\ step[k + (d + 1)].broad = step[k + d].broad + 1
    <3> DEFINE n == k + (d + 1)
    <3>1. n \in 1 .. K /\ n - 1 = k + d
      BY <2>1
    <3> HIDE DEF n
    <3>2. \/ step[n].local = step[k + d].local + 1 /\ step[n].broad = step[k + d].broad
          \/ step[n].local = step[k + d].local /\ step[n].broad = step[k + d].broad + 1
      BY <1>3, <3>1
    <3>3. QED
      BY <3>2 DEF n
  <2>5. QED
    BY <2>2, <2>3, <2>4
<1>6. Back = {}
  <2>1. Back \in SUBSET Nat
    OBVIOUS
  <2> HIDE DEF Back
  <2>2. QED
    BY <1>4, <1>5, <2>1, NoLeast
<1>7. ASSUME NEW n \in k .. K PROVE Past(n)
  <2>1. n - k \in Nat /\ k + (n - k) = n /\ n <= K
    BY <1>1
  <2>2. QED
    BY <1>6, <2>1
<1>8. QED
  BY <1>7 DEF K, step

\* The merge of two lists in source order is in source order and has the
\* commands of both.
LEMMA MergeOrder ==
  ASSUME NEW a \in Seq(Int), NEW b \in Seq(Int), Increasing(a), Increasing(b), ToSet(a) \cap ToSet(b) = {}
  PROVE  /\ DOMAIN MergeOf(a, b) = 1 .. Len(a) + Len(b)
         /\ Increasing(MergeOf(a, b))
         /\ ToSet(MergeOf(a, b)) = ToSet(a) \cup ToSet(b)
<1> DEFINE K == Len(a) + Len(b)
           step == Merging(a, b)
           m == MergeOf(a, b)
           Replayed(n, v) == \/ \E i \in 1 .. step[n].local : v = a[i]
                             \/ \E j \in 1 .. step[n].broad : v = b[j]
<1>1. /\ Len(a) \in Nat /\ DOMAIN a = 1 .. Len(a) /\ \A i \in 1 .. Len(a) : a[i] \in Int
      /\ Len(b) \in Nat /\ DOMAIN b = 1 .. Len(b) /\ \A i \in 1 .. Len(b) : b[i] \in Int
  BY SeqFacts
<1>2. K \in Nat /\ DOMAIN m = 1 .. K
  BY <1>1 DEF MergeOf
<1>3. \A n \in 0 .. K : Position(step[n], n, a, b)
  BY MergePositions
<1>4. \A n \in 0 .. K : step[n].local \in 0 .. Len(a) /\ step[n].broad \in 0 .. Len(b)
                        /\ step[n].local + step[n].broad = n
  BY <1>3 DEF Position
<1>5. \A n \in 1 .. K :
        \/ /\ step[n].local = step[n - 1].local + 1 /\ step[n].broad = step[n - 1].broad
           /\ step[n].local \in 1 .. Len(a) /\ m[n] = a[step[n].local]
        \/ /\ step[n].local = step[n - 1].local /\ step[n].broad = step[n - 1].broad + 1
           /\ step[n].broad \in 1 .. Len(b) /\ m[n] = b[step[n].broad]
  BY MergeTakes
<1>6. \A k \in 0 .. K : \A n \in k .. K : step[k].local <= step[n].local /\ step[k].broad <= step[n].broad
  BY MergeGrows
<1>7. step[0].local = 0 /\ step[0].broad = 0
  BY MergePositions DEF Begun
<1> HIDE DEF K, step, m
<1>8. \A n \in 1 .. K : m[n] \in ToSet(a) \cup ToSet(b) /\ Replayed(n, m[n])
  <2> SUFFICES ASSUME NEW n \in 1 .. K PROVE m[n] \in ToSet(a) \cup ToSet(b) /\ Replayed(n, m[n])
    OBVIOUS
  <2>1. CASE step[n].local \in 1 .. Len(a) /\ m[n] = a[step[n].local]
    <3>1. step[n].local \in 1 .. step[n].local
      BY <1>1, <2>1
    <3>2. QED
      BY <1>1, <2>1, <3>1 DEF ToSet
  <2>2. CASE step[n].broad \in 1 .. Len(b) /\ m[n] = b[step[n].broad]
    <3>1. step[n].broad \in 1 .. step[n].broad
      BY <1>1, <2>2
    <3>2. QED
      BY <1>1, <2>2, <3>1 DEF ToSet
  <2>3. QED
    BY <1>5, <2>1, <2>2
<1>9. ASSUME NEW n \in 1 .. K, NEW v, Replayed(n - 1, v) PROVE v < m[n]
  <2>1. n - 1 \in 0 .. K /\ n \in 0 .. K
    BY <1>2
  <2>2. Between(step[n - 1], a, b)
    BY <1>3, <2>1 DEF Position
  <2>3. step[n - 1].local \in 0 .. Len(a) /\ step[n - 1].broad \in 0 .. Len(b)
    BY <1>4, <2>1
  <2> DEFINE x == step[n - 1].local
             y == step[n - 1].broad
  <2>4. (\A i \in 1 .. x : y < Len(b) => a[i] < b[y + 1]) /\ (\A j \in 1 .. y : x < Len(a) => b[j] < a[x + 1])
    BY <2>2 DEF Between
  <2>5. x \in 0 .. Len(a) /\ y \in 0 .. Len(b)
    BY <2>3
  <2>6. \/ x + 1 \in 1 .. Len(a) /\ m[n] = a[x + 1]
        \/ y + 1 \in 1 .. Len(b) /\ m[n] = b[y + 1]
    BY <1>5
  <2>7. (\E i \in 1 .. x : v = a[i]) \/ (\E j \in 1 .. y : v = b[j])
    BY <1>9
  <2> HIDE DEF x, y
  <2>8. CASE x + 1 \in 1 .. Len(a) /\ m[n] = a[x + 1]
    <3>1. x < Len(a)
      BY <1>1, <2>5, <2>8
    <3>2. \A i \in 1 .. x : i \in 1 .. Len(a) /\ i < x + 1
      BY <1>1, <2>5
    <3>3. \A i \in 1 .. x : a[i] < a[x + 1]
      BY <1>1, <2>8, <3>2 DEF Increasing
    <3>4. QED
      BY <2>4, <2>7, <2>8, <3>1, <3>3
  <2>9. CASE y + 1 \in 1 .. Len(b) /\ m[n] = b[y + 1]
    <3>1. y < Len(b)
      BY <1>1, <2>5, <2>9
    <3>2. \A j \in 1 .. y : j \in 1 .. Len(b) /\ j < y + 1
      BY <1>1, <2>5
    <3>3. \A j \in 1 .. y : b[j] < b[y + 1]
      BY <1>1, <2>9, <3>2 DEF Increasing
    <3>4. QED
      BY <2>4, <2>7, <2>9, <3>1, <3>3
  <2>10. QED
    BY <2>6, <2>8, <2>9
<1>10. Increasing(m)
  <2> SUFFICES ASSUME NEW k \in 1 .. K, NEW n \in 1 .. K, k < n PROVE m[k] < m[n]
    BY <1>2 DEF Increasing
  <2>1. k \in 0 .. K /\ n - 1 \in k .. K /\ n - 1 \in 0 .. K
    BY <1>2
  <2>2. step[k].local <= step[n - 1].local /\ step[k].broad <= step[n - 1].broad
    BY <1>6, <2>1
  <2>3. step[k].local \in Nat /\ step[n - 1].local \in Nat /\ step[k].broad \in Nat /\ step[n - 1].broad \in Nat
    <3>1. \A p \in 0 .. K : step[p].local \in Nat /\ step[p].broad \in Nat
      BY <1>4
    <3>2. QED
      BY <2>1, <3>1, Zenon
  <2>4. 1 .. step[k].local \subseteq 1 .. step[n - 1].local /\ 1 .. step[k].broad \subseteq 1 .. step[n - 1].broad
    <3>1. \A p, q \in Nat : p <= q => 1 .. p \subseteq 1 .. q
      OBVIOUS
    <3>2. QED
      BY <2>2, <2>3, <3>1, Zenon
  <2>5. Replayed(n - 1, m[k])
    BY <1>8, <2>4
  <2>6. QED
    BY <1>9, <2>5
<1>11. ASSUME NEW i \in 1 .. Len(a) PROVE a[i] \in ToSet(m)
  <2> DEFINE S == {n \in Nat : n <= K /\ step[n].local >= i}
  <2>1. K \in S
    <3>1. step[K].local + step[K].broad = K /\ step[K].local \in 0 .. Len(a) /\ step[K].broad \in 0 .. Len(b)
      BY <1>2, <1>4
    <3>2. K = Len(a) + Len(b)
      BY DEF K
    <3>3. step[K].local >= i
      BY <1>1, <3>1, <3>2
    <3>4. QED
      BY <1>2, <3>3
  <2>2. PICK n \in S : \A k \in S : n <= k
    <3>1. S \in SUBSET Nat /\ S # {}
      BY <2>1
    <3> HIDE DEF S
    <3>2. QED
      BY <3>1, LeastNat
  <2>3. n \in Nat /\ n <= K /\ step[n].local >= i /\ n # 0
    BY <1>7, <2>2
  <2>4. n \in 1 .. K /\ n - 1 \in Nat /\ n - 1 <= K /\ n - 1 \in 0 .. K /\ n \in 0 .. K /\ ~(n <= n - 1)
    BY <1>2, <2>3
  <2>5. ~(step[n - 1].local >= i)
    BY <2>2, <2>4
  <2>6. step[n].local \in Int /\ step[n - 1].local \in Int
    BY <1>1, <1>4, <2>4
  <2>7. step[n].local = i /\ m[n] = a[i]
    <3>1. \/ step[n].local = step[n - 1].local + 1 /\ m[n] = a[step[n].local]
          \/ step[n].local = step[n - 1].local
      BY <1>5, <2>4
    <3>2. step[n].local = i /\ step[n].local = step[n - 1].local + 1
      BY <2>3, <2>5, <2>6, <3>1
    <3>3. step[n].local # step[n - 1].local
      BY <2>3, <2>5
    <3>4. QED
      BY <3>1, <3>2, <3>3
  <2>8. QED
    BY <1>2, <2>4, <2>7 DEF ToSet
<1>12. ASSUME NEW j \in 1 .. Len(b) PROVE b[j] \in ToSet(m)
  <2> DEFINE S == {n \in Nat : n <= K /\ step[n].broad >= j}
  <2>1. K \in S
    <3>1. step[K].local + step[K].broad = K /\ step[K].local \in 0 .. Len(a) /\ step[K].broad \in 0 .. Len(b)
      BY <1>2, <1>4
    <3>2. K = Len(a) + Len(b)
      BY DEF K
    <3>3. step[K].broad >= j
      BY <1>1, <3>1, <3>2
    <3>4. QED
      BY <1>2, <3>3
  <2>2. PICK n \in S : \A k \in S : n <= k
    <3>1. S \in SUBSET Nat /\ S # {}
      BY <2>1
    <3> HIDE DEF S
    <3>2. QED
      BY <3>1, LeastNat
  <2>3. n \in Nat /\ n <= K /\ step[n].broad >= j /\ n # 0
    BY <1>7, <2>2
  <2>4. n \in 1 .. K /\ n - 1 \in Nat /\ n - 1 <= K /\ n - 1 \in 0 .. K /\ n \in 0 .. K /\ ~(n <= n - 1)
    BY <1>2, <2>3
  <2>5. ~(step[n - 1].broad >= j)
    BY <2>2, <2>4
  <2>6. step[n].broad \in Int /\ step[n - 1].broad \in Int
    BY <1>1, <1>4, <2>4
  <2>7. step[n].broad = j /\ m[n] = b[j]
    <3>1. \/ step[n].broad = step[n - 1].broad + 1 /\ m[n] = b[step[n].broad]
          \/ step[n].broad = step[n - 1].broad
      BY <1>5, <2>4
    <3>2. step[n].broad = j /\ step[n].broad = step[n - 1].broad + 1
      BY <2>3, <2>5, <2>6, <3>1
    <3>3. step[n].broad # step[n - 1].broad
      BY <2>3, <2>5
    <3>4. QED
      BY <3>1, <3>2, <3>3
  <2>8. QED
    BY <1>2, <2>4, <2>7 DEF ToSet
<1>13. ToSet(m) = ToSet(a) \cup ToSet(b)
  <2>1. \A v \in ToSet(m) : v \in ToSet(a) \cup ToSet(b)
    BY <1>2, <1>8 DEF ToSet
  <2>2. \A v \in ToSet(a) \cup ToSet(b) : v \in ToSet(m)
    BY <1>1, <1>11, <1>12 DEF ToSet
  <2>3. QED
    BY <2>1, <2>2
<1>14. QED
  BY <1>2, <1>10, <1>13 DEF K, m

(***************************************************************************)
(* The lines of the first blocks.                                          *)
(***************************************************************************)

FlatStep(f, i, s) == IF i = 1 THEN s[i] ELSE f[i - 1] \o s[i]
Flat(s) == CHOOSE f : f = [i \in 1 .. Len(s) |-> FlatStep(f, i, s)]
FlatTo(s, n) == IF n = 0 THEN <<>> ELSE Flat(s)[n]

LEMMA FlatDefined ==
  ASSUME NEW s \in Seq(Seq(Line))
  PROVE  Flat(s) = [i \in 1 .. Len(s) |-> FlatStep(Flat(s), i, s)]
<1> DEFINE K == Len(s)
           Upto(g, n) == \A i \in 1 .. K : i <= n => g[i] = FlatStep(g, i, s)
           Missing == {n \in Nat : ~ \E g : Upto(g, n)}
<1>1. K \in Nat
  BY LenProperties
<1> HIDE DEF K
<1>2. 0 \notin Missing
  <2>1. Upto(<<>>, 0)
    BY <1>1
  <2> HIDE DEF Upto
  <2>2. QED
    BY <2>1
<1>3. ASSUME NEW n \in Nat, n \notin Missing PROVE n + 1 \notin Missing
  <2>1. PICK g : Upto(g, n)
    BY <1>3
  <2> DEFINE h == [i \in 1 .. K |-> FlatStep(g, i, s)]
  <2>2. ASSUME NEW i \in 1 .. K, i <= n + 1 PROVE h[i] = FlatStep(h, i, s)
    <3>1. CASE i = 1
      BY <3>1 DEF FlatStep
    <3>2. CASE i # 1
      <4>1. i - 1 \in 1 .. K /\ i - 1 <= n
        BY <1>1, <2>2, <3>2
      <4>2. h[i - 1] = g[i - 1]
        BY <2>1, <4>1
      <4>3. QED
        BY <3>2, <4>2 DEF FlatStep
    <3>3. QED
      BY <3>1, <3>2
  <2>3. Upto(h, n + 1)
    BY <2>2
  <2> HIDE DEF h, Upto
  <2>4. QED
    BY <2>3
<1>4. Missing = {}
  <2> HIDE DEF Upto
  <2>1. Missing \in SUBSET Nat
    OBVIOUS
  <2> HIDE DEF Missing
  <2>2. QED
    BY <1>2, <1>3, <2>1, NoLeast
<1>5. PICK g : Upto(g, K)
  <2> HIDE DEF Upto
  <2>1. QED
    BY <1>1, <1>4
<1>6. \E f : f = [i \in 1 .. K |-> FlatStep(f, i, s)]
  <2> DEFINE h == [i \in 1 .. K |-> FlatStep(g, i, s)]
  <2>1. \A i \in 1 .. K : h[i] = g[i]
    BY <1>1, <1>5
  <2>2. \A i \in 1 .. K : i # 1 => i - 1 \in 1 .. K
    BY <1>1
  <2>3. \A i \in 1 .. K : FlatStep(g, i, s) = FlatStep(h, i, s)
    BY <2>1, <2>2 DEF FlatStep
  <2>4. h = [i \in 1 .. K |-> FlatStep(h, i, s)]
    BY <2>3
  <2> HIDE DEF h
  <2>5. QED
    BY <2>4
<1>7. QED
  BY <1>6 DEF Flat, K

LEMMA FlattenIsLast ==
  ASSUME NEW s \in Seq(Seq(Line))
  PROVE  FlattenSeq(s) = FlatTo(s, Len(s))
<1>1. CASE Len(s) = 0
  <2>1. s = <<>>
    BY <1>1, EmptySeq
  <2>2. QED
    BY <1>1, <2>1 DEF FlattenSeq, FlatTo
<1>2. CASE Len(s) # 0
  BY <1>2 DEF FlattenSeq, FlatTo, Flat, FlatStep
<1>3. QED
  BY <1>1, <1>2

\* The lines of one block more are the lines so far and those of the block.
LEMMA FlatToStep ==
  ASSUME NEW s \in Seq(Seq(Line)), NEW n \in 0 .. Len(s)
  PROVE  /\ FlatTo(s, 0) = <<>>
         /\ n < Len(s) => FlatTo(s, n + 1) = FlatTo(s, n) \o s[n + 1]
         /\ FlatTo(s, n) \in Seq(Line)
<1> DEFINE K == Len(s)
           Bad == {k \in Nat : k <= K /\ FlatTo(s, k) \notin Seq(Line)}
<1>1. K \in Nat /\ \A i \in 1 .. K : s[i] \in Seq(Line)
  BY LenProperties, ElementOfSeq
<1>2. FlatTo(s, 0) = <<>>
  BY DEF FlatTo
<1>3. ASSUME NEW k \in Nat, k < K PROVE FlatTo(s, k + 1) = FlatTo(s, k) \o s[k + 1]
  <2>1. k + 1 \in 1 .. K /\ (k + 1) - 1 = k /\ k + 1 # 0
    BY <1>1, <1>3
  <2>2. Flat(s)[k + 1] = FlatStep(Flat(s), k + 1, s)
    BY <2>1, FlatDefined
  <2>3. CASE k = 0
    <3>1. s[1] \in Seq(Line) /\ k + 1 = 1
      BY <1>1, <2>1, <2>3
    <3>2. <<>> \o s[1] = s[1]
      BY <3>1, ConcatEmptySeq
    <3>3. FlatTo(s, k + 1) = s[1] /\ FlatTo(s, k) = <<>>
      BY <2>2, <2>3, <3>1 DEF FlatTo, FlatStep
    <3>4. QED
      BY <3>1, <3>2, <3>3
  <2>4. CASE k # 0
    <3>1. k + 1 # 1
      BY <2>4
    <3>2. Flat(s)[k + 1] = Flat(s)[k] \o s[k + 1]
      BY <2>1, <2>2, <3>1 DEF FlatStep
    <3>3. QED
      BY <2>1, <2>4, <3>2 DEF FlatTo
  <2>5. QED
    BY <2>3, <2>4
<1>4. Bad = {}
  <2>1. 0 \notin Bad
    BY <1>2, EmptySeq
  <2>2. ASSUME NEW k \in Nat, k \notin Bad PROVE k + 1 \notin Bad
    <3> SUFFICES ASSUME k + 1 <= K PROVE FlatTo(s, k + 1) \in Seq(Line)
      OBVIOUS
    <3>1. k < K /\ k <= K /\ k + 1 \in 1 .. K
      BY <1>1
    <3>2. FlatTo(s, k) \in Seq(Line) /\ s[k + 1] \in Seq(Line)
      BY <1>1, <2>2, <3>1
    <3>3. FlatTo(s, k) \o s[k + 1] \in Seq(Line)
      BY <3>2, ConcatProperties
    <3>4. QED
      BY <1>3, <3>1, <3>3
  <2>3. Bad \in SUBSET Nat
    OBVIOUS
  <2> HIDE DEF Bad
  <2>4. QED
    BY <2>1, <2>2, <2>3, NoLeast
<1>5. n \in Nat /\ n <= K
  BY <1>1
<1>6. QED
  BY <1>2, <1>3, <1>4, <1>5

LEMMA FlatOfPrefix ==
  ASSUME NEW s \in Seq(Seq(Line)), NEW n \in 0 .. Len(s)
  PROVE  Lines(SubSeq(s, 1, n)) = FlatTo(s, n)
<1> DEFINE p == SubSeq(s, 1, n)
           Off == {k \in Nat : k <= n /\ FlatTo(p, k) # FlatTo(s, k)}
<1>1. Len(s) \in Nat /\ n \in Nat /\ n <= Len(s)
  BY LenProperties
<1>2. p \in Seq(Seq(Line)) /\ Len(p) = n /\ \A i \in 1 .. n : p[i] = s[i]
  BY <1>1, SubSeqProperties
<1> HIDE DEF p
<1>3. 0 \notin Off
  BY DEF FlatTo
<1>4. ASSUME NEW k \in Nat, k \notin Off PROVE k + 1 \notin Off
  <2> SUFFICES ASSUME k + 1 <= n PROVE FlatTo(p, k + 1) = FlatTo(s, k + 1)
    OBVIOUS
  <2>1. k \in 0 .. Len(s) /\ k < Len(s) /\ k \in 0 .. Len(p) /\ k < Len(p) /\ k <= n /\ k + 1 \in 1 .. n
    BY <1>1, <1>2
  <2>2. FlatTo(s, k + 1) = FlatTo(s, k) \o s[k + 1]
    BY <2>1, FlatToStep
  <2>3. FlatTo(p, k + 1) = FlatTo(p, k) \o p[k + 1]
    BY <1>2, <2>1, FlatToStep
  <2>4. QED
    BY <1>2, <1>4, <2>1, <2>2, <2>3
<1>5. Off = {}
  <2>1. Off \in SUBSET Nat
    OBVIOUS
  <2> HIDE DEF Off
  <2>2. QED
    BY <1>3, <1>4, <2>1, NoLeast
<1>6. FlatTo(p, n) = FlatTo(s, n)
  BY <1>1, <1>5
<1>7. QED
  BY <1>2, <1>6, FlattenIsLast DEF Lines, p

LEMMA LinesAssociative ==
  ASSUME NEW a \in Seq(Line), NEW b \in Seq(Line), NEW c \in Seq(Line)
  PROVE  (a \o b) \o c = a \o (b \o c)
BY ConcatAssociative

\* What reading blocks in order relies on: nothing, then one block more, up to
\* all of them, and whatever has been read stays in front.
LEMMA FlatPrefixes ==
  ASSUME NEW s \in Seq(Seq(Line)), NEW n \in 0 .. Len(s)
  PROVE  /\ Lines(SubSeq(s, 1, 0)) = <<>>
         /\ n < Len(s) => Lines(SubSeq(s, 1, n + 1)) = Lines(SubSeq(s, 1, n)) \o s[n + 1]
         /\ Lines(SubSeq(s, 1, n)) \in Seq(Line)
         /\ Lines(SubSeq(s, 1, Len(s))) = Lines(s)
         /\ \E rest \in Seq(Line) : Lines(s) = Lines(SubSeq(s, 1, n)) \o rest
<1> DEFINE K == Len(s)
           Rest(k) == \E rest \in Seq(Line) : FlatTo(s, k) = FlatTo(s, n) \o rest
           Lost == {d \in Nat : n + d <= K /\ ~Rest(n + d)}
<1>1. K \in Nat /\ n \in Nat /\ n <= K /\ 0 \in 0 .. Len(s) /\ Len(s) \in 0 .. Len(s)
  BY LenProperties
<1>2. \A k \in 0 .. K : Lines(SubSeq(s, 1, k)) = FlatTo(s, k)
  BY FlatOfPrefix
<1>3. Lines(s) = FlatTo(s, K)
  BY FlattenIsLast DEF Lines
<1>4. \A k \in 0 .. K : FlatTo(s, k) \in Seq(Line) /\ (k < K => FlatTo(s, k + 1) = FlatTo(s, k) \o s[k + 1])
  BY FlatToStep
<1>5. FlatTo(s, 0) = <<>>
  BY DEF FlatTo
<1>6. 0 \notin Lost
  <2>1. <<>> \in Seq(Line) /\ FlatTo(s, n) \o <<>> = FlatTo(s, n)
    BY <1>4, EmptySeq, ConcatEmptySeq
  <2>2. n + 0 = n
    BY <1>1
  <2>3. QED
    BY <2>1, <2>2
<1>7. ASSUME NEW d \in Nat, d \notin Lost PROVE d + 1 \notin Lost
  <2> SUFFICES ASSUME n + (d + 1) <= K PROVE Rest(n + (d + 1))
    OBVIOUS
  <2>1. n + d \in 0 .. K /\ n + d < K /\ n + (d + 1) = (n + d) + 1 /\ n + d <= K /\ (n + d) + 1 \in 1 .. K
    BY <1>1
  <2>2. PICK rest \in Seq(Line) : FlatTo(s, n + d) = FlatTo(s, n) \o rest
    BY <1>7, <2>1
  <2> DEFINE more == s[(n + d) + 1]
  <2>3. more \in Seq(Line)
    BY <2>1, ElementOfSeq
  <2>4. FlatTo(s, (n + d) + 1) = FlatTo(s, n + d) \o more
    BY <1>4, <2>1
  <2> HIDE DEF more
  <2>5. (FlatTo(s, n) \o rest) \o more = FlatTo(s, n) \o (rest \o more)
    <3>1. FlatTo(s, n) \in Seq(Line)
      BY <1>1, <1>4
    <3>2. QED
      BY <2>3, <3>1, LinesAssociative, Zenon
  <2>6. rest \o more \in Seq(Line)
    BY <2>3, ConcatProperties
  <2>7. FlatTo(s, (n + d) + 1) = FlatTo(s, n) \o (rest \o more)
    BY <2>2, <2>4, <2>5
  <2>8. QED
    BY <2>1, <2>6, <2>7
<1>8. Lost = {}
  <2>1. Lost \in SUBSET Nat
    OBVIOUS
  <2> HIDE DEF Lost
  <2>2. QED
    BY <1>6, <1>7, <2>1, NoLeast
<1>9. Rest(K)
  <2> DEFINE d == K - n
  <2>1. d \in Nat /\ n + d = K /\ n + d <= K
    BY <1>1
  <2> HIDE DEF Rest, d
  <2>2. d \notin Lost
    BY <1>8
  <2>3. Rest(n + d)
    BY <2>1, <2>2
  <2>4. QED
    BY <2>1, <2>3
<1>10. Lines(s) = Lines(SubSeq(s, 1, K))
  BY <1>1, <1>2, <1>3
<1>11. \E rest \in Seq(Line) : Lines(s) = Lines(SubSeq(s, 1, n)) \o rest
  BY <1>2, <1>3, <1>9
<1>12. Lines(SubSeq(s, 1, 0)) = <<>> /\ Lines(SubSeq(s, 1, n)) \in Seq(Line)
  BY <1>1, <1>2, <1>4, <1>5
<1>13. n < K => Lines(SubSeq(s, 1, n + 1)) = Lines(SubSeq(s, 1, n)) \o s[n + 1]
  <2> SUFFICES ASSUME n < K PROVE Lines(SubSeq(s, 1, n + 1)) = Lines(SubSeq(s, 1, n)) \o s[n + 1]
    OBVIOUS
  <2>1. n + 1 \in 0 .. K /\ n \in 0 .. K
    BY <1>1
  <2>2. FlatTo(s, n + 1) = FlatTo(s, n) \o s[n + 1]
    BY <1>4, <2>1
  <2>3. QED
    BY <1>2, <2>1, <2>2
<1>14. QED
  BY <1>10, <1>11, <1>12, <1>13

(***************************************************************************)
(* Lines.                                                                  *)
(***************************************************************************)

LEMMA MinNat ==
  ASSUME NEW S \in SUBSET Nat, S # {}
  PROVE  Min(S) \in S /\ \A k \in S : Min(S) <= k
BY LeastNat DEF Min

LEMMA FunctionIsSeq ==
  ASSUME NEW S, NEW n \in Nat, NEW f \in [1 .. n -> S]
  PROVE  f \in Seq(S) /\ Len(f) = n
<1>1. f \in Seq(S)
  BY SeqDef, Zenon
<1>2. DOMAIN f = 1 .. n /\ DOMAIN f = 1 .. Len(f) /\ Len(f) \in Nat
  BY <1>1, LenProperties
<1>3. QED
  BY <1>1, <1>2

LEMMA LineFacts ==
  ASSUME NEW s \in Seq(Line)
  PROVE  Len(s) \in Nat /\ DOMAIN s = 1 .. Len(s) /\ \A i \in 1 .. Len(s) : s[i] \in Line
BY LenProperties, ElementOfSeq

LEMMA ShiftFacts ==
  ASSUME NEW line \in Line, NEW by \in Int
  PROVE  Shift(line, by) \in Line /\ Shift(Shift(line, by), 0) = Shift(line, by) /\ Shift(line, 0) = line
         /\ Shift(line, by).state = line.state
<1>1. line = [lo |-> line.lo, hi |-> line.hi, state |-> line.state] /\ line.lo \in Int /\ line.hi \in Int
      /\ line.state \in STRING
  BY DEF Line
<1>2. ASSUME NEW lo, NEW hi, NEW state, NEW d
      PROVE  Shift([lo |-> lo, hi |-> hi, state |-> state], d) = [lo |-> lo - d, hi |-> hi - d, state |-> state]
  <2> DEFINE r == [lo |-> lo, hi |-> hi, state |-> state]
  <2>1. r = [f \in {"lo", "hi", "state"} |-> r[f]] /\ r.lo = lo /\ r.hi = hi /\ r.state = state
    OBVIOUS
  <2> HIDE DEF r
  <2> DEFINE q == [r EXCEPT !.lo = @ - d, !.hi = @ - d]
  <2>2. q = [f \in {"lo", "hi", "state"} |-> q[f]]
    BY <2>1
  <2>3. q.lo = lo - d /\ q.hi = hi - d /\ q.state = state
    BY <2>1
  <2> HIDE DEF q
  <2>4. q = [lo |-> lo - d, hi |-> hi - d, state |-> state]
    BY <2>2, <2>3
  <2>5. Shift(r, d) = q
    BY DEF Shift, q
  <2>6. QED
    BY <2>4, <2>5 DEF r
<1>3. Shift(line, by) = [lo |-> line.lo - by, hi |-> line.hi - by, state |-> line.state]
      /\ Shift(line, 0) = [lo |-> line.lo - 0, hi |-> line.hi - 0, state |-> line.state]
  <2> DEFINE a == line.lo
             b == line.hi
             s == line.state
  <2>1. line = [lo |-> a, hi |-> b, state |-> s]
    BY <1>1
  <2> HIDE DEF a, b, s
  <2>2. Shift(line, by) = [lo |-> a - by, hi |-> b - by, state |-> s]
        /\ Shift(line, 0) = [lo |-> a - 0, hi |-> b - 0, state |-> s]
    BY <1>2, <2>1
  <2>3. QED
    BY <2>2 DEF a, b, s
<1>4. Shift(Shift(line, by), 0) = [lo |-> (line.lo - by) - 0, hi |-> (line.hi - by) - 0, state |-> line.state]
  BY <1>2, <1>3
<1>5. (line.lo - by) - 0 = line.lo - by /\ (line.hi - by) - 0 = line.hi - by /\ line.lo - 0 = line.lo /\ line.hi - 0 = line.hi
  BY <1>1
<1>6. Shift(line, by) \in Line
  BY <1>1, <1>3 DEF Line
<1>7. QED
  BY <1>1, <1>2, <1>3, <1>4, <1>5, <1>6

LEMMA LowestIsInt ==
  ASSUME NEW s \in Seq(Line), s # <<>>
  PROVE  LowestOf(s) \in Int
<1> DEFINE Low(n) == \E i \in 1 .. n + 1 : \A j \in 1 .. n + 1 : s[i].lo <= s[j].lo
           None == {n \in Nat : n + 1 <= Len(s) /\ ~Low(n)}
<1>1. Len(s) \in Nat \ {0} /\ DOMAIN s = 1 .. Len(s)
  BY LenProperties, EmptySeq
<1>2. \A i \in 1 .. Len(s) : s[i].lo \in Int
  BY LineFacts DEF Line
<1>3. 0 \notin None
  <2>1. \A i \in 1 .. 0 + 1 : i = 1
    OBVIOUS
  <2>2. 1 \in 1 .. 0 + 1 /\ 1 \in 1 .. Len(s)
    BY <1>1
  <2>3. s[1].lo <= s[1].lo
    BY <1>2, <2>2
  <2>4. Low(0)
    BY <2>1, <2>2, <2>3
  <2>5. QED
    BY <2>4
<1>4. ASSUME NEW n \in Nat, n \notin None PROVE n + 1 \notin None
  <2> SUFFICES ASSUME (n + 1) + 1 <= Len(s) PROVE Low(n + 1)
    OBVIOUS
  <2>1. n + 1 <= Len(s)
    BY <1>1
  <2>2. PICK i \in 1 .. n + 1 : \A j \in 1 .. n + 1 : s[i].lo <= s[j].lo
    BY <1>4, <2>1
  <2> DEFINE m == (n + 1) + 1
  <2>3. m \in 1 .. Len(s) /\ m \in 1 .. m /\ i \in 1 .. m /\ i \in 1 .. Len(s)
    BY <1>1, <2>1
  <2>4. \A j \in 1 .. m : j = m \/ j \in 1 .. n + 1
    OBVIOUS
  <2>5. \A j \in 1 .. m : j \in 1 .. Len(s)
    BY <1>1
  <2> HIDE DEF m
  <2>6. s[i].lo \in Int /\ s[m].lo \in Int /\ \A j \in 1 .. m : s[j].lo \in Int
    BY <1>2, <2>3, <2>5
  <2>7. CASE s[i].lo <= s[m].lo
    <3>1. \A j \in 1 .. m : s[i].lo <= s[j].lo
      BY <2>2, <2>4, <2>7
    <3>2. QED
      BY <2>3, <3>1 DEF m
  <2>8. CASE ~(s[i].lo <= s[m].lo)
    <3>1. \A j \in 1 .. m : s[m].lo <= s[j].lo
      BY <2>2, <2>4, <2>6, <2>8
    <3>2. QED
      BY <2>3, <3>1 DEF m
  <2>9. QED
    BY <2>7, <2>8
<1>5. None = {}
  <2>1. None \in SUBSET Nat
    OBVIOUS
  <2> HIDE DEF None
  <2>2. QED
    BY <1>3, <1>4, <2>1, NoLeast
<1>6. \E i \in 1 .. Len(s) : \A j \in 1 .. Len(s) : s[i].lo <= s[j].lo
  <2> DEFINE n == Len(s) - 1
  <2>1. n \in Nat /\ n + 1 = Len(s) /\ n + 1 <= Len(s)
    BY <1>1
  <2> HIDE DEF n
  <2>2. n \notin None
    BY <1>5
  <2>3. Low(n)
    BY <2>1, <2>2
  <2>4. QED
    BY <2>1, <2>3
<1> DEFINE T == {s[i].lo : i \in DOMAIN s}
<1>7. \E v \in T : \A w \in T : v <= w
  BY <1>1, <1>6
<1>8. T \subseteq Int
  BY <1>1, <1>2
<1>9. LowestOf(s) = CHOOSE v \in T : \A w \in T : v <= w
  BY DEF LowestOf, Min
<1> HIDE DEF T
<1>10. QED
  BY <1>7, <1>8, <1>9

BadLines(s) == {i \in DOMAIN s : ~IsCommand(s[i])}

\* Commands keeps what is before the first malformed line.
LEMMA CommandsFacts ==
  ASSUME NEW s \in Seq(Line)
  PROVE  /\ BadLines(s) \in SUBSET Nat
         /\ Malformed(s) <=> BadLines(s) # {}
         /\ ~Malformed(s) => Commands(s) = s
         /\ Malformed(s) => Len(Commands(s)) + 1 = Min(BadLines(s))
<1>1. Len(s) \in Nat /\ DOMAIN s = 1 .. Len(s) /\ \A i \in 1 .. Len(s) : s[i] \in Line
  BY LineFacts
<1>2. BadLines(s) \in SUBSET Nat
  BY <1>1 DEF BadLines
<1>3. Commands(s) = IF BadLines(s) = {} THEN s ELSE SubSeq(s, 1, Min(BadLines(s)) - 1)
  BY DEF Commands, BadLines
<1>4. CASE BadLines(s) = {}
  <2>1. Commands(s) = s
    BY <1>3, <1>4
  <2>2. QED
    BY <1>2, <1>4, <2>1 DEF Malformed
<1>5. CASE BadLines(s) # {}
  <2> DEFINE m == Min(BadLines(s))
  <2>1. m \in BadLines(s)
    BY <1>2, <1>5, MinNat
  <2>2. m \in 1 .. Len(s)
    BY <1>1, <2>1 DEF BadLines
  <2> HIDE DEF m
  <2>3. Len(SubSeq(s, 1, m - 1)) = m - 1
    <3>1. m - 1 \in Int /\ 1 \in Int /\ \A i \in 1 .. m - 1 : s[i] \in Line
      BY <1>1, <2>2
    <3>2. Len(SubSeq(s, 1, m - 1)) = IF 1 <= m - 1 THEN (m - 1) - 1 + 1 ELSE 0
      BY <3>1, SubSeqProperties
    <3>3. QED
      BY <2>2, <3>2
  <2>4. Len(Commands(s)) = m - 1
    BY <1>3, <1>5, <2>3 DEF m
  <2>5. (m - 1) + 1 = m /\ m - 1 # Len(s)
    BY <1>1, <2>2
  <2>6. Malformed(s)
    BY <2>4, <2>5 DEF Malformed
  <2>7. QED
    BY <1>2, <1>5, <2>4, <2>5, <2>6 DEF m
<1>6. QED
  BY <1>4, <1>5

\* Lines before which all is well, a block with a malformed one and whatever
\* follows: the first malformed line is that of the block.
LEMMA FirstMalformed ==
  ASSUME NEW a \in Seq(Line), NEW b \in Seq(Line), NEW rest \in Seq(Line),
         BadLines(a) = {}, Malformed(b)
  PROVE  Len(a) + Len(Commands(b)) = Len(Commands((a \o b) \o rest))
<1> DEFINE s == (a \o b) \o rest
           m == Min(BadLines(b))
           la == Len(a)
           lb == Len(b)
<1>1. /\ la \in Nat /\ DOMAIN a = 1 .. la /\ lb \in Nat /\ DOMAIN b = 1 .. lb /\ Len(rest) \in Nat
  BY LineFacts
<1>2. a \o b \in Seq(Line) /\ Len(a \o b) = la + lb
      /\ \A i \in 1 .. la + lb : (a \o b)[i] = IF i <= la THEN a[i] ELSE b[i - la]
  BY ConcatProperties
<1>3. s \in Seq(Line) /\ Len(s) = (la + lb) + Len(rest)
      /\ \A i \in 1 .. (la + lb) + Len(rest) : s[i] = IF i <= la + lb THEN (a \o b)[i] ELSE rest[i - (la + lb)]
  BY <1>2, ConcatProperties
<1>4. m \in BadLines(b) /\ \A k \in BadLines(b) : m <= k
  BY CommandsFacts, MinNat
<1>5. m \in 1 .. lb /\ ~IsCommand(b[m])
  BY <1>1, <1>4 DEF BadLines
<1>6. \A i \in 1 .. la : IsCommand(a[i])
  BY <1>1 DEF BadLines
<1>7. ASSUME NEW i \in 1 .. lb, i < m PROVE IsCommand(b[i])
  <2> HIDE DEF m, lb
  <2>1. i \in Int /\ m \in Int /\ ~(m <= i)
    BY <1>1, <1>5, <1>7
  <2>2. i \notin BadLines(b) /\ i \in DOMAIN b
    BY <1>1, <1>4, <2>1
  <2>3. QED
    BY <2>2 DEF BadLines
<1>8. Len(Commands(b)) + 1 = m
  BY CommandsFacts
<1> DEFINE n == Len(rest)
<1> HIDE DEF s, m, la, lb, n
<1>9. \A i \in 1 .. la + lb : s[i] = IF i <= la THEN a[i] ELSE b[i - la]
  <2>1. \A i \in 1 .. la + lb : i \in 1 .. (la + lb) + n /\ i <= la + lb
    BY <1>1 DEF n
  <2>2. QED
    BY <1>2, <1>3, <2>1 DEF n
<1>10. DOMAIN s = 1 .. (la + lb) + n
  <2>1. DOMAIN s = 1 .. Len(s)
    BY <1>3, LineFacts
  <2>2. QED
    BY <1>3, <2>1 DEF n
<1>11. la + m \in BadLines(s)
  <2>1. la + m \in 1 .. la + lb /\ ~(la + m <= la) /\ (la + m) - la = m /\ la + m \in 1 .. (la + lb) + n
    BY <1>1, <1>5 DEF n
  <2>2. s[la + m] = b[m]
    BY <1>9, <2>1
  <2>3. QED
    BY <1>5, <1>10, <2>1, <2>2 DEF BadLines
<1>12. ASSUME NEW i \in BadLines(s) PROVE la + m <= i
  <2>1. i \in 1 .. (la + lb) + n /\ ~IsCommand(s[i])
    BY <1>10 DEF BadLines
  <2> SUFFICES ASSUME i < la + m PROVE FALSE
    BY <1>1, <1>5, <2>1
  <2>2. i \in 1 .. la + lb
    BY <1>1, <1>5, <2>1
  <2>3. CASE i <= la
    <3>1. i \in 1 .. la /\ s[i] = a[i]
      BY <1>9, <2>2, <2>3
    <3>2. QED
      BY <1>6, <2>1, <3>1
  <2>4. CASE ~(i <= la)
    <3>1. i - la \in 1 .. lb /\ i - la < m
      BY <1>1, <1>5, <2>2, <2>4
    <3>2. s[i] = b[i - la]
      BY <1>9, <2>2, <2>4
    <3>3. QED
      BY <1>7, <2>1, <3>1, <3>2
  <2>5. QED
    BY <2>3, <2>4
<1>13. Malformed(s) /\ Len(Commands(s)) + 1 = Min(BadLines(s)) /\ BadLines(s) \in SUBSET Nat
  BY <1>3, <1>11, CommandsFacts
<1>14. Min(BadLines(s)) = la + m
  <2>1. Min(BadLines(s)) \in BadLines(s) /\ \A k \in BadLines(s) : Min(BadLines(s)) <= k
    BY <1>11, <1>13, MinNat
  <2>2. Min(BadLines(s)) <= la + m /\ la + m <= Min(BadLines(s)) /\ Min(BadLines(s)) \in Nat
    BY <1>11, <1>12, <1>13, <2>1
  <2>3. QED
    BY <1>1, <1>5, <2>2
<1>15. Len(Commands(s)) \in Nat /\ Len(Commands(b)) \in Nat
  <2>1. \A t \in Seq(Line) : Malformed(t) => Len(Commands(t)) \in Nat
    <3> SUFFICES ASSUME NEW t \in Seq(Line), Malformed(t) PROVE Len(Commands(t)) \in Nat
      OBVIOUS
    <3>1. BadLines(t) \in SUBSET Nat /\ BadLines(t) # {}
      BY CommandsFacts
    <3>2. Min(BadLines(t)) \in BadLines(t)
      BY <3>1, MinNat
    <3>3. Min(BadLines(t)) \in 1 .. Len(t) /\ Len(t) \in Nat /\ DOMAIN t = 1 .. Len(t)
      BY <3>2, LineFacts DEF BadLines
    <3>4. Commands(t) = SubSeq(t, 1, Min(BadLines(t)) - 1)
      BY <3>1 DEF Commands, BadLines
    <3>5. \A i \in 1 .. Min(BadLines(t)) - 1 : t[i] \in Line
      BY <3>3, LineFacts
    <3>6. Commands(t) \in Seq(Line)
      <4>1. Min(BadLines(t)) - 1 \in Int /\ 1 \in Int
        BY <3>3
      <4>2. QED
        BY <3>4, <3>5, <4>1, SubSeqProperties
    <3>7. QED
      BY <3>6, LenProperties
  <2>2. QED
    BY <1>3, <1>13, <2>1
<1>16. la + Len(Commands(b)) = Len(Commands(s))
  BY <1>1, <1>5, <1>8, <1>13, <1>14, <1>15
<1>17. QED
  BY <1>16 DEF s, la

(***************************************************************************)
(* Reading.                                                                *)
(***************************************************************************)

TypeInv ==
  /\ file \in Files
  /\ phase \in {"new", "reading", "normalize", "ready", "failed"}
  /\ mCommands \in Seq(Line) /\ mOrigin \in Int /\ mOffset \in Int

Source == Lines(file.blocks)

\* How many pieces have been consumed; the pending ones are the next ones.
Consumed == submitted - Len(pending)
PiecesInOrder ==
  /\ submitted \in 0 .. Len(file.blocks) /\ Len(pending) \in 0 .. submitted
  /\ pending = [k \in 1 .. Len(pending) |-> Consumed + k]
  /\ mCommands = Lines(SubSeq(file.blocks, 1, Consumed))
  /\ BadLines(mCommands) = {}

\* Each command of the file is where it was or has been moved once.
MovedSoFar ==
  /\ Source # <<>> /\ Len(mCommands) = Len(Source)
  /\ mOrigin = LowestOf(Source)
  /\ normalized \subseteq 1 .. NormalizeTasks
  /\ \A i \in 1 .. Len(mCommands) :
       mCommands[i] = IF \E k \in normalized : i \in Share(k) THEN Shift(Source[i], mOrigin) ELSE Source[i]

SourceInv ==
  /\ errorLine # 0 => phase = "failed" /\ errorLine = Len(Commands(Source)) + 1
  /\ phase = "new" => submitted = 0 /\ pending = <<>>
  /\ phase \in {"new", "reading"} => normalized = {}
  /\ format = "ibimport" => mOrigin = 0
  /\ format = "mcfunction" /\ phase = "reading" => PiecesInOrder
  /\ phase = "normalize" => format = "mcfunction" /\ MovedSoFar
  /\ phase = "ready" => [i \in DOMAIN mCommands |-> Shift(mCommands[i], mOrigin)] = Reference

ReadInv == TypeInv /\ SourceInv

(***************************************************************************)
(* The index and its mutex.                                                *)
(***************************************************************************)

IsCall(r) ==
  /\ r = [pc |-> r.pc, ask |-> r.ask, left |-> r.left, result |-> r.result]
  /\ r.pc \in {"idle", "lock", "build", "replay"}
  /\ r.left \subseteq r.ask /\ r.ask \subseteq Int

MutexInv ==
  /\ reader = [t \in Readers |-> reader[t]] /\ \A t \in Readers : IsCall(reader[t])
  /\ mutex \in Readers \cup {Nobody}
  /\ \A t \in Readers : reader[t].pc = "build" <=> mutex = t
  /\ \A t \in Readers : reader[t].pc = "replay" => mCommandIndexReady
  /\ mutex # Nobody => ~mCommandIndexReady
  /\ phase # "ready" => /\ \A t \in Readers : reader[t] = Idle
                        /\ mutex = Nobody /\ ~mCommandIndexReady

\* The commands before n are each in the broad list or in the list of every
\* chunk they cover, never in both, and all lists are in source order.
IndexUpTo(n) ==
  /\ mBroadCommands \in Seq(Int) /\ Increasing(mBroadCommands) /\ ToSet(mBroadCommands) \subseteq 1 .. n - 1
  /\ \A c \in Int : /\ Indexed(c) \in Seq(Int) /\ Increasing(Indexed(c))
                    /\ ToSet(Indexed(c)) \subseteq {i \in 1 .. n - 1 : c \in ChunksOf(i)} \ ToSet(mBroadCommands)
  /\ \A i \in 1 .. n - 1 : \/ i \in ToSet(mBroadCommands)
                           \/ \A c \in ChunksOf(i) : i \in ToSet(Indexed(c))

IndexInv ==
  /\ mCommandIndexReady => IndexUpTo(Len(mCommands) + 1)
  /\ mutex # Nobody => scan \in 1 .. Len(mCommands) + 1 /\ IndexUpTo(scan)

(***************************************************************************)
(* The calls.                                                              *)
(***************************************************************************)

\* No setblock of a TIBI file found the index full.
NoSingleBroad ==
  format = "tibi" => \A i \in ToSet(mBroadCommands) : mCommands[i].lo # mCommands[i].hi

CallsInv ==
  \A t \in Readers : \A c \in reader[t].ask :
    reader[t].result[c] = [x \in Cells(c) |-> IF c \in reader[t].left THEN Empty ELSE Naive(x)]

readFrame == <<format, file, phase, readVars, mCommands, mOrigin>>

LEMMA SourceIsLines ==
  ASSUME TypeInv
  PROVE  file.blocks \in Seq(Seq(Line)) /\ Source \in Seq(Line)
<1>1. file.blocks \in Seq(Seq(Line))
  BY ReplayAssumption DEF TypeInv
<1>2. Len(file.blocks) \in 0 .. Len(file.blocks)
  <2>1. Len(file.blocks) \in Nat
    BY <1>1, LenProperties
  <2>2. QED
    BY <2>1
<1>3. Lines(SubSeq(file.blocks, 1, Len(file.blocks))) \in Seq(Line)
      /\ Lines(SubSeq(file.blocks, 1, Len(file.blocks))) = Source
  BY <1>1, <1>2, FlatPrefixes DEF Source
<1>4. QED
  BY <1>1, <1>3

LEMMA ReadFrame ==
  ASSUME ReadInv, UNCHANGED readFrame, mOffset' \in Int
  PROVE  ReadInv'
BY DEF ReadInv, TypeInv, SourceInv, PiecesInOrder, MovedSoFar, Consumed, Source, Share, NormalizeTasks,
       Reference, readFrame, readVars

LEMMA ReadInit ==
  ASSUME Init
  PROVE  ReadInv
<1>1. <<>> \in Seq(Line)
  BY EmptySeq
<1>2. QED
  BY <1>1 DEF Init, ReadInv, TypeInv, SourceInv

LEMMA ReadIbImportKeeps ==
  ASSUME ReadInv, ReadIbImport
  PROVE  ReadInv'
<1>1. /\ format = "ibimport" /\ phase = "new" /\ format' = format /\ file' = file /\ submitted' = submitted
      /\ pending' = pending /\ normalized' = normalized /\ mOrigin' = mOrigin
  BY DEF ReadIbImport
<1>2. Source' = Source /\ Source = Lines(file.blocks)
  BY <1>1 DEF Source
<1>3. TypeInv /\ SourceInv /\ Source \in Seq(Line)
  BY SourceIsLines DEF ReadInv
<1>4. errorLine = 0 /\ mOrigin = 0 /\ normalized = {} /\ submitted = 0 /\ pending = <<>>
  BY <1>1, <1>3 DEF SourceInv
<1>5. CASE Malformed(Source) \/ Source = <<>>
  <2>1. /\ phase' = "failed" /\ errorLine' = Len(Commands(Source)) + 1
        /\ mCommands' = mCommands /\ mOffset' = mOffset
    BY <1>2, <1>5 DEF ReadIbImport
  <2>2. TypeInv'
    BY <1>1, <1>3, <2>1 DEF TypeInv
  <2>3. SourceInv'
    BY <1>1, <1>2, <1>4, <2>1 DEF SourceInv
  <2>4. QED
    BY <2>2, <2>3 DEF ReadInv
<1>6. CASE ~(Malformed(Source) \/ Source = <<>>)
  <2> DEFINE moved == [i \in DOMAIN Source |-> Shift(Source[i], LowestOf(Source))]
  <2>1. /\ phase' = "ready" /\ mCommands' = moved /\ mOffset' = 0 /\ errorLine' = errorLine
    BY <1>2, <1>6 DEF ReadIbImport
  <2>2. LowestOf(Source) \in Int
    BY <1>3, <1>6, LowestIsInt
  <2>3. \A i \in DOMAIN Source : moved[i] \in Line /\ Shift(moved[i], 0) = moved[i]
    BY <1>3, <2>2, LineFacts, ShiftFacts
  <2>4. moved \in Seq(Line)
    <3>1. moved \in [1 .. Len(Source) -> Line] /\ Len(Source) \in Nat
      BY <1>3, <2>3, LineFacts
    <3> HIDE DEF moved
    <3>2. QED
      BY <3>1, FunctionIsSeq
  <2>5. DOMAIN moved = DOMAIN Source
    OBVIOUS
  <2>6. moved = Reference
    BY <1>2 DEF Reference
  <2>7. Reference' = Reference
    BY <1>1 DEF Reference
  <2>8. [i \in DOMAIN moved |-> Shift(moved[i], 0)] = moved
    BY <2>3, <2>5
  <2> HIDE DEF moved
  <2>9. [i \in DOMAIN mCommands |-> Shift(mCommands[i], mOrigin)]' = Reference'
    BY <1>1, <1>4, <2>1, <2>6, <2>7, <2>8
  <2>10. TypeInv'
    BY <1>1, <1>3, <2>1, <2>4 DEF TypeInv
  <2>11. SourceInv'
    BY <1>1, <1>4, <2>1, <2>9 DEF SourceInv
  <2>12. QED
    BY <2>10, <2>11 DEF ReadInv
<1>7. QED
  BY <1>5, <1>6

LEMMA TibiKeeps ==
  ASSUME ReadInv, FirstPass \/ FileChanges \/ SecondPass
  PROVE  ReadInv'
<1>1. TypeInv /\ SourceInv /\ Source \in Seq(Line) /\ <<>> \in Seq(Line)
  BY SourceIsLines, EmptySeq DEF ReadInv
<1>2. CASE FirstPass
  <2>1. TypeInv'
    BY <1>1, <1>2 DEF TypeInv, FirstPass
  <2>2. Source' = Source
    BY <1>2 DEF FirstPass, Source
  <2>3. SourceInv'
    BY <1>1, <1>2, <2>2 DEF SourceInv, FirstPass
  <2>4. QED
    BY <2>1, <2>3 DEF ReadInv
<1>3. CASE FileChanges
  <2>1. TypeInv'
    BY <1>1, <1>3 DEF TypeInv, FileChanges
  <2>2. SourceInv'
    BY <1>1, <1>3 DEF SourceInv, FileChanges, readVars
  <2>3. QED
    BY <2>1, <2>2 DEF ReadInv
<1>4. CASE SecondPass
  <2>1. /\ format = "tibi" /\ phase = "reading" /\ format' = format /\ file' = file /\ errorLine' = errorLine
        /\ normalized' = normalized /\ mOffset' = mOffset
    BY <1>4 DEF SecondPass, readVars
  <2>2. errorLine = 0
    BY <1>1, <2>1 DEF SourceInv
  <2>3. CASE file.key # firstKey \/ Malformed(Source) \/ Source = <<>>
    <3>1. phase' = "failed" /\ mCommands' = mCommands /\ mOrigin' = mOrigin
      BY <1>4, <2>3 DEF SecondPass, Source
    <3>2. TypeInv'
      BY <1>1, <2>1, <3>1 DEF TypeInv
    <3>3. SourceInv'
      BY <2>1, <2>2, <3>1 DEF SourceInv
    <3>4. QED
      BY <3>2, <3>3 DEF ReadInv
  <2>4. CASE ~(file.key # firstKey \/ Malformed(Source) \/ Source = <<>>)
    <3>1. phase' = "ready" /\ mCommands' = Source /\ mOrigin' = LowestOf(Source)
      BY <1>4, <2>4 DEF SecondPass, Source
    <3>2. LowestOf(Source) \in Int
      BY <1>1, <2>4, LowestIsInt
    <3>3. TypeInv'
      BY <1>1, <2>1, <3>1, <3>2 DEF TypeInv
    <3>4. [i \in DOMAIN mCommands |-> Shift(mCommands[i], mOrigin)]' = Reference'
      BY <2>1, <3>1 DEF Reference, Source
    <3>5. SourceInv'
      BY <2>1, <2>2, <3>1, <3>4 DEF SourceInv
    <3>6. QED
      BY <3>3, <3>5 DEF ReadInv
  <2>5. QED
    BY <2>3, <2>4
<1>5. QED
  BY <1>2, <1>3, <1>4

LEMMA Boundary ==
  ASSUME NEW L \in Nat, NEW N \in Nat \ {0}, NEW k \in Nat, NEW j \in Nat, k <= j
  PROVE  /\ (L * k) \div N \in Nat /\ (L * k) \div N <= (L * j) \div N
         /\ (L * 0) \div N = 0 /\ (L * N) \div N = L
OBVIOUS

\* The normalizing tasks share the commands out: each has exactly one of them.
LEMMA Shares ==
  ASSUME TypeInv, Len(mCommands) # 0
  PROVE  /\ NormalizeTasks \in Nat \ {0}
         /\ \A j, k \in 1 .. NormalizeTasks : \A i \in Share(j) : i \in Share(k) => j = k
         /\ \A i \in 1 .. Len(mCommands) : \E k \in 1 .. NormalizeTasks : i \in Share(k)
<1> DEFINE L == Len(mCommands)
           N == NormalizeTasks
           F(k) == (L * k) \div N
<1>1. L \in Nat \ {0} /\ ParseWorkers \in Nat \ {0}
  BY LenProperties, ReplayAssumption DEF TypeInv
<1>2. N \in Nat \ {0}
  <2> DEFINE S == {ParseWorkers, L}
  <2>1. S \in SUBSET Nat /\ S # {}
    BY <1>1
  <2>2. Min(S) \in S
    <3> HIDE DEF S
    <3>1. QED
      BY <2>1, MinNat
  <2>3. QED
    BY <1>1, <2>2 DEF NormalizeTasks
<1>3. \A k \in 1 .. N : Share(k) = F(k - 1) + 1 .. F(k)
  BY DEF Share
<1> HIDE DEF L, N
<1>4. \A k \in Nat : F(k) \in Nat
  BY <1>1, <1>2, Boundary
<1>5. \A k, j \in Nat : k <= j => F(k) <= F(j)
  BY <1>1, <1>2, Boundary
<1>6. F(0) = 0 /\ F(N) = L
  BY <1>1, <1>2, Boundary
<1> HIDE DEF F
<1>7. ASSUME NEW j \in 1 .. N, NEW k \in 1 .. N, NEW i \in Share(j), i \in Share(k), j < k PROVE FALSE
  <2>1. j \in Nat /\ k \in Nat /\ k - 1 \in Nat /\ j <= k - 1 /\ j - 1 \in Nat
    BY <1>2, <1>7
  <2>2. F(j) <= F(k - 1) /\ F(j) \in Nat /\ F(k - 1) \in Nat /\ F(j - 1) \in Nat /\ F(k) \in Nat
    BY <1>4, <1>5, <2>1
  <2>3. i \in F(j - 1) + 1 .. F(j) /\ i \in F(k - 1) + 1 .. F(k)
    BY <1>3, <1>7
  <2>4. QED
    BY <2>2, <2>3
<1>8. \A j, k \in 1 .. N : \A i \in Share(j) : i \in Share(k) => j = k
  <2> SUFFICES ASSUME NEW j \in 1 .. N, NEW k \in 1 .. N, NEW i \in Share(j), i \in Share(k), j # k PROVE FALSE
    OBVIOUS
  <2>1. j < k \/ k < j
    BY <1>2
  <2>2. QED
    BY <1>7, <2>1
<1>9. ASSUME NEW i \in 1 .. L PROVE \E k \in 1 .. N : i \in Share(k)
  <2> DEFINE S == {k \in Nat : i <= F(k)}
  <2>1. N \in S
    BY <1>1, <1>2, <1>6
  <2>2. PICK k \in S : \A j \in S : k <= j
    <3>1. S \in SUBSET Nat /\ S # {}
      BY <2>1
    <3> HIDE DEF S
    <3>2. QED
      BY <3>1, LeastNat
  <2>3. k \in Nat /\ i <= F(k) /\ k # 0 /\ k <= N
    BY <1>1, <1>6, <2>1, <2>2
  <2>4. k - 1 \in Nat /\ k \in 1 .. N
    BY <1>2, <2>3
  <2>5. ~(i <= F(k - 1))
    BY <2>2, <2>4
  <2>6. F(k - 1) \in Nat /\ F(k) \in Nat
    BY <1>4, <2>3, <2>4
  <2>7. i \in F(k - 1) + 1 .. F(k)
    BY <1>1, <2>3, <2>5, <2>6
  <2>8. QED
    BY <1>3, <2>4, <2>7
<1>10. QED
  BY <1>2, <1>8, <1>9 DEF L, N

LEMMA StartParsingKeeps ==
  ASSUME ReadInv, StartParsing
  PROVE  ReadInv'
<1>1. TypeInv /\ SourceInv /\ file.blocks \in Seq(Seq(Line)) /\ <<>> \in Seq(Line) /\ Len(<<>>) = 0
  BY SourceIsLines, EmptySeq DEF ReadInv
<1>2. /\ format = "mcfunction" /\ phase = "new" /\ mCommands' = <<>> /\ phase' = "reading" /\ file' = file
      /\ format' = format /\ submitted' = submitted /\ pending' = pending /\ normalized' = normalized
      /\ errorLine' = errorLine /\ mOrigin' = mOrigin /\ mOffset' = mOffset
  BY DEF StartParsing, readVars
<1>3. submitted = 0 /\ pending = <<>> /\ normalized = {} /\ errorLine = 0
  BY <1>1, <1>2 DEF SourceInv
<1>4. TypeInv'
  BY <1>1, <1>2 DEF TypeInv
<1>5. Consumed' = 0
  <2>1. submitted' = 0 /\ Len(pending') = 0
    BY <1>1, <1>2, <1>3
  <2>2. Consumed' = submitted' - Len(pending')
    BY DEF Consumed
  <2>3. QED
    BY <2>1, <2>2
<1>6. Len(file.blocks) \in Nat
  BY <1>1, LenProperties
<1>7. Lines(SubSeq(file.blocks, 1, 0)) = <<>>
  <2>1. 0 \in 0 .. Len(file.blocks)
    BY <1>6
  <2>2. QED
    BY <1>1, <2>1, FlatPrefixes
<1>8. BadLines(<<>>) = {}
  BY DEF BadLines
<1>9. <<>> = [k \in 1 .. 0 |-> 0 + k]
  OBVIOUS
<1>10. PiecesInOrder'
  BY <1>1, <1>2, <1>3, <1>5, <1>6, <1>7, <1>8, <1>9 DEF PiecesInOrder
<1>11. SourceInv'
  BY <1>2, <1>3, <1>10 DEF SourceInv
<1>12. QED
  BY <1>4, <1>11 DEF ReadInv

LEMMA PiecesFacts ==
  ASSUME TypeInv, PiecesInOrder
  PROVE  /\ file.blocks \in Seq(Seq(Line)) /\ Len(file.blocks) \in Nat
         /\ submitted \in Nat /\ submitted <= Len(file.blocks)
         /\ Len(pending) \in Nat /\ Len(pending) <= submitted
         /\ Consumed \in Nat /\ Consumed + Len(pending) = submitted
         /\ pending \in Seq(Int)
         /\ \A k \in 1 .. Len(pending) : pending[k] = Consumed + k
<1>1. file.blocks \in Seq(Seq(Line))
  BY SourceIsLines
<1>2. Len(file.blocks) \in Nat
  BY <1>1, LenProperties
<1>3. submitted \in 0 .. Len(file.blocks) /\ Len(pending) \in 0 .. submitted
  BY DEF PiecesInOrder
<1>4. Consumed \in Nat /\ Consumed + Len(pending) = submitted
  BY <1>2, <1>3 DEF Consumed
<1> DEFINE n == Len(pending)
<1>5. n \in Nat
  BY <1>2, <1>3
<1>6. pending = [k \in 1 .. n |-> Consumed + k]
  BY DEF PiecesInOrder
<1>7. pending \in Seq(Int)
  <2> HIDE DEF n
  <2>1. pending \in [1 .. n -> Int]
    BY <1>4, <1>6
  <2>2. QED
    BY <1>5, <2>1, FunctionIsSeq
<1>8. QED
  BY <1>1, <1>2, <1>3, <1>4, <1>6, <1>7

LEMMA SubmitBlockKeeps ==
  ASSUME ReadInv, SubmitBlock
  PROVE  ReadInv'
<1>1. TypeInv /\ SourceInv
  BY DEF ReadInv
<1>2. /\ format = "mcfunction" /\ phase = "reading" /\ mCommands' = mCommands /\ phase' = phase /\ file' = file
      /\ format' = format /\ submitted' = submitted + 1 /\ pending' = Append(pending, submitted + 1)
      /\ normalized' = normalized /\ errorLine' = errorLine /\ mOrigin' = mOrigin /\ mOffset' = mOffset
      /\ submitted < Len(file.blocks)
  BY DEF SubmitBlock
<1>3. PiecesInOrder
  BY <1>1, <1>2 DEF SourceInv
<1>4. /\ Len(file.blocks) \in Nat /\ submitted \in Nat /\ Len(pending) \in Nat /\ Len(pending) <= submitted
      /\ Consumed \in Nat /\ Consumed + Len(pending) = submitted /\ pending \in Seq(Int)
      /\ \A k \in 1 .. Len(pending) : pending[k] = Consumed + k
  BY <1>1, <1>3, PiecesFacts
<1> DEFINE n == Len(pending)
           more == Append(pending, submitted + 1)
<1>5. more \in Seq(Int) /\ Len(more) = n + 1 /\ (\A k \in 1 .. n : more[k] = pending[k]) /\ more[n + 1] = submitted + 1
  BY <1>4, AppendProperties
<1>6. Consumed' = Consumed
  <2>1. Consumed' = (submitted + 1) - (n + 1)
    BY <1>2, <1>5 DEF Consumed
  <2>2. QED
    BY <1>4, <2>1
<1>7. \A k \in 1 .. n + 1 : more[k] = Consumed + k
  <2>1. \A k \in 1 .. n + 1 : k \in 1 .. n \/ k = n + 1
    BY <1>4
  <2>2. submitted + 1 = Consumed + (n + 1)
    BY <1>4
  <2>3. QED
    BY <1>4, <1>5, <2>1, <2>2
<1>8. more = [k \in 1 .. Len(more) |-> Consumed + k]
  <2>1. DOMAIN more = 1 .. Len(more) /\ more = [k \in DOMAIN more |-> more[k]]
    BY <1>5, LenProperties
  <2> HIDE DEF more
  <2>2. QED
    BY <1>5, <1>7, <2>1
<1>9. submitted + 1 \in 0 .. Len(file.blocks) /\ n + 1 \in 0 .. submitted + 1
  BY <1>2, <1>4
<1> HIDE DEF n
<1>10. PiecesInOrder'
  <2>1. pending' = more /\ submitted' = submitted + 1 /\ mCommands' = mCommands /\ file' = file
    BY <1>2
  <2> HIDE DEF more
  <2>2. QED
    BY <1>3, <1>5, <1>6, <1>8, <1>9, <2>1 DEF PiecesInOrder
<1>11. TypeInv'
  BY <1>1, <1>2 DEF TypeInv
<1>12. SourceInv'
  BY <1>1, <1>2, <1>10 DEF SourceInv
<1>13. QED
  BY <1>11, <1>12 DEF ReadInv

LEMMA ParseBlockKeeps ==
  ASSUME ReadInv, NEW b, ParseBlock(b)
  PROVE  ReadInv'
BY DEF ParseBlock, ReadInv, TypeInv, SourceInv, PiecesInOrder, MovedSoFar, Consumed, Source, Share,
       NormalizeTasks, Reference

LEMMA ConsumeFrontKeeps ==
  ASSUME ReadInv, ConsumeFront
  PROVE  ReadInv'
<1> DEFINE b == Head(pending)
           before == Lines(SubSeq(file.blocks, 1, Consumed))
<1>1. TypeInv /\ SourceInv
  BY DEF ReadInv
<1>2. /\ format = "mcfunction" /\ phase = "reading" /\ file' = file /\ format' = format
      /\ submitted' = submitted /\ pending' = Tail(pending) /\ pending # <<>>
      /\ normalized' = normalized /\ mOrigin' = mOrigin /\ mOffset' = mOffset
  BY DEF ConsumeFront
<1>3. PiecesInOrder /\ errorLine = 0 /\ normalized = {}
  BY <1>1, <1>2 DEF SourceInv
<1>4. /\ file.blocks \in Seq(Seq(Line)) /\ Len(file.blocks) \in Nat
      /\ submitted \in Nat /\ Len(pending) \in Nat /\ Len(pending) <= submitted /\ submitted <= Len(file.blocks)
      /\ Consumed \in Nat /\ Consumed + Len(pending) = submitted /\ pending \in Seq(Int)
      /\ \A k \in 1 .. Len(pending) : pending[k] = Consumed + k
  BY <1>1, <1>3, PiecesFacts
<1>5. Len(pending) # 0
  BY <1>2, <1>4, EmptySeq
<1>6. b = Consumed + 1
  <2>1. b = pending[1] /\ 1 \in 1 .. Len(pending)
    BY <1>4, <1>5
  <2>2. QED
    BY <1>4, <2>1
<1>7. Consumed < Len(file.blocks) /\ Consumed \in 0 .. Len(file.blocks) /\ b \in 1 .. Len(file.blocks) /\ b - 1 = Consumed
      /\ b \in 0 .. Len(file.blocks)
  <2>1. Consumed < Len(file.blocks)
    BY <1>4, <1>5
  <2> HIDE DEF b
  <2>2. QED
    BY <1>4, <1>6, <2>1
<1>8. Block(b) \in Seq(Line) /\ Block(b) = file.blocks[Consumed + 1]
  <2>1. file.blocks[b] \in Seq(Line)
    BY <1>4, <1>7, ElementOfSeq
  <2>2. QED
    BY <1>6, <2>1 DEF Block
<1>9. Lines(SubSeq(file.blocks, 1, Consumed + 1)) = before \o Block(b) /\ before \in Seq(Line)
  <2>1. before \in Seq(Line)
    BY <1>4, <1>7, FlatPrefixes
  <2>2. Lines(SubSeq(file.blocks, 1, Consumed + 1)) = before \o file.blocks[Consumed + 1]
    BY <1>4, <1>7, FlatPrefixes
  <2>3. QED
    BY <1>8, <2>1, <2>2
<1>10. mCommands = before /\ BadLines(before) = {}
  BY <1>3 DEF PiecesInOrder
<1>11. Tail(pending) \in Seq(Int) /\ Len(Tail(pending)) = Len(pending) - 1
       /\ \A k \in 1 .. Len(Tail(pending)) : Tail(pending)[k] = pending[k + 1]
  BY <1>2, <1>4, HeadTailProperties
<1>12. CASE Malformed(Block(b))
  <2>1. /\ phase' = "failed" /\ mCommands' = mCommands
        /\ errorLine' = Len(Lines(SubSeq(file.blocks, 1, b - 1))) + Len(Commands(Block(b))) + 1
    BY <1>12 DEF ConsumeFront
  <2>2. PICK rest \in Seq(Line) : Lines(file.blocks) = Lines(SubSeq(file.blocks, 1, Consumed + 1)) \o rest
    BY <1>4, <1>6, <1>7, FlatPrefixes
  <2> HIDE DEF before, b
  <2>3. Len(before) + Len(Commands(Block(b))) = Len(Commands((before \o Block(b)) \o rest))
    BY <1>8, <1>9, <1>10, <1>12, FirstMalformed
  <2>4. Source = (before \o Block(b)) \o rest
    BY <1>9, <2>2 DEF Source
  <2>5. Lines(SubSeq(file.blocks, 1, b - 1)) = before
    BY <1>7 DEF before
  <2>6. errorLine' = Len(Commands(Source)) + 1
    BY <2>1, <2>3, <2>4, <2>5 DEF b
  <2>7. Source' = Source
    BY <1>2 DEF Source
  <2>8. TypeInv'
    BY <1>1, <1>2, <2>1 DEF TypeInv
  <2>9. SourceInv'
    BY <1>2, <1>3, <2>1, <2>6, <2>7 DEF SourceInv
  <2>10. QED
    BY <2>8, <2>9 DEF ReadInv
<1>13. CASE ~Malformed(Block(b))
  <2>1. phase' = phase /\ errorLine' = errorLine /\ mCommands' = mCommands \o Block(b)
    BY <1>13 DEF ConsumeFront
  <2> HIDE DEF b
  <2> DEFINE more == before \o Block(b)
  <2>2. more \in Seq(Line) /\ Len(more) = Len(before) + Len(Block(b))
        /\ \A i \in 1 .. Len(before) + Len(Block(b)) :
             more[i] = IF i <= Len(before) THEN before[i] ELSE Block(b)[i - Len(before)]
    BY <1>8, <1>9, ConcatProperties
  <2>3. BadLines(Block(b)) = {}
    BY <1>8, <1>13, CommandsFacts
  <2> HIDE DEF before
  <2>4. BadLines(more) = {}
    <3> DEFINE p == Len(before)
               q == Len(Block(b))
    <3>1. /\ p \in Nat /\ DOMAIN before = 1 .. p /\ q \in Nat /\ DOMAIN Block(b) = 1 .. q
          /\ DOMAIN more = 1 .. Len(more)
      BY <1>8, <1>9, <2>2, LineFacts
    <3>2. (\A i \in 1 .. p : IsCommand(before[i])) /\ \A i \in 1 .. q : IsCommand(Block(b)[i])
      BY <1>10, <2>3, <3>1 DEF BadLines
    <3> HIDE DEF more, p, q
    <3>3. ASSUME NEW i \in DOMAIN more PROVE IsCommand(more[i])
      <4>1. i \in 1 .. p + q /\ more[i] = IF i <= p THEN before[i] ELSE Block(b)[i - p]
        BY <2>2, <3>1, <3>3 DEF p, q
      <4>2. i <= p => i \in 1 .. p
        BY <3>1, <4>1
      <4>3. ~(i <= p) => i - p \in 1 .. q
        BY <3>1, <4>1
      <4>4. QED
        BY <3>2, <4>1, <4>2, <4>3
    <3>4. QED
      BY <3>3 DEF BadLines
  <2>5. Consumed' = Consumed + 1
    <3>1. Consumed' = submitted - (Len(pending) - 1)
      BY <1>2, <1>11 DEF Consumed
    <3>2. QED
      BY <1>4, <3>1
  <2>6. \A k \in 1 .. Len(Tail(pending)) : Tail(pending)[k] = (Consumed + 1) + k
    <3>1. \A k \in 1 .. Len(Tail(pending)) : k + 1 \in 1 .. Len(pending) /\ Consumed + (k + 1) = (Consumed + 1) + k
      BY <1>4, <1>5, <1>11
    <3>2. QED
      BY <1>4, <1>11, <3>1
  <2>7. Tail(pending) = [k \in 1 .. Len(Tail(pending)) |-> (Consumed + 1) + k]
    <3> DEFINE tail == Tail(pending)
    <3>1. DOMAIN tail = 1 .. Len(tail) /\ tail = [k \in DOMAIN tail |-> tail[k]]
      BY <1>11, LenProperties
    <3> HIDE DEF tail
    <3>2. tail = [k \in 1 .. Len(tail) |-> (Consumed + 1) + k]
      BY <2>6, <3>1 DEF tail
    <3>3. QED
      BY <3>2 DEF tail
  <2>8. mCommands' = Lines(SubSeq(file.blocks, 1, Consumed + 1)) /\ mCommands' = more
    BY <1>9, <1>10, <2>1
  <2>9. submitted \in 0 .. Len(file.blocks) /\ Len(Tail(pending)) \in 0 .. submitted
    BY <1>4, <1>5, <1>11
  <2> HIDE DEF more
  <2>10. PiecesInOrder'
    BY <1>2, <2>4, <2>5, <2>7, <2>8, <2>9 DEF PiecesInOrder
  <2>11. TypeInv'
    BY <1>1, <1>2, <2>1, <2>2, <2>8 DEF TypeInv
  <2>12. SourceInv'
    BY <1>2, <1>3, <2>1, <2>10 DEF SourceInv
  <2>13. QED
    BY <2>11, <2>12 DEF ReadInv
<1>14. QED
  BY <1>12, <1>13

LEMMA EndOfFileKeeps ==
  ASSUME ReadInv, EndOfFile
  PROVE  ReadInv'
<1>1. TypeInv /\ SourceInv
  BY DEF ReadInv
<1>2. /\ format = "mcfunction" /\ phase = "reading" /\ file' = file /\ format' = format
      /\ mCommands' = mCommands /\ mOffset' = mOffset /\ normalized' = normalized /\ errorLine' = errorLine
      /\ submitted = Len(file.blocks) /\ pending = <<>>
      /\ phase' = (IF mCommands = <<>> THEN "failed" ELSE "normalize")
      /\ mOrigin' = (IF mCommands = <<>> THEN 0 ELSE LowestOf(mCommands))
  BY DEF EndOfFile, readVars
<1>3. PiecesInOrder /\ errorLine = 0 /\ normalized = {}
  BY <1>1, <1>2 DEF SourceInv
<1>4. mCommands = Source
  <2>1. /\ file.blocks \in Seq(Seq(Line)) /\ Len(file.blocks) \in Nat
        /\ Consumed \in Nat /\ Consumed + Len(pending) = submitted
    BY <1>1, <1>3, PiecesFacts
  <2>2. Consumed = Len(file.blocks)
    <3>1. Len(pending) = 0
      BY <1>2, EmptySeq
    <3>2. QED
      BY <1>2, <2>1, <3>1
  <2>3. Len(file.blocks) \in 0 .. Len(file.blocks)
    BY <2>1
  <2>4. Lines(SubSeq(file.blocks, 1, Len(file.blocks))) = Source
    BY <2>1, <2>3, FlatPrefixes DEF Source
  <2>5. mCommands = Lines(SubSeq(file.blocks, 1, Consumed))
    BY <1>3 DEF PiecesInOrder
  <2>6. QED
    BY <2>2, <2>4, <2>5
<1>5. mCommands \in Seq(Line) /\ Source' = Source
  BY <1>1, <1>2 DEF TypeInv, Source
<1>6. CASE mCommands = <<>>
  <2>1. TypeInv'
    BY <1>1, <1>2, <1>6 DEF TypeInv
  <2>2. SourceInv'
    BY <1>2, <1>3, <1>6 DEF SourceInv
  <2>3. QED
    BY <2>1, <2>2 DEF ReadInv
<1>7. CASE mCommands # <<>>
  <2>1. LowestOf(mCommands) \in Int
    BY <1>5, <1>7, LowestIsInt
  <2>2. TypeInv'
    BY <1>1, <1>2, <1>7, <2>1 DEF TypeInv
  <2>3. MovedSoFar'
    BY <1>2, <1>3, <1>4, <1>5, <1>7 DEF MovedSoFar
  <2>4. SourceInv'
    BY <1>2, <1>3, <1>7, <2>3 DEF SourceInv
  <2>5. QED
    BY <2>2, <2>4 DEF ReadInv
<1>8. QED
  BY <1>6, <1>7

LEMMA NormalizeKeeps ==
  ASSUME ReadInv, NEW k \in 1 .. NormalizeTasks, Normalize(k)
  PROVE  ReadInv'
<1> DEFINE moved == [i \in DOMAIN mCommands |->
                       IF i \in Share(k) THEN Shift(mCommands[i], mOrigin) ELSE mCommands[i]]
           L == Len(mCommands)
<1>1. TypeInv /\ SourceInv
  BY DEF ReadInv
<1>2. /\ phase = "normalize" /\ k \notin normalized /\ file' = file /\ format' = format /\ phase' = phase
      /\ mCommands' = moved /\ normalized' = normalized \cup {k} /\ errorLine' = errorLine
      /\ mOrigin' = mOrigin /\ mOffset' = mOffset
  BY DEF Normalize
<1>3. MovedSoFar /\ format = "mcfunction" /\ errorLine = 0
  BY <1>1, <1>2 DEF SourceInv
<1>4. L \in Nat /\ DOMAIN mCommands = 1 .. L /\ mOrigin \in Int /\ \A i \in 1 .. L : mCommands[i] \in Line
  BY <1>1, LineFacts DEF TypeInv
<1>5. moved \in Seq(Line) /\ Len(moved) = L
  <2>1. moved \in [1 .. L -> Line]
    BY <1>4, ShiftFacts
  <2> HIDE DEF moved
  <2>2. QED
    BY <1>4, <2>1, FunctionIsSeq
<1>6. L # 0
  <2>1. Source \in Seq(Line) /\ Source # <<>> /\ L = Len(Source)
    BY <1>1, <1>3, SourceIsLines DEF MovedSoFar
  <2>2. QED
    BY <2>1, EmptySeq
<1>7. \A j, m \in 1 .. NormalizeTasks : \A i \in Share(j) : i \in Share(m) => j = m
  BY <1>1, <1>6, Shares
<1>8. \A i \in 1 .. L : moved[i] = IF i \in Share(k) THEN Shift(mCommands[i], mOrigin) ELSE mCommands[i]
  BY <1>4
<1>9. /\ normalized \subseteq 1 .. NormalizeTasks
      /\ \A i \in 1 .. L :
           mCommands[i] = IF \E j \in normalized : i \in Share(j) THEN Shift(Source[i], mOrigin) ELSE Source[i]
  BY <1>3 DEF MovedSoFar
<1> HIDE DEF moved
<1>10. ASSUME NEW i \in 1 .. L
       PROVE  moved[i] = IF \E j \in normalized \cup {k} : i \in Share(j) THEN Shift(Source[i], mOrigin) ELSE Source[i]
  <2>1. CASE i \in Share(k)
    <3>1. ~ \E j \in normalized : i \in Share(j)
      BY <1>2, <1>7, <1>9, <2>1
    <3>2. mCommands[i] = Source[i] /\ moved[i] = Shift(mCommands[i], mOrigin)
      BY <1>8, <1>9, <2>1, <3>1
    <3>3. QED
      BY <2>1, <3>2
  <2>2. CASE i \notin Share(k)
    <3>1. moved[i] = mCommands[i]
      BY <1>8, <2>2
    <3>2. (\E j \in normalized \cup {k} : i \in Share(j)) <=> \E j \in normalized : i \in Share(j)
      BY <2>2
    <3>3. QED
      BY <1>9, <3>1, <3>2
  <2>3. QED
    BY <2>1, <2>2
<1>11. NormalizeTasks' = NormalizeTasks
  BY <1>2, <1>5 DEF NormalizeTasks
<1>12. \A j : Share(j)' = Share(j)
  BY <1>2, <1>5, <1>11 DEF Share
<1>13. Source' = Source
  BY <1>2 DEF Source
<1>14. \A i \in 1 .. L :
         mCommands'[i] = IF \E j \in normalized' : i \in Share(j)' THEN Shift(Source[i], mOrigin) ELSE Source[i]
  BY <1>2, <1>10, <1>12
<1>15. MovedSoFar'
  <2>1. /\ Source # <<>> /\ L = Len(Source) /\ mOrigin = LowestOf(Source) /\ Len(mCommands') = L
        /\ normalized' \subseteq 1 .. NormalizeTasks
    BY <1>2, <1>3, <1>5, <1>9 DEF MovedSoFar
  <2>2. QED
    BY <1>2, <1>11, <1>13, <1>14, <2>1 DEF MovedSoFar
<1>16. TypeInv'
  BY <1>1, <1>2, <1>5 DEF TypeInv
<1>17. SourceInv'
  BY <1>2, <1>3, <1>15 DEF SourceInv
<1>18. QED
  BY <1>16, <1>17 DEF ReadInv

LEMMA NormalizedKeeps ==
  ASSUME ReadInv, Normalized
  PROVE  ReadInv'
<1>1. TypeInv /\ SourceInv
  BY DEF ReadInv
<1>2. /\ phase = "normalize" /\ normalized = 1 .. NormalizeTasks /\ file' = file /\ format' = format
      /\ phase' = "ready" /\ mCommands' = mCommands /\ errorLine' = errorLine /\ mOrigin' = 0 /\ mOffset' = 0
  BY DEF Normalized, readVars
<1>3. MovedSoFar /\ format = "mcfunction" /\ errorLine = 0
  BY <1>1, <1>2 DEF SourceInv
<1>4. /\ Len(mCommands) \in Nat /\ DOMAIN mCommands = 1 .. Len(mCommands) /\ mOrigin \in Int
      /\ Source \in Seq(Line) /\ Source # <<>>
  BY <1>1, <1>3, LineFacts, SourceIsLines DEF TypeInv, MovedSoFar
<1>5. /\ Len(mCommands) = Len(Source) /\ mOrigin = LowestOf(Source)
      /\ \A i \in 1 .. Len(mCommands) :
           mCommands[i] = IF \E k \in normalized : i \in Share(k) THEN Shift(Source[i], mOrigin) ELSE Source[i]
  BY <1>3 DEF MovedSoFar
<1>6. Len(mCommands) # 0 /\ DOMAIN Source = 1 .. Len(mCommands) /\ \A i \in 1 .. Len(mCommands) : Source[i] \in Line
  BY <1>4, <1>5, EmptySeq, LineFacts
<1>7. \A i \in 1 .. Len(mCommands) : \E k \in normalized : i \in Share(k)
  BY <1>1, <1>2, <1>6, Shares
<1>8. \A i \in 1 .. Len(mCommands) : mCommands[i] = Shift(Source[i], mOrigin)
  BY <1>5, <1>7
<1>9. \A i \in 1 .. Len(mCommands) : Shift(mCommands[i], 0) = Shift(Source[i], mOrigin)
  BY <1>4, <1>6, <1>8, ShiftFacts
<1>10. [i \in DOMAIN mCommands |-> Shift(mCommands[i], 0)] = [i \in DOMAIN Source |-> Shift(Source[i], LowestOf(Source))]
  BY <1>4, <1>5, <1>6, <1>9
<1>11. ([i \in DOMAIN mCommands |-> Shift(mCommands[i], mOrigin)] = Reference)'
  BY <1>2, <1>10 DEF Reference, Source
<1>12. TypeInv'
  BY <1>1, <1>2 DEF TypeInv
<1>13. SourceInv'
  BY <1>2, <1>3, <1>11 DEF SourceInv
<1>14. QED
  BY <1>12, <1>13 DEF ReadInv

LEMMA ReadNext ==
  ASSUME ReadInv, [Next]_vars
  PROVE  ReadInv'
<1>1. TypeInv
  BY DEF ReadInv
<1>2. mOffset \in Int
  BY <1>1 DEF TypeInv
<1>3. CASE Read
  <2>1. \/ ReadIbImport \/ (FirstPass \/ FileChanges \/ SecondPass)
        \/ StartParsing \/ SubmitBlock \/ (\E b \in 1 .. submitted : ParseBlock(b))
        \/ ConsumeFront \/ EndOfFile \/ (\E k \in 1 .. NormalizeTasks : Normalize(k))
        \/ Normalized
    BY <1>3, Zenon DEF Read
  <2>2. QED
    BY <2>1, ReadIbImportKeeps, TibiKeeps, StartParsingKeeps, SubmitBlockKeeps, ParseBlockKeeps,
       ConsumeFrontKeeps, EndOfFileKeeps, NormalizeKeeps, NormalizedKeeps, Zenon
<1>4. CASE SetOffset
  <2>1. mOffset' \in Int
    BY <1>4, ReplayAssumption DEF SetOffset
  <2>2. UNCHANGED readFrame
    BY <1>4 DEF SetOffset, readFrame
  <2>3. QED
    BY <2>1, <2>2, ReadFrame
<1>5. ASSUME NEW t \in Readers, GetChunks(t) PROVE ReadInv'
  <2>1. UNCHANGED readFrame /\ mOffset' = mOffset
    BY <1>5 DEF GetChunks, Ask, Lock, IndexCommand, Publish, ReplayChunk, Return, readFrame
  <2>2. QED
    BY <1>2, <2>1, ReadFrame
<1>6. CASE UNCHANGED vars
  <2>1. UNCHANGED readFrame /\ mOffset' = mOffset
    BY <1>6 DEF vars, readFrame
  <2>2. QED
    BY <1>2, <2>1, ReadFrame
<1>7. QED
  BY <1>3, <1>4, <1>5, <1>6 DEF Next, Failed

\* read() is as good as a sequential one: whatever the workers that parse and
\* those that normalize do first, the commands are those of the file in file
\* order, each moved once, and the error names the first malformed line.
THEOREM ReadInOrder == Spec => []ReadIsSequential
<1>1. ReadInv => ReadIsSequential
  BY DEF ReadInv, SourceInv, ReadIsSequential, Source
<1>2. QED
  BY <1>1, ReadInit, ReadNext, PTL DEF Spec

(***************************************************************************)
(* The mutex.                                                              *)
(***************************************************************************)

\* A step of one call changes that call.
LEMMA StepFacts ==
  ASSUME MutexInv, NEW t \in Readers, NEW pc, Step(t, pc)
  PROVE  /\ reader' = [u \in Readers |-> reader'[u]]
         /\ reader'[t] = [pc |-> pc, ask |-> reader[t].ask, left |-> reader[t].left, result |-> reader[t].result]
         /\ \A u \in Readers \ {t} : reader'[u] = reader[u]
<1>1. reader = [u \in Readers |-> reader[u]]
      /\ reader[t] = [pc |-> reader[t].pc, ask |-> reader[t].ask, left |-> reader[t].left, result |-> reader[t].result]
  BY DEF MutexInv, IsCall
<1>2. reader' = [reader EXCEPT ![t].pc = pc]
  BY DEF Step
<1>3. reader' = [u \in Readers |-> IF u = t THEN [reader[t] EXCEPT !.pc = pc] ELSE reader[u]]
  BY <1>1, <1>2
<1>4. [reader[t] EXCEPT !.pc = pc]
        = [pc |-> pc, ask |-> reader[t].ask, left |-> reader[t].left, result |-> reader[t].result]
  BY <1>1
<1>5. QED
  BY <1>3, <1>4

LEMMA ReplaceFacts ==
  ASSUME MutexInv, NEW t \in Readers, NEW r, reader' = [reader EXCEPT ![t] = r]
  PROVE  /\ reader' = [u \in Readers |-> reader'[u]]
         /\ reader'[t] = r
         /\ \A u \in Readers \ {t} : reader'[u] = reader[u]
BY DEF MutexInv

Replied(t, l, s) == [reader EXCEPT ![t].left = l, ![t].result = s]

LEMMA ReplayFacts ==
  ASSUME MutexInv, NEW t \in Readers, NEW l, NEW s, reader' = Replied(t, l, s)
  PROVE  /\ reader' = [u \in Readers |-> reader'[u]]
         /\ reader'[t] = [pc |-> reader[t].pc, ask |-> reader[t].ask, left |-> l, result |-> s]
         /\ \A u \in Readers \ {t} : reader'[u] = reader[u]
<1>1. reader = [u \in Readers |-> reader[u]]
      /\ reader[t] = [pc |-> reader[t].pc, ask |-> reader[t].ask, left |-> reader[t].left, result |-> reader[t].result]
  BY DEF MutexInv, IsCall
<1> DEFINE f == [reader EXCEPT ![t].left = l]
<1>2. f = [u \in Readers |-> IF u = t THEN [reader[t] EXCEPT !.left = l] ELSE reader[u]]
  BY <1>1
<1>3. [reader[t] EXCEPT !.left = l]
        = [pc |-> reader[t].pc, ask |-> reader[t].ask, left |-> l, result |-> reader[t].result]
  BY <1>1
<1>4. reader' = [f EXCEPT ![t].result = s]
  BY DEF Replied
<1>5. f = [u \in Readers |-> f[u]] /\ \A u \in Readers \ {t} : f[u] = reader[u]
  BY <1>2
<1>6. f[t] = [pc |-> reader[t].pc, ask |-> reader[t].ask, left |-> l, result |-> reader[t].result]
  BY <1>2, <1>3
<1> HIDE DEF f
<1>7. reader' = [u \in Readers |-> IF u = t THEN [f[t] EXCEPT !.result = s] ELSE f[u]]
  BY <1>4, <1>5
<1>8. [f[t] EXCEPT !.result = s] = [pc |-> reader[t].pc, ask |-> reader[t].ask, left |-> l, result |-> s]
  BY <1>6
<1>9. QED
  BY <1>5, <1>7, <1>8

\* What an action of one call, that neither starts nor ends the building of
\* the index, has to keep.
LEMMA OtherCalls ==
  ASSUME MutexInv, NEW t \in Readers, phase = "ready", phase' = phase,
         reader' = [u \in Readers |-> reader'[u]], \A u \in Readers \ {t} : reader'[u] = reader[u],
         IsCall(reader[t])', reader[t].pc # "build", reader'[t].pc # "build",
         reader'[t].pc = "replay" => mCommandIndexReady,
         mutex' = mutex, mCommandIndexReady' = mCommandIndexReady
  PROVE  MutexInv'
BY DEF MutexInv, IsCall

LEMMA MutexInit ==
  ASSUME Init
  PROVE  MutexInv
BY ReplayAssumption DEF Init, MutexInv, IsCall, Idle

LEMMA IdleCall == IsCall(Idle) /\ Idle.pc = "idle" /\ Idle.ask = {}
BY DEF IsCall, Idle

\* What the calls and the index depend on.
callVars == <<format, file, phase, mCommands, mOrigin, mOffset, indexVars, reader>>

\* After read() only a task whose result nobody wants is left to run.
LEMMA ReadWhenReady ==
  ASSUME Read, phase = "ready"
  PROVE  UNCHANGED callVars
<1>1. ~(ReadIbImport \/ FirstPass \/ FileChanges \/ SecondPass \/ StartParsing \/ SubmitBlock)
  BY DEF ReadIbImport, FirstPass, FileChanges, SecondPass, StartParsing, SubmitBlock
<1>2. ~(ConsumeFront \/ EndOfFile \/ (\E k \in 1 .. NormalizeTasks : Normalize(k)) \/ Normalized)
  BY DEF ConsumeFront, EndOfFile, Normalize, Normalized
<1>3. PICK b \in 1 .. submitted : ParseBlock(b)
  BY <1>1, <1>2, Zenon DEF Read
<1>4. QED
  BY <1>3 DEF ParseBlock, callVars

LEMMA MutexReading ==
  ASSUME MutexInv, Read, phase # "ready"
  PROVE  MutexInv' /\ ~mCommandIndexReady' /\ mutex' = Nobody /\ reader' = reader /\ \A t \in Readers : reader[t] = Idle
<1>1. reader' = reader /\ mutex' = mutex
      /\ (mCommandIndexReady' = FALSE \/ mCommandIndexReady' = mCommandIndexReady)
  <2>1. CASE ReadIbImport
    BY <2>1 DEF ReadIbImport, DropIndex
  <2>2. CASE FirstPass \/ FileChanges \/ SecondPass
    BY <2>2 DEF FirstPass, FileChanges, SecondPass, indexVars, DropIndex
  <2>3. CASE StartParsing \/ SubmitBlock
    BY <2>3 DEF StartParsing, SubmitBlock, indexVars
  <2>4. ASSUME NEW b \in 1 .. submitted, ParseBlock(b)
        PROVE  reader' = reader /\ mutex' = mutex /\ mCommandIndexReady' = mCommandIndexReady
    BY <2>4 DEF ParseBlock, indexVars
  <2>5. CASE ConsumeFront
    BY <2>5 DEF ConsumeFront, indexVars
  <2>6. CASE EndOfFile \/ (\E k \in 1 .. NormalizeTasks : Normalize(k)) \/ Normalized
    BY <2>6 DEF EndOfFile, Normalize, Normalized, indexVars, DropIndex
  <2>7. QED
    BY <2>1, <2>2, <2>3, <2>4, <2>5, <2>6, Zenon DEF Read
<1>2. mutex = Nobody /\ ~mCommandIndexReady /\ \A t \in Readers : reader[t] = Idle
  BY <1>1 DEF MutexInv
<1>3. ~mCommandIndexReady' /\ mutex' = Nobody
  BY <1>1, <1>2
<1>4. MutexInv'
  BY <1>1, <1>2, <1>3 DEF MutexInv, IsCall
<1>5. QED
  BY <1>1, <1>2, <1>3, <1>4

LEMMA MutexSetOffset ==
  ASSUME MutexInv, SetOffset
  PROVE  MutexInv' /\ ~mCommandIndexReady' /\ mutex' = Nobody /\ reader' = reader /\ \A t \in Readers : reader[t] = Idle
<1>1. /\ phase = "ready" /\ phase' = phase /\ mutex' = mutex /\ reader' = reader /\ mCommandIndexReady' = FALSE
      /\ \A t \in Readers : reader[t] = Idle
  BY DEF SetOffset, DropIndex
<1>2. mutex = Nobody
  BY <1>1, IdleCall DEF MutexInv
<1>3. \A t \in Readers : reader[t].pc = "idle"
  BY <1>1, IdleCall
<1>4. MutexInv'
  BY <1>1, <1>2, <1>3 DEF MutexInv, IsCall
<1>5. QED
  BY <1>1, <1>2, <1>4

LEMMA MutexCalls ==
  ASSUME MutexInv, NEW t \in Readers, GetChunks(t)
  PROVE  MutexInv'
<1>1. IsCall(reader[t]) /\ (reader[t].pc = "build" <=> mutex = t) /\ (reader[t].pc = "replay" => mCommandIndexReady)
  BY DEF MutexInv
<1>2. CASE Ask(t)
  <2>1. PICK ask \in Requests :
          reader' = [reader EXCEPT ![t] =
            [pc |-> IF mCommandIndexReady THEN "replay" ELSE "lock", ask |-> ask, left |-> ask,
             result |-> [c \in ask |-> [x \in Cells(c) |-> Empty]]]]
    BY <1>2 DEF Ask
  <2> DEFINE res == [c \in ask |-> [x \in Cells(c) |-> Empty]]
             pc == IF mCommandIndexReady THEN "replay" ELSE "lock"
             r == [pc |-> pc, ask |-> ask, left |-> ask, result |-> res]
  <2>2. reader' = [reader EXCEPT ![t] = r] /\ ask \subseteq Int /\ pc \in {"lock", "replay"}
        /\ (pc = "replay" => mCommandIndexReady)
    BY <2>1, ReplayAssumption
  <2> HIDE DEF res, pc
  <2>3. IsCall(r) /\ r.pc = pc
    BY <2>2 DEF IsCall
  <2>4. /\ phase = "ready" /\ phase' = phase /\ mutex' = mutex /\ mCommandIndexReady' = mCommandIndexReady
        /\ reader[t].pc = "idle"
    BY <1>2, IdleCall DEF Ask, indexVars
  <2> HIDE DEF r
  <2>5. reader' = [u \in Readers |-> reader'[u]] /\ reader'[t] = r /\ \A u \in Readers \ {t} : reader'[u] = reader[u]
    BY <2>2, ReplaceFacts
  <2>6. IsCall(reader[t])'
    BY <2>3, <2>5 DEF IsCall
  <2>7. QED
    BY <2>2, <2>3, <2>4, <2>5, <2>6, OtherCalls
<1>3. CASE Lock(t)
  <2>1. reader[t].pc = "lock" /\ mutex = Nobody /\ phase' = phase /\ mCommandIndexReady' = mCommandIndexReady
    BY <1>3 DEF Lock
  <2>2. phase = "ready"
    BY <2>1, IdleCall DEF MutexInv
  <2>3. CASE mCommandIndexReady
    <3>1. Step(t, "replay") /\ mutex' = mutex
      BY <1>3, <2>3 DEF Lock
    <3>2. /\ reader' = [u \in Readers |-> reader'[u]] /\ \A u \in Readers \ {t} : reader'[u] = reader[u]
          /\ reader'[t] = [pc |-> "replay", ask |-> reader[t].ask, left |-> reader[t].left, result |-> reader[t].result]
      BY <3>1, StepFacts
    <3>3. IsCall(reader[t])' /\ reader'[t].pc = "replay"
      BY <1>1, <3>2 DEF IsCall
    <3>4. QED
      BY <2>1, <2>2, <2>3, <3>1, <3>2, <3>3, OtherCalls
  <2>4. CASE ~mCommandIndexReady
    <3>1. Step(t, "build") /\ mutex' = t
      BY <1>3, <2>4 DEF Lock
    <3>2. /\ reader' = [u \in Readers |-> reader'[u]] /\ \A u \in Readers \ {t} : reader'[u] = reader[u]
          /\ reader'[t] = [pc |-> "build", ask |-> reader[t].ask, left |-> reader[t].left, result |-> reader[t].result]
      BY <3>1, StepFacts
    <3>3. IsCall(reader[t])' /\ reader'[t].pc = "build"
      BY <1>1, <3>2 DEF IsCall
    <3>4. \A u \in Readers : reader[u].pc # "build"
      BY <2>1, ReplayAssumption DEF MutexInv
    <3>5. QED
      BY <2>1, <2>2, <2>4, <3>1, <3>2, <3>3, <3>4 DEF MutexInv, IsCall
  <2>5. QED
    BY <2>3, <2>4
<1>4. CASE IndexCommand(t)
  <2>1. phase' = phase /\ mCommandIndexReady' = mCommandIndexReady /\ mutex' = mutex /\ reader' = reader
    BY <1>4 DEF IndexCommand
  <2>2. QED
    BY <2>1 DEF MutexInv, IsCall
<1>5. CASE Publish(t)
  <2>1. reader[t].pc = "build" /\ phase' = phase /\ mCommandIndexReady' = TRUE /\ mutex' = Nobody /\ Step(t, "replay")
    BY <1>5 DEF Publish
  <2>2. mutex = t /\ phase = "ready"
    BY <1>1, <2>1, IdleCall DEF MutexInv
  <2>3. /\ reader' = [u \in Readers |-> reader'[u]] /\ \A u \in Readers \ {t} : reader'[u] = reader[u]
        /\ reader'[t] = [pc |-> "replay", ask |-> reader[t].ask, left |-> reader[t].left, result |-> reader[t].result]
    BY <2>1, StepFacts
  <2>4. IsCall(reader[t])' /\ reader'[t].pc = "replay"
    BY <1>1, <2>3 DEF IsCall
  <2>5. \A u \in Readers \ {t} : reader[u].pc # "build"
    BY <2>2 DEF MutexInv
  <2>6. QED
    BY <2>1, <2>2, <2>3, <2>4, <2>5, ReplayAssumption DEF MutexInv, IsCall
<1>6. ASSUME NEW c \in reader[t].left, ReplayChunk(t, c) PROVE MutexInv'
  <2>1. /\ reader[t].pc = "replay" /\ phase' = phase /\ mutex' = mutex /\ mCommandIndexReady' = mCommandIndexReady
    BY <1>6 DEF ReplayChunk, indexVars
  <2>2. PICK s : reader' = [reader EXCEPT ![t].left = @ \ {c}, ![t].result = s]
    BY <1>6 DEF ReplayChunk
  <2> DEFINE l == reader[t].left \ {c}
  <2>3. /\ reader' = [u \in Readers |-> reader'[u]] /\ \A u \in Readers \ {t} : reader'[u] = reader[u]
        /\ reader'[t] = [pc |-> reader[t].pc, ask |-> reader[t].ask, left |-> l, result |-> s]
    <3>1. reader' = Replied(t, l, s)
      BY <2>2 DEF Replied
    <3> HIDE DEF l
    <3>2. QED
      BY <3>1, ReplayFacts
  <2>4. IsCall(reader[t])' /\ reader'[t].pc = "replay"
    BY <1>1, <2>1, <2>3 DEF IsCall
  <2>5. phase = "ready"
    BY <2>1, IdleCall DEF MutexInv
  <2>6. QED
    BY <1>1, <2>1, <2>3, <2>4, <2>5, OtherCalls
<1>7. CASE Return(t)
  <2>1. /\ reader[t].pc = "replay" /\ phase' = phase /\ mutex' = mutex /\ mCommandIndexReady' = mCommandIndexReady
        /\ reader' = [reader EXCEPT ![t] = Idle]
    BY <1>7 DEF Return, indexVars
  <2>2. /\ reader' = [u \in Readers |-> reader'[u]] /\ reader'[t] = Idle /\ \A u \in Readers \ {t} : reader'[u] = reader[u]
    BY <2>1, ReplaceFacts
  <2>3. IsCall(reader[t])' /\ reader'[t].pc = "idle"
    BY <2>2, IdleCall DEF IsCall
  <2>4. phase = "ready"
    BY <2>1, IdleCall DEF MutexInv
  <2>5. QED
    BY <1>1, <2>1, <2>2, <2>3, <2>4, OtherCalls
<1>8. QED
  BY <1>2, <1>3, <1>4, <1>5, <1>6, <1>7 DEF GetChunks

LEMMA MutexNext ==
  ASSUME MutexInv, [Next]_vars
  PROVE  MutexInv'
<1>1. ASSUME UNCHANGED callVars PROVE MutexInv'
  BY <1>1 DEF MutexInv, IsCall, callVars, indexVars
<1>2. CASE Read
  BY <1>1, <1>2, ReadWhenReady, MutexReading
<1>3. CASE SetOffset
  BY <1>3, MutexSetOffset
<1>4. CASE \E t \in Readers : GetChunks(t)
  BY <1>4, MutexCalls
<1>5. CASE UNCHANGED vars
  BY <1>1, <1>5 DEF vars, callVars
<1>6. QED
  BY <1>2, <1>3, <1>4, <1>5 DEF Next, Failed

(***************************************************************************)
(* The index.                                                              *)
(***************************************************************************)

LEMMA AppendIncreasing ==
  ASSUME NEW s \in Seq(Int), Increasing(s), NEW n \in Int, \A v \in ToSet(s) : v < n
  PROVE  /\ Append(s, n) \in Seq(Int) /\ Increasing(Append(s, n))
         /\ ToSet(Append(s, n)) = ToSet(s) \cup {n}
<1> DEFINE a == Append(s, n)
           l == Len(s)
<1>1. l \in Nat /\ DOMAIN s = 1 .. l /\ \A i \in 1 .. l : s[i] \in Int
  BY SeqFacts
<1>2. a \in Seq(Int) /\ Len(a) = l + 1 /\ (\A i \in 1 .. l : a[i] = s[i]) /\ a[l + 1] = n
  BY AppendProperties
<1>3. DOMAIN a = 1 .. l + 1
  BY <1>2, LenProperties
<1> HIDE DEF a, l
<1>4. \A i \in 1 .. l + 1 : i \in 1 .. l \/ i = l + 1
  BY <1>1
<1>5. \A i \in 1 .. l : s[i] < n /\ i \in 1 .. l + 1
  BY <1>1 DEF ToSet
<1>6. ASSUME NEW i \in 1 .. l + 1, NEW j \in 1 .. l + 1, i < j PROVE a[i] < a[j]
  <2>1. i \in 1 .. l
    BY <1>1, <1>6
  <2>2. CASE j \in 1 .. l
    BY <1>1, <1>2, <1>6, <2>1, <2>2 DEF Increasing
  <2>3. CASE j = l + 1
    BY <1>2, <1>5, <2>1, <2>3
  <2>4. QED
    BY <1>4, <2>2, <2>3
<1>7. Increasing(a)
  BY <1>3, <1>6 DEF Increasing
<1>8. ToSet(a) = ToSet(s) \cup {n}
  <2>1. l + 1 \in 1 .. l + 1
    BY <1>1
  <2>2. ToSet(a) \subseteq ToSet(s) \cup {n}
    BY <1>1, <1>2, <1>3, <1>4 DEF ToSet
  <2>3. ToSet(s) \cup {n} \subseteq ToSet(a)
    BY <1>1, <1>2, <1>3, <1>5, <2>1 DEF ToSet
  <2>4. QED
    BY <2>2, <2>3
<1>9. QED
  BY <1>2, <1>7, <1>8 DEF a

indexFrame == <<mCommands, mOrigin, mOffset, indexVars>>

LEMMA IndexUpToFrame ==
  ASSUME NEW n, IndexUpTo(n),
         UNCHANGED <<mCommands, mOrigin, mOffset, mCommandIndex, mBroadCommands>>
  PROVE  IndexUpTo(n)'
<1>1. \A i : ChunksOf(i)' = ChunksOf(i)
  BY DEF ChunksOf, Covers
<1>2. (\A c : Indexed(c)' = Indexed(c)) /\ mBroadCommands' = mBroadCommands
  BY DEF Indexed
<1>3. QED
  BY <1>1, <1>2 DEF IndexUpTo

LEMMA IndexFrame ==
  ASSUME IndexInv, UNCHANGED indexFrame
  PROVE  IndexInv'
<1>1. /\ mCommandIndexReady' = mCommandIndexReady /\ mutex' = mutex /\ scan' = scan /\ mCommands' = mCommands
      /\ UNCHANGED <<mCommands, mOrigin, mOffset, mCommandIndex, mBroadCommands>>
  BY DEF indexFrame, indexVars
<1>2. ASSUME NEW n, IndexUpTo(n) PROVE IndexUpTo(n)'
  BY <1>1, <1>2, IndexUpToFrame
<1>3. ASSUME mCommandIndexReady PROVE IndexUpTo(Len(mCommands) + 1)'
  <2>1. PICK n : n = Len(mCommands) + 1
    OBVIOUS
  <2>2. IndexUpTo(n)
    BY <1>3, <2>1 DEF IndexInv
  <2>3. IndexUpTo(n)' /\ n = Len(mCommands') + 1
    BY <1>1, <1>2, <2>1, <2>2
  <2>4. QED
    BY <2>3 DEF IndexUpTo
<1>4. ASSUME mutex # Nobody PROVE (scan \in 1 .. Len(mCommands) + 1)' /\ IndexUpTo(scan)'
  <2>1. PICK n : n = scan
    OBVIOUS
  <2>2. scan \in 1 .. Len(mCommands) + 1 /\ IndexUpTo(n)
    BY <1>4, <2>1 DEF IndexInv
  <2>3. IndexUpTo(n)' /\ n = scan'
    BY <1>1, <1>2, <2>1, <2>2
  <2>4. IndexUpTo(scan)'
    BY <2>3 DEF IndexUpTo
  <2>5. QED
    BY <1>1, <2>2, <2>4
<1>5. QED
  BY <1>1, <1>3, <1>4 DEF IndexInv

LEMMA NothingIndexed ==
  ASSUME mCommandIndex' = NoIndex, mBroadCommands' = <<>>
  PROVE  IndexUpTo(1)'
<1>1. <<>> \in Seq(Int) /\ Increasing(<<>>) /\ ToSet(<<>>) = {}
  BY EmptySeq DEF Increasing, ToSet
<1>2. \A c : Indexed(c)' = <<>>
  BY DEF Indexed, NoIndex
<1>3. 1 .. 1 - 1 = {}
  OBVIOUS
<1>4. QED
  BY <1>1, <1>2, <1>3 DEF IndexUpTo

LEMMA IndexOneMore ==
  ASSUME NEW t, IndexCommand(t), NEW n \in Nat \ {0}, scan = n, IndexUpTo(n)
  PROVE  IndexUpTo(n + 1)'
<1>1. /\ mCommands' = mCommands /\ mOrigin' = mOrigin /\ mOffset' = mOffset
      /\ \/ mBroadCommands' = Append(mBroadCommands, n) /\ mCommandIndex' = mCommandIndex
         \/ /\ mCommandIndex' = [c \in DOMAIN mCommandIndex \cup ChunksOf(n) |->
                                   IF c \in ChunksOf(n) THEN Append(Indexed(c), n) ELSE Indexed(c)]
            /\ mBroadCommands' = mBroadCommands
  BY DEF IndexCommand
<1>2. \A i : ChunksOf(i)' = ChunksOf(i)
  BY <1>1 DEF ChunksOf, Covers
<1>3. /\ mBroadCommands \in Seq(Int) /\ Increasing(mBroadCommands) /\ ToSet(mBroadCommands) \subseteq 1 .. n - 1
      /\ \A c \in Int : /\ Indexed(c) \in Seq(Int) /\ Increasing(Indexed(c))
                        /\ ToSet(Indexed(c)) \subseteq {i \in 1 .. n - 1 : c \in ChunksOf(i)} \ ToSet(mBroadCommands)
      /\ \A i \in 1 .. n - 1 : \/ i \in ToSet(mBroadCommands)
                               \/ \A c \in ChunksOf(i) : i \in ToSet(Indexed(c))
  BY DEF IndexUpTo
<1>4. 1 .. (n + 1) - 1 = 1 .. (n - 1) \cup {n} /\ n \notin 1 .. n - 1 /\ n \in Int /\ \A i \in 1 .. n - 1 : i < n
  OBVIOUS
<1>5. \A i \in ChunksOf(n) : i \in Int
  BY ReplayAssumption DEF ChunksOf, Covers
<1>6. CASE mBroadCommands' = Append(mBroadCommands, n) /\ mCommandIndex' = mCommandIndex
  <2>1. \A v \in ToSet(mBroadCommands) : v < n
    BY <1>3, <1>4
  <2>2. /\ mBroadCommands' \in Seq(Int) /\ Increasing(mBroadCommands')
        /\ ToSet(mBroadCommands') = ToSet(mBroadCommands) \cup {n}
    BY <1>3, <1>4, <1>6, <2>1, AppendIncreasing
  <2>3. \A c : Indexed(c)' = Indexed(c)
    BY <1>6 DEF Indexed
  <2>4. ToSet(mBroadCommands') \subseteq 1 .. (n + 1) - 1
    BY <1>3, <1>4, <2>2
  <2>5. ASSUME NEW c \in Int
        PROVE  ToSet(Indexed(c)) \subseteq {i \in 1 .. (n + 1) - 1 : c \in ChunksOf(i)} \ ToSet(mBroadCommands')
    BY <1>3, <1>4, <2>2
  <2>6. \A i \in 1 .. (n + 1) - 1 : \/ i \in ToSet(mBroadCommands')
                                    \/ \A c \in ChunksOf(i) : i \in ToSet(Indexed(c))
    BY <1>3, <1>4, <2>2
  <2>7. QED
    BY <1>2, <1>3, <2>2, <2>3, <2>4, <2>5, <2>6 DEF IndexUpTo
<1>7. CASE /\ mCommandIndex' = [c \in DOMAIN mCommandIndex \cup ChunksOf(n) |->
                                  IF c \in ChunksOf(n) THEN Append(Indexed(c), n) ELSE Indexed(c)]
           /\ mBroadCommands' = mBroadCommands
  <2>1. \A c : Indexed(c)' = IF c \in ChunksOf(n) THEN Append(Indexed(c), n) ELSE Indexed(c)
    BY <1>7 DEF Indexed
  <2>2. ASSUME NEW c \in Int
        PROVE  /\ Indexed(c)' \in Seq(Int) /\ Increasing(Indexed(c)')
               /\ ToSet(Indexed(c)') = ToSet(Indexed(c)) \cup (IF c \in ChunksOf(n) THEN {n} ELSE {})
    <3>1. CASE c \in ChunksOf(n)
      <4>1. \A v \in ToSet(Indexed(c)) : v < n
        BY <1>3, <1>4
      <4>2. /\ Append(Indexed(c), n) \in Seq(Int) /\ Increasing(Append(Indexed(c), n))
            /\ ToSet(Append(Indexed(c), n)) = ToSet(Indexed(c)) \cup {n}
        BY <1>3, <1>4, <4>1, AppendIncreasing
      <4>3. QED
        BY <2>1, <3>1, <4>2
    <3>2. CASE c \notin ChunksOf(n)
      BY <1>3, <2>1, <3>2
    <3>3. QED
      BY <3>1, <3>2
  <2>3. ASSUME NEW c \in Int
        PROVE  ToSet(Indexed(c)') \subseteq {i \in 1 .. (n + 1) - 1 : c \in ChunksOf(i)} \ ToSet(mBroadCommands)
    <3>1. n \notin ToSet(mBroadCommands) /\ n \in 1 .. (n + 1) - 1 /\ 1 .. n - 1 \subseteq 1 .. (n + 1) - 1
      BY <1>3, <1>4
    <3>2. ToSet(Indexed(c)) \subseteq {i \in 1 .. (n + 1) - 1 : c \in ChunksOf(i)} \ ToSet(mBroadCommands)
      BY <1>3, <3>1
    <3>3. CASE c \in ChunksOf(n)
      <4>1. ToSet(Indexed(c)') = ToSet(Indexed(c)) \cup {n}
        BY <2>2, <3>3
      <4>2. QED
        BY <3>1, <3>2, <3>3, <4>1
    <3>4. CASE c \notin ChunksOf(n)
      <4>1. ToSet(Indexed(c)') = ToSet(Indexed(c))
        BY <2>2, <3>4
      <4>2. QED
        BY <3>2, <4>1
    <3>5. QED
      BY <3>3, <3>4
  <2>4. ASSUME NEW i \in 1 .. (n + 1) - 1
        PROVE  i \in ToSet(mBroadCommands) \/ \A c \in ChunksOf(i) : i \in ToSet(Indexed(c)')
    <3>1. CASE i = n
      BY <1>5, <2>2, <3>1
    <3>2. CASE i \in 1 .. n - 1
      <4>1. \A c \in ChunksOf(i) : c \in Int
        BY ReplayAssumption DEF ChunksOf, Covers
      <4>2. QED
        BY <1>3, <2>2, <3>2, <4>1
    <3>3. QED
      BY <1>4, <3>1, <3>2
  <2>5. ToSet(mBroadCommands) \subseteq 1 .. (n + 1) - 1
    BY <1>3, <1>4
  <2>6. QED
    BY <1>2, <1>3, <1>7, <2>2, <2>3, <2>4, <2>5 DEF IndexUpTo
<1>8. QED
  BY <1>1, <1>6, <1>7

LEMMA IndexNext ==
  ASSUME TypeInv, MutexInv, IndexInv, [Next]_vars
  PROVE  IndexInv'
<1>1. Len(mCommands) \in Nat
  BY LenProperties DEF TypeInv
<1>2. CASE Read
  <2>1. CASE phase = "ready"
    <3>1. UNCHANGED indexFrame
      BY <1>2, <2>1, ReadWhenReady DEF callVars, indexFrame
    <3>2. QED
      BY <3>1, IndexFrame
  <2>2. CASE phase # "ready"
    BY <1>2, <2>2, MutexReading DEF IndexInv
  <2>3. QED
    BY <2>1, <2>2
<1>3. CASE SetOffset
  BY <1>3, MutexSetOffset DEF IndexInv
<1>4. ASSUME NEW t \in Readers, GetChunks(t) PROVE IndexInv'
  <2>1. CASE Ask(t) \/ (\E c \in reader[t].left : ReplayChunk(t, c)) \/ Return(t)
    <3>1. UNCHANGED indexFrame
      BY <2>1 DEF Ask, ReplayChunk, Return, indexFrame
    <3>2. QED
      BY <3>1, IndexFrame
  <2>2. CASE Lock(t)
    <3>1. /\ mutex = Nobody /\ mCommandIndexReady' = mCommandIndexReady
          /\ mCommands' = mCommands /\ mOrigin' = mOrigin /\ mOffset' = mOffset
      BY <2>2 DEF Lock
    <3>2. CASE mCommandIndexReady
      <4>1. UNCHANGED indexFrame
        BY <2>2, <3>1, <3>2 DEF Lock, indexFrame, indexVars
      <4>2. QED
        BY <4>1, IndexFrame
    <3>3. CASE ~mCommandIndexReady
      <4>1. scan' = 1 /\ mCommandIndex' = NoIndex /\ mBroadCommands' = <<>>
        BY <2>2, <3>3 DEF Lock
      <4>2. IndexUpTo(1)'
        BY <4>1, NothingIndexed
      <4>3. (scan \in 1 .. Len(mCommands) + 1)' /\ IndexUpTo(scan)'
        <5>1. IndexUpTo(scan)'
          BY <4>1, <4>2 DEF IndexUpTo
        <5>2. QED
          BY <1>1, <3>1, <4>1, <5>1
      <4>4. QED
        BY <3>1, <3>3, <4>3 DEF IndexInv
    <3>4. QED
      BY <3>2, <3>3
  <2>3. CASE IndexCommand(t)
    <3>1. /\ reader[t].pc = "build" /\ scan <= Len(mCommands) /\ scan' = scan + 1 /\ mCommands' = mCommands
          /\ mCommandIndexReady' = mCommandIndexReady
      BY <2>3 DEF IndexCommand
    <3>2. mutex = t /\ mutex # Nobody
      BY <3>1, ReplayAssumption DEF MutexInv
    <3>3. ~mCommandIndexReady /\ scan \in 1 .. Len(mCommands) + 1 /\ IndexUpTo(scan)
      BY <3>2 DEF MutexInv, IndexInv
    <3>4. PICK n \in Nat \ {0} : n = scan
      BY <1>1, <3>3
    <3>5. IndexUpTo(n + 1)'
      <4>1. IndexUpTo(n)
        BY <3>3, <3>4
      <4>2. QED
        BY <2>3, <3>4, <4>1, IndexOneMore
    <3>6. IndexUpTo(scan)'
      <4>1. scan' = n + 1
        BY <3>1, <3>4
      <4>2. QED
        BY <3>5, <4>1 DEF IndexUpTo
    <3>7. (scan \in 1 .. Len(mCommands) + 1)'
      BY <1>1, <3>1, <3>3
    <3>8. QED
      BY <3>1, <3>3, <3>6, <3>7 DEF IndexInv
  <2>4. CASE Publish(t)
    <3>1. /\ reader[t].pc = "build" /\ scan > Len(mCommands) /\ mutex' = Nobody
          /\ UNCHANGED <<mCommands, mOrigin, mOffset, mCommandIndex, mBroadCommands>>
      BY <2>4 DEF Publish
    <3>2. mutex = t /\ mutex # Nobody
      BY <3>1, ReplayAssumption DEF MutexInv
    <3>3. scan \in 1 .. Len(mCommands) + 1 /\ IndexUpTo(scan)
      BY <3>2 DEF IndexInv
    <3>4. PICK n : n = scan
      OBVIOUS
    <3>5. n = Len(mCommands) + 1
      BY <1>1, <3>1, <3>3, <3>4
    <3>6. IndexUpTo(n)
      BY <3>3, <3>4
    <3>7. IndexUpTo(n)'
      BY <3>1, <3>6, IndexUpToFrame
    <3>8. IndexUpTo(Len(mCommands) + 1)'
      <4>1. n = Len(mCommands') + 1
        BY <3>1, <3>5
      <4>2. QED
        BY <3>7, <4>1 DEF IndexUpTo
    <3>9. QED
      BY <3>1, <3>8 DEF IndexInv
  <2>5. QED
    BY <1>4, <2>1, <2>2, <2>3, <2>4 DEF GetChunks
<1>5. CASE UNCHANGED vars
  <2>1. UNCHANGED indexFrame
    BY <1>5 DEF vars, indexFrame
  <2>2. QED
    BY <2>1, IndexFrame
<1>6. QED
  BY <1>2, <1>3, <1>4, <1>5 DEF Next, Failed

(***************************************************************************)
(* The calls.                                                              *)
(***************************************************************************)

LEMMA MaxNat ==
  ASSUME NEW S \in SUBSET Nat, S # {}, NEW K \in Nat, \A n \in S : n <= K
  PROVE  Max(S) \in S /\ \A k \in S : k <= Max(S)
<1> DEFINE D == {d \in Nat : K - d \in S}
<1>1. D \in SUBSET Nat /\ D # {}
  <2>1. PICK n \in S : TRUE
    OBVIOUS
  <2>2. K - n \in Nat /\ K - (K - n) = n
    BY <2>1
  <2>3. K - n \in D
    BY <2>2
  <2>4. QED
    BY <2>3
<1>2. PICK d \in D : \A e \in D : d <= e
  <2> HIDE DEF D
  <2>1. QED
    BY <1>1, LeastNat
<1>3. d \in Nat /\ K - d \in S
  BY <1>2
<1>4. ASSUME NEW k \in S PROVE k <= K - d
  <2>1. K - k \in Nat /\ K - (K - k) = k
    OBVIOUS
  <2>2. K - k \in D
    BY <2>1
  <2>3. d <= K - k
    BY <1>2, <2>2
  <2>4. QED
    BY <1>3, <2>3
<1>5. \E m \in S : \A k \in S : m >= k
  <2>1. \A k \in S : K - d >= k
    BY <1>3, <1>4
  <2>2. QED
    BY <1>3, <2>1
<1>6. Max(S) \in S /\ \A k \in S : Max(S) >= k
  BY <1>5 DEF Max
<1>7. QED
  BY <1>6

Listed(m, S) == {n \in DOMAIN m : m[n] \in S}

\* The last of the listed commands that are in S is the latest of them.
LEMMA LastWriter ==
  ASSUME NEW m, NEW K \in Nat, DOMAIN m = 1 .. K, Increasing(m), ToSet(m) \subseteq Int,
         NEW S \in SUBSET ToSet(m)
  PROVE  (Listed(m, S) = {} <=> S = {}) /\ (S # {} => m[Max(Listed(m, S))] = Max(S))
<1> DEFINE w == {n \in DOMAIN m : m[n] \in S}
<1>1. w = {} <=> S = {}
  BY DEF ToSet
<1>2. ASSUME S # {} PROVE m[Max(w)] = Max(S)
  <2>1. w \in SUBSET Nat /\ w # {} /\ \A n \in w : n <= K
    BY <1>1, <1>2
  <2> DEFINE last == Max(w)
  <2>2. last \in w /\ \A n \in w : n <= last
    <3> HIDE DEF w
    <3>1. QED
      BY <2>1, MaxNat
  <2> HIDE DEF last
  <2>3. m[last] \in S /\ last \in 1 .. K
    BY <2>2
  <2>4. ASSUME NEW v \in S PROVE m[last] >= v
    <3>1. PICK n \in DOMAIN m : v = m[n]
      BY DEF ToSet
    <3>2. n \in w /\ n \in 1 .. K
      BY <3>1
    <3>3. n <= last
      BY <2>2, <3>2
    <3>4. m[last] \in Int /\ v \in Int
      BY <2>3
    <3>5. CASE n = last
      BY <3>1, <3>4, <3>5
    <3>6. CASE n # last
      <4>1. n < last
        BY <2>3, <3>2, <3>3, <3>6
      <4>2. m[n] < m[last]
        BY <2>3, <3>2, <4>1 DEF Increasing
      <4>3. QED
        BY <3>1, <3>4, <4>2
    <3>7. QED
      BY <3>5, <3>6
  <2>5. \E x \in S : \A y \in S : x >= y
    BY <2>3, <2>4
  <2>6. Max(S) \in S /\ \A y \in S : Max(S) >= y
    BY <2>5 DEF Max
  <2>7. Max(S) >= m[last] /\ m[last] >= Max(S) /\ Max(S) \in Int /\ m[last] \in Int
    BY <2>3, <2>4, <2>6
  <2>8. m[last] = Max(S)
    BY <2>7
  <2>9. QED
    BY <2>8 DEF last
<1>3. QED
  BY <1>1, <1>2 DEF Listed

LEMMA ChunkOfCell ==
  ASSUME NEW c \in Int, NEW x \in Int
  PROVE  x \in Cells(c) <=> x \div ChunkWidth = c
<1>1. ChunkWidth \in Nat \ {0}
  BY ReplayAssumption
<1>2. \A w \in Nat \ {0} : x \in c * w .. c * w + w - 1 <=> x \div w = c
  OBVIOUS
<1>3. QED
  BY <1>1, <1>2 DEF Cells

LEMMA CommandFacts ==
  ASSUME TypeInv, NEW i \in DOMAIN mCommands
  PROVE  /\ mCommands[i].lo \in Int /\ mCommands[i].hi \in Int
         /\ Covers(i) \subseteq Int
         /\ mCommands[i].lo = mCommands[i].hi => \A x, y \in Covers(i) : x = y
         /\ \A x \in Covers(i) : x \div ChunkWidth \in ChunksOf(i)
<1>1. mCommands[i] \in Line /\ mOrigin \in Int /\ mOffset \in Int
  BY LineFacts DEF TypeInv
<1>2. mCommands[i].lo \in Int /\ mCommands[i].hi \in Int
  BY <1>1 DEF Line
<1>3. Covers(i) \subseteq Int /\ (mCommands[i].lo = mCommands[i].hi => \A x, y \in Covers(i) : x = y)
  BY <1>1, <1>2 DEF Covers
<1>4. QED
  BY <1>2, <1>3 DEF ChunksOf

\* Replaying a chunk takes its commands in file order.
LEMMA MergedOrder ==
  ASSUME TypeInv, IndexInv, mCommandIndexReady, NEW c \in Int
  PROVE  \E K \in Nat :
           /\ DOMAIN Merged(c) = 1 .. K /\ Increasing(Merged(c))
           /\ ToSet(Merged(c)) = ToSet(Indexed(c)) \cup ToSet(mBroadCommands)
           /\ ToSet(Merged(c)) \subseteq DOMAIN mCommands
<1>1. Len(mCommands) \in Nat /\ DOMAIN mCommands = 1 .. Len(mCommands)
  BY LenProperties DEF TypeInv
<1>2. IndexUpTo(Len(mCommands) + 1)
  BY DEF IndexInv
<1>3. /\ mBroadCommands \in Seq(Int) /\ Increasing(mBroadCommands)
      /\ Indexed(c) \in Seq(Int) /\ Increasing(Indexed(c))
      /\ ToSet(Indexed(c)) \cap ToSet(mBroadCommands) = {}
      /\ ToSet(Indexed(c)) \cup ToSet(mBroadCommands) \subseteq 1 .. (Len(mCommands) + 1) - 1
  BY <1>2 DEF IndexUpTo
<1>4. Merged(c) = MergeOf(Indexed(c), mBroadCommands)
  BY DEF Merged, MergeOf
<1>5. /\ DOMAIN Merged(c) = 1 .. Len(Indexed(c)) + Len(mBroadCommands) /\ Increasing(Merged(c))
      /\ ToSet(Merged(c)) = ToSet(Indexed(c)) \cup ToSet(mBroadCommands)
  BY <1>3, <1>4, MergeOrder
<1>6. Len(Indexed(c)) + Len(mBroadCommands) \in Nat
  <2>1. Len(Indexed(c)) \in Nat /\ Len(mBroadCommands) \in Nat
    BY <1>3, LenProperties
  <2>2. QED
    BY <2>1
<1>7. (Len(mCommands) + 1) - 1 = Len(mCommands)
  BY <1>1
<1>8. QED
  BY <1>1, <1>3, <1>5, <1>6, <1>7

\* What is left in a cell after replaying chunk c.
Replayed(c, d, x, old) ==
  LET w == {n \in DOMAIN Merged(c) : Writes(Merged(c)[n], c, x)}
  IN  IF w = {} THEN old ELSE mCommands[Merged(c)[Max(w)]].state

\* In a cell of c: what replaying the whole file leaves there.
LEMMA ReplayedHere ==
  ASSUME TypeInv, IndexInv, mCommandIndexReady, NEW c \in Int, NEW x \in Cells(c)
  PROVE  Replayed(c, c, x, Empty) = Naive(x)
<1> DEFINE S == {i \in DOMAIN mCommands : Writes(i, c, x)}
           m == Merged(c)
           w == Listed(m, S)
<1>1. x \in Int /\ x \div ChunkWidth = c
  <2>1. x \in Int
    BY ReplayAssumption DEF Cells
  <2>2. QED
    BY <2>1, ChunkOfCell
<1>2. PICK K \in Nat : /\ DOMAIN m = 1 .. K /\ Increasing(m)
                       /\ ToSet(m) = ToSet(Indexed(c)) \cup ToSet(mBroadCommands)
                       /\ ToSet(m) \subseteq DOMAIN mCommands
  BY MergedOrder
<1>3. S \subseteq ToSet(m)
  <2> SUFFICES ASSUME NEW i \in DOMAIN mCommands, Writes(i, c, x)
               PROVE  i \in ToSet(Indexed(c)) \/ i \in ToSet(mBroadCommands)
    BY <1>2
  <2>1. c \in ChunksOf(i)
    BY <1>1, CommandFacts DEF Writes
  <2>2. i \in 1 .. (Len(mCommands) + 1) - 1
    <3>1. Len(mCommands) \in Nat /\ DOMAIN mCommands = 1 .. Len(mCommands)
      BY LenProperties DEF TypeInv
    <3>2. QED
      BY <3>1
  <2>3. QED
    BY <2>1, <2>2 DEF IndexInv, IndexUpTo
<1>4. DOMAIN mCommands \subseteq Int
  <2>1. Len(mCommands) \in Nat /\ DOMAIN mCommands = 1 .. Len(mCommands)
    BY LenProperties DEF TypeInv
  <2>2. QED
    BY <2>1
<1>5. (w = {} <=> S = {}) /\ (S # {} => m[Max(w)] = Max(S))
  <2>1. ToSet(m) \subseteq Int /\ S \in SUBSET ToSet(m)
    BY <1>2, <1>3, <1>4
  <2>2. DOMAIN m = 1 .. K /\ Increasing(m)
    BY <1>2
  <2> HIDE DEF S, m
  <2>3. QED
    BY <2>1, <2>2, LastWriter
<1>6. {n \in DOMAIN m : Writes(m[n], c, x)} = w
  <2>1. \A n \in DOMAIN m : m[n] \in DOMAIN mCommands
    BY <1>2 DEF ToSet
  <2> HIDE DEF m
  <2>2. QED
    BY <2>1 DEF Listed
<1>7. Replayed(c, c, x, Empty) = IF w = {} THEN Empty ELSE mCommands[m[Max(w)]].state
  BY <1>6 DEF Replayed
<1>8. S = {i \in DOMAIN mCommands : x \in Covers(i) /\ ~(format = "tibi" /\ mCommands[i].state = Air)}
  BY DEF Writes
<1>9. Naive(x) = IF S = {} THEN Empty ELSE mCommands[Max(S)].state
  BY <1>8 DEF Naive
<1> HIDE DEF S, m, w
<1>10. QED
  BY <1>5, <1>7, <1>9

\* In a cell of another chunk: what was there.
LEMMA ReplayedElsewhere ==
  ASSUME TypeInv, IndexInv, NoSingleBroad, mCommandIndexReady,
         NEW c \in Int, NEW d \in Int, d # c, NEW x \in Cells(d), NEW old
  PROVE  Replayed(c, d, x, old) = old
<1>1. x \in Int /\ x \notin Cells(c)
  <2>1. x \in Int
    BY ReplayAssumption DEF Cells
  <2>2. QED
    BY <2>1, ChunkOfCell
<1>2. PICK K \in Nat : /\ DOMAIN Merged(c) = 1 .. K
                       /\ ToSet(Merged(c)) = ToSet(Indexed(c)) \cup ToSet(mBroadCommands)
                       /\ ToSet(Merged(c)) \subseteq DOMAIN mCommands
  BY MergedOrder
<1>3. ASSUME NEW i \in ToSet(Merged(c)), Writes(i, c, x) PROVE FALSE
  <2>1. /\ i \in DOMAIN mCommands /\ x \in Covers(i) /\ format = "tibi" /\ mCommands[i].lo = mCommands[i].hi
    BY <1>1, <1>2, <1>3 DEF Writes
  <2>2. i \in ToSet(Indexed(c))
    BY <1>2, <2>1 DEF NoSingleBroad
  <2>3. c \in ChunksOf(i)
    BY <2>2 DEF IndexInv, IndexUpTo
  <2>4. PICK y \in Covers(i) : c = y \div ChunkWidth
    BY <2>3 DEF ChunksOf
  <2>5. y = x /\ y \in Int
    BY <2>1, CommandFacts
  <2>6. QED
    BY <1>1, <2>4, <2>5, ChunkOfCell
<1>4. {n \in DOMAIN Merged(c) : Writes(Merged(c)[n], c, x)} = {}
  BY <1>3 DEF ToSet
<1>5. QED
  BY <1>4 DEF Replayed

LEMMA CallsFrame ==
  ASSUME CallsInv, UNCHANGED callVars
  PROVE  CallsInv'
<1>1. reader' = reader /\ \A x : Naive(x)' = Naive(x)
  BY DEF Naive, Covers, callVars
<1>2. QED
  BY <1>1 DEF CallsInv

\* The commands of the file stay where they are while calls run.
LEMMA CallsOthers ==
  ASSUME CallsInv, NEW t \in Readers, \A u \in Readers \ {t} : reader'[u] = reader[u],
         UNCHANGED <<format, mCommands, mOrigin, mOffset>>,
         \A c \in reader'[t].ask :
           reader'[t].result[c] = [x \in Cells(c) |-> IF c \in reader'[t].left THEN Empty ELSE Naive(x)]
  PROVE  CallsInv'
<1>1. \A x : Naive(x)' = Naive(x)
  BY DEF Naive, Covers
<1>2. QED
  BY <1>1 DEF CallsInv

LEMMA CallsNext ==
  ASSUME TypeInv, MutexInv, IndexInv, NoSingleBroad, CallsInv, [Next]_vars
  PROVE  CallsInv'
<1>1. ASSUME reader' = reader, \A t \in Readers : reader[t] = Idle PROVE CallsInv'
  BY <1>1, IdleCall DEF CallsInv
<1>2. CASE Read
  BY <1>1, <1>2, ReadWhenReady, CallsFrame, MutexReading
<1>3. CASE SetOffset
  BY <1>1, <1>3, MutexSetOffset
<1>4. ASSUME NEW t \in Readers, GetChunks(t) PROVE CallsInv'
  <2>1. UNCHANGED <<format, mCommands, mOrigin, mOffset>>
    BY <1>4 DEF GetChunks, Ask, Lock, IndexCommand, Publish, ReplayChunk, Return
  <2>2. \A c \in reader[t].ask :
          reader[t].result[c] = [x \in Cells(c) |-> IF c \in reader[t].left THEN Empty ELSE Naive(x)]
    BY DEF CallsInv
  <2>3. CASE Ask(t)
    <3>1. PICK ask \in Requests :
            reader' = [reader EXCEPT ![t] =
              [pc |-> IF mCommandIndexReady THEN "replay" ELSE "lock", ask |-> ask, left |-> ask,
               result |-> [c \in ask |-> [x \in Cells(c) |-> Empty]]]]
      BY <2>3 DEF Ask
    <3> DEFINE res == [c \in ask |-> [x \in Cells(c) |-> Empty]]
               pc == IF mCommandIndexReady THEN "replay" ELSE "lock"
               r == [pc |-> pc, ask |-> ask, left |-> ask, result |-> res]
    <3>2. reader' = [reader EXCEPT ![t] = r]
      BY <3>1
    <3>3. \A c \in ask : r.result[c] = [x \in Cells(c) |-> IF c \in r.left THEN Empty ELSE Naive(x)]
      OBVIOUS
    <3>4. r.ask = ask
      OBVIOUS
    <3> HIDE DEF r
    <3>5. reader'[t] = r /\ \A u \in Readers \ {t} : reader'[u] = reader[u]
      BY <3>2, ReplaceFacts
    <3>6. QED
      BY <2>1, <3>3, <3>4, <3>5, CallsOthers
  <2>4. CASE Lock(t) \/ Publish(t)
    <3>1. PICK pc : Step(t, pc)
      BY <2>4 DEF Lock, Publish
    <3>2. /\ reader'[t] = [pc |-> pc, ask |-> reader[t].ask, left |-> reader[t].left, result |-> reader[t].result]
          /\ \A u \in Readers \ {t} : reader'[u] = reader[u]
      BY <3>1, StepFacts
    <3>3. reader'[t].ask = reader[t].ask /\ reader'[t].left = reader[t].left /\ reader'[t].result = reader[t].result
      BY <3>2
    <3>4. QED
      BY <2>1, <2>2, <3>2, <3>3, CallsOthers
  <2>5. CASE IndexCommand(t)
    <3>1. reader' = reader
      BY <2>5 DEF IndexCommand
    <3>2. QED
      BY <2>1, <2>2, <3>1, CallsOthers
  <2>6. ASSUME NEW c \in reader[t].left, ReplayChunk(t, c) PROVE CallsInv'
    <3> DEFINE r == reader[t]
               l == r.left \ {c}
               s == [d \in r.ask |-> [x \in Cells(d) |-> Replayed(c, d, x, r.result[d][x])]]
    <3>1. reader' = Replied(t, l, s) /\ r.pc = "replay"
      BY <2>6 DEF ReplayChunk, Replied, Replayed
    <3>2. r.left \subseteq r.ask /\ r.ask \subseteq Int /\ mCommandIndexReady
      BY <3>1 DEF MutexInv, IsCall
    <3>3. ASSUME NEW d \in r.ask
          PROVE  s[d] = [x \in Cells(d) |-> IF d \in l THEN Empty ELSE Naive(x)]
      <4>1. c \in Int /\ d \in Int
        BY <2>6, <3>2
      <4>2. r.result[d] = [x \in Cells(d) |-> IF d \in r.left THEN Empty ELSE Naive(x)]
        BY <2>2
      <4>3. s[d] = [x \in Cells(d) |-> Replayed(c, d, x, r.result[d][x])]
        OBVIOUS
      <4> HIDE DEF r, s
      <4>4. CASE d = c
        <5>1. \A x \in Cells(c) : r.result[c][x] = Empty
          BY <2>6, <4>2, <4>4 DEF r
        <5>2. \A x \in Cells(c) : Replayed(c, c, x, Empty) = Naive(x)
          BY <3>2, <4>1, ReplayedHere
        <5>3. QED
          BY <4>3, <4>4, <5>1, <5>2
      <4>5. CASE d # c
        <5>1. \A x \in Cells(d) : Replayed(c, d, x, r.result[d][x]) = r.result[d][x]
          BY <3>2, <4>1, <4>5, ReplayedElsewhere
        <5>2. d \in l <=> d \in r.left
          BY <4>5
        <5>3. QED
          BY <4>2, <4>3, <5>1, <5>2
      <4>6. QED
        BY <4>4, <4>5
    <3>4. r.pc = r.pc /\ reader'[t] = [pc |-> r.pc, ask |-> r.ask, left |-> l, result |-> s]
          /\ \A u \in Readers \ {t} : reader'[u] = reader[u]
      <4> HIDE DEF l, s
      <4>1. QED
        BY <3>1, ReplayFacts
    <3> HIDE DEF r, l, s
    <3>5. reader'[t].ask = r.ask /\ reader'[t].left = l /\ reader'[t].result = s
      BY <3>4
    <3>6. QED
      BY <2>1, <3>3, <3>4, <3>5, CallsOthers
  <2>7. CASE Return(t)
    <3>1. reader' = [reader EXCEPT ![t] = Idle]
      BY <2>7 DEF Return
    <3>2. reader'[t] = Idle /\ \A u \in Readers \ {t} : reader'[u] = reader[u]
      BY <3>1, ReplaceFacts
    <3>3. reader'[t].ask = {}
      BY <3>2, IdleCall
    <3>4. QED
      BY <2>1, <3>2, <3>3, CallsOthers
  <2>8. QED
    BY <1>4, <2>3, <2>4, <2>5, <2>6, <2>7 DEF GetChunks
<1>5. CASE UNCHANGED vars
  <2>1. UNCHANGED callVars
    BY <1>5 DEF vars, callVars
  <2>2. QED
    BY <2>1, CallsFrame
<1>6. QED
  BY <1>2, <1>3, <1>4, <1>5 DEF Next, Failed

LEMMA ReplayInit ==
  ASSUME Init
  PROVE  IndexInv /\ CallsInv
<1>1. \A t \in Readers : reader[t].ask = {}
  BY IdleCall DEF Init
<1>2. QED
  BY <1>1 DEF Init, IndexInv, CallsInv

\* The index get_chunks builds on first use has each command of the file, in
\* file order, in the list of every chunk it covers or in the broad list, for
\* whichever thread finds it ready; two threads never build it at once.
THEOREM IndexComplete == Spec => [](MutexInv /\ IndexInv)
<1>1. Init => ReadInv /\ MutexInv /\ IndexInv
  BY ReadInit, MutexInit, ReplayInit
<1>2. ReadInv /\ MutexInv /\ IndexInv /\ [Next]_vars => (ReadInv /\ MutexInv /\ IndexInv)'
  BY ReadNext, MutexNext, IndexNext DEF ReadInv
<1>3. QED
  BY <1>1, <1>2, PTL DEF Spec

\* get_chunks returns what replaying the whole file would, as long as no
\* setblock of a TIBI file found the index full.
THEOREM ReplayFaithful == Spec /\ []NoSingleBroad => []ReplayIsFaithful
<1> DEFINE ReplayInv == ReadInv /\ MutexInv /\ IndexInv /\ CallsInv
<1>1. Init => ReplayInv
  BY ReadInit, MutexInit, ReplayInit
<1>2. ReplayInv /\ NoSingleBroad /\ [Next]_vars => ReplayInv'
  BY ReadNext, MutexNext, IndexNext, CallsNext DEF ReadInv
<1>3. ReplayInv => ReplayIsFaithful
  <2> SUFFICES ASSUME ReplayInv, NEW t \in Readers, reader[t].left = {},
                      NEW c \in reader[t].ask, NEW x \in Cells(c)
               PROVE  reader[t].result[c][x] = Naive(x)
    BY DEF ReplayIsFaithful
  <2>1. reader[t].result[c] = [y \in Cells(c) |-> IF c \in reader[t].left THEN Empty ELSE Naive(y)]
    BY DEF CallsInv
  <2>2. QED
    BY <2>1
<1> HIDE DEF ReplayInv
<1>4. QED
  BY <1>1, <1>2, <1>3, PTL DEF Spec

\* Of MCFunction and IBImport files get_chunks always returns that.
THEOREM ReplayFaithfulUnlessTibi == "tibi" \notin Formats => (Spec => []ReplayIsFaithful)
<1> SUFFICES ASSUME "tibi" \notin Formats PROVE Spec => []ReplayIsFaithful
  OBVIOUS
<1>1. Init => format \in Formats
  BY DEF Init
<1>2. format \in Formats /\ [Next]_vars => (format \in Formats)'
  BY DEF Next, Read, ReadIbImport, FirstPass, FileChanges, SecondPass, StartParsing, SubmitBlock, ParseBlock,
         ConsumeFront, EndOfFile, Normalize, Normalized, SetOffset, GetChunks, Ask, Lock, IndexCommand, Publish,
         ReplayChunk, Return, Failed, vars
<1>3. format \in Formats => NoSingleBroad
  BY DEF NoSingleBroad
<1>4. QED
  BY <1>1, <1>2, <1>3, ReplayFaithful, PTL DEF Spec

=============================================================================
