------------------------ MODULE BdxStructureProofs ------------------------
(***************************************************************************)
(* A BDX structure, used in either of its ways.                            *)
(*                                                                         *)
(* Streaming it into a world loses no block write, and every stage a       *)
(* subchunk passes through stays within its limit, for every set of chunks *)
(* and layers, every number of workers, every size of the caches and       *)
(* batches and every order of writes, saves and failures (CacheStoreInv).  *)
(*                                                                         *)
(* Random access to it, for every number of threads, calls, files,         *)
(* offsets, options and shards: what a request reads stays on the disk     *)
(* until it has read it (ShardsStayForReaders), no directory is left       *)
(* behind (NoSpoolIsLeft, TwoLeaveNoSpool), and the answers are what the   *)
(* stream means (AnswersStayExact), as far as the decoder is exact.        *)
(*                                                                         *)
(* SpoolInv says who builds, reads and throws away, and who has which      *)
(* directory.  CoverInv adds that every directory belongs to somebody,     *)
(* StructureInv that the structure is of one file and one offset, and      *)
(* ContentInv what each call has found of it.                              *)
(***************************************************************************)
EXTENDS BdxStructure, SequenceTheorems, FiniteSetTheorems, WellFoundedInduction, TLAPS

(***************************************************************************)
(* The way of a subchunk into a world: its invariant.                      *)
(***************************************************************************)

Payloads == UNION {[S -> Nat] : S \in SUBSET SubChunks}
SaveStates == {"queued", "running", "done", "failed"}
Saves == [chunks : SUBSET Chunks, data : Payloads, state : SaveStates]
Entries == [pos : SubChunks, n : Nat]

\* Where the caller stands, and what is empty by then.
ControlInv ==
  /\ pc \in PcNames
  /\ target \in SubChunks
  /\ written \in [SubChunks -> Nat]
  /\ outcome \in {"none", "success", "failure"}
  /\ outcome = "success" => pc = "returned"
  /\ pc \in {"join", "spill", "entities"} => lru = <<>>
  /\ pc \in {"spill", "entities"} => pending = <<>>
  /\ pc = "entities" => cold = <<>>

\* Each of the three stages by itself: its types and its limit.
CacheInv ==
  /\ lru \in Seq(Chunks) /\ \A i, j \in DOMAIN lru : lru[i] = lru[j] => i = j
  /\ hot \in Payloads /\ \A s \in DOMAIN hot : Cached(s[1])
  /\ Len(lru) <= CacheLimit

SavesInv ==
  /\ pending \in Seq(Saves)
  /\ \A i \in DOMAIN pending : DOMAIN pending[i].data \subseteq LayersOf(pending[i].chunks)
  /\ Len(pending) <= Workers

StoreInv ==
  /\ cold \in Seq(Entries)
  /\ flushed \subseteq SubChunks
  /\ db \in Payloads
  /\ Len(cold) <= ColdLimit

\* A chunk is in the cache or in one save, a subchunk in one stage.
SubChunkOwnerInv ==
  /\ \A i, j \in DOMAIN pending : i # j => pending[i].chunks \cap pending[j].chunks = {}
  /\ \A i \in DOMAIN pending : \A c \in pending[i].chunks : ~Cached(c)
  /\ \A i, j \in DOMAIN cold : cold[i].pos = cold[j].pos => i = j
  /\ \A i \in DOMAIN cold : cold[i].pos \notin DOMAIN hot
  /\ \A i \in DOMAIN cold, j \in DOMAIN pending : cold[i].pos \notin DOMAIN pending[j].data

InSave(s) == \E i \in DOMAIN pending : s \in DOMAIN pending[i].data
Held(s) == s \in DOMAIN hot \/ InSave(s) \/ \E i \in DOMAIN cold : cold[i].pos = s
\* The database's copy of a subchunk, when there is no other, is the newest one.
IsStored(s) == IF s \in DOMAIN db THEN db[s] = written[s] ELSE written[s] = 0

\* Every stage holds the newest contents of its subchunks; what was saved once
\* is remembered in flushed.
ValueInv ==
  /\ \A s \in DOMAIN hot : hot[s] = written[s]
  /\ \A i \in DOMAIN pending : \A s \in DOMAIN pending[i].data : pending[i].data[s] = written[s]
  /\ \A i \in DOMAIN cold : cold[i].n = written[cold[i].pos]
  /\ \A s \in SubChunks : ~Held(s) => IsStored(s)
  /\ \A i \in DOMAIN cold : cold[i].pos \in flushed
  /\ DOMAIN db \subseteq flushed

Done == \A s \in SubChunks : IsStored(s)

CacheStoreInv ==
  /\ ControlInv /\ CacheInv /\ SavesInv /\ StoreInv
  /\ Intact => SubChunkOwnerInv /\ ValueInv
  /\ outcome = "success" => Done

(***************************************************************************)
(* Partial functions and sequences.                                        *)
(***************************************************************************)

LEMMA ContentsType ==
  ASSUME NEW f
  PROVE  f \in Payloads <=> f \in [DOMAIN f -> Nat] /\ DOMAIN f \subseteq SubChunks
BY DEF Payloads

LEMMA WithinFacts ==
  ASSUME NEW f \in Payloads, NEW S
  PROVE  /\ Within(f, S) \in Payloads /\ DOMAIN Within(f, S) = DOMAIN f \cap S
         /\ \A s \in DOMAIN f \cap S : Within(f, S)[s] = f[s]
<1>1. f \in [DOMAIN f -> Nat] /\ DOMAIN f \subseteq SubChunks
  BY ContentsType
<1>2. DOMAIN Within(f, S) = DOMAIN f \cap S /\ \A s \in DOMAIN f \cap S : Within(f, S)[s] = f[s]
  BY DEF Within
<1>3. Within(f, S) \in [DOMAIN f \cap S -> Nat]
  BY <1>1 DEF Within
<1>4. QED
  BY <1>1, <1>2, <1>3, ContentsType

\* h is f with the contents g put over it.
IsOver(f, g, h) ==
  /\ h \in Payloads /\ DOMAIN h = DOMAIN f \cup DOMAIN g
  /\ \A s \in DOMAIN g : h[s] = g[s]
  /\ \A s \in DOMAIN f \ DOMAIN g : h[s] = f[s]

LEMMA OverFacts ==
  ASSUME NEW f \in Payloads, NEW g \in Payloads
  PROVE  IsOver(f, g, Over(f, g))
<1>1. /\ f \in [DOMAIN f -> Nat] /\ DOMAIN f \subseteq SubChunks
      /\ g \in [DOMAIN g -> Nat] /\ DOMAIN g \subseteq SubChunks
  BY ContentsType
<1>2. /\ DOMAIN Over(f, g) = DOMAIN f \cup DOMAIN g
      /\ \A s \in DOMAIN g : Over(f, g)[s] = g[s]
      /\ \A s \in DOMAIN f \ DOMAIN g : Over(f, g)[s] = f[s]
  BY DEF Over
<1>3. Over(f, g) \in [DOMAIN f \cup DOMAIN g -> Nat]
  BY <1>1 DEF Over
<1>4. Over(f, g) \in Payloads
  BY <1>1, <1>2, <1>3, ContentsType
<1>5. QED
  BY <1>2, <1>4, Zenon DEF IsOver

LEMMA AppendElements ==
  ASSUME NEW S, NEW s \in Seq(S), NEW e \in S
  PROVE  /\ Append(s, e) \in Seq(S) /\ Len(s) \in Nat /\ Len(Append(s, e)) = Len(s) + 1
         /\ DOMAIN s = 1 .. Len(s) /\ DOMAIN Append(s, e) = 1 .. Len(s) + 1
         /\ \A i \in 1 .. Len(s) : Append(s, e)[i] = s[i]
         /\ Append(s, e)[Len(s) + 1] = e
         /\ \A i \in 1 .. Len(s) + 1 : i \in 1 .. Len(s) \/ i = Len(s) + 1
<1>1. Len(s) \in Nat
  BY LenProperties
<1>2. \A i \in 1 .. Len(s) + 1 : i \in 1 .. Len(s) \/ i = Len(s) + 1
  BY <1>1
<1>3. QED
  BY <1>1, <1>2, AppendProperties, LenProperties

LEMMA TailElements ==
  ASSUME NEW S, NEW s \in Seq(S), s # <<>>
  PROVE  /\ Head(s) = s[1] /\ Len(s) \in Nat \ {0} /\ DOMAIN s = 1 .. Len(s) /\ 1 \in DOMAIN s
         /\ Tail(s) \in Seq(S) /\ Len(Tail(s)) = Len(s) - 1 /\ DOMAIN Tail(s) = 1 .. Len(s) - 1
         /\ \A i \in DOMAIN Tail(s) : i + 1 \in DOMAIN s /\ i + 1 # 1 /\ Tail(s)[i] = s[i + 1]
         /\ \A i \in DOMAIN s : i = 1 \/ (i - 1 \in DOMAIN Tail(s) /\ Tail(s)[i - 1] = s[i])
<1>1. Len(s) \in Nat \ {0} /\ DOMAIN s = 1 .. Len(s) /\ Head(s) = s[1]
  BY LenProperties, EmptySeq, HeadTailProperties
<1>2. /\ Tail(s) \in Seq(S) /\ Len(Tail(s)) = Len(s) - 1 /\ DOMAIN Tail(s) = 1 .. Len(s) - 1
      /\ \A i \in 1 .. Len(s) - 1 : Tail(s)[i] = s[i + 1]
  <2>1. Tail(s) \in Seq(S) /\ Len(Tail(s)) = Len(s) - 1
    BY HeadTailProperties
  <2>2. DOMAIN Tail(s) = 1 .. Len(s) - 1
    BY <2>1, LenProperties
  <2>3. \A i \in 1 .. Len(Tail(s)) : Tail(s)[i] = s[i + 1]
    BY HeadTailProperties
  <2>4. QED
    BY <2>1, <2>2, <2>3
<1>3. \A i \in 1 .. Len(s) - 1 : i + 1 \in 1 .. Len(s) /\ i + 1 # 1
  BY <1>1
<1>4. \A i \in 1 .. Len(s) : i = 1 \/ (i - 1 \in 1 .. Len(s) - 1 /\ (i - 1) + 1 = i)
  BY <1>1
<1>5. 1 \in DOMAIN s
  BY <1>1
<1>6. \A i \in DOMAIN Tail(s) : i + 1 \in DOMAIN s /\ i + 1 # 1 /\ Tail(s)[i] = s[i + 1]
  BY <1>1, <1>2, <1>3
<1>7. ASSUME NEW i \in DOMAIN s, i # 1 PROVE i - 1 \in DOMAIN Tail(s) /\ Tail(s)[i - 1] = s[i]
  <2>1. i - 1 \in 1 .. Len(s) - 1 /\ (i - 1) + 1 = i
    BY <1>1, <1>4, <1>7
  <2>2. QED
    BY <1>2, <2>1
<1>8. \A i \in DOMAIN s : i = 1 \/ (i - 1 \in DOMAIN Tail(s) /\ Tail(s)[i - 1] = s[i])
  BY <1>7
<1>9. Head(s) = s[1] /\ Len(s) \in Nat \ {0} /\ DOMAIN s = 1 .. Len(s) /\ 1 \in DOMAIN s
  BY <1>1, <1>5
<1>10. Tail(s) \in Seq(S) /\ Len(Tail(s)) = Len(s) - 1 /\ DOMAIN Tail(s) = 1 .. Len(s) - 1
  BY <1>2
<1>11. QED
  BY <1>6, <1>8, <1>9, <1>10

LEMMA ConcatElements ==
  ASSUME NEW S, NEW s \in Seq(S), NEW t \in Seq(S)
  PROVE  /\ s \o t \in Seq(S) /\ Len(s \o t) = Len(s) + Len(t)
         /\ Len(s) \in Nat /\ Len(t) \in Nat
         /\ DOMAIN s = 1 .. Len(s) /\ DOMAIN t = 1 .. Len(t) /\ DOMAIN (s \o t) = 1 .. Len(s) + Len(t)
         /\ \A i \in DOMAIN s : i \in DOMAIN (s \o t) /\ (s \o t)[i] = s[i]
         /\ \A i \in DOMAIN t : Len(s) + i \in DOMAIN (s \o t) /\ (s \o t)[Len(s) + i] = t[i]
         /\ \A i \in DOMAIN (s \o t) :
              i \in DOMAIN s \/ (i - Len(s) \in DOMAIN t /\ (s \o t)[i] = t[i - Len(s)])
<1>1. Len(s) \in Nat /\ Len(t) \in Nat /\ DOMAIN s = 1 .. Len(s) /\ DOMAIN t = 1 .. Len(t)
  BY LenProperties
<1>2. /\ s \o t \in Seq(S) /\ Len(s \o t) = Len(s) + Len(t)
      /\ \A i \in 1 .. Len(s) + Len(t) :
           (s \o t)[i] = IF i <= Len(s) THEN s[i] ELSE t[i - Len(s)]
  BY ConcatProperties
<1>3. DOMAIN (s \o t) = 1 .. Len(s) + Len(t)
  BY <1>2, LenProperties
<1>4. /\ \A i \in 1 .. Len(s) : i \in 1 .. Len(s) + Len(t) /\ i <= Len(s)
      /\ \A i \in 1 .. Len(t) : /\ Len(s) + i \in 1 .. Len(s) + Len(t) /\ ~(Len(s) + i <= Len(s))
                                /\ (Len(s) + i) - Len(s) = i
      /\ \A i \in 1 .. Len(s) + Len(t) : i \in 1 .. Len(s) \/ (i - Len(s) \in 1 .. Len(t) /\ ~(i <= Len(s)))
  BY <1>1
<1>5. QED
  BY <1>1, <1>2, <1>3, <1>4

\* t is what is left of s without its first k elements.
RestOf(S, s, k, t) ==
  /\ t \in Seq(S) /\ Len(t) = Len(s) - k
  /\ Len(s) \in Nat /\ DOMAIN s = 1 .. Len(s) /\ 1 .. k \subseteq DOMAIN s
  /\ DOMAIN t = 1 .. Len(s) - k
  /\ \A i \in 1 .. Len(s) - k : k + i \in DOMAIN s /\ k + i \notin 1 .. k /\ t[i] = s[k + i]
  /\ \A i \in DOMAIN s : i \in 1 .. k \/ (i - k \in 1 .. Len(s) - k /\ t[i - k] = s[i])

LEMMA RestElements ==
  ASSUME NEW S, NEW s \in Seq(S), NEW k \in 0 .. Len(s)
  PROVE  RestOf(S, s, k, SubSeq(s, k + 1, Len(s)))
<1>1. Len(s) \in Nat /\ DOMAIN s = 1 .. Len(s) /\ k \in Nat /\ k <= Len(s)
  BY LenProperties
<1>2. /\ SubSeq(s, k + 1, Len(s)) \in Seq(S)
      /\ Len(SubSeq(s, k + 1, Len(s))) = IF k + 1 <= Len(s) THEN Len(s) - (k + 1) + 1 ELSE 0
      /\ \A i \in 1 .. Len(s) - (k + 1) + 1 : SubSeq(s, k + 1, Len(s))[i] = s[(k + 1) + i - 1]
  <2>1. k + 1 \in Int /\ Len(s) \in Int /\ \A i \in k + 1 .. Len(s) : i \in 1 .. Len(s)
    BY <1>1
  <2>2. \A i \in k + 1 .. Len(s) : s[i] \in S
    BY <1>1, <2>1, ElementOfSeq
  <2>3. QED
    BY <2>1, <2>2, SubSeqProperties
<1>3. /\ Len(SubSeq(s, k + 1, Len(s))) = Len(s) - k
      /\ \A i \in 1 .. Len(s) - k : SubSeq(s, k + 1, Len(s))[i] = s[k + i]
  <2>1. Len(s) - (k + 1) + 1 = Len(s) - k /\ \A i \in 1 .. Len(s) - k : (k + 1) + i - 1 = k + i
    BY <1>1
  <2>2. CASE k + 1 <= Len(s)
    BY <1>2, <2>1, <2>2
  <2>3. CASE ~(k + 1 <= Len(s))
    <3>1. Len(s) = k
      <4>1. \A a, b \in Nat : a <= b /\ ~(a + 1 <= b) => b = a
        OBVIOUS
      <4>2. QED
        BY <1>1, <2>3, <4>1
    <3>2. Len(SubSeq(s, k + 1, Len(s))) = 0
      BY <1>2, <2>3
    <3>3. Len(s) - k = 0
      BY <1>1, <3>1
    <3>4. 1 .. Len(s) - k = {}
      BY <3>3
    <3>5. QED
      BY <3>2, <3>3, <3>4
  <2>4. QED
    BY <2>2, <2>3
<1>4. DOMAIN SubSeq(s, k + 1, Len(s)) = 1 .. Len(s) - k
  BY <1>2, <1>3, LenProperties
<1>5. /\ 1 .. k \subseteq 1 .. Len(s)
      /\ \A i \in 1 .. Len(s) - k : k + i \in 1 .. Len(s) /\ k + i \notin 1 .. k
      /\ \A i \in 1 .. Len(s) : i \in 1 .. k \/ (i - k \in 1 .. Len(s) - k /\ k + (i - k) = i)
  BY <1>1
<1>6. QED
  BY <1>1, <1>2, <1>3, <1>4, <1>5 DEF RestOf

\* Where element j of a sequence without its element i came from.
Skip(i, j) == IF j < i THEN j ELSE j + 1

LEMMA SkipIsInjective ==
  ASSUME NEW n \in Nat, NEW i \in 1 .. n, NEW j \in 1 .. n - 1, NEW k \in 1 .. n - 1, Skip(i, j) = Skip(i, k)
  PROVE  j = k
BY DEF Skip

\* A sequence without its element i.
LEMMA RemoveAtElements ==
  ASSUME NEW S, NEW s \in Seq(S), NEW i \in DOMAIN s
  PROVE  /\ RemoveAt(s, i) \in Seq(S) /\ Len(RemoveAt(s, i)) = Len(s) - 1 /\ Len(s) \in Nat \ {0}
         /\ DOMAIN s = 1 .. Len(s) /\ DOMAIN RemoveAt(s, i) = 1 .. Len(s) - 1
         /\ \A j \in 1 .. Len(s) - 1 :
              Skip(i, j) \in DOMAIN s \ {i} /\ RemoveAt(s, i)[j] = s[Skip(i, j)]
         /\ \A k \in DOMAIN s \ {i} :
              \E j \in DOMAIN RemoveAt(s, i) : RemoveAt(s, i)[j] = s[k]
<1> DEFINE n == Len(s)
           a == SubSeq(s, 1, i - 1)
           b == SubSeq(s, i + 1, n)
<1>1. n \in Nat /\ DOMAIN s = 1 .. n /\ i \in 1 .. n /\ i \in Int
  BY LenProperties
<1>2. \A j \in 1 .. n : s[j] \in S
  BY <1>1, ElementOfSeq
<1>3. a \in Seq(S) /\ Len(a) = i - 1 /\ \A j \in 1 .. i - 1 : a[j] = s[j]
  <2>1. 1 \in Int /\ i - 1 \in Int /\ \A j \in 1 .. i - 1 : j \in 1 .. n
    BY <1>1
  <2>2. \A j \in 1 .. i - 1 : s[j] \in S
    BY <1>2, <2>1
  <2>3. /\ a \in Seq(S) /\ Len(a) = IF 1 <= i - 1 THEN (i - 1) - 1 + 1 ELSE 0
        /\ \A j \in 1 .. (i - 1) - 1 + 1 : a[j] = s[1 + j - 1]
    BY <2>1, <2>2, SubSeqProperties
  <2>4. (IF 1 <= i - 1 THEN (i - 1) - 1 + 1 ELSE 0) = i - 1 /\ (i - 1) - 1 + 1 = i - 1
        /\ \A j \in 1 .. i - 1 : 1 + j - 1 = j
    BY <1>1
  <2>5. QED
    BY <2>3, <2>4
<1>4. b \in Seq(S) /\ Len(b) = n - i /\ \A j \in 1 .. n - i : b[j] = s[i + j]
  <2>1. i \in 0 .. Len(s)
    BY <1>1
  <2>2. RestOf(S, s, i, b)
    BY <2>1, RestElements
  <2> HIDE DEF b
  <2>3. QED
    BY <2>2 DEF RestOf
<1>5. RemoveAt(s, i) = a \o b
  BY DEF RemoveAt
<1> HIDE DEF a, b, n
<1>6. /\ a \o b \in Seq(S) /\ Len(a \o b) = n - 1 /\ DOMAIN (a \o b) = 1 .. n - 1
      /\ \A j \in 1 .. n - 1 : (a \o b)[j] = IF j <= i - 1 THEN a[j] ELSE b[j - (i - 1)]
  <2>1. Len(a) + Len(b) = n - 1
    BY <1>1, <1>3, <1>4
  <2>2. a \o b \in Seq(S) /\ Len(a \o b) = Len(a) + Len(b)
        /\ \A j \in 1 .. Len(a) + Len(b) : (a \o b)[j] = IF j <= Len(a) THEN a[j] ELSE b[j - Len(a)]
    BY <1>3, <1>4, ConcatProperties
  <2>3. DOMAIN (a \o b) = 1 .. n - 1
    BY <2>1, <2>2, LenProperties
  <2>4. QED
    BY <1>3, <2>1, <2>2, <2>3
<1>7. ASSUME NEW j \in 1 .. n - 1
      PROVE  (a \o b)[j] = s[Skip(i, j)]
  <2>1. CASE j < i
    BY <1>1, <1>3, <1>6, <2>1 DEF Skip
  <2>2. CASE ~(j < i)
    <3>1. /\ ~(j <= i - 1) /\ j - (i - 1) \in 1 .. n - i /\ i + (j - (i - 1)) = j + 1
      BY <1>1, <2>2
    <3>2. QED
      BY <1>4, <1>6, <2>2, <3>1 DEF Skip
  <2>3. QED
    BY <2>1, <2>2
<1>8. \A j \in 1 .. n - 1 : Skip(i, j) \in (1 .. n) \ {i}
  BY <1>1 DEF Skip
<1>9. \A k \in (1 .. n) \ {i} : \E j \in 1 .. n - 1 : Skip(i, j) = k
  <2>1. ASSUME NEW k \in (1 .. n) \ {i} PROVE \E j \in 1 .. n - 1 : Skip(i, j) = k
    <3>1. CASE k < i
      <4>1. k \in 1 .. n - 1 /\ Skip(i, k) = k
        BY <1>1, <3>1 DEF Skip
      <4>2. QED
        BY <4>1
    <3>2. CASE ~(k < i)
      <4>1. k - 1 \in 1 .. n - 1 /\ Skip(i, k - 1) = k
        BY <1>1, <3>2 DEF Skip
      <4>2. QED
        BY <4>1
    <3>3. QED
      BY <3>1, <3>2
  <2>2. QED
    BY <2>1
<1>10. n \in Nat \ {0} /\ DOMAIN s = 1 .. n
  BY <1>1
<1>11. \A k \in (1 .. n) \ {i} : \E j \in 1 .. n - 1 : (a \o b)[j] = s[k]
  BY <1>7, <1>9
<1> USE <1>5 DEF n
<1>12. QED
  BY <1>6, <1>7, <1>8, <1>10, <1>11

(***************************************************************************)
(* Moving chunks out of the cache: FlushOldest.                            *)
(***************************************************************************)

LEMMA LayersFacts ==
  ASSUME NEW S \in SUBSET Chunks
  PROVE  LayersOf(S) \subseteq SubChunks /\ \A s \in SubChunks : s \in LayersOf(S) <=> s[1] \in S
BY DEF LayersOf, SubChunks

LEMMA FlushFacts ==
  ASSUME CacheInv, SavesInv, lru # <<>>, FlushOldest
  PROVE  \E chunks \in SUBSET Chunks :
           /\ lru' \in Seq(Chunks) /\ \A i, j \in DOMAIN lru' : lru'[i] = lru'[j] => i = j
           /\ Len(lru') <= Len(lru)
           /\ \A c : Cached(c)' <=> Cached(c) /\ c \notin chunks
           /\ \A c \in chunks : Cached(c)
           /\ pending' = Append(pending, [chunks |-> chunks, data |-> Within(hot, LayersOf(chunks)),
                                          state |-> "queued"])
           /\ hot' = Within(hot, SubChunks \ LayersOf(chunks))
           /\ UNCHANGED storeVars /\ Len(pending) < Workers
<1> DEFINE count == IF BatchSize < Len(lru) THEN BatchSize ELSE Len(lru)
           chunks == {lru[i] : i \in 1 .. count}
<1>1. lru \in Seq(Chunks) /\ \A i, j \in DOMAIN lru : lru[i] = lru[j] => i = j
  BY DEF CacheInv
<1>2. Len(lru) \in Nat /\ count \in 0 .. Len(lru)
  <2>1. Len(lru) \in Nat
    BY <1>1, LenProperties
  <2>2. QED
    BY <2>1, BdxAssumption
<1>3. /\ lru' = SubSeq(lru, count + 1, Len(lru))
      /\ pending' = Append(pending, [chunks |-> chunks, data |-> Within(hot, LayersOf(chunks)),
                                     state |-> "queued"])
      /\ hot' = Within(hot, SubChunks \ LayersOf(chunks))
      /\ UNCHANGED storeVars /\ Len(pending) < Workers
  BY DEF FlushOldest, RoomToFlush
<1> HIDE DEF count
<1>4. /\ lru' \in Seq(Chunks) /\ Len(lru') = Len(lru) - count /\ DOMAIN lru = 1 .. Len(lru)
      /\ 1 .. count \subseteq DOMAIN lru /\ DOMAIN lru' = 1 .. Len(lru) - count
      /\ \A i \in 1 .. Len(lru) - count :
           count + i \in DOMAIN lru /\ count + i \notin 1 .. count /\ lru'[i] = lru[count + i]
      /\ \A i \in DOMAIN lru :
           i \in 1 .. count \/ (i - count \in 1 .. Len(lru) - count /\ lru'[i - count] = lru[i])
  <2>1. RestOf(Chunks, lru, count, lru')
    BY <1>1, <1>2, <1>3, RestElements
  <2>2. QED
    BY <2>1, Zenon DEF RestOf
<1>5. \A i, j \in DOMAIN lru' : lru'[i] = lru'[j] => i = j
  <2> SUFFICES ASSUME NEW i \in DOMAIN lru', NEW j \in DOMAIN lru', lru'[i] = lru'[j] PROVE i = j
    OBVIOUS
  <2>1. count + i = count + j
    BY <1>1, <1>4
  <2>2. i \in Int /\ j \in Int /\ count \in Int
    BY <1>2, <1>4
  <2>3. QED
    BY <2>1, <2>2
<1>6. Len(lru') <= Len(lru)
  BY <1>2, <1>4
<1>7. chunks \in SUBSET Chunks /\ \A c \in chunks : Cached(c)
  <2>1. ASSUME NEW i \in 1 .. count PROVE lru[i] \in Chunks /\ Cached(lru[i])
    BY <1>1, <1>4, ElementOfSeq DEF Cached
  <2>2. QED
    BY <2>1
<1>8. ASSUME NEW c PROVE Cached(c)' <=> Cached(c) /\ c \notin chunks
  <2>1. ASSUME NEW i \in DOMAIN lru', lru'[i] = c PROVE Cached(c) /\ c \notin chunks
    <3>1. lru[count + i] = c /\ count + i \in DOMAIN lru /\ count + i \notin 1 .. count
      BY <1>4, <2>1
    <3>2. ASSUME NEW k \in 1 .. count, lru[k] = c PROVE FALSE
      BY <1>1, <1>4, <3>1, <3>2
    <3>3. QED
      BY <3>1, <3>2 DEF Cached
  <2>2. ASSUME NEW i \in DOMAIN lru, lru[i] = c, c \notin chunks PROVE Cached(c)'
    <3>1. i \notin 1 .. count
      BY <2>2
    <3>2. i - count \in DOMAIN lru' /\ lru'[i - count] = c
      BY <1>4, <2>2, <3>1
    <3>3. QED
      BY <3>2 DEF Cached
  <2>3. QED
    BY <2>1, <2>2 DEF Cached
<1> HIDE DEF chunks
<1>9. QED
  BY <1>3, <1>4, <1>5, <1>6, <1>7, <1>8

LEMMA FlushKeeps ==
  ASSUME CacheInv, SavesInv, lru # <<>>, FlushOldest
  PROVE  CacheInv' /\ SavesInv' /\ UNCHANGED storeVars
<1>1. PICK chunks \in SUBSET Chunks :
           /\ lru' \in Seq(Chunks) /\ \A i, j \in DOMAIN lru' : lru'[i] = lru'[j] => i = j
           /\ Len(lru') <= Len(lru)
           /\ \A c : Cached(c)' <=> Cached(c) /\ c \notin chunks
           /\ \A c \in chunks : Cached(c)
           /\ pending' = Append(pending, [chunks |-> chunks, data |-> Within(hot, LayersOf(chunks)),
                                          state |-> "queued"])
           /\ hot' = Within(hot, SubChunks \ LayersOf(chunks))
           /\ UNCHANGED storeVars /\ Len(pending) < Workers
  BY FlushFacts
<1> DEFINE save == [chunks |-> chunks, data |-> Within(hot, LayersOf(chunks)), state |-> "queued"]
<1>2. hot \in Payloads /\ DOMAIN hot \subseteq SubChunks
  BY ContentsType DEF CacheInv
<1>3. /\ hot' \in Payloads /\ DOMAIN hot' = DOMAIN hot \cap (SubChunks \ LayersOf(chunks))
      /\ save \in Saves /\ save.chunks = chunks /\ DOMAIN save.data \subseteq LayersOf(chunks)
  <2>1. hot' \in Payloads /\ DOMAIN hot' = DOMAIN hot \cap (SubChunks \ LayersOf(chunks))
    BY <1>1, <1>2, WithinFacts
  <2>2. Within(hot, LayersOf(chunks)) \in Payloads
        /\ DOMAIN Within(hot, LayersOf(chunks)) = DOMAIN hot \cap LayersOf(chunks)
    BY <1>2, WithinFacts
  <2>3. QED
    BY <2>1, <2>2 DEF Saves, SaveStates
<1>4. CacheInv'
  <2>1. Len(lru') <= CacheLimit
    <3>1. Len(lru) \in Nat /\ Len(lru') \in Nat /\ Len(lru) <= CacheLimit
      BY <1>1, LenProperties DEF CacheInv
    <3>2. QED
      BY <1>1, <3>1, BdxAssumption
  <2>2. ASSUME NEW s \in DOMAIN hot' PROVE Cached(s[1])'
    <3>1. s \in DOMAIN hot /\ s \in SubChunks /\ s \notin LayersOf(chunks)
      BY <1>3
    <3>2. s[1] \notin chunks /\ Cached(s[1])
      BY <3>1, LayersFacts DEF CacheInv
    <3>3. QED
      BY <1>1, <3>2
  <2>3. QED
    BY <1>1, <1>3, <2>1, <2>2 DEF CacheInv
<1> HIDE DEF save
<1>5. pending \in Seq(Saves) /\ pending' = Append(pending, save)
  BY <1>1 DEF SavesInv, save
<1>6. /\ pending' \in Seq(Saves) /\ Len(pending) \in Nat /\ Len(pending') = Len(pending) + 1
      /\ DOMAIN pending = 1 .. Len(pending) /\ DOMAIN pending' = 1 .. Len(pending) + 1
      /\ \A i \in 1 .. Len(pending) : pending'[i] = pending[i]
      /\ pending'[Len(pending) + 1] = save
      /\ \A i \in 1 .. Len(pending) + 1 : i \in 1 .. Len(pending) \/ i = Len(pending) + 1
  BY <1>3, <1>5, AppendElements
<1>7. SavesInv'
  <2>1. Len(pending') <= Workers
    BY <1>1, <1>6, BdxAssumption
  <2>2. ASSUME NEW i \in DOMAIN pending' PROVE DOMAIN pending'[i].data \subseteq LayersOf(pending'[i].chunks)
    <3>1. CASE i \in DOMAIN pending
      BY <1>6, <3>1 DEF SavesInv
    <3>2. CASE i = Len(pending) + 1
      BY <1>3, <1>6, <3>2
    <3>3. QED
      BY <1>6, <3>1, <3>2
  <2>3. QED
    BY <1>6, <2>1, <2>2 DEF SavesInv
<1>8. QED
  BY <1>1, <1>4, <1>7

LEMMA FlushHolds ==
  ASSUME CacheInv, SavesInv, StoreInv, SubChunkOwnerInv, ValueInv, lru # <<>>, FlushOldest, UNCHANGED written
  PROVE  SubChunkOwnerInv' /\ ValueInv'
<1>1. PICK chunks \in SUBSET Chunks :
           /\ lru' \in Seq(Chunks) /\ \A i, j \in DOMAIN lru' : lru'[i] = lru'[j] => i = j
           /\ Len(lru') <= Len(lru)
           /\ \A c : Cached(c)' <=> Cached(c) /\ c \notin chunks
           /\ \A c \in chunks : Cached(c)
           /\ pending' = Append(pending, [chunks |-> chunks, data |-> Within(hot, LayersOf(chunks)),
                                          state |-> "queued"])
           /\ hot' = Within(hot, SubChunks \ LayersOf(chunks))
           /\ UNCHANGED storeVars /\ Len(pending) < Workers
  BY FlushFacts
<1> DEFINE save == [chunks |-> chunks, data |-> Within(hot, LayersOf(chunks)), state |-> "queued"]
<1>2. hot \in Payloads /\ DOMAIN hot \subseteq SubChunks /\ UNCHANGED <<cold, flushed, db>>
  BY <1>1, ContentsType DEF CacheInv, storeVars
<1>3. /\ DOMAIN hot' = DOMAIN hot \cap (SubChunks \ LayersOf(chunks))
      /\ \A s \in DOMAIN hot' : hot'[s] = hot[s]
      /\ save \in Saves /\ save.chunks = chunks /\ DOMAIN save.data = DOMAIN hot \cap LayersOf(chunks)
      /\ \A s \in DOMAIN save.data : save.data[s] = hot[s]
  <2>1. /\ DOMAIN hot' = DOMAIN hot \cap (SubChunks \ LayersOf(chunks))
        /\ \A s \in DOMAIN hot' : hot'[s] = hot[s]
    <3> DEFINE kept == Within(hot, SubChunks \ LayersOf(chunks))
    <3>1. /\ DOMAIN kept = DOMAIN hot \cap (SubChunks \ LayersOf(chunks))
          /\ \A s \in DOMAIN hot \cap (SubChunks \ LayersOf(chunks)) : kept[s] = hot[s]
      BY <1>2, WithinFacts
    <3>2. hot' = kept
      BY <1>1
    <3> HIDE DEF kept
    <3>3. QED
      BY <3>1, <3>2
  <2>2. /\ Within(hot, LayersOf(chunks)) \in Payloads
        /\ DOMAIN Within(hot, LayersOf(chunks)) = DOMAIN hot \cap LayersOf(chunks)
        /\ \A s \in DOMAIN hot \cap LayersOf(chunks) : Within(hot, LayersOf(chunks))[s] = hot[s]
    BY <1>2, WithinFacts
  <2>3. QED
    BY <2>1, <2>2 DEF Saves, SaveStates
<1> HIDE DEF save
<1>4. pending \in Seq(Saves) /\ pending' = Append(pending, save)
  BY <1>1 DEF SavesInv, save
<1>5. /\ DOMAIN pending \subseteq DOMAIN pending'
      /\ \A i \in DOMAIN pending : pending'[i] = pending[i]
      /\ \A i \in DOMAIN pending' : i \in DOMAIN pending \/ i = Len(pending) + 1
      /\ pending'[Len(pending) + 1] = save /\ Len(pending) + 1 \in DOMAIN pending'
  <2>1. /\ Len(pending) \in Nat
        /\ DOMAIN pending = 1 .. Len(pending) /\ DOMAIN pending' = 1 .. Len(pending) + 1
        /\ \A i \in 1 .. Len(pending) : pending'[i] = pending[i]
        /\ pending'[Len(pending) + 1] = save
        /\ \A i \in 1 .. Len(pending) + 1 : i \in 1 .. Len(pending) \/ i = Len(pending) + 1
    BY <1>3, <1>4, AppendElements
  <2>2. 1 .. Len(pending) \subseteq 1 .. Len(pending) + 1 /\ Len(pending) + 1 \in 1 .. Len(pending) + 1
    BY <2>1
  <2>3. QED
    BY <2>1, <2>2
<1>6. SubChunkOwnerInv'
  <2>1. ASSUME NEW i \in DOMAIN pending', NEW j \in DOMAIN pending', i # j, NEW c \in pending'[i].chunks
        PROVE  c \notin pending'[j].chunks
    <3>1. \A k \in DOMAIN pending : pending[k].chunks \cap chunks = {}
      BY <1>1 DEF SubChunkOwnerInv
    <3>2. \A k \in DOMAIN pending' :
            (k \in DOMAIN pending /\ pending'[k].chunks = pending[k].chunks)
              \/ (k = Len(pending) + 1 /\ pending'[k].chunks = chunks)
      BY <1>3, <1>5
    <3>3. CASE i \in DOMAIN pending /\ j \in DOMAIN pending
      BY <1>5, <2>1, <3>3 DEF SubChunkOwnerInv
    <3>4. CASE i \notin DOMAIN pending
      BY <2>1, <3>1, <3>2, <3>4
    <3>5. CASE j \notin DOMAIN pending
      BY <2>1, <3>1, <3>2, <3>5
    <3>6. QED
      BY <3>3, <3>4, <3>5
  <2>2. ASSUME NEW i \in DOMAIN pending', NEW c \in pending'[i].chunks PROVE ~Cached(c)'
    <3>1. CASE i \in DOMAIN pending
      BY <1>1, <1>5, <2>2, <3>1 DEF SubChunkOwnerInv
    <3>2. CASE i = Len(pending) + 1
      BY <1>1, <1>3, <1>5, <2>2, <3>2
    <3>3. QED
      BY <1>5, <3>1, <3>2
  <2>3. \A i \in DOMAIN cold' : cold'[i].pos \notin DOMAIN hot'
    BY <1>2, <1>3 DEF SubChunkOwnerInv
  <2>4. ASSUME NEW i \in DOMAIN cold', NEW j \in DOMAIN pending' PROVE cold'[i].pos \notin DOMAIN pending'[j].data
    <3>1. CASE j \in DOMAIN pending
      BY <1>2, <1>5, <3>1 DEF SubChunkOwnerInv
    <3>2. CASE j = Len(pending) + 1
      BY <1>2, <1>3, <1>5, <3>2 DEF SubChunkOwnerInv
    <3>3. QED
      BY <1>5, <3>1, <3>2
  <2>5. \A i, j \in DOMAIN cold' : cold'[i].pos = cold'[j].pos => i = j
    BY <1>2 DEF SubChunkOwnerInv
  <2>6. \A i, j \in DOMAIN pending' : i # j => pending'[i].chunks \cap pending'[j].chunks = {}
    BY <2>1
  <2>7. QED
    BY <2>2, <2>3, <2>4, <2>5, <2>6 DEF SubChunkOwnerInv
<1>7. ValueInv'
  <2>1. \A s \in DOMAIN hot' : hot'[s] = written'[s]
    BY <1>3 DEF ValueInv
  <2>2. ASSUME NEW i \in DOMAIN pending', NEW s \in DOMAIN pending'[i].data
        PROVE  pending'[i].data[s] = written'[s]
    <3>1. CASE i \in DOMAIN pending
      BY <1>5, <2>2, <3>1 DEF ValueInv
    <3>2. CASE i = Len(pending) + 1
      BY <1>3, <1>5, <2>2, <3>2 DEF ValueInv
    <3>3. QED
      BY <1>5, <3>1, <3>2
  <2>3. ASSUME NEW s \in SubChunks, Held(s) PROVE Held(s)'
    <3>1. CASE s \in DOMAIN hot
      <4>1. CASE s \in LayersOf(chunks)
        BY <1>3, <1>5, <3>1, <4>1 DEF Held, InSave
      <4>2. CASE s \notin LayersOf(chunks)
        BY <1>3, <3>1, <4>2 DEF Held
      <4>3. QED
        BY <4>1, <4>2
    <3>2. CASE InSave(s)
      BY <1>5, <3>2 DEF Held, InSave
    <3>3. CASE \E i \in DOMAIN cold : cold[i].pos = s
      BY <1>2, <3>3 DEF Held
    <3>4. QED
      BY <2>3, <3>1, <3>2, <3>3 DEF Held
  <2>4. \A s \in SubChunks : ~Held(s)' => IsStored(s)'
    BY <1>2, <2>3 DEF ValueInv, IsStored
  <2>5. QED
    BY <1>2, <2>1, <2>2, <2>4 DEF ValueInv
<1>8. QED
  BY <1>6, <1>7

(***************************************************************************)
(* Completing the oldest save: CompleteNext.                               *)
(***************************************************************************)

\* The payloads of a save are its subchunks, each once.
LEMMA PayloadsFacts ==
  ASSUME NEW D \in SUBSET SubChunks, NEW payloads \in SetToSeqs(D)
  PROVE  /\ \E n \in Nat : payloads \in [1 .. n -> D]
         /\ \A i, j \in DOMAIN payloads : payloads[i] = payloads[j] => i = j
         /\ \A s \in D : \E i \in DOMAIN payloads : payloads[i] = s
<1> DEFINE n == Cardinality(D)
<1>1. IsFiniteSet(D) /\ n \in Nat
  <2>1. IsFiniteSet(SubChunks)
    BY BdxAssumption, FS_Product DEF SubChunks
  <2>2. QED
    BY <2>1, FS_Subset, FS_CardinalityType
<1>2. payloads \in [1 .. n -> D] /\ \A i, j \in 1 .. n : i # j => payloads[i] # payloads[j]
  BY DEF SetToSeqs
<1>3. IsFiniteSet(1 .. n) /\ Cardinality(1 .. n) = n
  <2>1. 1 \in Int /\ n \in Int
    BY <1>1
  <2>2. IsFiniteSet(1 .. n) /\ Cardinality(1 .. n) = IF 1 > n THEN 0 ELSE n - 1 + 1
    BY <2>1, FS_Interval
  <2> HIDE DEF n
  <2>3. (IF 1 > n THEN 0 ELSE n - 1 + 1) = n
    BY <1>1
  <2>4. QED
    BY <2>2, <2>3
<1>4. payloads \in Injection(1 .. n, D)
  BY <1>2 DEF Injection, IsInjective
<1>5. payloads \in Surjection(1 .. n, D)
  BY <1>1, <1>3, <1>4, FS_Injection
<1>6. \A s \in D : \E i \in 1 .. n : payloads[i] = s
  BY <1>5 DEF Surjection
<1>7. QED
  BY <1>1, <1>2, <1>6

\* The cold cache with the payloads of the oldest save, and how much of it goes
\* to the database.
Filled(all, excess) ==
  LET data == Head(pending).data
  IN  /\ \A i \in DOMAIN cold : \E j \in DOMAIN all : all[j] = cold[i]
      /\ \A s \in DOMAIN data : \E j \in DOMAIN all : all[j].pos = s
      /\ \A j \in DOMAIN all :
           \/ \E i \in DOMAIN cold : all[j] = cold[i]
           \/ all[j].pos \in DOMAIN data /\ all[j].n = data[all[j].pos]
      /\ \A i, j \in DOMAIN all : all[i].pos = all[j].pos => i = j
      /\ Len(all) - excess <= ColdLimit
      /\ flushed' = flushed \cup DOMAIN data
      /\ cold' = SubSeq(all, excess + 1, Len(all))
      /\ pending' = Tail(pending)
      /\ UNCHANGED cacheVars

\* What leaves the cold cache is laid over the database.
Spilled(all, count) ==
  \E f \in Payloads :
    /\ db' = Over(db, f)
    /\ DOMAIN f = {all[i].pos : i \in 1 .. count}
    /\ \A i \in 1 .. count : f[all[i].pos] = all[i].n

LEMMA HeadFacts ==
  ASSUME SavesInv, pending # <<>>
  PROVE  /\ Head(pending) \in Saves /\ Head(pending) = pending[1] /\ 1 \in DOMAIN pending
         /\ Head(pending).data \in Payloads /\ DOMAIN Head(pending).data \subseteq SubChunks
         /\ \A s \in DOMAIN Head(pending).data : Head(pending).data[s] \in Nat
<1>1. pending \in Seq(Saves) /\ Head(pending) = pending[1] /\ 1 \in DOMAIN pending
      /\ DOMAIN pending = 1 .. Len(pending)
  BY TailElements DEF SavesInv
<1>2. Head(pending) \in Saves
  BY <1>1, ElementOfSeq
<1>3. Head(pending).data \in Payloads
  BY <1>2 DEF Saves
<1>4. QED
  BY <1>1, <1>2, <1>3, ContentsType

LEMMA StoreFacts ==
  ASSUME SavesInv, StoreInv, SubChunkOwnerInv, pending # <<>>,
         NEW payloads \in SetToSeqs(DOMAIN Head(pending).data), Store(payloads)
  PROVE  \E all \in Seq(Entries) : \E excess \in 0 .. Len(all) :
           /\ Filled(all, excess)
           /\ \/ Spilled(all, excess) /\ pc' = pc
              \/ pc' = "unwind" /\ UNCHANGED db
<1> DEFINE data == Head(pending).data
           D == DOMAIN data
           entering == [i \in DOMAIN payloads |-> [pos |-> payloads[i], n |-> data[payloads[i]]]]
           all == Kept(D) \o entering
           excess == Excess(all)
           evicted == [s \in {all[i].pos : i \in 1 .. excess} |->
                         (CHOOSE i \in 1 .. excess : all[i].pos = s)]
           f == [s \in DOMAIN evicted |-> all[evicted[s]].n]
<1>1. data \in Payloads /\ D \in SUBSET SubChunks /\ \A s \in D : data[s] \in Nat
  BY HeadFacts
<1>2. /\ flushed' = flushed \cup D
      /\ cold' = SubSeq(all, excess + 1, Len(all))
      /\ \/ db' = Over(db, f) /\ pc' = pc
         \/ pc' = "unwind" /\ UNCHANGED db
      /\ pending' = Tail(pending)
      /\ UNCHANGED cacheVars
  BY DEF Store, Fail
<1> HIDE DEF f, evicted, excess, all, entering, D, data
<1>3. Kept(D) = cold /\ \A i \in DOMAIN cold : cold[i].pos \notin D
  <2>1. \A i \in DOMAIN cold : cold[i].pos \notin D
    BY HeadFacts DEF SubChunkOwnerInv, D, data
  <2>2. QED
    BY <2>1 DEF Kept
<1>4. PICK n \in Nat : payloads \in [1 .. n -> D]
  BY <1>1, PayloadsFacts DEF D, data
<1>5. /\ \A i, j \in DOMAIN payloads : payloads[i] = payloads[j] => i = j
      /\ \A s \in D : \E i \in DOMAIN payloads : payloads[i] = s
  BY <1>1, PayloadsFacts DEF D, data
<1>6. /\ entering \in Seq(Entries) /\ DOMAIN entering = DOMAIN payloads
      /\ \A i \in DOMAIN payloads : entering[i] = [pos |-> payloads[i], n |-> data[payloads[i]]]
  <2>1. entering \in [1 .. n -> Entries]
    BY <1>1, <1>4 DEF entering, Entries
  <2>2. QED
    BY <1>4, <2>1, SeqDef DEF entering
<1>7. cold \in Seq(Entries) /\ Len(cold) \in Nat
  BY LenProperties DEF StoreInv
<1>8. /\ all \in Seq(Entries) /\ Len(all) \in Nat /\ DOMAIN all = 1 .. Len(all)
      /\ \A i \in DOMAIN cold : i \in DOMAIN all /\ all[i] = cold[i]
      /\ \A i \in DOMAIN entering : Len(cold) + i \in DOMAIN all /\ all[Len(cold) + i] = entering[i]
      /\ \A i \in DOMAIN all :
           i \in DOMAIN cold \/ (i - Len(cold) \in DOMAIN entering /\ all[i] = entering[i - Len(cold)])
  <2>1. all = cold \o entering
    BY <1>3 DEF all
  <2>2. QED
    BY <1>6, <1>7, <2>1, ConcatElements, LenProperties
<1>9. excess \in 0 .. Len(all) /\ Len(all) - excess <= ColdLimit
  BY <1>8, BdxAssumption DEF excess, Excess
<1>10. \A s \in D : \E j \in DOMAIN all : all[j].pos = s
  <2> SUFFICES ASSUME NEW s \in D PROVE \E j \in DOMAIN all : all[j].pos = s
    OBVIOUS
  <2>1. PICK i \in DOMAIN payloads : payloads[i] = s
    BY <1>5
  <2>2. entering[i].pos = s /\ Len(cold) + i \in DOMAIN all /\ all[Len(cold) + i] = entering[i]
    BY <1>6, <1>8, <2>1
  <2>3. QED
    BY <2>2
<1>11. \A j \in DOMAIN all :
         \/ j \in DOMAIN cold /\ all[j] = cold[j]
         \/ /\ j - Len(cold) \in DOMAIN payloads
            /\ all[j].pos = payloads[j - Len(cold)]
            /\ all[j].pos \in D /\ all[j].n = data[all[j].pos]
  BY <1>4, <1>6, <1>8
<1>12. ASSUME NEW i \in DOMAIN all, NEW j \in DOMAIN all, all[i].pos = all[j].pos PROVE i = j
  <2>1. CASE i \in DOMAIN cold /\ j \in DOMAIN cold
    BY <1>8, <1>12, <2>1 DEF SubChunkOwnerInv
  <2>2. CASE i \in DOMAIN cold /\ j \notin DOMAIN cold
    BY <1>3, <1>8, <1>11, <1>12, <2>2
  <2>3. CASE i \notin DOMAIN cold /\ j \in DOMAIN cold
    BY <1>3, <1>8, <1>11, <1>12, <2>3
  <2>4. CASE i \notin DOMAIN cold /\ j \notin DOMAIN cold
    <3>1. i - Len(cold) = j - Len(cold)
      BY <1>5, <1>11, <1>12, <2>4
    <3>2. i \in Int /\ j \in Int /\ Len(cold) \in Int
      BY <1>7, <1>8
    <3>3. QED
      BY <3>1, <3>2
  <2>5. QED
    BY <2>1, <2>2, <2>3, <2>4
<1>13. 1 .. excess \subseteq DOMAIN all
  BY <1>8, <1>9
<1>14. /\ DOMAIN evicted = {all[i].pos : i \in 1 .. excess}
       /\ \A i \in 1 .. excess : evicted[all[i].pos] = i
  <2>1. DOMAIN evicted = {all[i].pos : i \in 1 .. excess}
    BY DEF evicted
  <2>2. ASSUME NEW i \in 1 .. excess PROVE evicted[all[i].pos] = i
    <3>1. evicted[all[i].pos] = CHOOSE k \in 1 .. excess : all[k].pos = all[i].pos
      BY DEF evicted
    <3>2. \A k \in 1 .. excess : all[k].pos = all[i].pos => k = i
      BY <1>12, <1>13
    <3>3. QED
      BY <3>1, <3>2
  <2>3. QED
    BY <2>1, <2>2
<1>15. /\ f \in Payloads /\ DOMAIN f = {all[i].pos : i \in 1 .. excess}
       /\ \A i \in 1 .. excess : f[all[i].pos] = all[i].n
  <2>1. DOMAIN f = {all[i].pos : i \in 1 .. excess} /\ \A i \in 1 .. excess : f[all[i].pos] = all[i].n
    BY <1>14 DEF f
  <2>2. \A i \in 1 .. excess : all[i].pos \in SubChunks /\ all[i].n \in Nat
    <3>1. \A i \in 1 .. Len(all) : all[i] \in Entries
      BY <1>8, ElementOfSeq
    <3>2. \A i \in 1 .. excess : i \in 1 .. Len(all)
      BY <1>8, <1>13
    <3>3. QED
      BY <3>1, <3>2 DEF Entries
  <2>3. f \in [DOMAIN f -> Nat]
    <3>1. \A s \in DOMAIN f : f[s] \in Nat
      BY <2>1, <2>2
    <3>2. QED
      BY <3>1 DEF f
  <2>4. DOMAIN f \subseteq SubChunks
    BY <2>1, <2>2
  <2>5. QED
    BY <2>1, <2>3, <2>4, ContentsType
<1>16. Filled(all, excess)
  <2>1. \A i \in DOMAIN cold : \E j \in DOMAIN all : all[j] = cold[i]
    BY <1>8
  <2>2. \A j \in DOMAIN all : \/ \E i \in DOMAIN cold : all[j] = cold[i]
                              \/ all[j].pos \in D /\ all[j].n = data[all[j].pos]
    BY <1>11
  <2>3. QED
    BY <1>2, <1>9, <1>10, <1>12, <2>1, <2>2 DEF Filled, D, data
<1>17. (Spilled(all, excess) /\ pc' = pc) \/ (pc' = "unwind" /\ UNCHANGED db)
  BY <1>2, <1>15 DEF Spilled
<1>18. QED
  BY <1>8, <1>9, <1>16, <1>17

\* A save is completed: it failed, or its payloads are stored.
LEMMA CompleteCases ==
  ASSUME SavesInv, StoreInv, SubChunkOwnerInv, CompleteNext
  PROVE  /\ pending # <<>> /\ pending' = Tail(pending) /\ UNCHANGED cacheVars
         /\ \/ pc' = "unwind" /\ UNCHANGED storeVars
            \/ \E all \in Seq(Entries) : \E excess \in 0 .. Len(all) :
                 /\ Filled(all, excess)
                 /\ (Spilled(all, excess) /\ pc' = pc) \/ (pc' = "unwind" /\ UNCHANGED db)
<1>1. pending # <<>>
  BY DEF CompleteNext
<1>2. CASE pending' = Tail(pending) /\ Fail /\ UNCHANGED <<cacheVars, storeVars>>
  BY <1>1, <1>2 DEF Fail
<1>3. ASSUME NEW payloads \in SetToSeqs(DOMAIN Head(pending).data), Store(payloads)
      PROVE  \E all \in Seq(Entries) : \E excess \in 0 .. Len(all) :
                 /\ Filled(all, excess)
                 /\ (Spilled(all, excess) /\ pc' = pc) \/ (pc' = "unwind" /\ UNCHANGED db)
  BY <1>1, <1>3, StoreFacts
<1>4. \A all, excess : Filled(all, excess) => pending' = Tail(pending) /\ UNCHANGED cacheVars
  BY DEF Filled
<1>5. QED
  BY <1>1, <1>2, <1>3, <1>4 DEF CompleteNext

LEMMA CompleteKeeps ==
  ASSUME SavesInv, StoreInv, SubChunkOwnerInv, CompleteNext
  PROVE  SavesInv' /\ StoreInv' /\ UNCHANGED cacheVars /\ pc' \in {pc, "unwind"}
<1>1. SavesInv'
  <2>1. pending \in Seq(Saves) /\ pending # <<>> /\ pending' = Tail(pending) /\ Len(pending) <= Workers
    BY CompleteCases DEF SavesInv
  <2>2. /\ pending' \in Seq(Saves) /\ Len(pending') = Len(pending) - 1 /\ Len(pending) \in Nat
        /\ \A i \in DOMAIN pending' : i + 1 \in DOMAIN pending /\ pending'[i] = pending[i + 1]
    BY <2>1, TailElements
  <2>3. Len(pending') <= Workers
    BY <2>1, <2>2, BdxAssumption
  <2>4. QED
    BY <2>2, <2>3 DEF SavesInv
<1>2. CASE pc' = "unwind" /\ UNCHANGED storeVars
  BY <1>1, <1>2, CompleteCases DEF StoreInv, storeVars
<1>3. ASSUME NEW all \in Seq(Entries), NEW excess \in 0 .. Len(all), Filled(all, excess),
             (Spilled(all, excess) /\ pc' = pc) \/ (pc' = "unwind" /\ UNCHANGED db)
      PROVE  StoreInv' /\ pc' \in {pc, "unwind"}
  <2>1. cold' \in Seq(Entries) /\ Len(cold') = Len(all) - excess
    <3>1. RestOf(Entries, all, excess, cold')
      BY <1>3, RestElements DEF Filled
    <3>2. QED
      BY <3>1, Zenon DEF RestOf
  <2>2. Len(cold') <= ColdLimit
    BY <1>3, <2>1 DEF Filled
  <2>3. flushed' \subseteq SubChunks
    BY <1>3, HeadFacts, CompleteCases DEF Filled, StoreInv
  <2>4. db' \in Payloads
    <3>1. CASE Spilled(all, excess)
      <4>1. PICK f \in Payloads : db' = Over(db, f)
        BY <3>1 DEF Spilled
      <4>2. IsOver(db, f, db')
        BY <4>1, OverFacts DEF StoreInv
      <4>3. QED
        BY <4>2 DEF IsOver
    <3>2. CASE UNCHANGED db
      BY <3>2 DEF StoreInv
    <3>3. QED
      BY <1>3, <3>1, <3>2
  <2>5. QED
    BY <1>3, <2>1, <2>2, <2>3, <2>4 DEF StoreInv
<1>4. QED
  BY <1>1, <1>2, <1>3, CompleteCases

LEMMA CompleteHolds ==
  ASSUME SavesInv, StoreInv, CacheInv, SubChunkOwnerInv, ValueInv, CompleteNext, pc' # "unwind", UNCHANGED written
  PROVE  SubChunkOwnerInv' /\ ValueInv'
<1>1. PICK all \in Seq(Entries) : \E excess \in 0 .. Len(all) : Filled(all, excess) /\ Spilled(all, excess)
  BY CompleteCases
<1>2. PICK excess \in 0 .. Len(all) : Filled(all, excess) /\ Spilled(all, excess)
  BY <1>1
<1> DEFINE data == Head(pending).data
           D == DOMAIN data
<1>3. /\ \A i \in DOMAIN cold : \E j \in DOMAIN all : all[j] = cold[i]
      /\ \A s \in D : \E j \in DOMAIN all : all[j].pos = s
      /\ \A j \in DOMAIN all :
           \/ \E i \in DOMAIN cold : all[j] = cold[i]
           \/ all[j].pos \in D /\ all[j].n = data[all[j].pos]
      /\ \A i, j \in DOMAIN all : all[i].pos = all[j].pos => i = j
      /\ flushed' = flushed \cup D
      /\ cold' = SubSeq(all, excess + 1, Len(all))
      /\ pending' = Tail(pending)
      /\ UNCHANGED <<lru, hot>>
  BY <1>2 DEF Filled, cacheVars
<1>4. PICK f \in Payloads : /\ db' = Over(db, f)
                            /\ DOMAIN f = {all[i].pos : i \in 1 .. excess}
                            /\ \A i \in 1 .. excess : f[all[i].pos] = all[i].n
  BY <1>2 DEF Spilled
<1>5. /\ data = pending[1].data /\ 1 \in DOMAIN pending /\ D \subseteq SubChunks
      /\ \A i \in DOMAIN pending' : i + 1 \in DOMAIN pending /\ i + 1 # 1 /\ pending'[i] = pending[i + 1]
      /\ \A i \in DOMAIN pending : i = 1 \/ (i - 1 \in DOMAIN pending' /\ pending'[i - 1] = pending[i])
      /\ DOMAIN pending' \subseteq Int
  <2>1. pending # <<>> /\ pending \in Seq(Saves)
    BY CompleteCases DEF SavesInv
  <2>2. data = pending[1].data /\ 1 \in DOMAIN pending /\ D \subseteq SubChunks
    BY <2>1, HeadFacts
  <2>3. /\ DOMAIN pending' = 1 .. Len(pending) - 1
        /\ \A i \in DOMAIN pending' : i + 1 \in DOMAIN pending /\ i + 1 # 1 /\ pending'[i] = pending[i + 1]
        /\ \A i \in DOMAIN pending : i = 1 \/ (i - 1 \in DOMAIN pending' /\ pending'[i - 1] = pending[i])
    BY <1>3, <2>1, TailElements
  <2>4. DOMAIN pending' \subseteq Int
    BY <2>3
  <2>5. QED
    BY <2>2, <2>3, <2>4
<1> HIDE DEF D, data
<1>6. /\ DOMAIN cold' \subseteq Int /\ excess \in Int /\ 1 .. excess \subseteq DOMAIN all
      /\ \A i \in DOMAIN cold' : excess + i \in DOMAIN all /\ excess + i \notin 1 .. excess /\ cold'[i] = all[excess + i]
      /\ \A i \in DOMAIN all : i \in 1 .. excess \/ (i - excess \in DOMAIN cold' /\ cold'[i - excess] = all[i])
      /\ \A i \in DOMAIN all : all[i].pos \in SubChunks
  <2>1. /\ DOMAIN cold' = 1 .. Len(all) - excess /\ 1 .. excess \subseteq DOMAIN all
        /\ \A i \in DOMAIN cold' : excess + i \in DOMAIN all /\ excess + i \notin 1 .. excess /\ cold'[i] = all[excess + i]
        /\ \A i \in DOMAIN all : i \in 1 .. excess \/ (i - excess \in DOMAIN cold' /\ cold'[i - excess] = all[i])
    <3>1. RestOf(Entries, all, excess, cold')
      BY <1>3, RestElements
    <3>2. QED
      BY <3>1, Zenon DEF RestOf
  <2>2. DOMAIN cold' \subseteq Int /\ excess \in Int
    BY <2>1, LenProperties
  <2>3. \A i \in DOMAIN all : all[i] \in Entries
    BY ElementOfSeq, LenProperties
  <2>4. QED
    BY <2>1, <2>2, <2>3 DEF Entries
\* What holds of every entry that is or was in the cold cache.
<1>7. ASSUME NEW i \in DOMAIN all
      PROVE  /\ all[i].n = written[all[i].pos]
             /\ all[i].pos \notin DOMAIN hot
             /\ \A j \in DOMAIN pending' : all[i].pos \notin DOMAIN pending'[j].data
             /\ all[i].pos \in flushed'
  <2>1. CASE \E k \in DOMAIN cold : all[i] = cold[k]
    <3>1. PICK k \in DOMAIN cold : all[i] = cold[k]
      BY <2>1
    <3>2. cold[k].n = written[cold[k].pos] /\ cold[k].pos \in flushed
      BY DEF ValueInv
    <3>3. /\ cold[k].pos \notin DOMAIN hot
          /\ \A j \in DOMAIN pending : cold[k].pos \notin DOMAIN pending[j].data
      BY DEF SubChunkOwnerInv
    <3>4. QED
      BY <1>3, <1>5, <3>1, <3>2, <3>3
  <2>2. CASE all[i].pos \in D /\ all[i].n = data[all[i].pos]
    <3> DEFINE s == all[i].pos
    <3>1. s \in DOMAIN pending[1].data /\ all[i].n = pending[1].data[s]
      BY <1>5, <2>2 DEF D
    <3>2. all[i].n = written[s]
      BY <1>5, <3>1 DEF ValueInv
    <3>3. s \in LayersOf(pending[1].chunks)
      BY <1>5, <3>1 DEF SavesInv
    <3>4. s[1] \in pending[1].chunks
      BY <3>3 DEF LayersOf
    <3>5. s \notin DOMAIN hot
      BY <1>5, <3>4 DEF SubChunkOwnerInv, CacheInv
    <3>6. ASSUME NEW j \in DOMAIN pending' PROVE s \notin DOMAIN pending'[j].data
      <4>1. j + 1 \in DOMAIN pending /\ j + 1 # 1 /\ pending'[j] = pending[j + 1]
        BY <1>5
      <4>2. s[1] \notin pending[j + 1].chunks
        BY <1>5, <3>4, <4>1 DEF SubChunkOwnerInv
      <4>3. s \notin LayersOf(pending[j + 1].chunks)
        BY <4>2 DEF LayersOf
      <4>4. QED
        BY <4>1, <4>3 DEF SavesInv
    <3>7. s \in flushed'
      BY <1>3, <2>2
    <3> HIDE DEF s
    <3>8. QED
      BY <3>2, <3>5, <3>6, <3>7 DEF s
  <2>3. QED
    BY <1>3, <2>1, <2>2
<1>8. SubChunkOwnerInv'
  <2>1. ASSUME NEW i \in DOMAIN pending', NEW j \in DOMAIN pending', i # j
        PROVE  pending'[i].chunks \cap pending'[j].chunks = {}
    <3>1. i + 1 # j + 1
      BY <1>5, <2>1
    <3>2. QED
      BY <1>5, <3>1 DEF SubChunkOwnerInv
  <2>2. \A i \in DOMAIN pending' : \A c \in pending'[i].chunks : ~Cached(c)'
    BY <1>3, <1>5 DEF SubChunkOwnerInv, Cached
  <2>3. ASSUME NEW i \in DOMAIN cold', NEW j \in DOMAIN cold', cold'[i].pos = cold'[j].pos PROVE i = j
    <3>1. excess + i = excess + j
      BY <1>3, <1>6, <2>3
    <3>2. i \in Int /\ j \in Int /\ excess \in Int
      BY <1>6
    <3>3. QED
      BY <3>1, <3>2
  <2>4. \A i \in DOMAIN cold' : cold'[i].pos \notin DOMAIN hot'
    BY <1>3, <1>6, <1>7
  <2>5. \A i \in DOMAIN cold', j \in DOMAIN pending' : cold'[i].pos \notin DOMAIN pending'[j].data
    BY <1>6, <1>7
  <2>6. QED
    BY <2>1, <2>2, <2>3, <2>4, <2>5 DEF SubChunkOwnerInv
<1>9. ValueInv'
  <2>1. \A s \in DOMAIN hot' : hot'[s] = written'[s]
    BY <1>3 DEF ValueInv
  <2>2. \A i \in DOMAIN pending' : \A s \in DOMAIN pending'[i].data : pending'[i].data[s] = written'[s]
    BY <1>5 DEF ValueInv
  <2>3. \A i \in DOMAIN cold' : cold'[i].n = written'[cold'[i].pos] /\ cold'[i].pos \in flushed'
    BY <1>6, <1>7
  <2>4. /\ DOMAIN db' = DOMAIN db \cup DOMAIN f
        /\ \A s \in DOMAIN f : db'[s] = f[s]
        /\ \A s \in DOMAIN db \ DOMAIN f : db'[s] = db[s]
    <3>1. db \in Payloads /\ f \in Payloads /\ db' = Over(db, f)
      BY <1>4 DEF StoreInv
    <3>2. IsOver(db, f, db')
      BY <3>1, OverFacts, Zenon
    <3>3. QED
      BY <3>2, Zenon DEF IsOver
  <2>5. DOMAIN db' \subseteq flushed'
    BY <1>3, <1>4, <1>6, <1>7, <2>4 DEF ValueInv
  <2>6. ASSUME NEW s \in SubChunks, ~Held(s)' PROVE IsStored(s)'
    <3>1. CASE s \in DOMAIN f
      <4>1. PICK i \in 1 .. excess : all[i].pos = s
        BY <1>4, <3>1
      <4>2. f[s] = written[s]
        BY <1>4, <1>6, <1>7, <4>1
      <4>3. QED
        BY <2>4, <3>1, <4>2 DEF IsStored
    <3>2. CASE s \notin DOMAIN f
      <4>1. ASSUME NEW i \in DOMAIN all, all[i].pos = s PROVE FALSE
        <5>1. i \notin 1 .. excess
          BY <1>4, <3>2, <4>1
        <5>2. i - excess \in DOMAIN cold' /\ cold'[i - excess].pos = s
          BY <1>6, <4>1, <5>1
        <5>3. QED
          BY <2>6, <5>2 DEF Held
      <4>2. s \notin DOMAIN hot /\ ~(\E i \in DOMAIN cold : cold[i].pos = s) /\ s \notin D
        BY <1>3, <2>6, <4>1 DEF Held
      <4>3. ~InSave(s)
        <5>1. ASSUME NEW i \in DOMAIN pending, s \in DOMAIN pending[i].data PROVE FALSE
          <6>1. i # 1
            BY <1>5, <4>2, <5>1 DEF D
          <6>2. i - 1 \in DOMAIN pending' /\ pending'[i - 1] = pending[i]
            BY <1>5, <6>1
          <6>3. QED
            BY <2>6, <5>1, <6>2 DEF Held, InSave
        <5>2. QED
          BY <5>1 DEF InSave
      <4>4. IsStored(s)
        BY <4>2, <4>3 DEF Held, ValueInv
      <4>5. (s \in DOMAIN db' <=> s \in DOMAIN db) /\ (s \in DOMAIN db => db'[s] = db[s])
        BY <2>4, <3>2
      <4>6. QED
        BY <4>4, <4>5 DEF IsStored
    <3>3. QED
      BY <3>1, <3>2
  <2>7. QED
    BY <2>1, <2>2, <2>3, <2>5, <2>6 DEF ValueInv
<1>10. QED
  BY <1>8, <1>9

(***************************************************************************)
(* Writing a block: WriteBlock.                                            *)
(***************************************************************************)

\* t is q without its k-th element: its elements are those at the other places,
\* each once.
Shortened(S, q, k, t) ==
  /\ t \in Seq(S) /\ Len(t) = Len(q) - 1 /\ Len(q) \in Nat \ {0}
  /\ \E f \in [DOMAIN t -> DOMAIN q \ {k}] :
       /\ \A i, j \in DOMAIN t : f[i] = f[j] => i = j
       /\ \A i \in DOMAIN t : t[i] = q[f[i]]
  /\ \A i \in DOMAIN q \ {k} : \E j \in DOMAIN t : t[j] = q[i]

LEMMA RemovedPlaces ==
  ASSUME NEW S, NEW q \in Seq(S), NEW k \in DOMAIN q
  PROVE  Shortened(S, q, k, RemoveAt(q, k))
<1> DEFINE n == Len(q)
           t == RemoveAt(q, k)
           f == [j \in 1 .. n - 1 |-> Skip(k, j)]
<1>1. /\ t \in Seq(S) /\ Len(t) = n - 1 /\ n \in Nat \ {0}
      /\ DOMAIN q = 1 .. n /\ DOMAIN t = 1 .. n - 1
      /\ \A j \in 1 .. n - 1 : Skip(k, j) \in DOMAIN q \ {k} /\ t[j] = q[Skip(k, j)]
      /\ \A i \in DOMAIN q \ {k} : \E j \in DOMAIN t : t[j] = q[i]
  BY RemoveAtElements
<1> HIDE DEF n, t
<1>2. f \in [DOMAIN t -> DOMAIN q \ {k}] /\ \A i \in DOMAIN t : t[i] = q[f[i]]
  BY <1>1
<1>3. ASSUME NEW i \in DOMAIN t, NEW j \in DOMAIN t, f[i] = f[j] PROVE i = j
  <2>1. i \in 1 .. n - 1 /\ j \in 1 .. n - 1 /\ Skip(k, i) = Skip(k, j) /\ n \in Nat /\ k \in 1 .. n
    BY <1>1, <1>3
  <2>2. QED
    BY <2>1, SkipIsInjective
<1> HIDE DEF f
<1>4. \E g \in [DOMAIN t -> DOMAIN q \ {k}] :
        /\ \A i, j \in DOMAIN t : g[i] = g[j] => i = j
        /\ \A i \in DOMAIN t : t[i] = q[g[i]]
  BY <1>2, <1>3, Zenon
<1>5. Shortened(S, q, k, t)
  BY <1>1, <1>4 DEF n, Shortened
<1>6. QED
  BY <1>5, Zenon DEF t

LEMMA TouchedFacts ==
  ASSUME CacheInv, target \in SubChunks, Cached(target[1]) \/ Len(lru) < CacheLimit
  PROVE  /\ Touched \in Seq(Chunks) /\ \A i, j \in DOMAIN Touched : Touched[i] = Touched[j] => i = j
         /\ Len(Touched) <= CacheLimit
         /\ \A c : (\E i \in DOMAIN Touched : Touched[i] = c) <=> Cached(c) \/ c = target[1]
<1>1. lru \in Seq(Chunks) /\ Len(lru) \in Nat /\ target[1] \in Chunks /\ CacheLimit \in Nat
      /\ DOMAIN lru = 1 .. Len(lru) /\ Len(lru) <= CacheLimit
      /\ \A i, j \in DOMAIN lru : lru[i] = lru[j] => i = j
  BY LenProperties, BdxAssumption DEF CacheInv, SubChunks
<1>2. ASSUME NEW s \in Seq(Chunks), Touched = Append(s, target[1]), Len(s) < CacheLimit,
             \A i, j \in DOMAIN s : s[i] = s[j] => i = j,
             \A c : (\E i \in DOMAIN s : s[i] = c) <=> Cached(c) /\ c # target[1]
      PROVE  /\ Touched \in Seq(Chunks) /\ \A i, j \in DOMAIN Touched : Touched[i] = Touched[j] => i = j
             /\ Len(Touched) <= CacheLimit
             /\ \A c : (\E i \in DOMAIN Touched : Touched[i] = c) <=> Cached(c) \/ c = target[1]
  <2> DEFINE t == Touched
  <2>1. /\ t \in Seq(Chunks) /\ Len(s) \in Nat /\ Len(t) = Len(s) + 1
        /\ DOMAIN s = 1 .. Len(s) /\ DOMAIN t = 1 .. Len(s) + 1
        /\ \A i \in 1 .. Len(s) : t[i] = s[i]
        /\ t[Len(s) + 1] = target[1]
        /\ \A i \in 1 .. Len(s) + 1 : i \in 1 .. Len(s) \/ i = Len(s) + 1
    BY <1>1, <1>2, AppendElements
  <2> HIDE DEF t
  <2>2. Len(t) <= CacheLimit
    BY <1>1, <1>2, <2>1
  <2>3. 1 .. Len(s) \subseteq 1 .. Len(s) + 1 /\ Len(s) + 1 \in 1 .. Len(s) + 1
    BY <2>1
  <2>4. ASSUME NEW i \in DOMAIN t, NEW j \in DOMAIN t, t[i] = t[j] PROVE i = j
    <3>1. \A k \in DOMAIN s : s[k] # target[1]
      BY <1>2
    <3>2. QED
      BY <1>2, <2>1, <2>4, <3>1
  <2>5. ASSUME NEW c PROVE (\E i \in DOMAIN t : t[i] = c) <=> Cached(c) \/ c = target[1]
    <3>1. ASSUME NEW i \in DOMAIN t, t[i] = c PROVE Cached(c) \/ c = target[1]
      BY <1>2, <2>1, <3>1
    <3>2. ASSUME Cached(c), c # target[1] PROVE \E i \in DOMAIN t : t[i] = c
      BY <1>2, <2>1, <2>3, <3>2
    <3>3. ASSUME c = target[1] PROVE \E i \in DOMAIN t : t[i] = c
      BY <2>1, <2>3, <3>3
    <3>4. QED
      BY <3>1, <3>2, <3>3
  <2>6. QED
    BY <2>1, <2>2, <2>4, <2>5 DEF t
<1>3. CASE Cached(target[1])
  <2> DEFINE k == CHOOSE i \in DOMAIN lru : lru[i] = target[1]
             s == RemoveAt(lru, k)
  <2>1. k \in DOMAIN lru /\ lru[k] = target[1]
    BY <1>3 DEF Cached
  <2>3. Touched = Append(s, target[1])
    BY <1>3 DEF Touched
  <2> HIDE DEF k
  <2>2. /\ s \in Seq(Chunks) /\ Len(s) = Len(lru) - 1 /\ Len(lru) \in Nat \ {0}
        /\ \E f \in [DOMAIN s -> DOMAIN lru \ {k}] :
             /\ \A i, j \in DOMAIN s : f[i] = f[j] => i = j
             /\ \A i \in DOMAIN s : s[i] = lru[f[i]]
        /\ \A i \in DOMAIN lru \ {k} : \E j \in DOMAIN s : s[j] = lru[i]
    <3>1. lru \in Seq(Chunks) /\ k \in DOMAIN lru
      BY <1>1, <2>1
    <3>2. Shortened(Chunks, lru, k, s)
      BY <3>1, RemovedPlaces, Zenon
    <3> HIDE DEF s
    <3>3. QED
      BY <3>2, Zenon DEF Shortened
  <2> HIDE DEF s
  <2>4. Len(s) < CacheLimit
    BY <1>1, <2>2
  <2>5. /\ \A i, j \in DOMAIN s : s[i] = s[j] => i = j
        /\ \A i \in DOMAIN s : \E m \in DOMAIN lru \ {k} : s[i] = lru[m]
    BY <1>1, <2>2
  <2>6. ASSUME NEW c PROVE (\E i \in DOMAIN s : s[i] = c) <=> Cached(c) /\ c # target[1]
    <3>1. ASSUME NEW i \in DOMAIN s, s[i] = c PROVE Cached(c) /\ c # target[1]
      <4>1. PICK m \in DOMAIN lru \ {k} : s[i] = lru[m]
        BY <2>5
      <4>2. lru[m] = c /\ lru[m] # lru[k]
        BY <1>1, <2>1, <3>1, <4>1
      <4>3. QED
        BY <2>1, <4>2 DEF Cached
    <3>2. ASSUME NEW i \in DOMAIN lru, lru[i] = c, c # target[1] PROVE \E j \in DOMAIN s : s[j] = c
      BY <2>1, <2>2, <3>2
    <3>3. QED
      BY <3>1, <3>2 DEF Cached
  <2>7. QED
    BY <1>2, <2>2, <2>3, <2>4, <2>5, <2>6
<1>4. CASE ~Cached(target[1])
  <2>1. Touched = Append(lru, target[1]) /\ Len(lru) < CacheLimit
    BY <1>4 DEF Touched
  <2>2. \A c : (\E i \in DOMAIN lru : lru[i] = c) <=> Cached(c) /\ c # target[1]
    BY <1>4 DEF Cached
  <2>3. QED
    BY <1>1, <1>2, <2>1, <2>2
<1>5. QED
  BY <1>3, <1>4

\* After the chunk was touched nothing but the order of the cache has changed,
\* whether a reload failed or not.
LEMMA TouchKeeps ==
  ASSUME CacheInv, target \in SubChunks, Cached(target[1]) \/ Len(lru) < CacheLimit,
         lru' = Touched, UNCHANGED hot
  PROVE  CacheInv'
<1>1. /\ lru' \in Seq(Chunks) /\ \A i, j \in DOMAIN lru' : lru'[i] = lru'[j] => i = j
      /\ Len(lru') <= CacheLimit
      /\ \A c : Cached(c)' <=> Cached(c) \/ c = target[1]
  BY TouchedFacts DEF Cached
<1>2. QED
  BY <1>1 DEF CacheInv

\* The cold cache after the target was taken out of it, or without it from the
\* start.
TargetTaken ==
  /\ cold' \in Seq(Entries) /\ Len(cold') <= ColdLimit
  /\ \A i, j \in DOMAIN cold' : cold'[i].pos = cold'[j].pos => i = j
  /\ \A i \in DOMAIN cold' : cold'[i].pos # target /\ \E j \in DOMAIN cold : cold'[i] = cold[j]
  /\ \A j \in DOMAIN cold : cold[j].pos = target \/ \E i \in DOMAIN cold' : cold'[i] = cold[j]

LEMMA WriteKeeps ==
  ASSUME ControlInv, CacheInv, Acquirable, WriteBlock(written[target])
  PROVE  /\ CacheInv' /\ written' \in [SubChunks -> Nat]
         /\ \A c : Cached(c)' <=> Cached(c) \/ c = target[1]
         /\ DOMAIN hot' = DOMAIN hot \cup {target}
         /\ hot'[target] = written'[target]
         /\ \A s \in DOMAIN hot \ {target} : hot'[s] = hot[s]
         /\ \A s \in SubChunks \ {target} : written'[s] = written[s]
<1>1. /\ target \in SubChunks /\ written \in [SubChunks -> Nat] /\ hot \in Payloads
      /\ Cached(target[1]) \/ Len(lru) < CacheLimit
      /\ lru' = Touched
      /\ written' = [written EXCEPT ![target] = @ + 1]
  BY DEF ControlInv, CacheInv, Acquirable, WriteBlock
<1> DEFINE g == [s \in {target} |-> written[target] + 1]
<1>2. /\ written' \in [SubChunks -> Nat] /\ written'[target] = written[target] + 1
      /\ \A s \in SubChunks \ {target} : written'[s] = written[s]
  BY <1>1
<1>3. g \in Payloads /\ DOMAIN g = {target} /\ g[target] = written'[target] /\ hot' = Over(hot, g)
  <2>1. g \in [{target} -> Nat] /\ DOMAIN g = {target} /\ {target} \subseteq SubChunks
    BY <1>1
  <2>2. g \in Payloads
    BY <2>1, ContentsType
  <2>3. g[target] = written'[target]
    BY <1>2
  <2>4. hot' = Over(hot, g)
    BY DEF WriteBlock
  <2>5. QED
    BY <2>1, <2>2, <2>3, <2>4
<1> HIDE DEF g
<1>4. /\ hot' \in Payloads /\ DOMAIN hot' = DOMAIN hot \cup {target}
      /\ hot'[target] = written'[target]
      /\ \A s \in DOMAIN hot \ {target} : hot'[s] = hot[s]
  <2>1. hot \in Payloads
    BY <1>1
  <2>2. IsOver(hot, g, hot')
    BY <1>3, <2>1, OverFacts, Zenon
  <2>3. DOMAIN g = {target} /\ g[target] = written'[target]
    BY <1>3
  <2>4. QED
    BY <2>2, <2>3 DEF IsOver
<1>5. /\ lru' \in Seq(Chunks) /\ \A i, j \in DOMAIN lru' : lru'[i] = lru'[j] => i = j
      /\ Len(lru') <= CacheLimit
      /\ \A c : Cached(c)' <=> Cached(c) \/ c = target[1]
  BY <1>1, TouchedFacts DEF Cached
<1>6. CacheInv'
  BY <1>4, <1>5 DEF CacheInv
<1>7. QED
  BY <1>2, <1>4, <1>5, <1>6

LEMMA WriteHolds ==
  ASSUME ControlInv, CacheInv, SavesInv, StoreInv, SubChunkOwnerInv, ValueInv,
         Acquirable, WriteBlock(written[target]), TargetTaken, UNCHANGED <<pending, flushed, db>>
  PROVE  CacheInv' /\ SavesInv' /\ StoreInv' /\ SubChunkOwnerInv' /\ ValueInv'
<1>1. /\ CacheInv'
      /\ \A c : Cached(c)' <=> Cached(c) \/ c = target[1]
      /\ DOMAIN hot' = DOMAIN hot \cup {target}
      /\ hot'[target] = written'[target]
      /\ \A s \in DOMAIN hot \ {target} : hot'[s] = hot[s]
      /\ \A s \in SubChunks \ {target} : written'[s] = written[s]
  BY WriteKeeps
<1>2. SavesInv' /\ StoreInv'
  BY DEF SavesInv, StoreInv, TargetTaken
<1>3. DOMAIN hot \subseteq SubChunks /\ target \in SubChunks
  BY ContentsType DEF CacheInv, ControlInv
<1>4. \A i \in DOMAIN pending : target[1] \notin pending[i].chunks
  BY DEF Acquirable, MustWait, Saving, SubChunkOwnerInv
<1>5. \A i \in DOMAIN pending : target \notin DOMAIN pending[i].data
  BY <1>4 DEF SavesInv, LayersOf
<1>6. \A i \in DOMAIN pending : DOMAIN pending[i].data \subseteq SubChunks
  <2>1. \A i \in DOMAIN pending : pending[i] \in Saves
    BY ElementOfSeq, LenProperties DEF SavesInv
  <2>2. QED
    BY <2>1, ContentsType DEF Saves
<1>7. \A i \in DOMAIN cold : cold[i].pos \in SubChunks
  <2>1. \A i \in DOMAIN cold : cold[i] \in Entries
    BY ElementOfSeq, LenProperties DEF StoreInv
  <2>2. QED
    BY <2>1 DEF Entries
<1>8. SubChunkOwnerInv'
  <2>1. \A i, j \in DOMAIN pending' : i # j => pending'[i].chunks \cap pending'[j].chunks = {}
    BY DEF SubChunkOwnerInv
  <2>2. \A i \in DOMAIN pending' : \A c \in pending'[i].chunks : ~Cached(c)'
    BY <1>1, <1>4 DEF SubChunkOwnerInv
  <2>3. \A i, j \in DOMAIN cold' : cold'[i].pos = cold'[j].pos => i = j
    BY DEF TargetTaken
  <2>4. \A i \in DOMAIN cold' : cold'[i].pos \notin DOMAIN hot'
    BY <1>1 DEF TargetTaken, SubChunkOwnerInv
  <2>5. \A i \in DOMAIN cold', j \in DOMAIN pending' : cold'[i].pos \notin DOMAIN pending'[j].data
    BY DEF TargetTaken, SubChunkOwnerInv
  <2>6. QED
    BY <2>1, <2>2, <2>3, <2>4, <2>5 DEF SubChunkOwnerInv
<1>9. ValueInv'
  <2>1. \A s \in DOMAIN hot' : hot'[s] = written'[s]
    BY <1>1, <1>3 DEF ValueInv
  <2>2. \A i \in DOMAIN pending' : \A s \in DOMAIN pending'[i].data : pending'[i].data[s] = written'[s]
    BY <1>1, <1>5, <1>6 DEF ValueInv
  <2>3. \A i \in DOMAIN cold' : cold'[i].n = written'[cold'[i].pos] /\ cold'[i].pos \in flushed'
    BY <1>1, <1>7 DEF TargetTaken, ValueInv
  <2>4. DOMAIN db' \subseteq flushed'
    BY DEF ValueInv
  <2>5. ASSUME NEW s \in SubChunks, ~Held(s)' PROVE IsStored(s)'
    <3>1. s # target /\ s \notin DOMAIN hot
      BY <1>1, <2>5 DEF Held
    <3>2. ~InSave(s)
      BY <2>5 DEF Held, InSave
    <3>3. ~(\E i \in DOMAIN cold : cold[i].pos = s)
      BY <2>5, <3>1 DEF Held, TargetTaken
    <3>4. IsStored(s) /\ written'[s] = written[s]
      BY <1>1, <3>1, <3>2, <3>3 DEF Held, ValueInv
    <3>5. QED
      BY <3>4 DEF IsStored
  <2>6. QED
    BY <2>1, <2>2, <2>3, <2>4, <2>5 DEF ValueInv
<1>10. QED
  BY <1>1, <1>2, <1>8, <1>9


(***************************************************************************)
(* The actions.                                                            *)
(***************************************************************************)

LEMMA FlushStep ==
  ASSUME CacheStoreInv, pc \in {"acquire", "flush"}, lru # <<>>, FlushOldest,
         UNCHANGED <<pc, target, written, outcome>>
  PROVE  CacheStoreInv'
<1>1. ControlInv /\ CacheInv /\ SavesInv /\ StoreInv /\ SubChunkOwnerInv /\ ValueInv /\ outcome # "success"
  BY DEF CacheStoreInv, Intact, ControlInv
<1>2. ControlInv' /\ outcome' # "success"
  BY <1>1 DEF ControlInv
<1>3. CacheInv' /\ SavesInv' /\ StoreInv'
  BY <1>1, FlushKeeps DEF StoreInv, storeVars
<1>4. SubChunkOwnerInv' /\ ValueInv'
  BY <1>1, FlushHolds
<1>5. QED
  BY <1>2, <1>3, <1>4 DEF CacheStoreInv

LEMMA CompleteStep ==
  ASSUME CacheStoreInv, pc \in {"acquire", "flush", "join"}, CompleteNext,
         UNCHANGED <<target, written, outcome>>
  PROVE  CacheStoreInv'
<1>1. ControlInv /\ CacheInv /\ SavesInv /\ StoreInv /\ SubChunkOwnerInv /\ ValueInv /\ outcome # "success"
  BY DEF CacheStoreInv, Intact, ControlInv
<1>2. SavesInv' /\ StoreInv' /\ UNCHANGED cacheVars /\ pc' \in {pc, "unwind"}
  BY <1>1, CompleteKeeps
<1>3. ControlInv' /\ outcome' # "success"
  BY <1>1, <1>2 DEF ControlInv, PcNames, cacheVars
<1>4. CacheInv'
  BY <1>1, <1>2 DEF CacheInv, Cached, cacheVars
<1>5. Intact' => SubChunkOwnerInv' /\ ValueInv'
  <2>1. Intact' => pc' # "unwind"
    BY DEF Intact
  <2>2. QED
    BY <1>1, <2>1, CompleteHolds
<1>6. QED
  BY <1>2, <1>3, <1>4, <1>5 DEF CacheStoreInv

LEMMA WriteStep ==
  ASSUME CacheStoreInv, Acquirable, WriteBlock(written[target]), TargetTaken,
         UNCHANGED <<target, pending, flushed, db, outcome>>
  PROVE  CacheStoreInv'
<1>1. ControlInv /\ CacheInv /\ SavesInv /\ StoreInv /\ SubChunkOwnerInv /\ ValueInv /\ outcome # "success"
  BY DEF CacheStoreInv, Intact, ControlInv, Acquirable
<1>2. CacheInv' /\ SavesInv' /\ StoreInv' /\ SubChunkOwnerInv' /\ ValueInv'
  BY <1>1, WriteHolds
<1>3. pc' = "parse" /\ written' \in [SubChunks -> Nat]
  BY <1>1, WriteKeeps DEF WriteBlock
<1>4. ControlInv' /\ outcome' # "success"
  BY <1>1, <1>3 DEF ControlInv, PcNames
<1>5. QED
  BY <1>2, <1>4 DEF CacheStoreInv

\* A subchunk that cannot be decoded: the conversion is given up.
LEMMA TouchStep ==
  ASSUME CacheStoreInv, Acquirable, Fail, lru' = Touched,
         cold' \in Seq(Entries), Len(cold') <= ColdLimit,
         UNCHANGED <<target, hot, pending, flushed, db, written, outcome>>
  PROVE  CacheStoreInv'
<1>1. ControlInv /\ CacheInv /\ SavesInv /\ StoreInv /\ outcome # "success"
      /\ (Cached(target[1]) \/ Len(lru) < CacheLimit)
  BY DEF CacheStoreInv, Intact, ControlInv, Acquirable
<1>2. target \in SubChunks /\ pc' = "unwind"
  BY <1>1 DEF ControlInv, Fail
<1>3. CacheInv'
  BY <1>1, <1>2, TouchKeeps
<1>4. SavesInv' /\ StoreInv'
  BY <1>1 DEF SavesInv, StoreInv
<1>5. ControlInv' /\ outcome' # "success" /\ ~Intact'
  BY <1>1, <1>2 DEF ControlInv, PcNames, Intact
<1>6. QED
  BY <1>3, <1>4, <1>5 DEF CacheStoreInv

LEMMA NothingTaken ==
  ASSUME StoreInv, SubChunkOwnerInv, \A i \in DOMAIN cold : cold[i].pos # target, UNCHANGED cold
  PROVE  TargetTaken
BY DEF TargetTaken, StoreInv, SubChunkOwnerInv

LEMMA ColdTaken ==
  ASSUME StoreInv, SubChunkOwnerInv, NEW k \in InCold(target), cold' = RemoveAt(cold, k)
  PROVE  TargetTaken
<1>1. /\ cold \in Seq(Entries) /\ k \in DOMAIN cold /\ cold[k].pos = target /\ Len(cold) <= ColdLimit
      /\ \A i, j \in DOMAIN cold : cold[i].pos = cold[j].pos => i = j
      /\ ColdLimit \in Nat
  BY BdxAssumption DEF StoreInv, SubChunkOwnerInv, InCold
<1>2. /\ cold' \in Seq(Entries) /\ Len(cold') = Len(cold) - 1 /\ Len(cold) \in Nat \ {0}
      /\ \E f \in [DOMAIN cold' -> DOMAIN cold \ {k}] :
           /\ \A i, j \in DOMAIN cold' : f[i] = f[j] => i = j
           /\ \A i \in DOMAIN cold' : cold'[i] = cold[f[i]]
      /\ \A i \in DOMAIN cold \ {k} : \E j \in DOMAIN cold' : cold'[j] = cold[i]
  <2>1. Shortened(Entries, cold, k, RemoveAt(cold, k))
    BY <1>1, RemovedPlaces, Zenon
  <2>2. Shortened(Entries, cold, k, cold')
    BY <2>1, Zenon
  <2>3. QED
    BY <2>2, Zenon DEF Shortened
<1>3. Len(cold') <= ColdLimit
  BY <1>1, <1>2
<1>4. PICK f \in [DOMAIN cold' -> DOMAIN cold \ {k}] :
           /\ \A i, j \in DOMAIN cold' : f[i] = f[j] => i = j
           /\ \A i \in DOMAIN cold' : cold'[i] = cold[f[i]]
  BY <1>2
<1>5. \A i \in DOMAIN cold' : f[i] \in DOMAIN cold /\ f[i] # k
  BY <1>4
<1>6. \A i, j \in DOMAIN cold' : cold'[i].pos = cold'[j].pos => i = j
  BY <1>1, <1>4, <1>5
<1>7. \A i \in DOMAIN cold' : cold'[i].pos # target /\ \E j \in DOMAIN cold : cold'[i] = cold[j]
  BY <1>1, <1>4, <1>5
<1>8. \A j \in DOMAIN cold : cold[j].pos = target \/ \E i \in DOMAIN cold' : cold'[i] = cold[j]
  BY <1>1, <1>2
<1>9. QED
  BY <1>2, <1>3, <1>6, <1>7, <1>8 DEF TargetTaken

LEMMA AcquireSteps ==
  ASSUME CacheStoreInv, UseCached \/ UseFresh \/ ReloadCold \/ ReloadStored
  PROVE  CacheStoreInv'
<1>1. pc = "acquire" /\ Acquirable
  BY DEF UseCached, UseFresh, ReloadCold, ReloadStored, Acquirable
<1>2. ControlInv /\ CacheInv /\ SavesInv /\ StoreInv /\ SubChunkOwnerInv /\ ValueInv
  BY <1>1 DEF CacheStoreInv, Intact
<1>3. target \in SubChunks /\ cold \in Seq(Entries) /\ Len(cold) <= ColdLimit
  BY <1>2 DEF ControlInv, StoreInv
<1>4. ~InSave(target)
  <2>1. \A i \in DOMAIN pending : target[1] \notin pending[i].chunks
    BY <1>1, <1>2 DEF Acquirable, MustWait, Saving, SubChunkOwnerInv
  <2>2. QED
    BY <1>2, <2>1 DEF SavesInv, LayersOf, InSave
<1>5. CASE UseCached
  <2>1. hot[target] = written[target] /\ \A i \in DOMAIN cold : cold[i].pos # target
    BY <1>2, <1>5 DEF UseCached, ValueInv, SubChunkOwnerInv
  <2>2. WriteBlock(written[target]) /\ UNCHANGED <<target, pending, cold, flushed, db, outcome>>
    BY <1>5, <2>1 DEF UseCached, storeVars
  <2>3. TargetTaken
    BY <1>2, <2>1, <2>2, NothingTaken
  <2>4. QED
    BY <1>1, <2>2, <2>3, WriteStep
<1>6. CASE UseFresh
  <2>1. target \notin DOMAIN hot /\ target \notin flushed
        /\ \A i \in DOMAIN cold : cold[i].pos # target
    BY <1>2, <1>6 DEF UseFresh, ValueInv
  <2>2. written[target] = 0
    <3>1. ~Held(target) /\ target \notin DOMAIN db
      BY <1>2, <1>4, <2>1 DEF Held, ValueInv
    <3>2. IsStored(target)
      BY <1>2, <1>3, <3>1 DEF ValueInv
    <3>3. QED
      BY <3>1, <3>2 DEF IsStored
  <2>3. WriteBlock(written[target]) /\ UNCHANGED <<target, pending, cold, flushed, db, outcome>>
    BY <1>6, <2>2 DEF UseFresh, storeVars
  <2>4. TargetTaken
    BY <1>2, <2>1, <2>3, NothingTaken
  <2>5. QED
    BY <1>1, <2>3, <2>4, WriteStep
<1>7. CASE ReloadCold
  <2>1. PICK i \in InCold(target) :
          /\ cold' = RemoveAt(cold, i)
          /\ WriteBlock(cold[i].n) \/ (Fail /\ lru' = Touched /\ UNCHANGED <<hot, written>>)
    BY <1>7 DEF ReloadCold
  <2>2. UNCHANGED <<target, pending, flushed, db, outcome>>
    BY <1>7 DEF ReloadCold
  <2>3. cold[i].n = written[target]
    BY <1>2 DEF ValueInv, InCold
  <2>4. TargetTaken
    BY <1>2, <2>1, ColdTaken
  <2>5. CASE WriteBlock(cold[i].n)
    BY <1>1, <2>2, <2>3, <2>4, <2>5, WriteStep
  <2>6. CASE Fail /\ lru' = Touched /\ UNCHANGED <<hot, written>>
    BY <1>1, <2>2, <2>4, <2>6, TouchStep DEF TargetTaken
  <2>7. QED
    BY <2>1, <2>5, <2>6
<1>8. CASE ReloadStored
  <2> DEFINE n == IF target \in DOMAIN db THEN db[target] ELSE 0
  <2>1. target \notin DOMAIN hot /\ \A i \in DOMAIN cold : cold[i].pos # target
    BY <1>8 DEF ReloadStored, InCold
  <2>2. UNCHANGED <<target, pending, cold, flushed, db, outcome>>
    BY <1>8 DEF ReloadStored, storeVars
  <2>3. n = written[target]
    <3>1. ~Held(target)
      BY <1>4, <2>1 DEF Held
    <3>2. IsStored(target)
      BY <1>2, <1>3, <3>1 DEF ValueInv
    <3>3. QED
      BY <3>2 DEF IsStored
  <2>4. WriteBlock(n) \/ (Fail /\ lru' = Touched /\ UNCHANGED <<hot, written>>)
    BY <1>8 DEF ReloadStored
  <2>5. TargetTaken
    BY <1>2, <2>1, <2>2, NothingTaken
  <2> HIDE DEF n
  <2>6. CASE WriteBlock(n)
    BY <1>1, <2>2, <2>3, <2>5, <2>6, WriteStep
  <2>7. CASE Fail /\ lru' = Touched /\ UNCHANGED <<hot, written>>
    BY <1>1, <1>3, <2>2, <2>7, TouchStep
  <2>8. QED
    BY <2>4, <2>6, <2>7
<1>9. QED
  BY <1>5, <1>6, <1>7, <1>8

LEMMA SpillStep ==
  ASSUME CacheStoreInv, SpillCold
  PROVE  CacheStoreInv'
<1>1. ControlInv /\ CacheInv /\ SavesInv /\ StoreInv /\ SubChunkOwnerInv /\ ValueInv /\ outcome # "success"
      /\ pc = "spill"
  BY DEF CacheStoreInv, Intact, ControlInv, SpillCold
<1>2. UNCHANGED <<target, lru, hot, pending, flushed, written, outcome>>
  BY DEF SpillCold, cacheVars
<1>3. CacheInv' /\ SavesInv' /\ outcome' # "success"
  BY <1>1, <1>2 DEF CacheInv, Cached, SavesInv
<1>4. cold \in Seq(Entries) /\ Len(cold) \in Nat /\ Len(cold) <= ColdLimit /\ ColdLimit \in Nat
      /\ db \in Payloads /\ flushed \subseteq SubChunks
  BY <1>1, LenProperties, BdxAssumption DEF StoreInv
<1>5. CASE cold = <<>>
  <2>1. pc' = "entities" /\ UNCHANGED <<cold, db>>
    BY <1>5 DEF SpillCold
  <2>2. ControlInv'
    BY <1>1, <1>2, <1>5, <2>1 DEF ControlInv, PcNames
  <2>3. StoreInv' /\ SubChunkOwnerInv'
    BY <1>1, <1>2, <2>1 DEF StoreInv, SubChunkOwnerInv, Cached
  <2>4. ValueInv'
    BY <1>1, <1>2, <2>1 DEF ValueInv, Held, InSave, IsStored
  <2>5. QED
    BY <1>3, <2>2, <2>3, <2>4 DEF CacheStoreInv
<1>6. CASE cold # <<>>
  <2> DEFINE count == IF Len(cold) < SpillBatch THEN Len(cold) ELSE SpillBatch
             batch == {cold[i] : i \in 1 .. count}
             P == {e.pos : e \in batch}
             g == [s \in P |-> (CHOOSE e \in batch : e.pos = s).n]
  <2>1. /\ cold' = SubSeq(cold, count + 1, Len(cold))
        /\ (db' = Over(db, g) /\ UNCHANGED pc) \/ (Fail /\ UNCHANGED db)
    BY <1>6 DEF SpillCold
  <2>2. count \in 0 .. Len(cold)
    BY <1>4, BdxAssumption
  <2>3. /\ cold' \in Seq(Entries) /\ Len(cold') = Len(cold) - count
        /\ DOMAIN cold = 1 .. Len(cold) /\ 1 .. count \subseteq DOMAIN cold
        /\ DOMAIN cold' = 1 .. Len(cold) - count
        /\ \A i \in DOMAIN cold' :
             count + i \in DOMAIN cold /\ count + i \notin 1 .. count /\ cold'[i] = cold[count + i]
        /\ \A i \in DOMAIN cold :
             i \in 1 .. count \/ (i - count \in DOMAIN cold' /\ cold'[i - count] = cold[i])
    <3> DEFINE rest == SubSeq(cold, count + 1, Len(cold))
    <3> HIDE DEF count
    <3>1. /\ rest \in Seq(Entries) /\ Len(rest) = Len(cold) - count
          /\ DOMAIN cold = 1 .. Len(cold) /\ 1 .. count \subseteq DOMAIN cold
          /\ DOMAIN rest = 1 .. Len(cold) - count
          /\ \A i \in 1 .. Len(cold) - count :
               count + i \in DOMAIN cold /\ count + i \notin 1 .. count /\ rest[i] = cold[count + i]
          /\ \A i \in DOMAIN cold :
               i \in 1 .. count \/ (i - count \in 1 .. Len(cold) - count /\ rest[i - count] = cold[i])
      <4>1. RestOf(Entries, cold, count, rest)
        BY <1>4, <2>2, RestElements
      <4> HIDE DEF rest
      <4>2. QED
        BY <4>1, Zenon DEF RestOf
    <3>2. cold' = rest
      BY <2>1
    <3> HIDE DEF rest
    <3>3. QED
      BY <3>1, <3>2
  <2> HIDE DEF count
  <2>4. Len(cold') <= ColdLimit
    BY <1>4, <2>2, <2>3
  <2>5. \A i \in DOMAIN cold : cold[i] \in Entries /\ cold[i].pos \in SubChunks /\ cold[i].n \in Nat
    <3>1. \A i \in DOMAIN cold : cold[i] \in Entries
      BY <1>4, <2>3, ElementOfSeq
    <3>2. QED
      BY <3>1 DEF Entries
  <2>6. /\ \A i, j \in DOMAIN cold : cold[i].pos = cold[j].pos => i = j
        /\ \A i \in DOMAIN cold : cold[i].n = written[cold[i].pos] /\ cold[i].pos \in flushed
    BY <1>1 DEF SubChunkOwnerInv, ValueInv
  <2>7. P \subseteq SubChunks /\ P \subseteq flushed
        /\ \A i \in 1 .. count : cold[i].pos \in P
    <3>1. \A i \in 1 .. count : cold[i].pos \in P
      OBVIOUS
    <3>2. \A s \in P : \E i \in 1 .. count : s = cold[i].pos
      OBVIOUS
    <3> HIDE DEF P
    <3>3. \A i \in 1 .. count : cold[i].pos \in SubChunks /\ cold[i].pos \in flushed
      BY <2>3, <2>5, <2>6
    <3>4. QED
      BY <3>1, <3>2, <3>3
  <2>8. \A s \in P : g[s] = written[s] /\ g[s] \in Nat
    <3>1. TAKE s \in P
    <3>2. \E e \in batch : e.pos = s
      OBVIOUS
    <3> DEFINE e == CHOOSE x \in batch : x.pos = s
    <3>3. e \in batch /\ e.pos = s
      BY <3>2
    <3>4. g[s] = e.n
      OBVIOUS
    <3> HIDE DEF e, g
    <3>5. PICK i \in 1 .. count : e = cold[i]
      BY <3>3
    <3>6. QED
      BY <2>3, <2>5, <2>6, <3>3, <3>4, <3>5
  <2>9. g \in Payloads /\ DOMAIN g = P
    <3>1. DOMAIN g = P /\ g \in [P -> Nat]
      BY <2>8
    <3>2. QED
      BY <2>7, <3>1, ContentsType
  <2> HIDE DEF g, P
  <2>10. CASE Fail /\ UNCHANGED db
    <3>1. pc' = "unwind"
      BY <2>10 DEF Fail
    <3>2. ControlInv' /\ ~Intact'
      BY <1>1, <1>2, <3>1 DEF ControlInv, PcNames, Intact
    <3>3. StoreInv'
      BY <1>2, <1>4, <2>3, <2>4, <2>10 DEF StoreInv
    <3>4. QED
      BY <1>3, <3>2, <3>3 DEF CacheStoreInv
  <2>11. CASE db' = Over(db, g) /\ UNCHANGED pc
    <3>1. ControlInv'
      BY <1>1, <1>2, <2>11 DEF ControlInv
    <3>2. /\ db' \in Payloads /\ DOMAIN db' = DOMAIN db \cup P
          /\ \A s \in P : db'[s] = written[s]
          /\ \A s \in DOMAIN db \ P : db'[s] = db[s]
      <4>1. IsOver(db, g, db')
        BY <1>4, <2>9, <2>11, OverFacts, Zenon
      <4>2. QED
        BY <2>8, <2>9, <4>1 DEF IsOver
    <3>3. StoreInv'
      BY <1>2, <1>4, <2>3, <2>4, <3>2 DEF StoreInv
    <3>4. \A i \in DOMAIN cold' : \E j \in DOMAIN cold : cold'[i] = cold[j]
      BY <2>3
    <3>5. \A i, j \in DOMAIN cold' : cold'[i].pos = cold'[j].pos => i = j
      <4>1. TAKE i \in DOMAIN cold', j \in DOMAIN cold'
      <4>2. HAVE cold'[i].pos = cold'[j].pos
      <4>3. count + i = count + j
        <5>1. \A a \in DOMAIN cold' : count + a \in DOMAIN cold /\ cold'[a] = cold[count + a]
          BY <2>3, Zenon
        <5>2. \A a, b \in DOMAIN cold : cold[a].pos = cold[b].pos => a = b
          BY <2>6, Zenon
        <5>3. cold[count + i].pos = cold[count + j].pos
          BY <4>2, <5>1, Zenon
        <5>4. QED
          BY <5>1, <5>2, <5>3, Zenon
      <4>4. i \in Int /\ j \in Int /\ count \in Int
        BY <2>2, <2>3, <1>4
      <4>5. QED
        BY <4>3, <4>4
    <3>6. SubChunkOwnerInv'
      <4>1. /\ \A i, j \in DOMAIN pending' : i # j => pending'[i].chunks \cap pending'[j].chunks = {}
            /\ \A i \in DOMAIN pending' : \A c \in pending'[i].chunks : ~Cached(c)'
        BY <1>1, <1>2 DEF SubChunkOwnerInv, Cached
      <4>2. /\ \A i \in DOMAIN cold' : cold'[i].pos \notin DOMAIN hot'
            /\ \A i \in DOMAIN cold', j \in DOMAIN pending' : cold'[i].pos \notin DOMAIN pending'[j].data
        BY <1>1, <1>2, <3>4 DEF SubChunkOwnerInv
      <4>3. QED
        BY <3>5, <4>1, <4>2 DEF SubChunkOwnerInv
    <3>7. ValueInv'
      <4>1. /\ \A s \in DOMAIN hot' : hot'[s] = written'[s]
            /\ \A i \in DOMAIN pending' : \A s \in DOMAIN pending'[i].data : pending'[i].data[s] = written'[s]
        BY <1>1, <1>2 DEF ValueInv
      <4>2. \A i \in DOMAIN cold' : cold'[i].n = written'[cold'[i].pos] /\ cold'[i].pos \in flushed'
        BY <1>2, <2>6, <3>4
      <4>3. DOMAIN db' \subseteq flushed'
        BY <1>1, <1>2, <2>7, <3>2 DEF ValueInv
      <4>4. ASSUME NEW s \in SubChunks, ~Held(s)' PROVE IsStored(s)'
        <5>1. CASE s \in P
          BY <1>2, <3>2, <5>1 DEF IsStored
        <5>2. CASE s \notin P
          <6>1. ~(\E i \in DOMAIN cold : cold[i].pos = s)
            BY <2>3, <2>7, <4>4, <5>2 DEF Held
          <6>2. ~Held(s)
            BY <1>2, <4>4, <6>1 DEF Held, InSave
          <6>3. IsStored(s)
            BY <1>1, <6>2 DEF ValueInv
          <6>4. QED
            BY <1>2, <3>2, <5>2, <6>3 DEF IsStored
        <5>3. QED
          BY <5>1, <5>2
      <4>5. QED
        BY <4>1, <4>2, <4>3, <4>4 DEF ValueInv
    <3>8. QED
      BY <1>3, <3>1, <3>3, <3>6, <3>7 DEF CacheStoreInv
  <2>12. QED
    BY <2>1, <2>10, <2>11
<1>7. QED
  BY <1>5, <1>6

\* With all stages empty everything is in the database.
LEMMA EntitiesStep ==
  ASSUME CacheStoreInv, SaveEntities
  PROVE  CacheStoreInv'
<1>1. ControlInv /\ CacheInv /\ SavesInv /\ StoreInv /\ SubChunkOwnerInv /\ ValueInv /\ outcome # "success"
      /\ pc = "entities"
  BY DEF CacheStoreInv, Intact, ControlInv, SaveEntities
<1>2. UNCHANGED <<target, lru, hot, pending, cold, flushed, db, written>>
      /\ \/ pc' = "returned" /\ outcome' = "success"
         \/ pc' = "unwind" /\ outcome' = outcome
  BY DEF SaveEntities, cacheVars, storeVars, Fail
<1>3. CacheInv' /\ SavesInv' /\ StoreInv'
  BY <1>1, <1>2 DEF CacheInv, Cached, SavesInv, StoreInv
<1>4. ControlInv' /\ ~Intact'
  BY <1>1, <1>2 DEF ControlInv, PcNames, Intact
<1>5. Done'
  <2>1. lru = <<>> /\ pending = <<>> /\ cold = <<>>
    BY <1>1 DEF ControlInv
  <2>2. \A s \in SubChunks : ~Held(s)
    BY <1>1, <2>1 DEF CacheInv, Cached, Held, InSave
  <2>3. \A s \in SubChunks : IsStored(s)
    BY <1>1, <2>2 DEF ValueInv
  <2>4. QED
    BY <1>2, <2>3 DEF Done, IsStored
<1>6. QED
  BY <1>3, <1>4, <1>5 DEF CacheStoreInv

\* The steps that move nothing between the stages.
LEMMA ControlSteps ==
  ASSUME CacheStoreInv, UNCHANGED <<cacheVars, pending, storeVars, written>>,
         ControlInv', Intact' => Intact, outcome' = "success" => outcome = "success"
  PROVE  CacheStoreInv'
<1>1. UNCHANGED <<lru, hot, pending, cold, flushed, db, written>>
  BY DEF cacheVars, storeVars
<1>2. CacheInv' /\ SavesInv' /\ StoreInv'
  BY <1>1 DEF CacheStoreInv, CacheInv, Cached, SavesInv, StoreInv
<1>3. SubChunkOwnerInv => SubChunkOwnerInv'
  BY <1>1 DEF SubChunkOwnerInv, Cached
<1>4. ValueInv => ValueInv'
  BY <1>1 DEF ValueInv, Held, InSave, IsStored
<1>5. Done => Done'
  BY <1>1 DEF Done, IsStored
<1>6. QED
  BY <1>2, <1>3, <1>4, <1>5 DEF CacheStoreInv

\* The pool changes the state of a save and nothing else.
LEMMA RestatedStep ==
  ASSUME CacheStoreInv, NEW k, NEW st \in SaveStates, pending' = [pending EXCEPT ![k].state = st],
         UNCHANGED <<pc, target, cacheVars, storeVars, written, outcome>>
  PROVE  CacheStoreInv'
<1>1. UNCHANGED <<pc, target, lru, hot, cold, flushed, db, written, outcome>>
  BY DEF cacheVars, storeVars
<1>2. /\ ControlInv /\ CacheInv /\ SavesInv /\ StoreInv
      /\ Intact => SubChunkOwnerInv /\ ValueInv
      /\ outcome = "success" => Done
  BY DEF CacheStoreInv
<1>3. /\ pending \in Seq(Saves) /\ Len(pending) \in Nat /\ DOMAIN pending = 1 .. Len(pending)
      /\ \A i \in DOMAIN pending : pending[i] \in Saves
  BY <1>2, LenProperties, ElementOfSeq DEF SavesInv
<1>4. DOMAIN pending' = DOMAIN pending
  OBVIOUS
<1>5. \A i \in DOMAIN pending :
        /\ pending'[i] \in Saves
        /\ pending'[i].chunks = pending[i].chunks /\ pending'[i].data = pending[i].data
  <2>1. TAKE i \in DOMAIN pending
  <2>2. pending[i] \in Saves
    BY <1>3
  <2>3. pending'[i] = IF i = k THEN [pending[i] EXCEPT !.state = st] ELSE pending[i]
    BY <1>3
  <2>4. QED
    BY <2>2, <2>3 DEF Saves
<1>6. pending' \in Seq(Saves) /\ Len(pending') = Len(pending)
  <2>1. pending' \in [1 .. Len(pending) -> Saves]
    <3>1. pending' = [i \in DOMAIN pending |-> pending'[i]]
      OBVIOUS
    <3>2. QED
      BY <1>3, <1>5, <3>1
  <2>2. pending' \in Seq(Saves)
    BY <1>3, <2>1, SeqDef
  <2>3. QED
    BY <1>3, <2>1, <2>2, LenProperties
<1>7. pending = <<>> => pending' = <<>>
  BY <1>3, <1>6, EmptySeq
<1>8. ControlInv'
  BY <1>1, <1>2, <1>7 DEF ControlInv
<1>9. CacheInv' /\ StoreInv'
  BY <1>1, <1>2 DEF CacheInv, Cached, StoreInv
<1>10. SavesInv'
  BY <1>2, <1>4, <1>5, <1>6 DEF SavesInv
<1>11. SubChunkOwnerInv => SubChunkOwnerInv'
  BY <1>1, <1>4, <1>5 DEF SubChunkOwnerInv, Cached
<1>12. ValueInv => ValueInv'
  BY <1>1, <1>4, <1>5 DEF ValueInv, Held, InSave, IsStored
<1>13. Done => Done'
  BY <1>1 DEF Done, IsStored
<1>14. QED
  BY <1>1, <1>2, <1>8, <1>9, <1>10, <1>11, <1>12, <1>13 DEF CacheStoreInv, Intact

(***************************************************************************)
(* The theorems.                                                           *)
(***************************************************************************)

LEMMA CacheStoreInit ==
  ASSUME Init
  PROVE  CacheStoreInv
<1>1. target \in SubChunks
  <2>1. \E s \in SubChunks : TRUE
    <3>1. PICK c \in Chunks, l \in Layers : TRUE
      BY BdxAssumption
    <3>2. <<c, l>> \in SubChunks
      BY DEF SubChunks
    <3>3. QED
      BY <3>2
  <2>2. QED
    BY <2>1 DEF Init
<1>2. ControlInv
  BY <1>1 DEF Init, ControlInv, PcNames
<1>3. /\ lru = <<>> /\ pending = <<>> /\ cold = <<>> /\ DOMAIN hot = {} /\ DOMAIN db = {}
      /\ hot = <<>> /\ db = <<>> /\ flushed = {} /\ outcome = "none"
      /\ written = [s \in SubChunks |-> 0]
  BY DEF Init
<1>4. hot \in Payloads /\ db \in Payloads
  <2>1. <<>> \in Seq(Nat) /\ Len(<<>>) = 0
    BY EmptySeq
  <2>2. <<>> \in [1 .. 0 -> Nat] /\ 1 .. 0 = {}
    BY <2>1, LenProperties
  <2>3. hot \in [{} -> Nat] /\ db \in [{} -> Nat]
    BY <1>3, <2>2
  <2>4. QED
    BY <2>3, ContentsType
<1>5. /\ lru \in Seq(Chunks) /\ Len(lru) = 0 /\ pending \in Seq(Saves) /\ Len(pending) = 0
      /\ cold \in Seq(Entries) /\ Len(cold) = 0
      /\ DOMAIN lru = {} /\ DOMAIN pending = {} /\ DOMAIN cold = {}
  BY <1>3, EmptySeq
<1>6. CacheInv
  BY <1>3, <1>4, <1>5, BdxAssumption DEF CacheInv
<1>7. SavesInv
  BY <1>5, BdxAssumption DEF SavesInv
<1>8. StoreInv
  BY <1>3, <1>4, <1>5, BdxAssumption DEF StoreInv
<1>9. SubChunkOwnerInv
  BY <1>5 DEF SubChunkOwnerInv
<1>10. ValueInv
  BY <1>3, <1>5 DEF ValueInv, IsStored
<1>11. QED
  BY <1>2, <1>3, <1>6, <1>7, <1>8, <1>9, <1>10 DEF CacheStoreInv

LEMMA CacheStoreStep ==
  ASSUME CacheStoreInv, [Next]_vars
  PROVE  CacheStoreInv'
<1>1. ControlInv /\ (outcome = "success" => pc = "returned")
  BY DEF CacheStoreInv, ControlInv
<1>2. CASE NextBlock
  <2>1. ControlInv' /\ Intact
    BY <1>1, <1>2 DEF NextBlock, ControlInv, PcNames, Intact
  <2>2. QED
    BY <1>2, <2>1, ControlSteps DEF NextBlock
<1>3. CASE WaitForSave
  BY <1>3, CompleteStep DEF WaitForSave
<1>4. CASE MakeRoom
  <2>1. pc = "acquire" /\ UNCHANGED <<target, written, outcome>> /\ Len(lru) >= CacheLimit
    BY <1>4 DEF MakeRoom
  <2>2. lru # <<>>
    <3>1. CacheLimit \in Nat \ {0} /\ Len(<<>>) = 0
      BY BdxAssumption
    <3>2. QED
      BY <2>1, <3>1
  <2>3. CASE CompleteNext
    BY <2>1, <2>3, CompleteStep
  <2>4. CASE FlushOldest /\ UNCHANGED pc
    BY <2>1, <2>2, <2>4, FlushStep
  <2>5. QED
    BY <1>4, <2>3, <2>4 DEF MakeRoom
<1>5. CASE UseCached \/ UseFresh \/ ReloadCold \/ ReloadStored
  BY <1>5, AcquireSteps
<1>6. CASE StreamFails
  <2>1. ControlInv' /\ Intact
    BY <1>1, <1>6 DEF StreamFails, Fail, ControlInv, PcNames, Intact
  <2>2. QED
    BY <1>6, <2>1, ControlSteps DEF StreamFails
<1>7. CASE StreamEnds
  <2>1. ControlInv' /\ Intact
    BY <1>1, <1>7 DEF StreamEnds, ControlInv, PcNames, Intact
  <2>2. QED
    BY <1>7, <2>1, ControlSteps DEF StreamEnds
<1>8. CASE FlushRest
  <2>1. pc = "flush" /\ UNCHANGED <<target, written, outcome>>
    BY <1>8 DEF FlushRest
  <2>2. CASE CompleteNext
    BY <2>1, <2>2, CompleteStep
  <2>3. CASE lru # <<>> /\ FlushOldest /\ UNCHANGED pc
    BY <2>1, <2>3, FlushStep
  <2>4. CASE lru = <<>> /\ pc' = "join" /\ UNCHANGED <<cacheVars, pending, storeVars>>
    <3>1. ControlInv' /\ Intact
      BY <1>1, <2>1, <2>4 DEF ControlInv, PcNames, Intact, cacheVars
    <3>2. QED
      BY <2>1, <2>4, <3>1, ControlSteps
  <2>5. QED
    BY <1>8, <2>2, <2>3, <2>4 DEF FlushRest
<1>9. CASE JoinRest
  <2>1. pc = "join" /\ UNCHANGED <<target, written, outcome>>
    BY <1>9 DEF JoinRest
  <2>2. CASE CompleteNext
    BY <2>1, <2>2, CompleteStep
  <2>3. CASE pending = <<>> /\ pc' = "spill" /\ UNCHANGED <<cacheVars, pending, storeVars>>
    <3>1. ControlInv' /\ Intact
      BY <1>1, <2>1, <2>3 DEF ControlInv, PcNames, Intact, cacheVars
    <3>2. QED
      BY <2>1, <2>3, <3>1, ControlSteps
  <2>4. QED
    BY <1>9, <2>2, <2>3 DEF JoinRest
<1>10. CASE SpillCold
  BY <1>10, SpillStep
<1>11. CASE SaveEntities
  BY <1>11, EntitiesStep
<1>12. CASE Unwind
  <2>1. ControlInv' /\ ~Intact'
    BY <1>1, <1>12 DEF Unwind, ControlInv, PcNames, Intact
  <2>2. QED
    BY <1>12, <2>1, ControlSteps DEF Unwind
<1>13. CASE StartEncode
  <2>1. PICK i : pending' = [pending EXCEPT ![i].state = "running"]
    BY <1>13 DEF StartEncode
  <2>2. QED
    BY <1>13, <2>1, RestatedStep DEF StartEncode, SaveStates
<1>14. CASE FinishEncode
  <2>1. PICK i \in InState("running"), st \in {"done", "failed"} :
             pending' = [pending EXCEPT ![i].state = st]
    BY <1>14 DEF FinishEncode
  <2>2. QED
    BY <1>14, <2>1, RestatedStep DEF FinishEncode, SaveStates
<1>15. CASE UNCHANGED vars
  <2>1. ControlInv'
    BY <1>1, <1>15 DEF ControlInv, vars, cacheVars, storeVars
  <2>2. QED
    BY <1>15, <2>1, ControlSteps DEF vars, Intact
<1>16. QED
  BY <1>2, <1>3, <1>4, <1>5, <1>6, <1>7, <1>8, <1>9, <1>10, <1>11, <1>12, <1>13, <1>14, <1>15
  DEF Next, Caller, SavePool, Returned

LEMMA CacheStoreInvariance == Spec \/ StructureSpec => []CacheStoreInv
<1>1. Init => CacheStoreInv
  BY CacheStoreInit
<1>2. CacheStoreInv /\ [Next]_vars => CacheStoreInv'
  BY CacheStoreStep
<1>3. StructureInit => Init
  BY DEF StructureInit
<1>4. [StructureNext]_structure => [Next]_vars
  BY DEF StructureNext, ByWorld, ByChunks, structure, vars
<1>5. QED
  BY <1>1, <1>2, <1>3, <1>4, PTL DEF Spec, StructureSpec

\* The variables keep their types, and the cache holds a chunk for each of its
\* subchunks and none twice.
THEOREM CacheTypeOK == Spec \/ StructureSpec => []TypeOK
<1>1. ASSUME CacheStoreInv PROVE TypeOK
  <2>1. ControlInv /\ CacheInv /\ SavesInv /\ StoreInv
    BY <1>1 DEF CacheStoreInv
  <2>2. pc \in PcNames /\ target \in SubChunks /\ outcome \in {"none", "success", "failure"}
    BY <2>1 DEF ControlInv
  <2>3. lru \in Seq(Chunks) /\ \A i, j \in DOMAIN lru : lru[i] = lru[j] => i = j
    BY <2>1 DEF CacheInv
  <2>4. DOMAIN hot \subseteq SubChunks /\ \A s \in DOMAIN hot : hot[s] \in Nat /\ Cached(s[1])
    BY <2>1, ContentsType DEF CacheInv
  <2>5. \A i \in DOMAIN pending :
          /\ pending[i].chunks \subseteq Chunks
          /\ DOMAIN pending[i].data \subseteq LayersOf(pending[i].chunks)
          /\ pending[i].state \in {"queued", "running", "done", "failed"}
    <3>1. \A i \in DOMAIN pending : pending[i] \in Saves
      BY <2>1, ElementOfSeq, LenProperties DEF SavesInv
    <3>2. QED
      BY <2>1, <3>1 DEF SavesInv, Saves, SaveStates
  <2>6. \A i \in DOMAIN cold : cold[i].pos \in SubChunks /\ cold[i].n \in Nat
    <3>1. \A i \in DOMAIN cold : cold[i] \in Entries
      BY <2>1, ElementOfSeq, LenProperties DEF StoreInv
    <3>2. QED
      BY <3>1 DEF Entries
  <2>7. flushed \subseteq SubChunks /\ DOMAIN db \subseteq SubChunks
    BY <2>1, ContentsType DEF StoreInv
  <2>8. QED
    BY <2>2, <2>3, <2>4, <2>5, <2>6, <2>7 DEF TypeOK
<1>2. QED
  BY <1>1, CacheStoreInvariance, PTL

\* The stages never outgrow the limits that write_to_world derives from its
\* memory budget and the number of workers.
THEOREM CachesStayBounded == Spec \/ StructureSpec => []CachesBounded
<1>1. CacheStoreInv => CachesBounded
  BY DEF CacheStoreInv, CacheInv, SavesInv, StoreInv, CachesBounded
<1>2. QED
  BY <1>1, CacheStoreInvariance, PTL

LEMMA AtMostOne ==
  ASSUME NEW T, \A i, j \in T : i = j
  PROVE  Cardinality(T) \in {0, 1} /\ (T = {} => Cardinality(T) = 0)
<1>1. CASE T = {}
  BY <1>1, FS_EmptySet
<1>2. CASE T # {}
  <2>1. PICK x \in T : T = {x}
    BY <1>2
  <2>2. QED
    BY <2>1, FS_Singleton
<1>3. QED
  BY <1>1, <1>2

LEMMA OneOwnerHolds ==
  ASSUME CacheInv, SavesInv, SubChunkOwnerInv
  PROVE  OneOwner
<1>1. ASSUME NEW c \in Chunks
      PROVE  Cardinality({i \in DOMAIN pending : c \in pending[i].chunks})
               + (IF Cached(c) THEN 1 ELSE 0) <= 1
  <2> DEFINE T == {i \in DOMAIN pending : c \in pending[i].chunks}
  <2>1. \A i, j \in T : i = j
    BY DEF SubChunkOwnerInv
  <2>2. Cached(c) => T = {}
    BY DEF SubChunkOwnerInv
  <2> HIDE DEF T
  <2>3. Cardinality(T) \in {0, 1} /\ (T = {} => Cardinality(T) = 0)
    BY <2>1, AtMostOne
  <2>4. QED
    BY <2>2, <2>3 DEF T
<1>2. ASSUME NEW s \in SubChunks
      PROVE  Cardinality(InCold(s)) + (IF s \in DOMAIN hot THEN 1 ELSE 0)
               + Cardinality({i \in DOMAIN pending : s \in DOMAIN pending[i].data}) <= 1
  <2> DEFINE T == {i \in DOMAIN pending : s \in DOMAIN pending[i].data}
  <2>1. \A i, j \in InCold(s) : i = j
    BY DEF SubChunkOwnerInv, InCold
  <2>2. \A i \in DOMAIN pending : s \in DOMAIN pending[i].data => s[1] \in pending[i].chunks
    BY DEF SavesInv, LayersOf
  <2>3. \A i, j \in T : i = j
    BY <2>2 DEF SubChunkOwnerInv
  <2>4. s \in DOMAIN hot => T = {} /\ InCold(s) = {}
    BY <2>2 DEF CacheInv, SubChunkOwnerInv, InCold
  <2>5. T = {} \/ InCold(s) = {}
    BY DEF SubChunkOwnerInv, InCold
  <2> HIDE DEF T
  <2>6. /\ Cardinality(T) \in {0, 1} /\ (T = {} => Cardinality(T) = 0)
        /\ Cardinality(InCold(s)) \in {0, 1} /\ (InCold(s) = {} => Cardinality(InCold(s)) = 0)
    BY <2>1, <2>3, AtMostOne
  <2>7. QED
    BY <2>4, <2>5, <2>6 DEF T
<1>3. QED
  BY <1>1, <1>2 DEF OneOwner

\* Until the conversion is given up, the newest contents of every subchunk are in
\* exactly one of cache, save, cold cache and database; when it succeeds they are
\* in the database.  This is what acquire_subchunk's order of lookups, the wait
\* for a chunk's save and insert_cold's erasure are for.
THEOREM NoWriteIsLost == Spec \/ StructureSpec => []NoWriteLost
<1>1. ASSUME CacheStoreInv PROVE NoWriteLost
  <2>1. ASSUME Intact PROVE OneOwner /\ \A s \in SubChunks : Newest(s) = written[s]
    <3>1. CacheInv /\ SavesInv /\ SubChunkOwnerInv /\ ValueInv
      BY <1>1, <2>1 DEF CacheStoreInv
    <3>2. OneOwner
      BY <3>1, OneOwnerHolds
    <3>3. ASSUME NEW s \in SubChunks PROVE Newest(s) = written[s]
      <4>1. CASE s \in DOMAIN hot
        BY <3>1, <4>1 DEF Newest, ValueInv
      <4>2. CASE s \notin DOMAIN hot /\ InSave(s)
        <5> DEFINE i == CHOOSE j \in DOMAIN pending : s \in DOMAIN pending[j].data
        <5>1. i \in DOMAIN pending /\ s \in DOMAIN pending[i].data
          BY <4>2 DEF InSave
        <5>2. Newest(s) = pending[i].data[s]
          BY <4>2 DEF Newest, InSave
        <5> HIDE DEF i
        <5>3. QED
          BY <3>1, <5>1, <5>2 DEF ValueInv
      <4>3. CASE s \notin DOMAIN hot /\ ~InSave(s) /\ InCold(s) # {}
        <5> DEFINE i == CHOOSE j \in InCold(s) : TRUE
        <5>1. i \in DOMAIN cold /\ cold[i].pos = s
          BY <4>3 DEF InCold
        <5>2. Newest(s) = cold[i].n
          BY <4>3 DEF Newest, InSave
        <5> HIDE DEF i
        <5>3. QED
          BY <3>1, <5>1, <5>2 DEF ValueInv
      <4>4. CASE s \notin DOMAIN hot /\ ~InSave(s) /\ InCold(s) = {}
        <5>1. IsStored(s)
          BY <3>1, <4>4 DEF ValueInv, Held, InCold
        <5>2. QED
          BY <4>4, <5>1 DEF Newest, InSave, IsStored
      <4>5. QED
        BY <4>1, <4>2, <4>3, <4>4
    <3>4. QED
      BY <3>2, <3>3
  <2>2. ASSUME outcome = "success", NEW s \in SubChunks, written[s] > 0
        PROVE  s \in DOMAIN db /\ db[s] = written[s]
    <3>1. IsStored(s) /\ written[s] # 0
      BY <1>1, <2>2 DEF CacheStoreInv, ControlInv, Done
    <3>2. QED
      BY <3>1 DEF IsStored
  <2>3. QED
    BY <2>1, <2>2 DEF NoWriteLost
<1>2. QED
  BY <1>1, CacheStoreInvariance, PTL

(***************************************************************************)
(* The spool of placements: its invariant.                                 *)
(***************************************************************************)

Building == {"create", "append", "publish", "failed"}
Changing == {"drain", "remove", "reopen"}
Reading == {"read", "release"}
Owning == {"append", "publish", "failed", "discard", "remove"}
Asking == {"ensure", "waitBuild", "create", "append", "publish", "acquire"}
Failing == {"failed", "discard"}
CallNames == {"idle", "stream", "invalidate", "assign"} \cup Asking \cup Failing \cup Changing \cup Reading
Reasons == {"fault", "limit", "decode"}

ReadersOf == {t \in Threads : th[t].pc \in Reading}
Mode == IF boundsOnly THEN "bounds" ELSE "full"
Decoded == Contents[source]["stream"]
Current == Normalized(Decoded.placed, parsed.min, parsed.dim, mOffset)

IsSpool(s) == s = [dir |-> s.dir, shards |-> s.shards] /\ s.dir \in Nat
IsCall(c) ==
  /\ c = [pc |-> c.pc, want |-> c.want, spool |-> c.spool, change |-> c.change,
          alone |-> c.alone, reply |-> c.reply]
  /\ c.pc \in CallNames /\ IsSpool(c.spool) /\ c.alone \in BOOLEAN

\* Types, and where a thread has a directory.
ThreadsInv ==
  /\ th = [t \in Threads |-> th[t]]
  /\ \A t \in Threads : IsCall(th[t])
  /\ \A t \in Threads : th[t].pc \notin Owning \cup {"read"} => th[t].spool.dir = 0
  /\ disk \subseteq Nat \ {0} /\ IsFiniteSet(disk) /\ IsSpool(published)
  /\ ready \in BOOLEAN /\ building \in BOOLEAN /\ invalidating \in BOOLEAN /\ alive \in BOOLEAN

\* One thread builds, one throws away, and none reads what is thrown away.
MutexInv ==
  /\ building <=> \E t \in Threads : th[t].pc \in Building
  /\ \A t, u \in Threads : th[t].pc \in Building /\ th[u].pc \in Building => t = u
  /\ invalidating <=> \E t \in Threads : th[t].pc \in Changing
  /\ \A t, u \in Threads : th[t].pc \in Changing /\ th[u].pc \in Changing => t = u
  /\ building => ~ready
  /\ IsFiniteSet(ReadersOf) /\ readers = Cardinality(ReadersOf)
  /\ \A t, u \in Threads : th[t].pc \in {"remove", "reopen"} => th[u].pc \notin Reading

\* Who owns a directory owns it alone.
OwnerInv ==
  /\ published.dir # 0 => published.dir \in disk /\ (ready \/ \E t \in Threads : th[t].pc = "drain")
  /\ ready => published.dir # 0
  /\ \A t \in Threads : th[t].pc \in {"append", "publish", "read"} => th[t].spool.dir \in disk
  /\ \A t \in Threads : th[t].pc \in Owning /\ th[t].spool.dir # 0 =>
       /\ th[t].spool.dir # published.dir
       /\ \A u \in Threads \ {t} : th[u].spool.dir # th[t].spool.dir
  /\ ~alive => published.dir = 0 /\ \A t \in Threads : th[t].pc = "idle"

SpoolInv == ThreadsInv /\ MutexInv /\ OwnerInv

\* What the structure makes of a request: why it may fail, what it returns, the
\* shards that hold it and the entities of some columns.
Justified(reason) ==
  \/ reason = "fault"
  \/ reason = "limit" /\ options.limit > 0
  \/ reason = "decode" /\ ~Decoded.ok
ReplyExact(reply, want) ==
  IF reply.ok THEN Decoded.ok /\ reply.blocks = Replayed(Current, want) ELSE Justified(reply.reason)
OfNow(shards) == Decoded.ok /\ shards = Sharded(Current)

\* A structure is one file with one offset; read() is alone with it.
StructureInv ==
  /\ source \in Documents /\ mOffset \in Offsets \cup {Origin} /\ options \in Options
  /\ parsed.ok => parsed = Contents[source][Mode]
  /\ "ok" \in DOMAIN parsed
  /\ \A t \in Threads : th[t].pc \in Changing \cup {"invalidate", "assign"} =>
       \/ \E o \in Offsets \cup {Origin} : th[t].change = <<"offset", o>>
       \/ \E o \in Options : th[t].change = <<"options", o>>
       \/ th[t].alone /\ \E d \in Documents : th[t].change = <<"read", d>>
  /\ \A t \in Threads : th[t].pc \notin Changing \cup {"invalidate", "assign", "idle"} =>
       th[t].want \in Requests
  /\ \A t \in Threads : th[t].alone =>
       /\ th[t].pc \in Changing \cup {"invalidate", "assign"}
       /\ \A u \in Threads \ {t} : th[u].pc = "idle"
       /\ th[t].pc \notin {"invalidate", "drain"} => ~ready

\* What a call has found, as long as the structure was not changed under it.
CallRight(t) ==
  /\ th[t].pc = "publish" /\ ~stale => OfNow(th[t].spool.shards)
  /\ th[t].pc = "read" /\ ~stale /\ t \notin disturbed => OfNow(th[t].spool.shards)
  /\ th[t].pc = "release" /\ ~stale /\ t \notin disturbed /\ parsed.ok => ReplyExact(th[t].reply, th[t].want)
  /\ th[t].pc \in Failing => ~th[t].reply.ok
  /\ th[t].pc = "failed" /\ ~stale => Justified(th[t].reply.reason)
  /\ th[t].pc \in Failing /\ t \notin disturbed => Justified(th[t].reply.reason)
  /\ th[t].pc = "waitBuild" /\ ~stale /\ t \notin disturbed /\ error # "" => Justified(error)
  /\ th[t].pc \in Asking /\ t \notin disturbed => options.allow

\* And what it has answered.
AnswerRight ==
  /\ answer.kind = "chunks" /\ answer.exact =>
       parsed.ok /\ ReplyExact(answer.reply, answer.want) /\ answer.want \in Requests
  /\ answer.kind = "entities" =>
       answer.found = EntitiesFound(parsed, mOffset, answer.want) /\ answer.want \in Requests

ContentInv ==
  /\ ready /\ ~stale => OfNow(published.shards)
  /\ \A t \in Threads : CallRight(t)
  /\ building => error = ""
  /\ AnswerRight

\* No request fails because the shards it was given are gone.
ShardsStay ==
  /\ \A t \in Threads : th[t].pc = "read" => th[t].spool.dir \in disk
  /\ answer.kind = "chunks" /\ ~answer.reply.ok => answer.reply.reason # "gone"

GoneInv ==
  /\ \A t \in Threads : th[t].pc = "release" /\ ~th[t].reply.ok => th[t].reply.reason # "gone"
  /\ \A t \in Threads : th[t].pc \in Failing => th[t].reply.reason \in Reasons
  /\ error \in {""} \cup Reasons
  /\ answer.kind = "chunks" /\ ~answer.reply.ok => answer.reply.reason # "gone"

\* A thread whose build was thrown away builds again although a published spool
\* is about to be taken over: it would be overwritten.
Claims(t) == WaitForBuild(t) /\ th'[t].pc = "create" /\ published.dir # 0

CoverInv ==
  /\ building => published.dir = 0
  /\ \A t \in Threads : th[t].pc = "read" => th[t].spool.dir = published.dir
  /\ disk \ stuck \subseteq {published.dir} \cup {th[t].spool.dir : t \in Threads}
  /\ ~alive => disk \subseteq stuck

\* What two threads cannot come to.
PairInv == \A t, u \in Threads : th[u].pc = "drain" /\ published.dir # 0 => th[t].pc # "waitBuild"

LEMMA LeastNat ==
  ASSUME NEW S \in SUBSET Nat, S # {}
  PROVE  \E n \in S : \A k \in S : n <= k
<1> DEFINE R == {ss \in Nat \X Nat : ss[1] < ss[2]}
<1>1. IsWellFoundedOn(R, Nat)
  BY NatLessThanWellFounded DEF OpToRel
<1>2. PICK n \in S : \A k \in S : ~ (<<k, n>> \in R)
  <2>1. S \subseteq Nat /\ S # {}
    OBVIOUS
  <2> HIDE DEF R
  <2>2. QED
    BY <1>1, <2>1, WFMin
<1>3. \A k \in S : ~ (k < n)
  BY <1>2
<1>4. QED
  BY <1>3

\* A finite set of numbers has a bound: take the smallest that has none.
LEMMA FiniteIsBounded ==
  ASSUME NEW S \in SUBSET Nat, IsFiniteSet(S)
  PROVE  \E b \in Nat : \A s \in S : s <= b
<1> DEFINE Bounded1(B) == \E b \in Nat : \A s \in B : s <= b
           Bad == {n \in Nat : \E B \in SUBSET Nat : IsFiniteSet(B) /\ Cardinality(B) = n /\ ~Bounded1(B)}
<1>1. SUFFICES ASSUME ~Bounded1(S) PROVE FALSE
  OBVIOUS
<1>2. Cardinality(S) \in Bad
  BY <1>1, FS_CardinalityType
<1>3. PICK n \in Bad : \A k \in Bad : n <= k
  <2>1. Bad \in SUBSET Nat /\ Bad # {}
    BY <1>2
  <2> HIDE DEF Bad
  <2>2. QED
    BY <2>1, LeastNat
<1>4. PICK B \in SUBSET Nat : IsFiniteSet(B) /\ Cardinality(B) = n /\ ~Bounded1(B)
  BY <1>3
<1>5. PICK x \in B : TRUE
  <2>1. B # {}
    BY <1>4
  <2>2. QED
    BY <2>1
<1>6. IsFiniteSet(B \ {x}) /\ Cardinality(B \ {x}) = n - 1 /\ n \in Nat
  BY <1>3, <1>4, <1>5, FS_RemoveElement
<1>7. n - 1 \in Nat
  BY <1>6, FS_CardinalityType
<1>8. Bounded1(B \ {x})
  <2>1. n - 1 \notin Bad
    BY <1>3, <1>6, <1>7
  <2>2. B \ {x} \in SUBSET Nat
    OBVIOUS
  <2>3. QED
    BY <1>6, <1>7, <2>1, <2>2
<1>9. PICK b \in Nat : \A s \in B \ {x} : s <= b
  BY <1>8
<1>10. \A s \in B : s <= b + x
  BY <1>9, <1>5
<1>11. Bounded1(B)
  BY <1>5, <1>9, <1>10
<1>12. QED
  BY <1>4, <1>11

LEMMA MaxOfFinite ==
  ASSUME NEW S \in SUBSET Nat, S # {}, IsFiniteSet(S)
  PROVE  Max(S) \in S /\ \A k \in S : k <= Max(S)
<1>1. PICK b \in Nat : \A s \in S : s <= b
  BY FiniteIsBounded
<1> DEFINE D == {d \in Nat : b - d \in S}
<1>2. D \in SUBSET Nat /\ D # {}
  <2>1. PICK n \in S : TRUE
    OBVIOUS
  <2>2. b - n \in Nat /\ b - (b - n) = n
    BY <1>1, <2>1
  <2>3. b - n \in D
    BY <2>2
  <2>4. QED
    BY <2>3
<1>3. PICK d \in D : \A e \in D : d <= e
  <2> HIDE DEF D
  <2>1. QED
    BY <1>2, LeastNat
<1>4. d \in Nat /\ b - d \in S
  BY <1>3
<1>5. ASSUME NEW k \in S PROVE b - d >= k
  <2>1. b - k \in Nat /\ b - (b - k) = k
    BY <1>1
  <2>2. b - k \in D
    BY <2>1
  <2>3. d <= b - k
    BY <1>3, <2>2
  <2>4. QED
    BY <1>4, <2>3
<1>6. \E m \in S : \A k \in S : m >= k
  BY <1>4, <1>5
<1>7. Max(S) \in S /\ \A k \in S : Max(S) >= k
  BY <1>6 DEF Max
<1>8. QED
  BY <1>7

LEMMA FreshIsNew ==
  ASSUME ThreadsInv
  PROVE  /\ Fresh \in Nat \ {0} /\ Fresh \notin disk
         /\ \A t \in Threads : th[t].spool.dir < Fresh
         /\ \A d \in disk : d < Fresh
<1> DEFINE dirs == {th[t].spool.dir : t \in Threads}
           f == [t \in Threads |-> th[t].spool.dir]
<1>1. IsFiniteSet(dirs)
  <2>1. f \in Surjection(Threads, dirs)
    BY DEF Surjection
  <2>2. IsFiniteSet(Threads)
    BY SpoolAssumption
  <2> HIDE DEF f, dirs
  <2>3. QED
    BY <2>1, <2>2, FS_Surjection
<1>2. dirs \subseteq Nat
  BY DEF ThreadsInv, IsCall, IsSpool
<1> DEFINE S == {0} \cup disk \cup dirs
<1>3. IsFiniteSet(S) /\ S \subseteq Nat /\ S # {}
  <2>1. IsFiniteSet(disk) /\ disk \subseteq Nat
    BY DEF ThreadsInv
  <2> HIDE DEF dirs
  <2>2. IsFiniteSet({0} \cup disk)
    BY <2>1, FS_Singleton, FS_Union
  <2>3. IsFiniteSet(({0} \cup disk) \cup dirs)
    BY <1>1, <2>2, FS_Union
  <2>4. dirs \subseteq Nat
    BY <1>2 DEF dirs
  <2>5. QED
    BY <2>1, <2>3, <2>4
<1>4. Max(S) \in S /\ \A k \in S : k <= Max(S)
  <2> HIDE DEF S
  <2>1. QED
    BY <1>3, MaxOfFinite
<1>5. Fresh = Max(S) + 1
  BY DEF Fresh
<1>6. Max(S) \in Nat
  BY <1>3, <1>4
<1>7. \A k \in S : k \in Nat /\ k < Fresh
  <2> HIDE DEF S
  <2>1. QED
    BY <1>3, <1>4, <1>5, <1>6
<1>8. \A d \in disk : d < Fresh /\ d \in Nat
  BY <1>7
<1>9. \A t \in Threads : th[t].spool.dir < Fresh
  BY <1>7
<1>10. Fresh \in Nat \ {0}
  BY <1>5, <1>6
<1>11. QED
  BY <1>8, <1>9, <1>10

(***************************************************************************)
(* Steps of one thread.                                                    *)
(***************************************************************************)

\* A step of a call changes the record of one thread.
LEMMA Turn ==
  ASSUME ThreadsInv, NEW t \in Threads, NEW r, IsCall(r), th' = [th EXCEPT ![t] = r]
  PROVE  /\ th' = [u \in Threads |-> th'[u]]
         /\ th'[t] = r /\ \A u \in Threads \ {t} : th'[u] = th[u]
         /\ \A u \in Threads : IsCall(th'[u])
  BY DEF ThreadsInv

\* What changes of the record: the name of the step, its directory, its reply.
LEMMA Turned ==
  ASSUME ThreadsInv, NEW t \in Threads, NEW q \in CallNames
  PROVE  /\ IsCall([th[t] EXCEPT !.pc = q])
         /\ [th EXCEPT ![t].pc = q] = [th EXCEPT ![t] = [th[t] EXCEPT !.pc = q]]
         /\ LET r == [th[t] EXCEPT !.pc = q]
            IN  /\ r.pc = q /\ r.want = th[t].want /\ r.spool = th[t].spool
                /\ r.change = th[t].change /\ r.alone = th[t].alone /\ r.reply = th[t].reply
<1>1. IsCall(th[t]) /\ th = [u \in Threads |-> th[u]]
  BY DEF ThreadsInv
<1> DEFINE r == [th[t] EXCEPT !.pc = q]
<1>2. r = [pc |-> q, want |-> th[t].want, spool |-> th[t].spool, change |-> th[t].change,
           alone |-> th[t].alone, reply |-> th[t].reply]
  BY <1>1 DEF IsCall
<1>3. [th EXCEPT ![t].pc = q] = [th EXCEPT ![t] = r]
  BY <1>1
<1>4. IsCall(r)
  BY <1>1, <1>2 DEF IsCall
<1>5. QED
  BY <1>2, <1>3, <1>4

LEMMA IdleCall ==
  /\ IsCall(Idle) /\ Idle.pc = "idle" /\ Idle.spool = NoSpool /\ NoSpool.dir = 0 /\ IsSpool(NoSpool)
  /\ Idle.alone = FALSE /\ Idle.reply.ok = FALSE
  BY DEF Idle, NoSpool, IsCall, IsSpool, CallNames, Failure

\* The records a call begins with.
AskRecord(q, want) == [Idle EXCEPT !.pc = q, !.want = want]
ChangeRecord(change) == [Idle EXCEPT !.pc = "invalidate", !.change = change]
LoneRecord(change) == [Idle EXCEPT !.pc = "invalidate", !.change = change, !.alone = TRUE]

LEMMA AskingCall ==
  ASSUME NEW q \in CallNames, NEW want
  PROVE  LET r == AskRecord(q, want)
         IN  IsCall(r) /\ r.pc = q /\ r.want = want /\ r.spool = NoSpool /\ ~r.alone
<1>1. ASSUME NEW r, r = [Idle EXCEPT !.pc = q, !.want = want]
      PROVE  r = [pc |-> q, want |-> want, spool |-> Idle.spool, change |-> Idle.change,
                  alone |-> Idle.alone, reply |-> Idle.reply]
  BY <1>1, IdleCall DEF IsCall
<1>2. AskRecord(q, want) = [pc |-> q, want |-> want, spool |-> Idle.spool, change |-> Idle.change,
                            alone |-> Idle.alone, reply |-> Idle.reply]
  BY <1>1 DEF AskRecord
<1>3. QED
  BY <1>2, IdleCall DEF IsCall

LEMMA ChangingCall ==
  ASSUME NEW change, NEW r, r \in {ChangeRecord(change), LoneRecord(change)}
  PROVE  /\ IsCall(r) /\ r.pc = "invalidate" /\ r.change = change /\ r.spool = NoSpool
         /\ r = LoneRecord(change) => r.alone
         /\ r = ChangeRecord(change) => ~r.alone
<1>1. ASSUME NEW q, q = [Idle EXCEPT !.pc = "invalidate", !.change = change]
      PROVE  q = [pc |-> "invalidate", want |-> Idle.want, spool |-> Idle.spool, change |-> change,
                  alone |-> Idle.alone, reply |-> Idle.reply]
  BY <1>1, IdleCall DEF IsCall
<1>2. ChangeRecord(change) = [pc |-> "invalidate", want |-> Idle.want, spool |-> Idle.spool,
                              change |-> change, alone |-> Idle.alone, reply |-> Idle.reply]
  BY <1>1 DEF ChangeRecord
<1>3. ASSUME NEW q, NEW a, q = [Idle EXCEPT !.pc = "invalidate", !.change = change, !.alone = a]
      PROVE  q = [pc |-> "invalidate", want |-> Idle.want, spool |-> Idle.spool, change |-> change,
                  alone |-> a, reply |-> Idle.reply]
  BY <1>3, IdleCall DEF IsCall
<1> DEFINE yes == TRUE
<1>4. LoneRecord(change) = [Idle EXCEPT !.pc = "invalidate", !.change = change, !.alone = yes] /\ yes = TRUE
  BY Zenon DEF LoneRecord
<1> HIDE DEF yes
<1>8. LoneRecord(change) = [pc |-> "invalidate", want |-> Idle.want, spool |-> Idle.spool,
                            change |-> change, alone |-> yes, reply |-> Idle.reply]
  BY <1>3, <1>4
<1>9. LoneRecord(change).alone = TRUE /\ IsCall(LoneRecord(change))
  BY <1>4, <1>8, IdleCall DEF IsCall, CallNames
<1>5. ChangeRecord(change).alone = FALSE /\ IsCall(ChangeRecord(change))
  BY <1>2, IdleCall DEF IsCall, CallNames
<1>6. LoneRecord(change) # ChangeRecord(change)
  BY <1>5, <1>9
<1>7. r.pc = "invalidate" /\ r.change = change /\ r.spool = NoSpool
  BY <1>2, <1>8, IdleCall
<1>10. /\ r = LoneRecord(change) => r.alone
       /\ r = ChangeRecord(change) => ~r.alone
  BY <1>5, <1>9, Zenon
<1>11. IsCall(r)
  BY <1>5, <1>9
<1>12. QED
  BY <1>7, <1>10, <1>11

(***************************************************************************)
(* Mutual exclusion and ownership.                                         *)
(***************************************************************************)

Quiet == {"idle", "ensure", "stream", "waitBuild", "acquire", "invalidate", "assign"}
ownerVars == <<ready, building, invalidating, readers, published, disk, alive>>

\* Who moves between calm places disturbs nobody.
LEMMA QuietTurn ==
  ASSUME SpoolInv, NEW t \in Threads, th[t].pc \in Quiet, alive \/ th[t].pc # "idle",
         NEW r, IsCall(r), r.pc \in Quiet, r.spool.dir = 0,
         th' = [th EXCEPT ![t] = r], UNCHANGED ownerVars
  PROVE  SpoolInv'
<1> USE DEF SpoolInv, ownerVars
<1>1. /\ th' = [u \in Threads |-> th'[u]]
      /\ th'[t] = r /\ \A u \in Threads \ {t} : th'[u] = th[u]
      /\ \A u \in Threads : IsCall(th'[u])
  BY Turn
<1>2. \A u \in Threads :
        /\ th'[u].pc \in Building <=> th[u].pc \in Building
        /\ th'[u].pc \in Changing <=> th[u].pc \in Changing
        /\ th'[u].pc \in Reading <=> th[u].pc \in Reading
        /\ th'[u].pc \in Owning <=> th[u].pc \in Owning
        /\ th'[u].pc = "read" <=> th[u].pc = "read"
        /\ th'[u].pc = "drain" <=> th[u].pc = "drain"
        /\ th'[u].pc \in {"remove", "reopen"} <=> th[u].pc \in {"remove", "reopen"}
        /\ th'[u].pc \in {"append", "publish", "read"} <=> th[u].pc \in {"append", "publish", "read"}
  BY <1>1 DEF Quiet, Building, Changing, Reading, Owning
<1>3. \A u \in Threads : th'[u].spool.dir = th[u].spool.dir
  <2>1. th[t].spool.dir = 0
    BY DEF ThreadsInv, Quiet, Owning
  <2>2. QED
    BY <1>1, <2>1
<1>4. ThreadsInv'
  BY <1>1, <1>2, <1>3 DEF ThreadsInv
<1>5. ReadersOf' = ReadersOf
  BY <1>2 DEF ReadersOf
<1>6. MutexInv'
  BY <1>2, <1>5 DEF MutexInv
<1>7. OwnerInv'
  <2>1. alive
    BY DEF OwnerInv
  <2>2. QED
    BY <1>2, <1>3, <2>1 DEF OwnerInv
<1>8. QED
  BY <1>4, <1>6, <1>7

LEMMA NothingTurns ==
  ASSUME SpoolInv, UNCHANGED <<th, ownerVars>>
  PROVE  SpoolInv'
  BY DEF SpoolInv, ThreadsInv, MutexInv, OwnerInv, ownerVars, ReadersOf

LEMMA SleepKeeps ==
  ASSUME SpoolInv, NEW t \in Threads, NEW p, Sleep(t, p)
  PROVE  SpoolInv'
  BY NothingTurns DEF Sleep, ownerVars, spoolVars

\* A call begins with the record of an idle thread.
LEMMA BeginTurn ==
  ASSUME SpoolInv, NEW t \in Threads, NEW r, IsCall(r), r.pc \in Quiet, r.spool = NoSpool,
         Begin(t, r), UNCHANGED <<spoolVars, disk, alive>>
  PROVE  SpoolInv'
  BY QuietTurn, IdleCall DEF Begin, At, Quiet, ownerVars, spoolVars

LEMMA AskBegins ==
  ASSUME NEW t \in Threads, Ask(t)
  PROVE  \E want \in Requests : Begin(t, AskRecord(IF options.allow THEN "ensure" ELSE "stream", want))
  BY DEF Ask, AskRecord

LEMMA AskKeeps ==
  ASSUME SpoolInv, NEW t \in Threads, Ask(t)
  PROVE  SpoolInv'
<1> DEFINE q == IF options.allow THEN "ensure" ELSE "stream"
<1>1. q \in Quiet /\ q \in CallNames
  BY DEF Quiet, CallNames, Asking
<1>2. PICK want \in Requests : Begin(t, AskRecord(q, want))
  BY AskBegins
<1> HIDE DEF q
<1>3. UNCHANGED <<spoolVars, disk, alive>>
  BY DEF Ask
<1>4. QED
  BY <1>1, <1>2, <1>3, AskingCall, BeginTurn

\* A call that changes the structure begins alike.
LEMMA SetsBegin ==
  ASSUME NEW t \in Threads, SetOffset(t) \/ SetOptions(t) \/ ReadAgain(t)
  PROVE  \E change, r :
           /\ Begin(t, r) /\ r \in {ChangeRecord(change), LoneRecord(change)}
           /\ \/ r = ChangeRecord(change) /\ \E o \in Offsets : change = <<"offset", o>>
              \/ r = ChangeRecord(change) /\ \E o \in Options : change = <<"options", o>>
              \/ r = LoneRecord(change) /\ (\E d \in Documents : change = <<"read", d>>) /\ Others(t) = {}
<1>1. CASE SetOffset(t)
  <2>1. PICK o \in Offsets : Begin(t, ChangeRecord(<<"offset", o>>))
    BY <1>1 DEF SetOffset, ChangeRecord
  <2>2. QED
    BY <2>1
<1>2. CASE SetOptions(t)
  <2>1. PICK o \in Options : Begin(t, ChangeRecord(<<"options", o>>))
    BY <1>2 DEF SetOptions, ChangeRecord
  <2>2. QED
    BY <2>1
<1>3. CASE ReadAgain(t)
  <2>1. PICK d \in Documents : Begin(t, LoneRecord(<<"read", d>>)) /\ Others(t) = {}
    BY <1>3 DEF ReadAgain, LoneRecord
  <2>2. QED
    BY <2>1
<1>4. QED
  BY <1>1, <1>2, <1>3

LEMMA SetsKeep ==
  ASSUME SpoolInv, NEW t \in Threads, SetOffset(t) \/ SetOptions(t) \/ ReadAgain(t)
  PROVE  SpoolInv'
<1>1. UNCHANGED <<spoolVars, disk, alive>>
  BY DEF SetOffset, SetOptions, ReadAgain
<1>2. PICK change, r : Begin(t, r) /\ r \in {ChangeRecord(change), LoneRecord(change)}
  BY SetsBegin
<1>3. QED
  BY <1>1, <1>2, ChangingCall, BeginTurn DEF Quiet

LEMMA LeaveTurn ==
  ASSUME SpoolInv, NEW t \in Threads, th[t].pc \in Quiet \ {"idle"}, Leave(t), UNCHANGED ownerVars
  PROVE  SpoolInv'
  BY QuietTurn, IdleCall DEF Leave, Quiet

LEMMA GoTurn ==
  ASSUME SpoolInv, NEW t \in Threads, th[t].pc \in Quiet \ {"idle"},
         NEW q \in Quiet, Go(t, q), UNCHANGED ownerVars
  PROVE  SpoolInv'
<1>1. q \in CallNames /\ th[t].spool.dir = 0 /\ ThreadsInv
  BY DEF Quiet, CallNames, Asking, SpoolInv, ThreadsInv, Owning
<1>2. /\ IsCall([th[t] EXCEPT !.pc = q])
      /\ th' = [th EXCEPT ![t] = [th[t] EXCEPT !.pc = q]]
      /\ [th[t] EXCEPT !.pc = q].pc = q /\ [th[t] EXCEPT !.pc = q].spool = th[t].spool
  BY <1>1, Turned DEF Go
<1>3. QED
  BY <1>1, <1>2, QuietTurn

\* A thread that finds nobody building builds.
LEMMA CreateTurn ==
  ASSUME SpoolInv, NEW t \in Threads, th[t].pc \in Quiet \ {"idle"}, Go(t, "create"), ~building, ~ready,
         building' = TRUE, UNCHANGED <<ready, invalidating, readers, published, disk, alive>>
  PROVE  SpoolInv'
<1> USE DEF SpoolInv
<1>1. "create" \in CallNames /\ th[t].spool.dir = 0
  BY DEF Quiet, CallNames, Asking, ThreadsInv, Owning
<1> DEFINE r == [th[t] EXCEPT !.pc = "create"]
<1>2. IsCall(r) /\ th' = [th EXCEPT ![t] = r] /\ r.pc = "create" /\ r.spool = th[t].spool
  BY <1>1, Turned DEF Go
<1> HIDE DEF r
<1>3. /\ th' = [u \in Threads |-> th'[u]]
      /\ th'[t] = r /\ \A u \in Threads \ {t} : th'[u] = th[u]
      /\ \A u \in Threads : IsCall(th'[u])
  BY <1>2, Turn
<1>4. \A u \in Threads :
        /\ th'[u].pc \in Changing <=> th[u].pc \in Changing
        /\ th'[u].pc \in Reading <=> th[u].pc \in Reading
        /\ th'[u].pc \in Owning <=> th[u].pc \in Owning
        /\ th'[u].pc = "read" <=> th[u].pc = "read"
        /\ th'[u].pc = "drain" <=> th[u].pc = "drain"
        /\ th'[u].pc \in {"remove", "reopen"} <=> th[u].pc \in {"remove", "reopen"}
        /\ th'[u].pc \in {"append", "publish", "read"} <=> th[u].pc \in {"append", "publish", "read"}
  BY <1>2, <1>3 DEF Quiet, Changing, Reading, Owning
<1>5. \A u \in Threads : th'[u].spool.dir = th[u].spool.dir
  BY <1>1, <1>2, <1>3
<1>6. ThreadsInv'
  BY <1>3, <1>4, <1>5 DEF ThreadsInv
<1>7. ReadersOf' = ReadersOf
  BY <1>4 DEF ReadersOf
<1>8. \A u \in Threads : th'[u].pc \in Building <=> u = t
  BY <1>2, <1>3 DEF MutexInv, Building
<1>9. MutexInv'
  BY <1>4, <1>7, <1>8 DEF MutexInv
<1>10. OwnerInv'
  <2>1. alive
    BY DEF OwnerInv
  <2>2. QED
    BY <1>4, <1>5, <2>1 DEF OwnerInv
<1>11. QED
  BY <1>6, <1>9, <1>10

LEMMA EnsureKeeps ==
  ASSUME SpoolInv, NEW t \in Threads, Ensure(t)
  PROVE  SpoolInv'
<1>1. CASE Sleep(t, ~invalidating)
  BY <1>1, SleepKeeps
<1>2. CASE ~Sleep(t, ~invalidating)
  <2>1. /\ th[t].pc = "ensure" /\ UNCHANGED <<ready, invalidating, readers, published, disk, alive>>
        /\ \/ Go(t, "acquire") /\ building' = building
           \/ Go(t, "waitBuild") /\ building' = building
           \/ Go(t, "create") /\ building' = TRUE /\ ~ready /\ ~building
    BY <1>2 DEF Ensure, At
  <2>2. {"ensure", "acquire", "waitBuild"} \subseteq Quiet
    BY DEF Quiet
  <2>3. QED
    BY <2>1, <2>2, GoTurn, CreateTurn DEF ownerVars
<1>3. QED
  BY <1>1, <1>2

LEMMA WaitKeeps ==
  ASSUME SpoolInv, NEW t \in Threads, WaitForBuild(t)
  PROVE  SpoolInv'
<1>1. CASE Sleep(t, BuildOver)
  BY <1>1, SleepKeeps
<1>2. CASE ~Sleep(t, BuildOver)
  <2>1. /\ th[t].pc = "waitBuild" /\ UNCHANGED <<ready, invalidating, readers, published, disk, alive>>
        /\ \/ Go(t, "acquire") /\ building' = building
           \/ Leave(t) /\ building' = building
           \/ Go(t, "create") /\ building' = TRUE /\ ~ready /\ ~building
    BY <1>2 DEF WaitForBuild, At, Await, BuildOver
  <2>2. {"acquire", "waitBuild"} \subseteq Quiet
    BY DEF Quiet
  <2>3. QED
    BY <2>1, <2>2, GoTurn, LeaveTurn, CreateTurn DEF ownerVars
<1>3. QED
  BY <1>1, <1>2

LEMMA CalmSteps ==
  ASSUME SpoolInv, NEW t \in Threads,
         Stream(t) \/ EnsureRefused(t) \/ AssignOffset(t) \/ AssignOptions(t)
  PROVE  SpoolInv'
<1>1. th[t].pc \in {"stream", "ensure", "assign"} /\ Leave(t) /\ UNCHANGED ownerVars
  BY DEF Stream, EnsureRefused, AssignOffset, AssignOptions, At, ownerVars, spoolVars
<1>2. QED
  BY <1>1, LeaveTurn DEF Quiet

LEMMA ReadFileKeeps ==
  ASSUME SpoolInv, NEW t \in Threads, ReadFile(t)
  PROVE  SpoolInv'
<1> DEFINE r == LoneRecord(<<"offset", Origin>>)
<1>1. th[t].pc = "assign" /\ UNCHANGED ownerVars /\ (Leave(t) \/ th' = [th EXCEPT ![t] = r])
  BY DEF ReadFile, At, ownerVars, spoolVars, LoneRecord
<1>2. IsCall(r) /\ r.pc = "invalidate" /\ r.spool = NoSpool
  BY ChangingCall
<1> HIDE DEF r
<1>3. QED
  BY <1>1, <1>2, LeaveTurn, QuietTurn, IdleCall DEF Quiet

LEMMA EntitiesKeep ==
  ASSUME SpoolInv, NEW t \in Threads, AskEntities(t)
  PROVE  SpoolInv'
  BY NothingTurns DEF AskEntities, ownerVars, spoolVars

(***************************************************************************)
(* What the other steps make of a call.                                    *)
(***************************************************************************)

\* The step of one thread, and where it leads.
TurnOf(t, q) ==
  /\ th' = [u \in Threads |-> th'[u]]
  /\ \A u \in Threads \ {t} : th'[u] = th[u]
  /\ IsCall(th'[t]) /\ th'[t].pc = q
  /\ th'[t].want = th[t].want /\ th'[t].change = th[t].change /\ th'[t].alone = th[t].alone

LEMMA GoTo ==
  ASSUME ThreadsInv, NEW t \in Threads, NEW q \in CallNames, Go(t, q)
  PROVE  TurnOf(t, q) /\ th'[t].spool = th[t].spool /\ th'[t].reply = th[t].reply
<1> DEFINE r == [th[t] EXCEPT !.pc = q]
<1>1. /\ IsCall(r) /\ th' = [th EXCEPT ![t] = r]
      /\ r.pc = q /\ r.want = th[t].want /\ r.spool = th[t].spool
      /\ r.change = th[t].change /\ r.alone = th[t].alone /\ r.reply = th[t].reply
  BY Turned DEF Go
<1> HIDE DEF r
<1>2. QED
  BY <1>1, Turn DEF TurnOf

LEMMA PutSpool ==
  ASSUME ThreadsInv, NEW t \in Threads, NEW q \in CallNames, NEW s, IsSpool(s),
         th' = [th EXCEPT ![t].pc = q, ![t].spool = s]
  PROVE  TurnOf(t, q) /\ th'[t].spool = s /\ th'[t].reply = th[t].reply
<1>1. IsCall(th[t]) /\ th = [u \in Threads |-> th[u]]
  BY DEF ThreadsInv
<1>2. /\ th' = [u \in Threads |-> th'[u]] /\ \A u \in Threads \ {t} : th'[u] = th[u]
      /\ th'[t] = [pc |-> q, want |-> th[t].want, spool |-> s, change |-> th[t].change,
                   alone |-> th[t].alone, reply |-> th[t].reply]
  BY <1>1 DEF IsCall
<1>3. QED
  BY <1>1, <1>2 DEF TurnOf, IsCall

LEMMA PutDirectory ==
  ASSUME ThreadsInv, NEW t \in Threads, NEW q \in CallNames, NEW d \in Nat,
         th' = [th EXCEPT ![t].pc = q, ![t].spool.dir = d]
  PROVE  TurnOf(t, q) /\ th'[t].spool.dir = d /\ th'[t].reply = th[t].reply
<1>1. IsCall(th[t]) /\ th = [u \in Threads |-> th[u]]
  BY DEF ThreadsInv
<1>2. /\ th' = [u \in Threads |-> th'[u]] /\ \A u \in Threads \ {t} : th'[u] = th[u]
      /\ th'[t] = [pc |-> q, want |-> th[t].want, spool |-> [dir |-> d, shards |-> th[t].spool.shards],
                   change |-> th[t].change, alone |-> th[t].alone, reply |-> th[t].reply]
  BY <1>1 DEF IsCall, IsSpool
<1>3. QED
  BY <1>1, <1>2 DEF TurnOf, IsCall, IsSpool

\* Forms of a step that the lemmas below are about.
PutS(t, q, s) == [th EXCEPT ![t].pc = q, ![t].spool.shards = s]
PutR(t, q, a) == [th EXCEPT ![t].pc = q, ![t].reply = a]

LEMMA PutShards ==
  ASSUME ThreadsInv, NEW t \in Threads, NEW q \in CallNames, NEW s,
         th' = PutS(t, q, s)
  PROVE  /\ TurnOf(t, q) /\ th'[t].spool.dir = th[t].spool.dir /\ th'[t].spool.shards = s
         /\ th'[t].reply = th[t].reply
<1>1. IsCall(th[t]) /\ th = [u \in Threads |-> th[u]]
  BY DEF ThreadsInv
<1>2. /\ th' = [u \in Threads |-> th'[u]] /\ \A u \in Threads \ {t} : th'[u] = th[u]
      /\ th'[t] = [pc |-> q, want |-> th[t].want, spool |-> [dir |-> th[t].spool.dir, shards |-> s],
                   change |-> th[t].change, alone |-> th[t].alone, reply |-> th[t].reply]
  BY <1>1 DEF IsCall, IsSpool, PutS
<1>3. QED
  BY <1>1, <1>2 DEF TurnOf, IsCall, IsSpool

LEMMA PutReply ==
  ASSUME ThreadsInv, NEW t \in Threads, NEW q \in CallNames, NEW a,
         th' = PutR(t, q, a)
  PROVE  TurnOf(t, q) /\ th'[t].spool = th[t].spool /\ th'[t].reply = a
<1>1. IsCall(th[t]) /\ th = [u \in Threads |-> th[u]]
  BY DEF ThreadsInv
<1>2. /\ th' = [u \in Threads |-> th'[u]] /\ \A u \in Threads \ {t} : th'[u] = th[u]
      /\ th'[t] = [pc |-> q, want |-> th[t].want, spool |-> th[t].spool, change |-> th[t].change,
                   alone |-> th[t].alone, reply |-> a]
  BY <1>1 DEF IsCall, PutR
<1>3. QED
  BY <1>1, <1>2 DEF TurnOf, IsCall

Finished(t, q, s, a) == [th EXCEPT ![t].pc = q, ![t].spool = s, ![t].reply = a]

LEMMA Finish ==
  ASSUME ThreadsInv, NEW t \in Threads, NEW q \in CallNames, NEW a, NEW s, IsSpool(s),
         th' = Finished(t, q, s, a)
  PROVE  TurnOf(t, q) /\ th'[t].spool = s /\ th'[t].reply = a
<1>1. IsCall(th[t]) /\ th = [u \in Threads |-> th[u]]
  BY DEF ThreadsInv
<1>2. /\ th' = [u \in Threads |-> th'[u]] /\ \A u \in Threads \ {t} : th'[u] = th[u]
      /\ th'[t] = [pc |-> q, want |-> th[t].want, spool |-> s, change |-> th[t].change,
                   alone |-> th[t].alone, reply |-> a]
  BY <1>1 DEF IsCall, Finished
<1>3. QED
  BY <1>1, <1>2 DEF TurnOf, IsCall

LEMMA GoIdle ==
  ASSUME ThreadsInv, NEW t \in Threads, Leave(t)
  PROVE  /\ th' = [u \in Threads |-> th'[u]] /\ th'[t] = Idle
         /\ \A u \in Threads \ {t} : th'[u] = th[u]
  BY DEF ThreadsInv, Leave

\* What the steps that build do to the call of their thread.
LEMMA CreateEffect ==
  ASSUME SpoolInv, NEW t \in Threads, CreateDirectory(t)
  PROVE  /\ th[t].pc = "create" /\ th[t].spool.dir = 0
         /\ UNCHANGED <<structureVars, spoolVars, answer, alive, history>>
         /\ \/ TurnOf(t, "append") /\ th'[t].spool.dir = Fresh /\ disk' = disk \cup {Fresh}
            \/ /\ TurnOf(t, "failed") /\ th'[t].spool = th[t].spool /\ disk' = disk
               /\ ~th'[t].reply.ok /\ th'[t].reply.reason = "fault"
<1> USE DEF SpoolInv
<1>1. /\ th[t].pc = "create" /\ th[t].spool.dir = 0
      /\ UNCHANGED <<structureVars, spoolVars, answer, alive, history>>
  BY DEF CreateDirectory, At, ThreadsInv, Owning
<1>2. CASE /\ disk' = disk \cup {Fresh}
           /\ th' = [th EXCEPT ![t].pc = "append", ![t].spool.dir = Fresh]
  <2>1. Fresh \in Nat /\ "append" \in CallNames
    BY FreshIsNew DEF CallNames, Asking
  <2>2. TurnOf(t, "append") /\ th'[t].spool.dir = Fresh
    BY <1>2, <2>1, PutDirectory
  <2>3. QED
    BY <1>1, <1>2, <2>2, Zenon
<1>3. CASE /\ th' = [th EXCEPT ![t].pc = "failed", ![t].reply = [ok |-> FALSE, reason |-> "fault"]]
           /\ UNCHANGED disk
  <2> DEFINE a == [ok |-> FALSE, reason |-> "fault"]
  <2>1. th' = PutR(t, "failed", a) /\ ~a.ok /\ a.reason = "fault"
    BY <1>3 DEF PutR
  <2> HIDE DEF a
  <2>2. "failed" \in CallNames /\ disk' = disk
    BY <1>3 DEF CallNames, Failing
  <2>3. TurnOf(t, "failed") /\ th'[t].spool = th[t].spool /\ th'[t].reply = a
    BY <2>1, <2>2, PutReply
  <2>4. QED
    BY <1>1, <2>1, <2>2, <2>3, Zenon
<1>4. QED
  BY <1>2, <1>3 DEF CreateDirectory

LEMMA AppendEffect ==
  ASSUME SpoolInv, NEW t \in Threads, AppendPlacements(t)
  PROVE  /\ th[t].pc = "append"
         /\ UNCHANGED <<structureVars, spoolVars, disk, answer, alive, history>>
         /\ th'[t].spool.dir = th[t].spool.dir
         /\ \/ TurnOf(t, "publish") /\ OfNow(th'[t].spool.shards)
            \/ /\ TurnOf(t, "failed") /\ ~th'[t].reply.ok
               /\ th'[t].reply.reason \in Reasons
               /\ options \in Options => Justified(th'[t].reply.reason)
<1> USE DEF SpoolInv
<1>1. th[t].pc = "append" /\ UNCHANGED <<structureVars, spoolVars, disk, answer, alive, history>>
  BY DEF AppendPlacements, At
<1>2. {"publish", "failed"} \subseteq CallNames
  BY DEF CallNames, Asking, Failing
<1> DEFINE records == IF Decoded.ok THEN Current ELSE <<>>
           reason == IF Decoded.ok THEN "limit" ELSE "decode"
           full == options.limit # 0 /\ Cardinality(DOMAIN records) > options.limit
           fits == options.limit = 0 \/ Cardinality(DOMAIN records) <= options.limit
<1>3. \/ Decoded.ok /\ fits /\ th' = PutS(t, "publish", Sharded(records))
      \/ (~Decoded.ok \/ full) /\ th' = PutR(t, "failed", [ok |-> FALSE, reason |-> reason])
      \/ th' = PutR(t, "failed", [ok |-> FALSE, reason |-> "fault"])
  BY Zenon DEF AppendPlacements, Decoded, Current, PutS, PutR
<1>4. CASE Decoded.ok /\ th' = PutS(t, "publish", Sharded(records))
  <2>1. records = Current
    BY <1>4
  <2> HIDE DEF records
  <2>2. TurnOf(t, "publish") /\ th'[t].spool.dir = th[t].spool.dir /\ th'[t].spool.shards = Sharded(records)
    BY <1>2, <1>4, PutShards
  <2>3. QED
    BY <1>1, <1>4, <2>1, <2>2 DEF OfNow
<1>5. ASSUME NEW w, th' = PutR(t, "failed", [ok |-> FALSE, reason |-> w])
      PROVE  /\ TurnOf(t, "failed") /\ ~th'[t].reply.ok /\ th'[t].spool = th[t].spool
             /\ th'[t].reply.reason = w
  <2> DEFINE a == [ok |-> FALSE, reason |-> w]
  <2>1. th' = PutR(t, "failed", a) /\ ~a.ok /\ a.reason = w
    BY <1>5
  <2> HIDE DEF a
  <2>2. TurnOf(t, "failed") /\ th'[t].spool = th[t].spool /\ th'[t].reply = a
    BY <1>2, <2>1, PutReply
  <2>3. QED
    BY <1>5, <2>1, <2>2, Zenon
<1> HIDE DEF records
<1>6. ASSUME ~Decoded.ok \/ full, options \in Options PROVE Justified(reason)
  <2>1. options.limit \in Nat
    BY <1>6, SpoolAssumption
  <2>2. QED
    BY <1>6, <2>1 DEF Justified
<1>7. reason \in Reasons /\ "fault" \in Reasons /\ Justified("fault")
  BY DEF Reasons, Justified
<1> HIDE DEF reason, full, fits
<1>8. CASE (~Decoded.ok \/ full) /\ th' = PutR(t, "failed", [ok |-> FALSE, reason |-> reason])
  BY <1>1, <1>5, <1>6, <1>7, <1>8
<1>9. CASE th' = PutR(t, "failed", [ok |-> FALSE, reason |-> "fault"])
  BY <1>1, <1>5, <1>7, <1>9
<1>10. QED
  BY <1>3, <1>4, <1>8, <1>9

\* What a request reads of the spool it was given.
ShardsFor(t) == {th[t].spool.shards[placement_shard(c)] : c \in th[t].want}
Outside(t) ==
  \E records \in ShardsFor(t) : \E i \in DOMAIN records : ~InExtent(records[i][1], mOffset, parsed.dim)

LEMMA ReadEffect ==
  ASSUME SpoolInv, NEW t \in Threads, ReadShards(t)
  PROVE  /\ th[t].pc = "read" /\ TurnOf(t, "release") /\ th'[t].spool = NoSpool
         /\ UNCHANGED <<structureVars, spoolVars, disk, answer, alive, history>>
         /\ Outside(t) => ~th'[t].reply.ok /\ th'[t].reply.reason = "outside"
         /\ ~Outside(t) => /\ th'[t].reply.ok
                           /\ th'[t].reply.blocks = UNION {Replayed(records, th[t].want) : records \in ShardsFor(t)}
<1>1. th[t].pc = "read" /\ UNCHANGED <<structureVars, spoolVars, disk, answer, alive, history>>
  BY DEF ReadShards, At
<1>2. th[t].spool.dir \in disk
  BY <1>1 DEF SpoolInv, OwnerInv
<1> DEFINE blocks == UNION {Replayed(records, th[t].want) : records \in ShardsFor(t)}
           stored == \E records \in ShardsFor(t) : DOMAIN records # {}
           a == IF stored /\ th[t].spool.dir \notin disk THEN [ok |-> FALSE, reason |-> "gone"]
                ELSE IF Outside(t) THEN [ok |-> FALSE, reason |-> "outside"]
                ELSE [ok |-> TRUE, blocks |-> blocks]
<1>3. th' = Finished(t, "release", NoSpool, a)
  BY Zenon DEF ReadShards, Finished, ShardsFor, Outside
<1>4. /\ Outside(t) => ~a.ok /\ a.reason = "outside"
      /\ ~Outside(t) => a.ok /\ a.blocks = blocks
  <2> HIDE DEF stored, blocks
  <2>1. QED
    BY <1>2
<1> HIDE DEF a, blocks
<1>5. ThreadsInv /\ "release" \in CallNames /\ IsSpool(NoSpool)
  BY IdleCall DEF CallNames, Reading, SpoolInv
<1>6. TurnOf(t, "release") /\ th'[t].spool = NoSpool /\ th'[t].reply = a
  BY <1>3, <1>5, Finish
<1>7. QED
  BY <1>1, <1>4, <1>6, Zenon DEF blocks

(***************************************************************************)
(* The steps that build, read and throw away.                              *)
(***************************************************************************)

LEMMA CreateKeeps ==
  ASSUME SpoolInv, NEW t \in Threads, CreateDirectory(t)
  PROVE  SpoolInv'
<1> USE DEF SpoolInv
<1>1. /\ th[t].pc = "create" /\ th[t].spool.dir = 0 /\ alive
      /\ UNCHANGED <<ready, building, invalidating, readers, published, alive>>
  BY CreateEffect DEF spoolVars, OwnerInv
<1>2. CASE TurnOf(t, "append") /\ th'[t].spool.dir = Fresh /\ disk' = disk \cup {Fresh}
  <2>0. disk' = disk \cup {Fresh}
    BY <1>2
  <2>1. Fresh \in Nat \ {0} /\ Fresh \notin disk /\ \A u \in Threads : th[u].spool.dir < Fresh
    BY FreshIsNew
  <2>2. TurnOf(t, "append") /\ th'[t].spool.dir = Fresh
    BY <1>2
  <2> HIDE DEF Fresh
  <2>3. IsFiniteSet(disk')
    BY <2>0, FS_AddElement DEF ThreadsInv
  <2>4. ThreadsInv'
    BY <1>1, <2>0, <2>1, <2>2, <2>3 DEF ThreadsInv, TurnOf, Owning
  <2>5. ReadersOf' = ReadersOf
    BY <1>1, <2>2 DEF ReadersOf, TurnOf, Reading
  <2>6. \A u \in Threads : /\ th'[u].pc \in Building <=> th[u].pc \in Building
                           /\ th'[u].pc \in Changing <=> th[u].pc \in Changing
                           /\ th'[u].pc \in Reading <=> th[u].pc \in Reading
                           /\ th'[u].pc = "drain" <=> th[u].pc = "drain"
                           /\ th'[u].pc \in {"remove", "reopen"} <=> th[u].pc \in {"remove", "reopen"}
    BY <1>1, <2>2 DEF TurnOf, Building, Changing, Reading
  <2>7. MutexInv'
    BY <1>1, <2>5, <2>6 DEF MutexInv
  <2>8. OwnerInv'
    <3>1. published.dir # Fresh
      BY <2>1 DEF OwnerInv, ThreadsInv, IsSpool
    <3>2. \A u \in Threads \ {t} : th'[u] = th[u] /\ th'[u].spool.dir # Fresh
      BY <2>1, <2>2 DEF TurnOf, ThreadsInv, IsCall, IsSpool
    <3>3. th'[t].pc = "append" /\ th'[t].spool.dir = Fresh
      BY <2>2 DEF TurnOf
    <3>4. /\ published'.dir # 0 => published'.dir \in disk' /\ (ready' \/ \E u \in Threads : th'[u].pc = "drain")
          /\ ready' => published'.dir # 0
      BY <1>1, <2>0, <2>6 DEF OwnerInv
    <3>5. \A u \in Threads : th'[u].pc \in {"append", "publish", "read"} => th'[u].spool.dir \in disk'
      BY <2>0, <3>2, <3>3 DEF OwnerInv
    <3>6. \A u \in Threads : th'[u].pc \in Owning /\ th'[u].spool.dir # 0 =>
            /\ th'[u].spool.dir # published'.dir
            /\ \A v \in Threads \ {u} : th'[v].spool.dir # th'[u].spool.dir
      BY <1>1, <3>1, <3>2, <3>3 DEF OwnerInv
    <3>7. QED
      BY <1>1, <3>4, <3>5, <3>6 DEF OwnerInv
  <2>9. QED
    BY <2>4, <2>7, <2>8
<1>3. CASE TurnOf(t, "failed") /\ th'[t].spool = th[t].spool /\ disk' = disk
  <2>0. UNCHANGED disk
    BY <1>3
  <2>1. TurnOf(t, "failed") /\ th'[t].spool = th[t].spool
    BY <1>3
  <2>2. ThreadsInv'
    BY <1>1, <2>0, <2>1 DEF ThreadsInv, TurnOf, Owning
  <2>3. ReadersOf' = ReadersOf
    BY <1>1, <2>1 DEF ReadersOf, TurnOf, Reading
  <2>4. \A u \in Threads : /\ th'[u].pc \in Building <=> th[u].pc \in Building
                           /\ th'[u].pc \in Changing <=> th[u].pc \in Changing
                           /\ th'[u].pc \in Reading <=> th[u].pc \in Reading
                           /\ th'[u].pc = "drain" <=> th[u].pc = "drain"
                           /\ th'[u].pc \in {"remove", "reopen"} <=> th[u].pc \in {"remove", "reopen"}
                           /\ th'[u].spool.dir = th[u].spool.dir
    BY <1>1, <2>1 DEF TurnOf, Building, Changing, Reading
  <2>5. MutexInv'
    BY <1>1, <2>3, <2>4 DEF MutexInv
  <2>6. \A u \in Threads \ {t} : th'[u] = th[u]
    BY <2>1 DEF TurnOf
  <2>7. th'[t].pc = "failed" /\ th'[t].spool.dir = 0
    BY <1>1, <2>1 DEF TurnOf
  <2>8. OwnerInv'
    BY <1>1, <2>0, <2>4, <2>6, <2>7 DEF OwnerInv
  <2>9. QED
    BY <2>2, <2>5, <2>8
<1>4. QED
  BY <1>2, <1>3, CreateEffect

LEMMA AppendKeeps ==
  ASSUME SpoolInv, NEW t \in Threads, AppendPlacements(t)
  PROVE  SpoolInv'
<1> USE DEF SpoolInv
<1>1. th[t].pc = "append" /\ UNCHANGED ownerVars
  BY AppendEffect DEF spoolVars, ownerVars
<1>2. /\ TurnOf(t, "publish") \/ TurnOf(t, "failed")
      /\ th'[t].spool.dir = th[t].spool.dir
  BY AppendEffect
<1>3. \A u \in Threads : /\ th'[u].pc \in Building <=> th[u].pc \in Building
                         /\ th'[u].pc \in Changing <=> th[u].pc \in Changing
                         /\ th'[u].pc \in Reading <=> th[u].pc \in Reading
                         /\ th'[u].pc \in Owning <=> th[u].pc \in Owning
                         /\ th'[u].pc = "drain" <=> th[u].pc = "drain"
                         /\ th'[u].pc = "read" <=> th[u].pc = "read"
                         /\ th'[u].pc \in {"remove", "reopen"} <=> th[u].pc \in {"remove", "reopen"}
                         /\ th'[u].pc \in {"append", "publish", "read"} => th[u].pc \in {"append", "publish", "read"}
                         /\ th'[u].spool.dir = th[u].spool.dir
                         /\ IsCall(th'[u])
  BY <1>1, <1>2 DEF TurnOf, Building, Changing, Reading, Owning, ThreadsInv
<1>4. th' = [u \in Threads |-> th'[u]]
  BY <1>2 DEF TurnOf
<1>5. ThreadsInv'
  BY <1>1, <1>3, <1>4 DEF ThreadsInv, ownerVars
<1>6. ReadersOf' = ReadersOf
  BY <1>3 DEF ReadersOf
<1>7. MutexInv'
  BY <1>1, <1>3, <1>6 DEF MutexInv, ownerVars
<1>8. OwnerInv'
  BY <1>1, <1>3 DEF OwnerInv, ownerVars
<1>9. QED
  BY <1>5, <1>7, <1>8

LEMMA PublishKeeps ==
  ASSUME SpoolInv, NEW t \in Threads, Publish(t)
  PROVE  SpoolInv'
<1> USE DEF SpoolInv
<1>1. /\ th[t].pc = "publish" /\ alive /\ published' = th[t].spool /\ ready' = TRUE /\ building' = FALSE
      /\ th[t].spool.dir \in disk /\ th[t].spool.dir # 0
      /\ UNCHANGED <<invalidating, readers, disk, alive>>
  BY DEF Publish, At, OwnerInv, ThreadsInv
<1>2. TurnOf(t, "acquire") /\ th'[t].spool.dir = 0
  <2>1. "acquire" \in CallNames
    BY DEF CallNames, Asking
  <2>2. th' = [th EXCEPT ![t].pc = "acquire", ![t].spool = NoSpool]
    BY DEF Publish
  <2>3. QED
    BY <2>1, <2>2, PutSpool, IdleCall
<1>3. \A u \in Threads \ {t} : th'[u] = th[u]
  BY <1>2 DEF TurnOf
<1>4. \A u \in Threads : /\ th'[u].pc \notin Building
                         /\ th'[u].pc \in Changing <=> th[u].pc \in Changing
                         /\ th'[u].pc \in Reading <=> th[u].pc \in Reading
                         /\ th'[u].pc \in {"remove", "reopen"} <=> th[u].pc \in {"remove", "reopen"}
  BY <1>1, <1>2 DEF TurnOf, Building, Changing, Reading, MutexInv
<1>5. ThreadsInv'
  <2>1. IsCall(th[t]) /\ IsCall(th'[t]) /\ IsSpool(published')
    BY <1>1, <1>2 DEF ThreadsInv, TurnOf, IsCall
  <2>2. \A u \in Threads : IsCall(th'[u])
    BY <1>3, <2>1 DEF ThreadsInv
  <2>3. \A u \in Threads : th'[u].pc \notin Owning \cup {"read"} => th'[u].spool.dir = 0
    BY <1>2, <1>3 DEF ThreadsInv
  <2>4. QED
    BY <1>1, <1>2, <2>1, <2>2, <2>3 DEF ThreadsInv, TurnOf
<1>6. ReadersOf' = ReadersOf
  BY <1>4 DEF ReadersOf
<1>7. MutexInv'
  BY <1>1, <1>4, <1>6 DEF MutexInv
<1>8. OwnerInv'
  <2>1. th'[t].pc = "acquire" /\ "acquire" \notin Owning /\ "publish" \in Owning
    BY <1>2 DEF TurnOf, Owning
  <2>2. \A u \in Threads : th'[u].pc \in {"append", "publish", "read"} => th'[u].spool.dir \in disk'
    BY <1>1, <1>3, <2>1 DEF OwnerInv
  <2>3. \A u \in Threads \ {t} : th[u].spool.dir # th[t].spool.dir
    BY <1>1, <2>1 DEF OwnerInv
  <2>4. \A u \in Threads : th'[u].pc \in Owning /\ th'[u].spool.dir # 0 =>
            /\ th'[u].spool.dir # published'.dir
            /\ \A v \in Threads \ {u} : th'[v].spool.dir # th'[u].spool.dir
    BY <1>1, <1>2, <1>3, <2>1, <2>3 DEF OwnerInv
  <2>5. QED
    BY <1>1, <2>2, <2>4 DEF OwnerInv
<1>9. QED
  BY <1>5, <1>7, <1>8

LEMMA FailKeeps ==
  ASSUME SpoolInv, NEW t \in Threads, BuildFailed(t)
  PROVE  SpoolInv'
<1> USE DEF SpoolInv
<1>1. /\ th[t].pc = "failed" /\ alive /\ published' = NoSpool /\ ready' = FALSE /\ building' = FALSE
      /\ UNCHANGED <<invalidating, readers, disk, alive>>
  BY DEF BuildFailed, At, OwnerInv
<1>2. TurnOf(t, "discard") /\ th'[t].spool = th[t].spool
  BY GoTo DEF BuildFailed, CallNames, Failing
<1>3. \A u \in Threads : /\ th'[u].pc \notin Building
                         /\ th'[u].pc \in Changing <=> th[u].pc \in Changing
                         /\ th'[u].pc \in Reading <=> th[u].pc \in Reading
                         /\ th'[u].pc \in Owning <=> th[u].pc \in Owning
                         /\ th'[u].pc = "read" <=> th[u].pc = "read"
                         /\ th'[u].pc \in {"remove", "reopen"} <=> th[u].pc \in {"remove", "reopen"}
                         /\ th'[u].pc \in {"append", "publish", "read"} => th[u].pc \in {"append", "publish", "read"}
                         /\ th'[u].spool.dir = th[u].spool.dir
  BY <1>1, <1>2 DEF TurnOf, Building, Changing, Reading, Owning, MutexInv
<1>4. ThreadsInv'
  BY <1>1, <1>2, <1>3, IdleCall DEF ThreadsInv, TurnOf
<1>5. ReadersOf' = ReadersOf
  BY <1>3 DEF ReadersOf
<1>6. MutexInv'
  BY <1>1, <1>3, <1>5 DEF MutexInv
<1>7. OwnerInv'
  BY <1>1, <1>3, IdleCall DEF OwnerInv
<1>8. QED
  BY <1>4, <1>6, <1>7

\* Removing a directory that a thread owns leaves the others theirs.
LEMMA RemovedKeeps ==
  ASSUME SpoolInv, NEW t \in Threads, th[t].pc \in Owning, Removed(th[t].spool.dir)
  PROVE  /\ disk' \subseteq disk /\ IsFiniteSet(disk')
         /\ \A u \in Threads \ {t} : th[u].spool.dir \in disk => th[u].spool.dir \in disk'
         /\ published.dir \in disk => published.dir \in disk'
<1>1. disk' \subseteq disk /\ disk \ {th[t].spool.dir} \subseteq disk'
  BY DEF Removed
<1>2. IsFiniteSet(disk')
  BY <1>1, FS_Subset DEF SpoolInv, ThreadsInv
<1>3. 0 \notin disk
  BY DEF SpoolInv, ThreadsInv
<1>4. QED
  BY <1>1, <1>2, <1>3 DEF SpoolInv, OwnerInv

LEMMA DiscardKeeps ==
  ASSUME SpoolInv, NEW t \in Threads, Discard(t)
  PROVE  SpoolInv'
<1> USE DEF SpoolInv
<1>1. /\ th[t].pc = "discard" /\ alive /\ th[t].pc \in Owning
      /\ UNCHANGED <<ready, building, invalidating, readers, published, alive>>
  BY DEF Discard, At, OwnerInv, spoolVars, Owning
<1>2. /\ th' = [u \in Threads |-> th'[u]] /\ th'[t] = Idle
      /\ \A u \in Threads \ {t} : th'[u] = th[u]
  BY GoIdle DEF Discard
<1>3. /\ disk' \subseteq disk /\ IsFiniteSet(disk')
      /\ \A u \in Threads \ {t} : th[u].spool.dir \in disk => th[u].spool.dir \in disk'
      /\ published.dir \in disk => published.dir \in disk'
  BY <1>1, RemovedKeeps DEF Discard
<1>4. th'[t].pc = "idle" /\ th'[t].spool.dir = 0 /\ IsCall(th'[t])
  BY <1>2, IdleCall
<1>5. \A u \in Threads : /\ th'[u].pc \in Building <=> th[u].pc \in Building
                         /\ th'[u].pc \in Changing <=> th[u].pc \in Changing
                         /\ th'[u].pc \in Reading <=> th[u].pc \in Reading
                         /\ th'[u].pc = "drain" <=> th[u].pc = "drain"
                         /\ th'[u].pc \in {"remove", "reopen"} <=> th[u].pc \in {"remove", "reopen"}
  BY <1>1, <1>2, <1>4 DEF Building, Changing, Reading
<1>6. ThreadsInv'
  BY <1>1, <1>2, <1>3, <1>4 DEF ThreadsInv
<1>7. ReadersOf' = ReadersOf
  BY <1>5 DEF ReadersOf
<1>8. MutexInv'
  BY <1>1, <1>5, <1>7 DEF MutexInv
<1>9. OwnerInv'
  <2>1. \A u \in Threads : th'[u].pc \in {"append", "publish", "read"} => th'[u].spool.dir \in disk'
    BY <1>2, <1>3, <1>4 DEF OwnerInv
  <2>2. \A u \in Threads : th'[u].pc \in Owning /\ th'[u].spool.dir # 0 =>
            /\ th'[u].spool.dir # published'.dir
            /\ \A v \in Threads \ {u} : th'[v].spool.dir # th'[u].spool.dir
    BY <1>1, <1>2, <1>4 DEF OwnerInv
  <2>3. QED
    BY <1>1, <1>3, <1>5, <2>1, <2>2 DEF OwnerInv
<1>10. QED
  BY <1>6, <1>8, <1>9

LEMMA AcquireKeeps ==
  ASSUME SpoolInv, NEW t \in Threads, AcquireReader(t)
  PROVE  SpoolInv'
<1> USE DEF SpoolInv
<1>1. /\ th[t].pc = "acquire" /\ alive
      /\ UNCHANGED <<ready, building, invalidating, published, disk, alive>>
  BY DEF AcquireReader, At, OwnerInv
<1>2. CASE Usable
  <2>1. ready /\ ~invalidating /\ readers' = readers + 1
    BY <1>2 DEF AcquireReader, Usable
  <2>2. TurnOf(t, "read") /\ th'[t].spool = published
    <3>1. "read" \in CallNames /\ IsSpool(published)
      BY DEF CallNames, Reading, ThreadsInv
    <3>2. th' = [th EXCEPT ![t].pc = "read", ![t].spool = published]
      BY <1>2 DEF AcquireReader
    <3>3. QED
      BY <3>1, <3>2, PutSpool
  <2>3. th'[t].pc = "read" /\ th[t].pc \notin Reading /\ \A u \in Threads \ {t} : th'[u] = th[u]
    BY <1>1, <2>2 DEF TurnOf, Reading
  <2>4. \A u \in Threads : /\ th'[u].pc \in Building <=> th[u].pc \in Building
                           /\ th'[u].pc \in Changing <=> th[u].pc \in Changing
                           /\ th'[u].pc \in Owning <=> th[u].pc \in Owning
                           /\ th'[u].pc = "drain" <=> th[u].pc = "drain"
                           /\ th'[u].pc \in {"remove", "reopen"} <=> th[u].pc \in {"remove", "reopen"}
    BY <1>1, <2>3 DEF Building, Changing, Owning
  <2>5. ThreadsInv'
    BY <1>1, <2>2, <2>3, <2>4 DEF ThreadsInv, TurnOf
  <2>6. ReadersOf' = ReadersOf \cup {t} /\ t \notin ReadersOf
    BY <2>3 DEF ReadersOf, Reading
  <2>7. IsFiniteSet(ReadersOf') /\ readers' = Cardinality(ReadersOf')
    BY <2>1, <2>6, FS_AddElement DEF MutexInv
  <2>8. \A u \in Threads : th[u].pc \notin {"remove", "reopen"}
    BY <2>1 DEF MutexInv, Changing
  <2>9. MutexInv'
    BY <1>1, <2>1, <2>4, <2>7, <2>8 DEF MutexInv
  <2>10. published.dir # 0 /\ published.dir \in disk
    BY <2>1 DEF OwnerInv
  <2>11. OwnerInv'
    <3>1. \A u \in Threads : th'[u].pc \in {"append", "publish", "read"} => th'[u].spool.dir \in disk'
      BY <1>1, <2>2, <2>3, <2>10 DEF OwnerInv
    <3>2. \A u \in Threads : th'[u].pc \in Owning /\ th'[u].spool.dir # 0 =>
            /\ th'[u].spool.dir # published'.dir
            /\ \A v \in Threads \ {u} : th'[v].spool.dir # th'[u].spool.dir
      BY <1>1, <2>2, <2>3 DEF OwnerInv, Owning
    <3>3. QED
      BY <1>1, <2>4, <3>1, <3>2 DEF OwnerInv
  <2>12. QED
    BY <2>5, <2>9, <2>11
<1>3. CASE ~Usable
  BY <1>1, <1>3, GoTurn DEF AcquireReader, Quiet, ownerVars
<1>4. QED
  BY <1>2, <1>3

LEMMA ReadKeeps ==
  ASSUME SpoolInv, NEW t \in Threads, ReadShards(t)
  PROVE  SpoolInv'
<1> USE DEF SpoolInv
<1>1. th[t].pc = "read" /\ alive /\ UNCHANGED ownerVars
  BY DEF ReadShards, At, OwnerInv, ownerVars, spoolVars
<1>2. TurnOf(t, "release") /\ th'[t].spool = NoSpool
  <2>1. "release" \in CallNames
    BY DEF CallNames, Reading
  <2>2. PICK a : th' = [th EXCEPT ![t].pc = "release", ![t].spool = NoSpool, ![t].reply = a]
    BY DEF ReadShards
  <2>3. IsSpool(NoSpool)
    BY IdleCall
  <2>4. ThreadsInv
    OBVIOUS
  <2>5. th' = Finished(t, "release", NoSpool, a)
    BY <2>2, Zenon DEF Finished
  <2>6. QED
    BY <2>1, <2>3, <2>4, <2>5, Finish
<1>3. th'[t].pc = "release" /\ th'[t].spool.dir = 0 /\ \A u \in Threads \ {t} : th'[u] = th[u]
  BY <1>2, IdleCall DEF TurnOf
<1>4. \A u \in Threads : /\ th'[u].pc \in Building <=> th[u].pc \in Building
                         /\ th'[u].pc \in Changing <=> th[u].pc \in Changing
                         /\ th'[u].pc \in Reading <=> th[u].pc \in Reading
                         /\ th'[u].pc \in Owning <=> th[u].pc \in Owning
                         /\ th'[u].pc = "drain" <=> th[u].pc = "drain"
                         /\ th'[u].pc \in {"remove", "reopen"} <=> th[u].pc \in {"remove", "reopen"}
                         /\ th'[u].pc \in {"append", "publish", "read"} => th[u].pc \in {"append", "publish", "read"}
  BY <1>1, <1>3 DEF Building, Changing, Reading, Owning
<1>5. ThreadsInv'
  BY <1>1, <1>2, <1>3, <1>4 DEF ThreadsInv, TurnOf, ownerVars
<1>6. ReadersOf' = ReadersOf
  BY <1>4 DEF ReadersOf
<1>7. MutexInv'
  BY <1>1, <1>4, <1>6 DEF MutexInv, ownerVars
<1>8. OwnerInv'
  BY <1>1, <1>3, <1>4 DEF OwnerInv, ownerVars
<1>9. QED
  BY <1>5, <1>7, <1>8

LEMMA ReleaseKeeps ==
  ASSUME SpoolInv, NEW t \in Threads, Release(t)
  PROVE  SpoolInv'
<1> USE DEF SpoolInv
<1>1. /\ th[t].pc = "release" /\ alive /\ th[t].spool.dir = 0 /\ readers' = readers - 1
      /\ UNCHANGED <<ready, building, invalidating, published, disk, alive>>
  BY DEF Release, At, OwnerInv, ThreadsInv, Owning
<1>2. /\ th' = [u \in Threads |-> th'[u]] /\ th'[t] = Idle
      /\ \A u \in Threads \ {t} : th'[u] = th[u]
  BY GoIdle DEF Release
<1>3. th'[t].pc = "idle" /\ th'[t].spool.dir = 0 /\ IsCall(th'[t])
  BY <1>2, IdleCall
<1>4. \A u \in Threads : /\ th'[u].pc \in Building <=> th[u].pc \in Building
                         /\ th'[u].pc \in Changing <=> th[u].pc \in Changing
                         /\ th'[u].pc \in Reading => th[u].pc \in Reading
                         /\ th'[u].pc \in Owning <=> th[u].pc \in Owning
                         /\ th'[u].pc = "drain" <=> th[u].pc = "drain"
                         /\ th'[u].pc \in {"remove", "reopen"} <=> th[u].pc \in {"remove", "reopen"}
                         /\ th'[u].pc \in {"append", "publish", "read"} => th[u].pc \in {"append", "publish", "read"}
                         /\ th'[u].spool.dir = th[u].spool.dir
  BY <1>1, <1>2, <1>3 DEF Building, Changing, Reading, Owning
<1>5. ThreadsInv'
  BY <1>1, <1>2, <1>3 DEF ThreadsInv
<1>6. ReadersOf' = ReadersOf \ {t} /\ t \in ReadersOf
  BY <1>1, <1>2, <1>3 DEF ReadersOf, Reading
<1>7. IsFiniteSet(ReadersOf') /\ readers' = Cardinality(ReadersOf')
  BY <1>1, <1>6, FS_RemoveElement DEF MutexInv
<1>8. MutexInv'
  BY <1>1, <1>4, <1>7 DEF MutexInv
<1>9. OwnerInv'
  BY <1>1, <1>4 DEF OwnerInv
<1>10. QED
  BY <1>5, <1>8, <1>9

\* The directory changes hands when it is taken over.
LEMMA TakeOverKeeps ==
  ASSUME SpoolInv, NEW t \in Threads, th[t].pc \in {"invalidate", "drain"}, Drained, TakeOver(t),
         \A u \in Threads : th[u].pc \in Changing => u = t,
         invalidating' = TRUE, UNCHANGED <<building, readers, disk, alive>>
  PROVE  SpoolInv'
<1> USE DEF SpoolInv
<1>1. /\ ~building /\ readers = 0 /\ alive /\ th[t].spool.dir = 0
      /\ ready' = FALSE /\ published' = NoSpool
  BY DEF Drained, TakeOver, OwnerInv, ThreadsInv, Owning
<1>2. TurnOf(t, "remove") /\ th'[t].spool = published
  <2>1. "remove" \in CallNames /\ IsSpool(published)
    BY DEF CallNames, Changing, ThreadsInv
  <2>2. th' = [th EXCEPT ![t].pc = "remove", ![t].spool = published]
    BY DEF TakeOver
  <2>3. QED
    BY <2>1, <2>2, PutSpool
<1>3. th'[t].pc = "remove" /\ \A u \in Threads \ {t} : th'[u] = th[u]
  BY <1>2 DEF TurnOf
<1>4. ReadersOf = {}
  BY <1>1, FS_EmptySet DEF MutexInv
<1>5. \A u \in Threads : th[u].pc \notin Reading
  BY <1>4 DEF ReadersOf
<1>6. \A u \in Threads : /\ th'[u].pc \notin Reading
                         /\ th'[u].pc \notin Building
                         /\ th'[u].pc \in Changing <=> u = t
                         /\ th'[u].pc \notin {"append", "publish", "read"}
  BY <1>1, <1>3, <1>5 DEF Building, Changing, Reading, MutexInv
<1>7. ThreadsInv'
  BY <1>1, <1>2, <1>3, IdleCall DEF ThreadsInv, TurnOf, Owning
<1>8. ReadersOf' = {}
  BY <1>6 DEF ReadersOf
<1>9. MutexInv'
  BY <1>1, <1>6, <1>8, FS_EmptySet DEF MutexInv
<1>10. OwnerInv'
  <2>1. \A u \in Threads \ {t} : th[u].pc \in Owning \/ th[u].spool.dir = 0
    BY <1>5 DEF ThreadsInv, Reading
  <2>2. \A u \in Threads \ {t} : published.dir # 0 => th[u].spool.dir # published.dir
    BY <2>1 DEF OwnerInv
  <2>3. \A u \in Threads : th'[u].pc \in Owning /\ th'[u].spool.dir # 0 =>
            /\ th'[u].spool.dir # published'.dir
            /\ \A v \in Threads \ {u} : th'[v].spool.dir # th'[u].spool.dir
    BY <1>1, <1>2, <1>3, <2>2, IdleCall DEF OwnerInv
  <2>4. QED
    BY <1>1, <1>6, <2>3, IdleCall DEF OwnerInv
<1>11. QED
  BY <1>7, <1>9, <1>10

LEMMA BeginInvalidationKeeps ==
  ASSUME SpoolInv, NEW t \in Threads, BeginInvalidation(t)
  PROVE  SpoolInv'
<1> USE DEF SpoolInv
<1>1. CASE Sleep(t, ~invalidating)
  BY <1>1, SleepKeeps
<1>2. CASE ~Sleep(t, ~invalidating)
  <2>1. /\ th[t].pc = "invalidate" /\ ~invalidating /\ invalidating' = TRUE /\ alive
        /\ UNCHANGED <<building, readers, disk, alive>>
    BY <1>2 DEF BeginInvalidation, At, Await, OwnerInv
  <2>2. \A u \in Threads : th[u].pc \notin Changing
    BY <2>1 DEF MutexInv
  <2>3. CASE Drained
    <3>1. TakeOver(t)
      BY <1>2, <2>3 DEF BeginInvalidation
    <3>2. QED
      BY <2>1, <2>2, <2>3, <3>1, TakeOverKeeps
  <2>4. CASE ~Drained
    <3>1. ready' = FALSE /\ Go(t, "drain") /\ UNCHANGED published
      BY <1>2, <2>4 DEF BeginInvalidation
    <3>2. TurnOf(t, "drain") /\ th'[t].spool = th[t].spool
      BY <3>1, GoTo DEF CallNames, Changing
    <3>3. th'[t].pc = "drain" /\ \A u \in Threads \ {t} : th'[u] = th[u]
      BY <3>2 DEF TurnOf
    <3>4. \A u \in Threads : /\ th'[u].pc \in Building <=> th[u].pc \in Building
                             /\ th'[u].pc \in Changing <=> u = t
                             /\ th'[u].pc \in Reading <=> th[u].pc \in Reading
                             /\ th'[u].pc \in Owning <=> th[u].pc \in Owning
                             /\ th'[u].pc = "read" <=> th[u].pc = "read"
                             /\ th'[u].pc \notin {"remove", "reopen"}
                             /\ th'[u].pc \in {"append", "publish", "read"} => th[u].pc \in {"append", "publish", "read"}
                             /\ th'[u].spool.dir = th[u].spool.dir
      BY <2>1, <2>2, <3>2, <3>3 DEF Building, Changing, Reading, Owning
    <3>5. ThreadsInv'
      BY <2>1, <3>1, <3>2, <3>4 DEF ThreadsInv, TurnOf
    <3>6. ReadersOf' = ReadersOf
      BY <3>4 DEF ReadersOf
    <3>7. MutexInv'
      BY <2>1, <3>1, <3>4, <3>6 DEF MutexInv
    <3>8. OwnerInv'
      BY <2>1, <3>1, <3>3, <3>4 DEF OwnerInv
    <3>9. QED
      BY <3>5, <3>7, <3>8
  <2>5. QED
    BY <2>3, <2>4
<1>3. QED
  BY <1>1, <1>2

LEMMA DrainKeeps ==
  ASSUME SpoolInv, NEW t \in Threads, Drain(t)
  PROVE  SpoolInv'
<1>1. CASE Sleep(t, Drained)
  BY <1>1, SleepKeeps
<1>2. CASE ~Sleep(t, Drained)
  <2>1. /\ th[t].pc = "drain" /\ Drained /\ TakeOver(t)
        /\ UNCHANGED <<building, invalidating, readers, disk, alive>>
    BY <1>2 DEF Drain, At, Await
  <2>2. invalidating /\ \A u \in Threads : th[u].pc \in Changing => u = t
    BY <2>1 DEF SpoolInv, MutexInv, Changing
  <2>3. invalidating' = TRUE
    BY <2>1, <2>2 DEF SpoolInv, ThreadsInv
  <2>4. QED
    BY <2>1, <2>2, <2>3, TakeOverKeeps
<1>3. QED
  BY <1>1, <1>2

LEMMA RemoveKeeps ==
  ASSUME SpoolInv, NEW t \in Threads, RemoveSpool(t)
  PROVE  SpoolInv'
<1> USE DEF SpoolInv
<1>1. /\ th[t].pc = "remove" /\ th[t].pc \in Owning /\ alive
      /\ UNCHANGED <<ready, building, invalidating, readers, published, alive>>
  BY DEF RemoveSpool, At, OwnerInv, Owning, spoolVars
<1>2. TurnOf(t, "reopen") /\ th'[t].spool.dir = 0
  <2>1. "reopen" \in CallNames
    BY DEF CallNames, Changing
  <2>2. th' = [th EXCEPT ![t].pc = "reopen", ![t].spool = NoSpool]
    BY DEF RemoveSpool
  <2>3. QED
    BY <2>1, <2>2, PutSpool, IdleCall
<1>3. th'[t].pc = "reopen" /\ \A u \in Threads \ {t} : th'[u] = th[u]
  BY <1>2 DEF TurnOf
<1>4. /\ disk' \subseteq disk /\ IsFiniteSet(disk')
      /\ \A u \in Threads \ {t} : th[u].spool.dir \in disk => th[u].spool.dir \in disk'
      /\ published.dir \in disk => published.dir \in disk'
  BY <1>1, RemovedKeeps DEF RemoveSpool
<1>5. \A u \in Threads : /\ th'[u].pc \in Building <=> th[u].pc \in Building
                         /\ th'[u].pc \in Changing <=> th[u].pc \in Changing
                         /\ th'[u].pc \in Reading <=> th[u].pc \in Reading
                         /\ th'[u].pc = "drain" <=> th[u].pc = "drain"
                         /\ th'[u].pc \in {"remove", "reopen"} <=> th[u].pc \in {"remove", "reopen"}
  BY <1>1, <1>3 DEF Building, Changing, Reading
<1>6. ThreadsInv'
  BY <1>1, <1>2, <1>3, <1>4 DEF ThreadsInv, TurnOf
<1>7. ReadersOf' = ReadersOf
  BY <1>5 DEF ReadersOf
<1>8. MutexInv'
  BY <1>1, <1>5, <1>7 DEF MutexInv
<1>9. OwnerInv'
  <2>1. \A u \in Threads : th'[u].pc \in {"append", "publish", "read"} => th'[u].spool.dir \in disk'
    BY <1>3, <1>4 DEF OwnerInv
  <2>2. \A u \in Threads : th'[u].pc \in Owning /\ th'[u].spool.dir # 0 =>
            /\ th'[u].spool.dir # published'.dir
            /\ \A v \in Threads \ {u} : th'[v].spool.dir # th'[u].spool.dir
    BY <1>1, <1>2, <1>3 DEF OwnerInv
  <2>3. QED
    BY <1>1, <1>4, <1>5, <2>1, <2>2 DEF OwnerInv
<1>10. QED
  BY <1>6, <1>8, <1>9

LEMMA ReopenKeeps ==
  ASSUME SpoolInv, NEW t \in Threads, Reopen(t)
  PROVE  SpoolInv'
<1> USE DEF SpoolInv
<1>1. /\ th[t].pc = "reopen" /\ invalidating' = FALSE /\ alive /\ th[t].spool.dir = 0
      /\ UNCHANGED <<ready, building, readers, published, disk, alive>>
  BY DEF Reopen, At, OwnerInv, ThreadsInv, Owning
<1>2. TurnOf(t, "assign") /\ th'[t].spool = th[t].spool
  BY GoTo DEF Reopen, CallNames
<1>3. th'[t].pc = "assign" /\ \A u \in Threads \ {t} : th'[u] = th[u]
  BY <1>2 DEF TurnOf
<1>4. \A u \in Threads : /\ th'[u].pc \in Building <=> th[u].pc \in Building
                         /\ th'[u].pc \notin Changing
                         /\ th'[u].pc \in Reading <=> th[u].pc \in Reading
                         /\ th'[u].pc \in Owning <=> th[u].pc \in Owning
                         /\ th'[u].pc = "read" <=> th[u].pc = "read"
                         /\ th'[u].pc = "drain" <=> th[u].pc = "drain"
                         /\ th'[u].pc \notin {"remove", "reopen"}
                         /\ th'[u].pc \in {"append", "publish", "read"} => th[u].pc \in {"append", "publish", "read"}
                         /\ th'[u].spool.dir = th[u].spool.dir
  BY <1>1, <1>2, <1>3 DEF Building, Changing, Reading, Owning, MutexInv
<1>5. ThreadsInv'
  BY <1>1, <1>2, <1>4 DEF ThreadsInv, TurnOf
<1>6. ReadersOf' = ReadersOf
  BY <1>4 DEF ReadersOf
<1>7. MutexInv'
  BY <1>1, <1>4, <1>6 DEF MutexInv
<1>8. OwnerInv'
  BY <1>1, <1>4 DEF OwnerInv
<1>9. QED
  BY <1>5, <1>7, <1>8

LEMMA DestroyKeeps ==
  ASSUME SpoolInv, Destroy
  PROVE  SpoolInv'
<1> USE DEF SpoolInv
<1>1. /\ \A t \in Threads : th[t].pc = "idle"
      /\ alive' = FALSE /\ ready' = FALSE /\ published' = NoSpool
      /\ UNCHANGED <<th, building, invalidating, readers>>
  BY DEF Destroy, At
<1>2. disk' \subseteq disk /\ IsFiniteSet(disk')
  BY FS_Subset DEF Destroy, Removed, ThreadsInv
<1>3. ThreadsInv'
  BY <1>1, <1>2, IdleCall DEF ThreadsInv
<1>4. MutexInv'
  BY <1>1 DEF MutexInv, ReadersOf
<1>5. OwnerInv'
  BY <1>1, IdleCall DEF OwnerInv, Owning
<1>6. QED
  BY <1>3, <1>4, <1>5

LEMMA SpoolStep ==
  ASSUME SpoolInv, [SpoolNext]_readerVars
  PROVE  SpoolInv'
<1>1. CASE UNCHANGED readerVars
  BY <1>1, NothingTurns DEF readerVars, ownerVars, spoolVars
<1>2. CASE Destroy
  BY <1>2, DestroyKeeps
<1>3. ASSUME NEW t \in Threads, Calling(t) PROVE SpoolInv'
  BY <1>3, AskKeeps, EntitiesKeep, SetsKeep DEF Calling
<1>4. ASSUME NEW t \in Threads, Getter(t) PROVE SpoolInv'
  BY <1>4, CalmSteps, EnsureKeeps, WaitKeeps, CreateKeeps, AppendKeeps, PublishKeeps, FailKeeps,
     DiscardKeeps, AcquireKeeps, ReadKeeps, ReleaseKeeps DEF Getter
<1>5. ASSUME NEW t \in Threads, Mutator(t) PROVE SpoolInv'
  BY <1>5, CalmSteps, BeginInvalidationKeeps, DrainKeeps, RemoveKeeps, ReopenKeeps, ReadFileKeeps DEF Mutator
<1>6. QED
  BY <1>1, <1>2, <1>3, <1>4, <1>5 DEF SpoolNext, Working

LEMMA SpoolStart == SpoolInit => SpoolInv
<1> SUFFICES ASSUME SpoolInit PROVE SpoolInv
  OBVIOUS
<1>1. \A t \in Threads : th[t].pc = "idle" /\ th[t].spool.dir = 0 /\ IsCall(th[t])
  BY IdleCall DEF SpoolInit
<1>2. ThreadsInv
  BY <1>1, IdleCall, FS_EmptySet DEF SpoolInit, ThreadsInv
<1>3. ReadersOf = {}
  BY <1>1 DEF ReadersOf, Reading
<1>4. MutexInv
  BY <1>1, <1>3, FS_EmptySet DEF SpoolInit, MutexInv, Building, Changing
<1>5. OwnerInv
  BY <1>1, IdleCall DEF SpoolInit, OwnerInv, Owning
<1>6. QED
  BY <1>2, <1>4, <1>5 DEF SpoolInv

\* A step of the structure is one of the spool, or the spool stands still.
LEMMA StepsOfSpool ==
  ASSUME [StructureNext]_structure
  PROVE  [SpoolNext]_readerVars
  BY DEF StructureNext, structure, ByWorld, ByChunks, Destroyed

LEMMA AlwaysSpoolInv == StructureSpec => []SpoolInv
<1>1. StructureInit => SpoolInv
  BY SpoolStart DEF StructureInit
<1>2. SpoolInv /\ [StructureNext]_structure => SpoolInv'
  BY StepsOfSpool, SpoolStep
<1>3. QED
  BY <1>1, <1>2, PTL DEF StructureSpec

(***************************************************************************)
(* The shards a request was given stay until it has read them.             *)
(***************************************************************************)

\* A reply to be given, and one that was given.
NotGone(reply) == reply.ok \/ reply.reason # "gone"

LEMMA GoneTurn ==
  ASSUME GoneInv, NEW t \in Threads, \A u \in Threads \ {t} : th'[u] = th[u],
         \/ th'[t].pc \notin {"release", "failed", "discard"}
         \/ th'[t].pc = "release" /\ NotGone(th'[t].reply)
         \/ th'[t].pc \in Failing /\ th'[t].reply.reason \in Reasons,
         error' \in {error, ""} \cup Reasons,
         \/ answer' = answer
         \/ answer'.kind # "chunks"
         \/ NotGone(answer'.reply)
  PROVE  GoneInv'
  BY DEF GoneInv, Failing, NotGone

LEMMA GoneStays ==
  ASSUME GoneInv, th' = th, error' \in {error, ""}, answer' = answer \/ answer'.kind # "chunks"
  PROVE  GoneInv'
  BY DEF GoneInv, Failing

LEMMA GivesAnswer ==
  ASSUME NEW t, NEW reply, Answer(t, reply)
  PROVE  /\ answer'.kind = "chunks" /\ answer'.reply = reply /\ answer'.want = th[t].want
         /\ answer'.exact => parsed.ok /\ t \notin disturbed /\ ~stale
  BY DEF Answer

LEMMA GoneBegins ==
  ASSUME SpoolInv, GoneInv, NEW t \in Threads, Ask(t) \/ SetOffset(t) \/ SetOptions(t) \/ ReadAgain(t)
  PROVE  GoneInv'
<1>1. error' = error /\ answer' = NoAnswer
  BY DEF Ask, SetOffset, SetOptions, ReadAgain, Begin, spoolVars
<1>2. answer'.kind # "chunks"
  BY <1>1 DEF NoAnswer
<1>3. PICK r : /\ Begin(t, r) /\ IsCall(r) /\ r.pc \in {"ensure", "stream", "invalidate"}
  <2>1. CASE Ask(t)
    <3> DEFINE q == IF options.allow THEN "ensure" ELSE "stream"
    <3>1. q \in {"ensure", "stream"} /\ q \in CallNames
      BY DEF CallNames, Asking
    <3>2. PICK want \in Requests : Begin(t, AskRecord(q, want))
      BY <2>1, AskBegins
    <3> HIDE DEF q
    <3>3. IsCall(AskRecord(q, want)) /\ AskRecord(q, want).pc = q
      BY <3>1, AskingCall
    <3>4. QED
      BY <3>1, <3>2, <3>3
  <2>2. CASE SetOffset(t) \/ SetOptions(t) \/ ReadAgain(t)
    BY <2>2, SetsBegin, ChangingCall
  <2>3. QED
    BY <2>1, <2>2
<1>4. th' = [th EXCEPT ![t] = r]
  BY <1>3 DEF Begin
<1>5. th'[t] = r /\ \A u \in Threads \ {t} : th'[u] = th[u]
  BY <1>3, <1>4, Turn DEF SpoolInv
<1>6. QED
  BY <1>1, <1>2, <1>3, <1>5, GoneTurn

LEMMA GoneGetter ==
  ASSUME SpoolInv, GoneInv, NEW t \in Threads,
         Stream(t) \/ Ensure(t) \/ EnsureRefused(t) \/ WaitForBuild(t)
  PROVE  GoneInv'
<1> USE DEF SpoolInv
<1>1. ASSUME NEW p, Sleep(t, p) PROVE GoneInv'
  BY <1>1, GoneStays DEF Sleep, spoolVars
<1>2. CASE Stream(t)
  <2> DEFINE reply == IF ~Contents[source]["stream"].ok THEN [ok |-> FALSE, reason |-> "decode"]
                      ELSE [ok |-> TRUE, blocks |-> Replayed(
                             Normalized(Contents[source]["stream"].placed, parsed.min, parsed.dim, mOffset),
                             th[t].want)]
  <2>1. Answer(t, reply) /\ NotGone(reply)
    <3>1. Answer(t, reply)
      BY <1>2 DEF Stream
    <3>2. NotGone(reply)
      BY DEF NotGone
    <3>3. QED
      BY <3>1, <3>2
  <2> HIDE DEF reply
  <2>2. error' = error /\ th'[t].pc = "idle" /\ \A u \in Threads \ {t} : th'[u] = th[u]
    BY <1>2, GoIdle, IdleCall DEF Stream, spoolVars
  <2>3. QED
    BY <2>1, <2>2, GivesAnswer, GoneTurn
<1>3. CASE EnsureRefused(t)
  <2>1. PICK reply : Answer(t, reply) /\ NotGone(reply)
    BY <1>3 DEF EnsureRefused, NotGone
  <2>2. error' = error /\ th'[t].pc = "idle" /\ \A u \in Threads \ {t} : th'[u] = th[u]
    BY <1>3, GoIdle, IdleCall DEF EnsureRefused, spoolVars
  <2>3. QED
    BY <2>1, <2>2, GivesAnswer, GoneTurn
<1>4. CASE Ensure(t) /\ ~Sleep(t, ~invalidating)
  <2>1. error' \in {error, ""} /\ answer' = answer /\ \E q \in {"acquire", "waitBuild", "create"} : Go(t, q)
    BY <1>4 DEF Ensure
  <2>2. PICK q \in {"acquire", "waitBuild", "create"} : Go(t, q)
    BY <2>1
  <2>3. q \in CallNames
    BY DEF CallNames, Asking
  <2>4. th'[t].pc = q /\ \A u \in Threads \ {t} : th'[u] = th[u]
    BY <2>2, <2>3, GoTo DEF TurnOf
  <2>5. QED
    BY <2>1, <2>4, GoneTurn
<1>5. CASE WaitForBuild(t) /\ ~Sleep(t, BuildOver)
  <2>1. CASE \E q \in {"acquire", "create"} : Go(t, q) /\ error' \in {error, ""} /\ answer' = answer
    <3>1. PICK q \in {"acquire", "create"} : Go(t, q)
      BY <2>1
    <3>2. q \in CallNames
      BY DEF CallNames, Asking
    <3>3. th'[t].pc = q /\ \A u \in Threads \ {t} : th'[u] = th[u]
      BY <3>1, <3>2, GoTo DEF TurnOf
    <3>4. QED
      BY <2>1, <3>3, GoneTurn
  <2>2. CASE error # "" /\ Answer(t, [ok |-> FALSE, reason |-> error]) /\ Leave(t) /\ error' = error
    <3> DEFINE reply == [ok |-> FALSE, reason |-> error]
    <3>1. Answer(t, reply) /\ NotGone(reply)
      BY <2>2 DEF NotGone, GoneInv, Reasons
    <3> HIDE DEF reply
    <3>2. th'[t].pc = "idle" /\ \A u \in Threads \ {t} : th'[u] = th[u]
      BY <2>2, GoIdle, IdleCall
    <3>3. QED
      BY <2>2, <3>1, <3>2, GivesAnswer, GoneTurn
  <2>3. QED
    BY <1>5, <2>1, <2>2 DEF WaitForBuild
<1>6. QED
  BY <1>1, <1>2, <1>3, <1>4, <1>5

LEMMA GoneBuild ==
  ASSUME SpoolInv, GoneInv, NEW t \in Threads,
         CreateDirectory(t) \/ AppendPlacements(t) \/ Publish(t) \/ BuildFailed(t) \/ Discard(t)
  PROVE  GoneInv'
<1> USE DEF SpoolInv
<1>1. CASE CreateDirectory(t)
  <2>1. /\ error' = error /\ answer' = answer /\ \A u \in Threads \ {t} : th'[u] = th[u]
        /\ th'[t].pc = "append" \/ (th'[t].pc = "failed" /\ th'[t].reply.reason = "fault")
    BY <1>1, CreateEffect DEF TurnOf, spoolVars
  <2>2. QED
    BY <2>1, GoneTurn DEF Failing, Reasons
<1>2. CASE AppendPlacements(t)
  <2>1. /\ error' = error /\ answer' = answer /\ \A u \in Threads \ {t} : th'[u] = th[u]
        /\ th'[t].pc = "publish" \/ (th'[t].pc = "failed" /\ th'[t].reply.reason \in Reasons)
    BY <1>2, AppendEffect DEF TurnOf, spoolVars
  <2>2. QED
    BY <2>1, GoneTurn DEF Failing
<1>3. CASE Publish(t)
  <2>1. error' = "" /\ answer' = answer /\ th' = [th EXCEPT ![t].pc = "acquire", ![t].spool = NoSpool]
    BY <1>3 DEF Publish
  <2>2. TurnOf(t, "acquire")
    BY <2>1, PutSpool, IdleCall DEF CallNames, Asking
  <2>3. th'[t].pc = "acquire" /\ (\A u \in Threads \ {t} : th'[u] = th[u]) /\ error' = "" /\ answer' = answer
    BY <2>1, <2>2 DEF TurnOf
  <2>4. QED
    BY <2>3, GoneTurn
<1>4. CASE BuildFailed(t)
  <2>1. th[t].pc = "failed" /\ error' = th[t].reply.reason /\ answer' = answer
    BY <1>4 DEF BuildFailed, At
  <2>2. TurnOf(t, "discard") /\ th'[t].reply = th[t].reply
    BY <1>4, GoTo DEF BuildFailed, CallNames, Failing
  <2>3. th[t].reply.reason \in Reasons
    BY <2>1 DEF GoneInv, Failing
  <2>4. QED
    BY <2>1, <2>2, <2>3, GoneTurn DEF TurnOf, Failing
<1>5. CASE Discard(t)
  <2>1. th[t].pc = "discard" /\ Answer(t, th[t].reply) /\ Leave(t) /\ error' = error
    BY <1>5 DEF Discard, At, spoolVars
  <2>2. NotGone(th[t].reply)
    BY <2>1 DEF GoneInv, Failing, Reasons, NotGone
  <2>3. th'[t].pc = "idle" /\ \A u \in Threads \ {t} : th'[u] = th[u]
    BY <2>1, GoIdle, IdleCall
  <2>4. QED
    BY <2>1, <2>2, <2>3, GivesAnswer, GoneTurn
<1>6. QED
  BY <1>1, <1>2, <1>3, <1>4, <1>5

LEMMA GoneRead ==
  ASSUME SpoolInv, GoneInv, NEW t \in Threads, AcquireReader(t) \/ ReadShards(t) \/ Release(t)
  PROVE  GoneInv'
<1> USE DEF SpoolInv
<1>1. CASE AcquireReader(t)
  <2>1. error' = error /\ answer' = answer
    BY <1>1 DEF AcquireReader
  <2>2. th'[t].pc \in {"read", "ensure"} /\ \A u \in Threads \ {t} : th'[u] = th[u]
    <3>1. {"read", "ensure"} \subseteq CallNames /\ IsSpool(published)
      BY DEF CallNames, Reading, Asking, ThreadsInv
    <3>2. CASE Usable
      <4>1. th' = [th EXCEPT ![t].pc = "read", ![t].spool = published]
        BY <1>1, <3>2 DEF AcquireReader
      <4>2. TurnOf(t, "read")
        BY <3>1, <4>1, PutSpool
      <4>3. QED
        BY <4>2 DEF TurnOf
    <3>3. CASE ~Usable
      BY <1>1, <3>1, <3>3, GoTo DEF AcquireReader, TurnOf
    <3>4. QED
      BY <3>2, <3>3
  <2>3. QED
    BY <2>1, <2>2, GoneTurn
<1>2. CASE ReadShards(t)
  <2>1. /\ error' = error /\ answer' = answer /\ th'[t].pc = "release"
        /\ \A u \in Threads \ {t} : th'[u] = th[u]
        /\ NotGone(th'[t].reply)
    BY <1>2, ReadEffect DEF TurnOf, spoolVars, NotGone
  <2>2. QED
    BY <2>1, GoneTurn
<1>3. CASE Release(t)
  <2>1. th[t].pc = "release" /\ Answer(t, th[t].reply) /\ Leave(t) /\ error' = error
    BY <1>3 DEF Release, At
  <2>2. NotGone(th[t].reply)
    BY <2>1 DEF GoneInv, NotGone
  <2>3. th'[t].pc = "idle" /\ \A u \in Threads \ {t} : th'[u] = th[u]
    BY <2>1, GoIdle, IdleCall
  <2>4. QED
    BY <2>1, <2>2, <2>3, GivesAnswer, GoneTurn
<1>4. QED
  BY <1>1, <1>2, <1>3

\* Taking over begins the removal.
LEMMA TakeOverEffect ==
  ASSUME ThreadsInv, NEW t \in Threads, TakeOver(t)
  PROVE  /\ TurnOf(t, "remove") /\ th'[t].spool = published
         /\ ~ready' /\ error' = "" /\ published' = NoSpool /\ ~stale'
<1>1. "remove" \in CallNames /\ IsSpool(published)
  BY DEF CallNames, Changing, ThreadsInv
<1>2. th' = [th EXCEPT ![t].pc = "remove", ![t].spool = published]
  BY DEF TakeOver
<1>3. TurnOf(t, "remove") /\ th'[t].spool = published
  BY <1>1, <1>2, PutSpool
<1>4. QED
  BY <1>3 DEF TakeOver

LEMMA GoneChange ==
  ASSUME SpoolInv, GoneInv, NEW t \in Threads, Mutator(t)
  PROVE  GoneInv'
<1> USE DEF SpoolInv
<1>1. ASSUME NEW p, Sleep(t, p) PROVE GoneInv'
  BY <1>1, GoneStays DEF Sleep, spoolVars
<1>2. ASSUME TakeOver(t), answer' = answer PROVE GoneInv'
  <2>1. th'[t].pc = "remove" /\ (\A u \in Threads \ {t} : th'[u] = th[u]) /\ error' = ""
    BY <1>2, TakeOverEffect DEF TurnOf
  <2>2. QED
    BY <1>2, <2>1, GoneTurn
<1>3. ASSUME NEW q \in {"drain", "assign"}, Go(t, q), answer' = answer, error' = error PROVE GoneInv'
  <2>1. th'[t].pc = q /\ \A u \in Threads \ {t} : th'[u] = th[u]
    BY <1>3, GoTo DEF TurnOf, CallNames, Changing
  <2>2. QED
    BY <1>3, <2>1, GoneTurn
<1>4. ASSUME answer' = NoAnswer, Leave(t), error' = error PROVE GoneInv'
  <2>1. th'[t].pc = "idle" /\ (\A u \in Threads \ {t} : th'[u] = th[u]) /\ answer'.kind # "chunks"
    BY <1>4, GoIdle, IdleCall DEF NoAnswer
  <2>2. QED
    BY <1>4, <2>1, GoneTurn
<1>5. CASE BeginInvalidation(t)
  BY <1>5, <1>1, <1>2, <1>3 DEF BeginInvalidation
<1>6. CASE Drain(t)
  BY <1>6, <1>1, <1>2 DEF Drain
<1>7. CASE RemoveSpool(t)
  <2>1. error' = error /\ answer' = answer /\ th' = [th EXCEPT ![t].pc = "reopen", ![t].spool = NoSpool]
    BY <1>7 DEF RemoveSpool, spoolVars
  <2>2. TurnOf(t, "reopen")
    BY <2>1, PutSpool, IdleCall DEF CallNames, Changing
  <2>3. th'[t].pc = "reopen" /\ (\A u \in Threads \ {t} : th'[u] = th[u]) /\ error' = error /\ answer' = answer
    BY <2>1, <2>2 DEF TurnOf
  <2>4. QED
    BY <2>3, GoneTurn
<1>8. CASE Reopen(t)
  BY <1>8, <1>3 DEF Reopen
<1>9. CASE AssignOffset(t) \/ AssignOptions(t)
  BY <1>9, <1>4 DEF AssignOffset, AssignOptions, spoolVars
<1>10. CASE ReadFile(t)
  <2>1. answer' = NoAnswer /\ error' = error
    BY <1>10 DEF ReadFile, spoolVars
  <2>2. CASE Leave(t)
    BY <1>4, <2>1, <2>2
  <2>3. CASE th' = [th EXCEPT ![t] = LoneRecord(<<"offset", Origin>>)]
    <3> DEFINE r == LoneRecord(<<"offset", Origin>>)
    <3>1. IsCall(r) /\ r.pc = "invalidate"
      BY ChangingCall
    <3> HIDE DEF r
    <3>2. th'[t] = r /\ \A u \in Threads \ {t} : th'[u] = th[u]
      BY <2>3, <3>1, Turn DEF r
    <3>3. th'[t].pc = "invalidate" /\ answer'.kind # "chunks"
      BY <2>1, <3>1, <3>2 DEF NoAnswer
    <3>4. QED
      BY <2>1, <3>2, <3>3, GoneTurn
  <2>4. QED
    BY <1>10, <2>2, <2>3 DEF ReadFile, LoneRecord
<1>11. QED
  BY <1>5, <1>6, <1>7, <1>8, <1>9, <1>10 DEF Mutator

\* What a request reads stays on the disk until it has read it, whatever the
\* other threads build, change and throw away: no request fails because its
\* shards are gone.
THEOREM ShardsStayForReaders == StructureSpec => []ShardsStay
<1>1. StructureInit => GoneInv
  <2> SUFFICES ASSUME StructureInit PROVE GoneInv
    OBVIOUS
  <2>1. th = [t \in Threads |-> Idle] /\ error = "" /\ answer = NoAnswer
    BY Zenon DEF SpoolInit, StructureInit
  <2>2. QED
    BY <2>1, IdleCall DEF GoneInv, NoAnswer, Failing
<1>2. SpoolInv /\ GoneInv /\ [StructureNext]_structure => GoneInv'
  <2> SUFFICES ASSUME SpoolInv, GoneInv, [StructureNext]_structure PROVE GoneInv'
    OBVIOUS
  <2>1. [SpoolNext]_readerVars
    BY StepsOfSpool
  <2>2. CASE UNCHANGED readerVars
    BY <2>2, GoneStays DEF readerVars, spoolVars
  <2>3. CASE Destroy
    BY <2>3, GoneStays DEF Destroy
  <2>4. ASSUME NEW t \in Threads, AskEntities(t) PROVE GoneInv'
    <3>1. th' = th /\ error' = error /\ answer'.kind # "chunks"
      BY <2>4 DEF AskEntities, spoolVars
    <3>2. QED
      BY <3>1, GoneStays
  <2>5. QED
    BY <2>1, <2>2, <2>3, <2>4, GoneBegins, GoneGetter, GoneBuild, GoneRead, GoneChange
    DEF SpoolNext, Calling, Working, Getter
<1>3. SpoolInv /\ GoneInv => ShardsStay
  BY DEF SpoolInv, OwnerInv, GoneInv, ShardsStay
<1>4. QED
  BY <1>1, <1>2, <1>3, AlwaysSpoolInv, PTL DEF StructureSpec

(***************************************************************************)
(* Who has a directory of shards.                                          *)
(***************************************************************************)

LEMMA CoverTurn ==
  ASSUME SpoolInv, CoverInv, NEW t \in Threads, \A u \in Threads \ {t} : th'[u] = th[u],
         th'[t].spool.dir = th[t].spool.dir, th'[t].pc = "read" => th[t].pc = "read",
         building' => building \/ published.dir = 0,
         UNCHANGED <<published, disk, alive, stuck>>
  PROVE  CoverInv'
<1>1. \A u \in Threads : th'[u].spool.dir = th[u].spool.dir
  OBVIOUS
<1>2. QED
  BY <1>1 DEF CoverInv

LEMMA CoverStays ==
  ASSUME CoverInv, UNCHANGED <<th, building, published, disk, alive, stuck>>
  PROVE  CoverInv'
  BY DEF CoverInv

\* Nobody reads while a spool is built.
LEMMA BuildingAlone ==
  ASSUME SpoolInv, CoverInv, building, NEW u \in Threads
  PROVE  th[u].pc # "read" /\ published.dir = 0
  BY DEF SpoolInv, CoverInv, OwnerInv, ThreadsInv

LEMMA CoverBegins ==
  ASSUME SpoolInv, CoverInv, NEW t \in Threads, Calling(t)
  PROVE  CoverInv'
<1> USE DEF SpoolInv
<1>1. CASE AskEntities(t)
  BY <1>1, CoverStays DEF AskEntities, spoolVars, history
<1>2. CASE Ask(t) \/ SetOffset(t) \/ SetOptions(t) \/ ReadAgain(t)
  <2>1. UNCHANGED <<building, published, disk, alive, stuck>>
    BY <1>2 DEF Ask, SetOffset, SetOptions, ReadAgain, spoolVars, history
  <2>2. PICK r : Begin(t, r) /\ IsCall(r) /\ r.pc # "read" /\ r.spool = NoSpool
    <3>1. CASE Ask(t)
      <4> DEFINE q == IF options.allow THEN "ensure" ELSE "stream"
      <4>1. q \in CallNames /\ q # "read"
        BY DEF CallNames, Asking
      <4>2. PICK want \in Requests : Begin(t, AskRecord(q, want))
        BY <3>1, AskBegins
      <4> HIDE DEF q
      <4>3. /\ IsCall(AskRecord(q, want)) /\ AskRecord(q, want).pc = q
            /\ AskRecord(q, want).spool = NoSpool
        <5>1. q \in CallNames
          BY <4>1
        <5>2. QED
          BY <5>1, AskingCall
      <4>4. QED
        BY <4>1, <4>2, <4>3
    <3>2. CASE SetOffset(t) \/ SetOptions(t) \/ ReadAgain(t)
      BY <3>2, SetsBegin, ChangingCall
    <3>3. QED
      BY <1>2, <3>1, <3>2
  <2>3. th[t].pc = "idle" /\ th' = [th EXCEPT ![t] = r]
    BY <2>2 DEF Begin, At
  <2>4. th'[t] = r /\ \A u \in Threads \ {t} : th'[u] = th[u]
    BY <2>2, <2>3, Turn
  <2>5. th[t].spool.dir = 0 /\ th'[t].spool.dir = 0
    BY <2>2, <2>3, <2>4, IdleCall DEF ThreadsInv, Owning
  <2>6. QED
    BY <2>1, <2>2, <2>4, <2>5, CoverTurn
<1>3. QED
  BY <1>1, <1>2 DEF Calling

\* A thread that has no directory goes on without one.
LEMMA CoverGoes ==
  ASSUME SpoolInv, CoverInv, NEW t \in Threads, th[t].pc \notin Owning \cup {"read"},
         NEW q \in CallNames \ {"read"}, Go(t, q) \/ Leave(t),
         building' => building \/ published.dir = 0,
         UNCHANGED <<published, disk, alive, stuck>>
  PROVE  CoverInv'
<1>1. th[t].spool.dir = 0 /\ ThreadsInv
  BY DEF SpoolInv, ThreadsInv
<1>2. CASE Go(t, q)
  BY <1>1, <1>2, GoTo, CoverTurn DEF TurnOf
<1>3. CASE Leave(t)
  BY <1>1, <1>3, GoIdle, IdleCall, CoverTurn
<1>4. QED
  BY <1>2, <1>3

LEMMA CoverGetter ==
  ASSUME SpoolInv, CoverInv, NEW t \in Threads, ~Claims(t),
         Stream(t) \/ Ensure(t) \/ EnsureRefused(t) \/ WaitForBuild(t) \/ Release(t)
  PROVE  CoverInv'
<1> USE DEF SpoolInv
<1>1. ASSUME NEW p, Sleep(t, p) PROVE CoverInv'
  BY <1>1, CoverStays DEF Sleep, spoolVars, history
<1>2. {"idle", "acquire", "waitBuild", "create"} \subseteq CallNames \ {"read"}
  BY DEF CallNames, Asking
<1>3. CASE Stream(t) \/ EnsureRefused(t) \/ Release(t)
  <2>1. /\ th[t].pc \in {"stream", "ensure", "release"} /\ Leave(t)
        /\ UNCHANGED <<building, published, disk, alive, stuck>>
    BY <1>3 DEF Stream, EnsureRefused, Release, At, spoolVars, history
  <2>2. QED
    BY <1>2, <2>1, CoverGoes DEF Owning
<1>4. CASE Ensure(t) /\ ~Sleep(t, ~invalidating)
  <2>1. /\ th[t].pc = "ensure" /\ ~invalidating /\ UNCHANGED <<published, disk, alive, stuck>>
        /\ \E q \in {"acquire", "waitBuild", "create"} : Go(t, q)
        /\ building' = building \/ ~ready
    BY <1>4 DEF Ensure, At, Await, history
  <2>2. building' => building \/ published.dir = 0
    <3>1. ~ready => published.dir = 0
      BY <2>1 DEF OwnerInv, MutexInv, Changing
    <3>2. QED
      BY <2>1, <3>1
  <2>3. QED
    BY <1>2, <2>1, <2>2, CoverGoes DEF Owning
<1>5. CASE WaitForBuild(t) /\ ~Sleep(t, BuildOver)
  <2>1. /\ th[t].pc = "waitBuild" /\ UNCHANGED <<published, disk, alive, stuck>>
        /\ \/ (Go(t, "acquire") \/ Leave(t)) /\ building' = building
           \/ Go(t, "create")
    BY <1>5 DEF WaitForBuild, At, history
  <2>2. CASE Go(t, "create")
    <3>1. th'[t].pc = "create"
      BY <1>2, <2>2, GoTo DEF TurnOf
    <3>2. published.dir = 0
      BY <1>5, <3>1 DEF Claims
    <3>3. QED
      BY <1>2, <2>1, <2>2, <3>2, CoverGoes DEF Owning
  <2>3. QED
    BY <1>2, <2>1, <2>2, CoverGoes DEF Owning
<1>6. QED
  BY <1>1, <1>3, <1>4, <1>5

LEMMA CoverBuild ==
  ASSUME SpoolInv, CoverInv, NEW t \in Threads,
         CreateDirectory(t) \/ AppendPlacements(t) \/ Publish(t) \/ BuildFailed(t) \/ Discard(t)
  PROVE  CoverInv'
<1> USE DEF SpoolInv
<1>1. CASE CreateDirectory(t)
  <2>1. /\ th[t].pc = "create" /\ th[t].spool.dir = 0
        /\ UNCHANGED <<building, published, alive, stuck>>
    BY <1>1, CreateEffect DEF spoolVars, history
  <2>2. CASE TurnOf(t, "append") /\ th'[t].spool.dir = Fresh /\ disk' = disk \cup {Fresh}
    <3> HIDE DEF Fresh
    <3>1. alive /\ 0 \notin disk
      BY <2>1 DEF OwnerInv, ThreadsInv
    <3>2. /\ th'[t].pc # "read" /\ th'[t].spool.dir = Fresh
          /\ \A u \in Threads \ {t} : th'[u] = th[u]
      BY <2>2 DEF TurnOf
    <3>3. QED
      BY <2>1, <2>2, <3>1, <3>2 DEF CoverInv
  <2>3. CASE TurnOf(t, "failed") /\ th'[t].spool = th[t].spool /\ disk' = disk
    BY <2>1, <2>3, CoverTurn DEF TurnOf
  <2>4. QED
    BY <1>1, <2>2, <2>3, CreateEffect
<1>2. CASE AppendPlacements(t)
  <2>1. UNCHANGED <<building, published, disk, alive, stuck>>
    BY <1>2, AppendEffect DEF spoolVars, history
  <2>2. th'[t].spool.dir = th[t].spool.dir /\ th'[t].pc # "read" /\ \A u \in Threads \ {t} : th'[u] = th[u]
    BY <1>2, AppendEffect DEF TurnOf
  <2>3. QED
    BY <2>1, <2>2, CoverTurn
<1>3. CASE Publish(t)
  <2>1. /\ th[t].pc = "publish" /\ published' = th[t].spool /\ building' = FALSE
        /\ UNCHANGED <<disk, alive, stuck>>
    BY <1>3 DEF Publish, At, history
  <2>2. th' = [th EXCEPT ![t].pc = "acquire", ![t].spool = NoSpool]
    BY <1>3 DEF Publish
  <2>3. TurnOf(t, "acquire")
    BY <2>2, PutSpool, IdleCall DEF CallNames, Asking
  <2>4. th'[t].pc = "acquire" /\ \A u \in Threads \ {t} : th'[u] = th[u]
    BY <2>3 DEF TurnOf
  <2>5. building
    BY <2>1 DEF MutexInv, Building
  <2>6. \A u \in Threads : th[u].pc # "read"
    BY <2>5, BuildingAlone
  <2>7. published.dir = 0 /\ 0 \notin disk
    BY <2>5, BuildingAlone DEF ThreadsInv
  <2>8. QED
    BY <2>1, <2>4, <2>6, <2>7 DEF CoverInv
<1>4. CASE BuildFailed(t)
  <2>1. /\ th[t].pc = "failed" /\ published' = NoSpool /\ building' = FALSE
        /\ UNCHANGED <<disk, alive, stuck>>
    BY <1>4 DEF BuildFailed, At, history
  <2>2. th'[t].pc = "discard" /\ th'[t].spool = th[t].spool /\ \A u \in Threads \ {t} : th'[u] = th[u]
    BY <1>4, GoTo DEF BuildFailed, CallNames, Failing, TurnOf
  <2>3. building
    BY <2>1 DEF MutexInv, Building
  <2>4. \A u \in Threads : th[u].pc # "read"
    BY <2>3, BuildingAlone
  <2>5. published.dir = 0 /\ NoSpool.dir = 0
    BY <2>3, BuildingAlone, IdleCall
  <2>6. QED
    BY <2>1, <2>2, <2>4, <2>5 DEF CoverInv
<1>5. CASE Discard(t)
  <2>1. /\ th[t].pc = "discard" /\ Leave(t) /\ Removed(th[t].spool.dir)
        /\ UNCHANGED <<building, published, alive>>
    BY <1>5 DEF Discard, At, spoolVars
  <2>2. th'[t].pc = "idle" /\ th'[t].spool.dir = 0 /\ \A u \in Threads \ {t} : th'[u] = th[u]
    BY <2>1, GoIdle, IdleCall
  <2>3. alive /\ disk' \ stuck' \subseteq (disk \ stuck) \ {th[t].spool.dir}
    BY <2>1 DEF Removed, OwnerInv
  <2>4. QED
    BY <2>1, <2>2, <2>3 DEF CoverInv
<1>6. QED
  BY <1>1, <1>2, <1>3, <1>4, <1>5

LEMMA CoverRead ==
  ASSUME SpoolInv, CoverInv, NEW t \in Threads, AcquireReader(t) \/ ReadShards(t)
  PROVE  CoverInv'
<1> USE DEF SpoolInv
<1>1. CASE AcquireReader(t) /\ ~Usable
  <2>1. "ensure" \in CallNames \ {"read"}
    BY DEF CallNames, Asking
  <2>2. th[t].pc = "acquire" /\ Go(t, "ensure") /\ UNCHANGED <<building, published, disk, alive, stuck>>
    BY <1>1 DEF AcquireReader, At, history
  <2>3. QED
    BY <2>1, <2>2, CoverGoes DEF Owning
<1>2. CASE AcquireReader(t) /\ Usable
  <2>1. th[t].pc = "acquire" /\ UNCHANGED <<building, published, disk, alive, stuck>>
    BY <1>2 DEF AcquireReader, At, history
  <2>2. th' = [th EXCEPT ![t].pc = "read", ![t].spool = published]
    BY <1>2 DEF AcquireReader
  <2>3. TurnOf(t, "read") /\ th'[t].spool = published
    BY <2>2, PutSpool DEF CallNames, Reading, ThreadsInv
  <2>4. th'[t].spool = published /\ \A u \in Threads \ {t} : th'[u] = th[u]
    BY <2>3 DEF TurnOf
  <2>5. th[t].spool.dir = 0 /\ 0 \notin disk
    BY <2>1 DEF ThreadsInv, Owning
  <2>6. QED
    BY <2>1, <2>4, <2>5 DEF CoverInv
<1>3. CASE ReadShards(t)
  <2>1. th[t].pc = "read" /\ UNCHANGED <<building, published, disk, alive, stuck>>
    BY <1>3, ReadEffect DEF spoolVars, history
  <2>2. th'[t].pc = "release" /\ \A u \in Threads \ {t} : th'[u] = th[u]
    BY <1>3, ReadEffect DEF TurnOf
  <2>3. th[t].spool.dir = published.dir
    BY <2>1 DEF CoverInv
  <2>4. QED
    BY <2>1, <2>2, <2>3 DEF CoverInv
<1>4. QED
  BY <1>1, <1>2, <1>3

LEMMA CoverChange ==
  ASSUME SpoolInv, CoverInv, NEW t \in Threads, Mutator(t)
  PROVE  CoverInv'
<1> USE DEF SpoolInv
<1>1. ASSUME NEW p, Sleep(t, p) PROVE CoverInv'
  BY <1>1, CoverStays DEF Sleep, spoolVars, history
<1>2. ASSUME th[t].pc \in {"invalidate", "drain"}, Drained, TakeOver(t), UNCHANGED <<building, disk, alive, stuck>>
      PROVE  CoverInv'
  <2>1. /\ th'[t].pc = "remove" /\ th'[t].spool = published /\ published' = NoSpool
        /\ \A u \in Threads \ {t} : th'[u] = th[u]
    BY <1>2, TakeOverEffect DEF TurnOf
  <2>2. ReadersOf = {}
    BY <1>2, FS_EmptySet DEF Drained, MutexInv
  <2>3. \A u \in Threads : th[u].pc # "read"
    BY <2>2 DEF ReadersOf, Reading
  <2>4. th[t].spool.dir = 0 /\ 0 \notin disk /\ ~building
    BY <1>2 DEF ThreadsInv, Owning, Drained
  <2>5. QED
    BY <1>2, <2>1, <2>3, <2>4 DEF CoverInv
<1>3. CASE BeginInvalidation(t)
  <2>1. CASE Sleep(t, ~invalidating)
    BY <1>1, <2>1
  <2>2. CASE ~Sleep(t, ~invalidating)
    <3>1. th[t].pc = "invalidate" /\ UNCHANGED <<building, disk, alive, stuck>>
      BY <1>3, <2>2 DEF BeginInvalidation, At
    <3>2. CASE Drained
      BY <1>2, <1>3, <2>2, <3>1, <3>2 DEF BeginInvalidation
    <3>3. CASE ~Drained
      <4>1. Go(t, "drain") /\ UNCHANGED published
        BY <1>3, <2>2, <3>3 DEF BeginInvalidation
      <4>2. "drain" \in CallNames \ {"read"}
        BY DEF CallNames, Changing
      <4>3. QED
        BY <3>1, <4>1, <4>2, CoverGoes DEF Owning
    <3>4. QED
      BY <3>2, <3>3
  <2>3. QED
    BY <2>1, <2>2
<1>4. CASE Drain(t)
  <2>1. CASE Sleep(t, Drained)
    BY <1>1, <2>1
  <2>2. CASE ~Sleep(t, Drained)
    <3>1. th[t].pc = "drain" /\ Drained /\ TakeOver(t) /\ UNCHANGED <<building, disk, alive, stuck>>
      BY <1>4, <2>2 DEF Drain, At, Await
    <3>2. QED
      BY <1>2, <3>1
  <2>3. QED
    BY <2>1, <2>2
<1>5. CASE RemoveSpool(t)
  <2>1. th[t].pc = "remove" /\ Removed(th[t].spool.dir) /\ UNCHANGED <<building, published, alive>>
    BY <1>5 DEF RemoveSpool, At, spoolVars
  <2>2. th' = [th EXCEPT ![t].pc = "reopen", ![t].spool = NoSpool]
    BY <1>5 DEF RemoveSpool
  <2>3. TurnOf(t, "reopen")
    BY <2>2, PutSpool, IdleCall DEF CallNames, Changing
  <2>4. th'[t].pc = "reopen" /\ \A u \in Threads \ {t} : th'[u] = th[u]
    BY <2>3 DEF TurnOf
  <2>5. alive /\ disk' \ stuck' \subseteq (disk \ stuck) \ {th[t].spool.dir}
    BY <2>1 DEF Removed, OwnerInv
  <2>6. QED
    BY <2>1, <2>4, <2>5 DEF CoverInv
<1>6. CASE Reopen(t)
  <2>1. "assign" \in CallNames \ {"read"}
    BY DEF CallNames
  <2>2. th[t].pc = "reopen" /\ Go(t, "assign") /\ UNCHANGED <<building, published, disk, alive, stuck>>
    BY <1>6 DEF Reopen, At, history
  <2>3. QED
    BY <2>1, <2>2, CoverGoes DEF Owning
<1>7. ASSUME th[t].pc = "assign", Leave(t), UNCHANGED <<building, published, disk, alive, stuck>>
      PROVE  CoverInv'
  <2>1. "idle" \in CallNames \ {"read"}
    BY DEF CallNames
  <2>2. QED
    BY <1>7, <2>1, CoverGoes DEF Owning
<1>8. CASE AssignOffset(t) \/ AssignOptions(t)
  BY <1>7, <1>8 DEF AssignOffset, AssignOptions, At, spoolVars
<1>9. CASE ReadFile(t)
  <2>1. th[t].pc = "assign" /\ UNCHANGED <<building, published, disk, alive, stuck>>
    BY <1>9 DEF ReadFile, At, spoolVars, history
  <2>2. CASE Leave(t)
    BY <1>7, <2>1, <2>2
  <2>3. CASE th' = [th EXCEPT ![t] = LoneRecord(<<"offset", Origin>>)]
    <3> DEFINE r == LoneRecord(<<"offset", Origin>>)
    <3>1. IsCall(r) /\ r.pc = "invalidate" /\ r.spool = NoSpool
      BY ChangingCall
    <3>2. th' = [th EXCEPT ![t] = r]
      BY <2>3
    <3> HIDE DEF r
    <3>3. th'[t] = r /\ \A u \in Threads \ {t} : th'[u] = th[u]
      BY <3>1, <3>2, Turn
    <3>4. th'[t].pc # "read" /\ th'[t].spool.dir = 0 /\ th[t].spool.dir = 0
      BY <2>1, <3>1, <3>3, IdleCall DEF ThreadsInv, Owning
    <3>5. QED
      BY <2>1, <3>3, <3>4, CoverTurn
  <2>4. QED
    BY <1>9, <2>2, <2>3 DEF ReadFile, LoneRecord
<1>10. QED
  BY <1>3, <1>4, <1>5, <1>6, <1>8, <1>9 DEF Mutator

LEMMA CoverDestroy ==
  ASSUME SpoolInv, CoverInv, Destroy
  PROVE  CoverInv'
<1>1. /\ \A t \in Threads : th[t].pc = "idle"
      /\ published' = NoSpool /\ Removed(published.dir) /\ UNCHANGED <<th, building>>
  BY DEF Destroy, At
<1>2. ~building /\ 0 \notin disk /\ \A t \in Threads : th[t].spool.dir = 0
  BY <1>1 DEF SpoolInv, MutexInv, ThreadsInv, Building, Owning
<1>3. disk \ stuck \subseteq {published.dir}
  BY <1>2 DEF CoverInv
<1>4. disk' \subseteq stuck'
  BY <1>1, <1>3 DEF Removed
<1>5. QED
  BY <1>1, <1>2, <1>4 DEF CoverInv

LEMMA CoverStep ==
  ASSUME SpoolInv, CoverInv, [StructureNext]_structure, \A t \in Threads : ~Claims(t)
  PROVE  CoverInv'
<1>1. [SpoolNext]_readerVars
  BY StepsOfSpool
<1>2. CASE UNCHANGED readerVars
  BY <1>2, CoverStays DEF readerVars, spoolVars, history
<1>3. QED
  BY <1>1, <1>2, CoverBegins, CoverGetter, CoverBuild, CoverRead, CoverChange, CoverDestroy
  DEF SpoolNext, Working, Getter

LEMMA CoverStart == StructureInit => CoverInv /\ PairInv
<1> SUFFICES ASSUME StructureInit PROVE CoverInv /\ PairInv
  OBVIOUS
<1>1. /\ th = [t \in Threads |-> Idle] /\ building = FALSE /\ published = NoSpool /\ disk = {} /\ alive = TRUE
  BY Zenon DEF SpoolInit, StructureInit
<1>2. QED
  BY <1>1, IdleCall DEF CoverInv, PairInv

\* However many threads call, no directory of shards is left behind as long as
\* no thread that waited for a build begins another one while a published spool
\* is about to be taken over.
THEOREM NoSpoolIsLeft ==
  StructureSpec /\ [][\A t \in Threads : ~Claims(t)]_structure => []NoSpoolLeftBehind
<1>1. CoverInv => NoSpoolLeftBehind
  BY DEF CoverInv, NoSpoolLeftBehind
<1>2. SpoolInv /\ CoverInv /\ [StructureNext]_structure /\ [\A t \in Threads : ~Claims(t)]_structure => CoverInv'
  <2>1. CASE UNCHANGED structure
    BY <2>1, CoverStays DEF structure, readerVars, spoolVars, history
  <2>2. QED
    BY <2>1, CoverStep
<1>3. QED
  BY <1>1, <1>2, CoverStart, AlwaysSpoolInv, PTL DEF StructureSpec

(***************************************************************************)
(* Where a step leads.                                                     *)
(***************************************************************************)

Moves ==
  { <<"ensure", "acquire">>, <<"ensure", "waitBuild">>, <<"ensure", "create">>,
    <<"waitBuild", "acquire">>, <<"waitBuild", "create">>, <<"create", "append">>, <<"create", "failed">>,
    <<"append", "publish">>, <<"append", "failed">>, <<"publish", "acquire">>, <<"failed", "discard">>,
    <<"acquire", "read">>, <<"acquire", "ensure">>, <<"read", "release">>, <<"invalidate", "remove">>,
    <<"invalidate", "drain">>, <<"drain", "remove">>, <<"remove", "reopen">>, <<"reopen", "assign">> }

\* A call goes from one place to the next, or ends.
Goes(t) == \E q \in CallNames : TurnOf(t, q) /\ <<th[t].pc, q>> \in Moves
Ends(t) ==
  /\ th[t].pc \in {"stream", "ensure", "waitBuild", "discard", "release", "assign"}
  /\ th'[t] = Idle /\ \A u \in Threads \ {t} : th'[u] = th[u]
GoesAgain(t) ==
  /\ th[t].pc = "assign" /\ th[t].change[1] = "read"
  /\ th'[t] = LoneRecord(<<"offset", Origin>>) /\ \A u \in Threads \ {t} : th'[u] = th[u]

LEMMA GoGoes ==
  ASSUME ThreadsInv, NEW t \in Threads, NEW q \in CallNames, Go(t, q), <<th[t].pc, q>> \in Moves
  PROVE  Goes(t)
  BY GoTo DEF Goes

LEMMA EnsureTurns ==
  ASSUME SpoolInv, NEW t \in Threads, Ensure(t), th' # th
  PROVE  /\ Goes(t) /\ th'[t].pc \in {"acquire", "waitBuild", "create"}
         /\ th'[t].pc = "waitBuild" => building
<1> USE DEF SpoolInv
<1>1. /\ th[t].pc = "ensure"
      /\ \/ Go(t, "acquire")
         \/ Go(t, "waitBuild") /\ building
         \/ Go(t, "create")
  BY DEF Ensure, At, Sleep
<1>2. ASSUME NEW q \in {"acquire", "waitBuild", "create"}, Go(t, q) PROVE Goes(t) /\ th'[t].pc = q
  <2>1. q \in CallNames /\ <<"ensure", q>> \in Moves
    BY DEF CallNames, Asking, Moves
  <2>2. QED
    BY <1>1, <1>2, <2>1, GoGoes, GoTo DEF TurnOf
<1>3. QED
  BY <1>1, <1>2

LEMMA WaitTurns ==
  ASSUME SpoolInv, NEW t \in Threads, WaitForBuild(t), th' # th
  PROVE  /\ Goes(t) \/ Ends(t)
         /\ th'[t].pc \in {"acquire", "create", "idle"}
         /\ th'[t].pc = "create" => ~ready
<1> USE DEF SpoolInv
<1>1. /\ th[t].pc = "waitBuild"
      /\ \/ Go(t, "acquire")
         \/ Leave(t)
         \/ Go(t, "create") /\ ~ready
  BY DEF WaitForBuild, At, Sleep
<1>2. ASSUME NEW q \in {"acquire", "create"}, Go(t, q) PROVE Goes(t) /\ th'[t].pc = q
  <2>1. q \in CallNames /\ <<"waitBuild", q>> \in Moves
    BY DEF CallNames, Asking, Moves
  <2>2. QED
    BY <1>1, <1>2, <2>1, GoGoes, GoTo DEF TurnOf
<1>3. ASSUME Leave(t) PROVE Ends(t) /\ th'[t].pc = "idle"
  BY <1>1, <1>3, GoIdle, IdleCall DEF Ends
<1>4. QED
  BY <1>1, <1>2, <1>3

LEMMA BuildTurns ==
  ASSUME SpoolInv, NEW t \in Threads,
         CreateDirectory(t) \/ AppendPlacements(t) \/ Publish(t) \/ BuildFailed(t) \/ Discard(t)
  PROVE  Goes(t) \/ Ends(t)
<1> USE DEF SpoolInv
<1>0. {"append", "publish", "failed", "discard", "acquire"} \subseteq CallNames
  BY DEF CallNames, Asking, Failing
<1>1. CASE CreateDirectory(t)
  BY <1>0, <1>1, CreateEffect DEF Goes, Moves
<1>2. CASE AppendPlacements(t)
  BY <1>0, <1>2, AppendEffect DEF Goes, Moves
<1>3. CASE Publish(t)
  <2>1. th[t].pc = "publish" /\ <<"publish", "acquire">> \in Moves
    BY <1>3 DEF Publish, At, Moves
  <2>2. th' = [th EXCEPT ![t].pc = "acquire", ![t].spool = NoSpool]
    BY <1>3 DEF Publish
  <2>3. TurnOf(t, "acquire")
    BY <1>0, <2>2, PutSpool, IdleCall
  <2>4. QED
    BY <1>0, <2>1, <2>3 DEF Goes
<1>4. CASE BuildFailed(t)
  <2>1. th[t].pc = "failed" /\ Go(t, "discard") /\ <<"failed", "discard">> \in Moves
    BY <1>4 DEF BuildFailed, At, Moves
  <2>2. QED
    BY <1>0, <2>1, GoGoes
<1>5. CASE Discard(t)
  BY <1>5, GoIdle DEF Discard, At, Ends
<1>6. QED
  BY <1>1, <1>2, <1>3, <1>4, <1>5

LEMMA ReadTurns ==
  ASSUME SpoolInv, NEW t \in Threads,
         Stream(t) \/ EnsureRefused(t) \/ AcquireReader(t) \/ ReadShards(t) \/ Release(t)
  PROVE  Goes(t) \/ Ends(t)
<1> USE DEF SpoolInv
<1>0. {"read", "ensure", "release"} \subseteq CallNames
  BY DEF CallNames, Asking, Reading
<1>1. CASE Stream(t) \/ EnsureRefused(t) \/ Release(t)
  BY <1>1, GoIdle DEF Stream, EnsureRefused, Release, At, Ends
<1>2. CASE AcquireReader(t)
  <2>1. th[t].pc = "acquire" /\ {<<"acquire", "read">>, <<"acquire", "ensure">>} \subseteq Moves
    BY <1>2 DEF AcquireReader, At, Moves
  <2>2. CASE Usable
    <3>1. th' = [th EXCEPT ![t].pc = "read", ![t].spool = published]
      BY <1>2, <2>2 DEF AcquireReader
    <3>2. TurnOf(t, "read")
      BY <1>0, <3>1, PutSpool DEF ThreadsInv
    <3>3. QED
      BY <1>0, <2>1, <3>2 DEF Goes
  <2>3. CASE ~Usable
    BY <1>0, <1>2, <2>1, <2>3, GoGoes DEF AcquireReader
  <2>4. QED
    BY <2>2, <2>3
<1>3. CASE ReadShards(t)
  BY <1>0, <1>3, ReadEffect DEF Goes, Moves
<1>4. QED
  BY <1>1, <1>2, <1>3

LEMMA ChangeTurns ==
  ASSUME SpoolInv, NEW t \in Threads, Mutator(t), th' # th
  PROVE  /\ Goes(t) \/ Ends(t) \/ GoesAgain(t)
         /\ BeginInvalidation(t) => th'[t].pc \in {"remove", "drain"}
         /\ th'[t].pc = "drain" => (building \/ readers # 0)
         /\ published' \in {published, NoSpool}
<1> USE DEF SpoolInv
<1>0. {"remove", "drain", "reopen", "assign"} \subseteq CallNames
  BY DEF CallNames, Changing
<1>1. CASE BeginInvalidation(t)
  <2>1. th[t].pc = "invalidate" /\ ~Sleep(t, ~invalidating)
        /\ {<<"invalidate", "remove">>, <<"invalidate", "drain">>} \subseteq Moves
    BY <1>1 DEF BeginInvalidation, At, Sleep, Moves
  <2>2. CASE Drained
    <3>1. TakeOver(t)
      BY <1>1, <2>1, <2>2 DEF BeginInvalidation
    <3>2. TurnOf(t, "remove") /\ published' = NoSpool
      BY <3>1, TakeOverEffect
    <3>3. QED
      BY <1>0, <1>1, <2>1, <3>2 DEF Goes, TurnOf
  <2>3. CASE ~Drained
    <3>1. Go(t, "drain") /\ published' = published
      BY <1>1, <2>1, <2>3 DEF BeginInvalidation
    <3>2. TurnOf(t, "drain") /\ (building \/ readers # 0)
      BY <1>0, <2>3, <3>1, GoTo DEF Drained
    <3>3. QED
      BY <1>0, <1>1, <2>1, <3>1, <3>2 DEF Goes, TurnOf
  <2>4. QED
    BY <2>2, <2>3
<1>2. CASE Drain(t)
  <2>1. th[t].pc = "drain" /\ TakeOver(t) /\ <<"drain", "remove">> \in Moves
    BY <1>2 DEF Drain, At, Sleep, Moves
  <2>2. TurnOf(t, "remove") /\ published' = NoSpool
    BY <2>1, TakeOverEffect
  <2>3. ~BeginInvalidation(t)
    BY <2>1 DEF BeginInvalidation, At
  <2>4. QED
    BY <1>0, <2>1, <2>2, <2>3 DEF Goes, TurnOf
<1>3. CASE RemoveSpool(t)
  <2>1. th[t].pc = "remove" /\ <<"remove", "reopen">> \in Moves /\ published' = published
    BY <1>3 DEF RemoveSpool, At, Moves, spoolVars
  <2>2. th' = [th EXCEPT ![t].pc = "reopen", ![t].spool = NoSpool]
    BY <1>3 DEF RemoveSpool
  <2>3. TurnOf(t, "reopen")
    BY <1>0, <2>2, PutSpool, IdleCall
  <2>4. ~BeginInvalidation(t)
    BY <2>1 DEF BeginInvalidation, At
  <2>5. QED
    BY <1>0, <2>1, <2>3, <2>4 DEF Goes, TurnOf
<1>4. CASE Reopen(t)
  <2>1. th[t].pc = "reopen" /\ <<"reopen", "assign">> \in Moves /\ published' = published /\ Go(t, "assign")
    BY <1>4 DEF Reopen, At, Moves
  <2>2. TurnOf(t, "assign")
    BY <1>0, <2>1, GoTo
  <2>3. ~BeginInvalidation(t)
    BY <2>1 DEF BeginInvalidation, At
  <2>4. QED
    BY <1>0, <2>1, <2>2, <2>3 DEF Goes, TurnOf
<1>5. CASE AssignOffset(t) \/ AssignOptions(t) \/ ReadFile(t)
  <2>1. th[t].pc = "assign" /\ published' = published
        /\ \/ Leave(t)
           \/ th[t].change[1] = "read" /\ th' = [th EXCEPT ![t] = LoneRecord(<<"offset", Origin>>)]
    BY <1>5 DEF AssignOffset, AssignOptions, ReadFile, At, spoolVars, LoneRecord
  <2>2. ~BeginInvalidation(t)
    BY <2>1 DEF BeginInvalidation, At
  <2>3. CASE Leave(t)
    <3>1. th'[t] = Idle /\ \A u \in Threads \ {t} : th'[u] = th[u]
      BY <2>3, GoIdle
    <3>2. QED
      BY <2>1, <2>2, <3>1, IdleCall DEF Ends
  <2>4. CASE th[t].change[1] = "read" /\ th' = [th EXCEPT ![t] = LoneRecord(<<"offset", Origin>>)]
    <3> DEFINE r == LoneRecord(<<"offset", Origin>>)
    <3>1. IsCall(r) /\ r.pc = "invalidate"
      BY ChangingCall
    <3>2. th' = [th EXCEPT ![t] = r]
      BY <2>4
    <3> HIDE DEF r
    <3>3. th'[t] = r /\ \A u \in Threads \ {t} : th'[u] = th[u]
      BY <3>1, <3>2, Turn
    <3>4. th'[t].pc = "invalidate" /\ GoesAgain(t)
      BY <2>1, <2>4, <3>1, <3>3 DEF GoesAgain, r
    <3>5. QED
      BY <2>1, <2>2, <3>4
  <2>5. QED
    BY <2>1, <2>3, <2>4
<1>6. QED
  BY <1>1, <1>2, <1>3, <1>4, <1>5 DEF Mutator

(***************************************************************************)
(* Two threads.                                                            *)
(***************************************************************************)

AtMostTwo == \A t, u, v \in Threads : t = u \/ t = v \/ u = v

LEMMA PairTurn ==
  ASSUME PairInv, NEW t \in Threads, \A u \in Threads \ {t} : th'[u] = th[u],
         th'[t].pc \notin {"drain", "waitBuild"}, published' = published \/ published'.dir = 0
  PROVE  PairInv'
  BY DEF PairInv

LEMMA GoesTo ==
  ASSUME NEW t \in Threads, Goes(t) \/ Ends(t) \/ GoesAgain(t)
  PROVE  /\ \A u \in Threads \ {t} : th'[u] = th[u]
         /\ th'[t].pc = "drain" => th[t].pc = "invalidate"
         /\ th'[t].pc = "waitBuild" => th[t].pc = "ensure"
<1>1. CASE Goes(t)
  BY <1>1 DEF Goes, TurnOf, Moves
<1>2. CASE Ends(t)
  BY <1>2, IdleCall DEF Ends
<1>3. CASE GoesAgain(t)
  BY <1>3, ChangingCall DEF GoesAgain
<1>4. QED
  BY <1>1, <1>2, <1>3

LEMMA MutatorAt ==
  ASSUME NEW t \in Threads, Mutator(t)
  PROVE  /\ th[t].pc \in {"invalidate", "drain", "remove", "reopen", "assign"}
         /\ th[t].pc = "invalidate" => BeginInvalidation(t)
  BY DEF Mutator, BeginInvalidation, Drain, RemoveSpool, Reopen, AssignOffset, AssignOptions, ReadFile, At

LEMMA PairStays ==
  ASSUME PairInv, th' = th, published' = published \/ published'.dir = 0
  PROVE  PairInv'
  BY DEF PairInv

\* Where a begun call stands.
LEMMA BegunTurns ==
  ASSUME SpoolInv, NEW t \in Threads, Ask(t) \/ SetOffset(t) \/ SetOptions(t) \/ ReadAgain(t)
  PROVE  /\ th[t].pc = "idle" /\ th'[t].pc \in {"ensure", "stream", "invalidate"}
         /\ \A u \in Threads \ {t} : th'[u] = th[u]
         /\ UNCHANGED spoolVars
<1>1. UNCHANGED spoolVars
  BY DEF Ask, SetOffset, SetOptions, ReadAgain
<1>2. PICK r : Begin(t, r) /\ IsCall(r) /\ r.pc \in {"ensure", "stream", "invalidate"}
  <2>1. CASE Ask(t)
    <3> DEFINE q == IF options.allow THEN "ensure" ELSE "stream"
    <3>1. q \in CallNames /\ q \in {"ensure", "stream"}
      BY DEF CallNames, Asking
    <3>2. PICK want \in Requests : Begin(t, AskRecord(q, want))
      BY <2>1, AskBegins
    <3> HIDE DEF q
    <3>3. IsCall(AskRecord(q, want)) /\ AskRecord(q, want).pc = q
      BY <3>1, AskingCall
    <3>4. QED
      BY <3>1, <3>2, <3>3
  <2>2. CASE SetOffset(t) \/ SetOptions(t) \/ ReadAgain(t)
    BY <2>2, SetsBegin, ChangingCall
  <2>3. QED
    BY <2>1, <2>2
<1>3. th[t].pc = "idle" /\ th' = [th EXCEPT ![t] = r]
  BY <1>2 DEF Begin, At
<1>4. th'[t] = r /\ \A u \in Threads \ {t} : th'[u] = th[u]
  BY <1>2, <1>3, Turn DEF SpoolInv
<1>5. QED
  BY <1>1, <1>2, <1>3, <1>4

\* With two threads, who drains waits for the other to build or to read.
LEMMA PairStep ==
  ASSUME AtMostTwo, SpoolInv, CoverInv, PairInv, [StructureNext]_structure
  PROVE  PairInv'
<1> USE DEF SpoolInv
<1>1. [SpoolNext]_readerVars
  BY StepsOfSpool
<1>2. CASE UNCHANGED readerVars
  BY <1>2, PairStays DEF readerVars, spoolVars
<1>3. CASE Destroy
  BY <1>3, PairStays, IdleCall DEF Destroy
<1>4. ASSUME NEW t \in Threads, Calling(t) PROVE PairInv'
  <2>1. CASE AskEntities(t)
    BY <2>1, PairStays DEF AskEntities, spoolVars
  <2>2. CASE ~AskEntities(t)
    <3>1. /\ \A u \in Threads \ {t} : th'[u] = th[u]
          /\ th'[t].pc \notin {"drain", "waitBuild"} /\ published' = published
      BY <1>4, <2>2, BegunTurns DEF Calling, spoolVars
    <3>2. QED
      BY <3>1, PairTurn
  <2>3. QED
    BY <2>1, <2>2
<1>5. ASSUME NEW t \in Threads, Ensure(t) \/ WaitForBuild(t) PROVE PairInv'
  <2>1. published' = published
    BY <1>5 DEF Ensure, WaitForBuild, Sleep, spoolVars
  <2>2. CASE th' = th
    BY <2>1, <2>2, PairStays
  <2>3. CASE th' # th
    <3>1. /\ \A u \in Threads \ {t} : th'[u] = th[u]
          /\ th'[t].pc \in {"acquire", "waitBuild", "create", "idle"}
          /\ th'[t].pc = "waitBuild" => building
      BY <1>5, <2>3, EnsureTurns, WaitTurns DEF Goes, Ends, TurnOf
    <3>2. CASE th'[t].pc # "waitBuild"
      BY <2>1, <3>1, <3>2, PairTurn
    <3>3. CASE building
      BY <2>1, <3>3, BuildingAlone DEF PairInv
    <3>4. QED
      BY <3>1, <3>2, <3>3
  <2>4. QED
    BY <2>2, <2>3
<1>6. ASSUME NEW t \in Threads,
             CreateDirectory(t) \/ AppendPlacements(t) \/ Publish(t) \/ BuildFailed(t) \/ Discard(t)
      PROVE PairInv'
  <2>1. /\ \A u \in Threads \ {t} : th'[u] = th[u]
        /\ th'[t].pc \notin {"drain", "waitBuild"}
    <3>1. th[t].pc \notin {"invalidate", "ensure"}
      BY <1>6, CreateEffect, AppendEffect DEF Publish, BuildFailed, Discard, At
    <3>2. QED
      BY <1>6, <3>1, BuildTurns, GoesTo
  <2>2. CASE Publish(t)
    \* One who drains and one who waits would be two others.
    <3>1. th[t].pc = "publish"
      BY <2>2 DEF Publish, At
    <3>2. ASSUME NEW u \in Threads, NEW v \in Threads, th'[u].pc = "drain", th'[v].pc = "waitBuild"
          PROVE  FALSE
      <4>1. u # t /\ v # t
        BY <2>1, <3>2
      <4>2. u # v
        BY <3>2
      <4>3. QED
        BY <4>1, <4>2 DEF AtMostTwo
    <3>3. QED
      BY <3>2 DEF PairInv
  <2>3. CASE ~Publish(t)
    <3>1. published' \in {published, NoSpool}
      BY <1>6, <2>3, CreateEffect, AppendEffect DEF BuildFailed, Discard, spoolVars
    <3>2. QED
      BY <2>1, <3>1, PairTurn, IdleCall
  <2>4. QED
    BY <2>2, <2>3
<1>7. ASSUME NEW t \in Threads,
             Stream(t) \/ EnsureRefused(t) \/ AcquireReader(t) \/ ReadShards(t) \/ Release(t)
      PROVE PairInv'
  <2>1. /\ \A u \in Threads \ {t} : th'[u] = th[u]
        /\ th'[t].pc \notin {"drain", "waitBuild"}
    <3>1. CASE EnsureRefused(t)
      BY <3>1, GoIdle, IdleCall DEF EnsureRefused
    <3>2. CASE ~EnsureRefused(t)
      <4>1. th[t].pc \in {"stream", "acquire", "read", "release"}
        BY <1>7, <3>2, ReadEffect DEF Stream, AcquireReader, Release, At
      <4>2. QED
        BY <1>7, <4>1, ReadTurns, GoesTo
    <3>3. QED
      BY <3>1, <3>2
  <2>2. published' = published
    BY <1>7 DEF Stream, EnsureRefused, AcquireReader, ReadShards, Release, spoolVars
  <2>3. QED
    BY <2>1, <2>2, PairTurn
<1>8. ASSUME NEW t \in Threads, Mutator(t) PROVE PairInv'
  <2>1. published' = published \/ published'.dir = 0
    <3>1. CASE th' = th
      <4>1. published' \in {published, NoSpool}
        BY <1>8 DEF Mutator, BeginInvalidation, Drain, TakeOver, RemoveSpool, Reopen, AssignOffset,
           AssignOptions, ReadFile, Sleep, spoolVars
      <4>2. QED
        BY <4>1, IdleCall
    <3>2. CASE th' # th
      BY <1>8, <3>2, ChangeTurns, IdleCall
    <3>3. QED
      BY <3>1, <3>2
  <2>2. CASE th' = th
    BY <2>1, <2>2, PairStays
  <2>3. CASE th' # th /\ th'[t].pc # "drain"
    <3>1. th'[t].pc # "waitBuild" /\ \A u \in Threads \ {t} : th'[u] = th[u]
      BY <1>8, <2>3, ChangeTurns, MutatorAt, GoesTo
    <3>2. QED
      BY <2>1, <2>3, <3>1, PairTurn
  <2>4. CASE th' # th /\ th'[t].pc = "drain"
    <3>1. (building \/ readers # 0) /\ \A u \in Threads \ {t} : th'[u] = th[u]
      BY <1>8, <2>4, ChangeTurns, GoesTo
    <3>2. CASE building
      <4>1. published'.dir = 0
        BY <2>1, <3>2 DEF CoverInv
      <4>2. QED
        BY <4>1 DEF PairInv
    <3>3. CASE readers # 0
      <4>1. PICK v \in Threads : th[v].pc \in Reading
        <5>1. ReadersOf # {}
          BY <3>3, FS_EmptySet DEF MutexInv
        <5>2. QED
          BY <5>1 DEF ReadersOf
      <4>2. v # t
        BY <1>8, <2>4, <4>1, ChangeTurns, GoesTo DEF Reading
      <4>3. ASSUME NEW w \in Threads, th'[w].pc = "waitBuild" PROVE FALSE
        BY <2>4, <3>1, <4>1, <4>2, <4>3 DEF AtMostTwo, Reading
      <4>4. QED
        BY <4>3 DEF PairInv
    <3>4. QED
      BY <3>1, <3>2, <3>3
  <2>5. QED
    BY <2>2, <2>3, <2>4
<1>9. QED
  BY <1>1, <1>2, <1>3, <1>4, <1>5, <1>6, <1>7, <1>8 DEF SpoolNext, Working, Getter

LEMMA NobodyClaims ==
  ASSUME SpoolInv, PairInv, NEW t \in Threads
  PROVE  ~Claims(t)
<1> SUFFICES ASSUME Claims(t) PROVE FALSE
  OBVIOUS
<1>1. th[t].pc = "waitBuild" /\ th'[t].pc = "create" /\ published.dir # 0
  BY DEF Claims, WaitForBuild, At
<1>2. ~ready
  BY <1>1, WaitTurns DEF Claims
<1>3. PICK u \in Threads : th[u].pc = "drain"
  BY <1>1, <1>2 DEF SpoolInv, OwnerInv
<1>4. QED
  BY <1>1, <1>3 DEF PairInv

\* Two threads leave no directory of shards behind, whatever they ask, change
\* and fail at.
THEOREM TwoLeaveNoSpool ==
  ASSUME AtMostTwo
  PROVE  StructureSpec => []NoSpoolLeftBehind
<1>1. CoverInv => NoSpoolLeftBehind
  BY DEF CoverInv, NoSpoolLeftBehind
<1>2. SpoolInv /\ CoverInv /\ PairInv /\ [StructureNext]_structure => CoverInv' /\ PairInv'
  BY PairStep, NobodyClaims, CoverStep
<1>3. QED
  BY <1>1, <1>2, CoverStart, AlwaysSpoolInv, PTL DEF StructureSpec

(***************************************************************************)
(* The structure: one file with one offset.                                *)
(***************************************************************************)

LEMMA ReadHasOk ==
  ASSUME NEW d \in Documents, NEW mode \in {"full", "bounds", "stream"}
  PROVE  "ok" \in DOMAIN Contents[d][mode]
<1>1. Contents[d][mode] = Read(d, mode)
  BY DEF Contents
<1>2. "ok" \in DOMAIN Failure
  BY DEF Failure
<1>3. ASSUME NEW a, NEW b, NEW e, NEW f, NEW g
      PROVE  "ok" \in DOMAIN [ok |-> TRUE, min |-> a, dim |-> b, placed |-> e, count |-> f, entities |-> g]
  OBVIOUS
<1>4. "ok" \in DOMAIN Read(d, mode)
  BY <1>2, <1>3, Zenon DEF Read
<1>5. QED
  BY <1>1, <1>4

LEMMA StructureStays ==
  ASSUME StructureInv, UNCHANGED <<structureVars, th>>, ready' => ready
  PROVE  StructureInv'
<1>1. Mode' = Mode
  BY DEF Mode, structureVars
<1>2. QED
  BY <1>1 DEF StructureInv, structureVars

\* Who does not call alone is followed by nobody who does.
LEMMA StructureGoes ==
  ASSUME ThreadsInv, StructureInv, NEW t \in Threads, Goes(t) \/ Ends(t), UNCHANGED structureVars,
         th[t].alone /\ th'[t].pc \notin {"invalidate", "drain"} => ~ready'
  PROVE  StructureInv'
<1>1. Mode' = Mode /\ UNCHANGED <<source, parsed, mOffset, options>>
  BY DEF Mode, structureVars
<1>2. \A u \in Threads \ {t} : th'[u] = th[u]
  BY DEF Goes, Ends, TurnOf
<1>3. th[t].pc # "idle"
  BY DEF Goes, Ends, Moves
<1>4. \A u \in Threads \ {t} : ~th[u].alone
  BY <1>3 DEF StructureInv
<1>5. CASE Ends(t)
  <2>1. th'[t].pc = "idle" /\ ~th'[t].alone
    BY <1>5, IdleCall DEF Ends
  <2>2. QED
    BY <1>1, <1>2, <1>4, <2>1 DEF StructureInv, Changing
<1>6. CASE Goes(t)
  <2>1. PICK q \in CallNames : TurnOf(t, q) /\ <<th[t].pc, q>> \in Moves
    BY <1>6 DEF Goes
  <2>2. /\ th'[t].pc = q /\ th'[t].want = th[t].want /\ th'[t].change = th[t].change
        /\ th'[t].alone => th[t].alone
    BY <2>1 DEF TurnOf
  <2>3. /\ q \in Changing \cup {"invalidate", "assign"} <=> th[t].pc \in Changing \cup {"invalidate", "assign"}
        /\ q # "idle" /\ q # "invalidate"
    BY <2>1 DEF Moves, Changing
  <2>4. /\ source' \in Documents /\ mOffset' \in Offsets \cup {Origin} /\ options' \in Options
        /\ parsed'.ok => parsed' = Contents[source'][Mode']
        /\ "ok" \in DOMAIN parsed'
    BY <1>1 DEF StructureInv
  <2>5. \A u \in Threads : th'[u].pc \in Changing \cup {"invalidate", "assign"} =>
          \/ \E o \in Offsets \cup {Origin} : th'[u].change = <<"offset", o>>
          \/ \E o \in Options : th'[u].change = <<"options", o>>
          \/ th'[u].alone /\ \E d \in Documents : th'[u].change = <<"read", d>>
    <3>1. th'[t].alone <=> th[t].alone
      BY <2>1 DEF TurnOf
    <3>2. QED
      BY <1>2, <2>2, <2>3, <3>1 DEF StructureInv
  <2>6. \A u \in Threads : th'[u].pc \notin Changing \cup {"invalidate", "assign", "idle"} => th'[u].want \in Requests
    BY <1>2, <1>3, <2>2, <2>3 DEF StructureInv
  <2>7. \A u \in Threads : th'[u].alone =>
          /\ th'[u].pc \in Changing \cup {"invalidate", "assign"}
          /\ \A v \in Threads \ {u} : th'[v].pc = "idle"
          /\ th'[u].pc \notin {"invalidate", "drain"} => ~ready'
    BY <1>2, <1>4, <2>2, <2>3 DEF StructureInv
  <2>8. QED
    BY <2>4, <2>5, <2>6, <2>7 DEF StructureInv
<1>7. QED
  BY <1>5, <1>6

LEMMA StructureBegins ==
  ASSUME SpoolInv, StructureInv, NEW t \in Threads, Calling(t)
  PROVE  StructureInv'
<1> USE DEF SpoolInv
<1>1. UNCHANGED structureVars /\ ready' = ready
  BY DEF Calling, Ask, AskEntities, SetOffset, SetOptions, ReadAgain, spoolVars
<1>2. Mode' = Mode /\ UNCHANGED <<source, parsed, mOffset, options>>
  BY <1>1 DEF Mode, structureVars
<1>3. CASE AskEntities(t)
  BY <1>1, <1>3, StructureStays DEF AskEntities
<1>4. ASSUME NEW r, IsCall(r), Begin(t, r)
      PROVE  /\ th'[t] = r /\ \A u \in Threads \ {t} : th'[u] = th[u]
             /\ \A u \in Threads : ~th[u].alone
             /\ th[t].pc = "idle"
  <2>1. th' = [th EXCEPT ![t] = r] /\ th[t].pc = "idle" /\ \A u \in Threads : ~th[u].alone
    BY <1>4 DEF Begin, At
  <2>2. QED
    BY <1>4, <2>1, Turn
<1>5. CASE Ask(t)
  <2> DEFINE q == IF options.allow THEN "ensure" ELSE "stream"
  <2>1. q \in CallNames /\ q \in {"ensure", "stream"}
    BY DEF CallNames, Asking
  <2>2. PICK want \in Requests : Begin(t, AskRecord(q, want))
    BY <1>5, AskBegins
  <2> HIDE DEF q
  <2> DEFINE r == AskRecord(q, want)
  <2>3. IsCall(r) /\ r.pc = q /\ r.want = want /\ ~r.alone
    BY <2>1, AskingCall
  <2> HIDE DEF r
  <2>4. /\ th'[t] = r /\ \A u \in Threads \ {t} : th'[u] = th[u]
        /\ \A u \in Threads : ~th[u].alone
    BY <1>4, <2>2, <2>3 DEF r
  <2>5. QED
    BY <1>2, <2>1, <2>3, <2>4 DEF StructureInv, Changing
<1>6. CASE SetOffset(t) \/ SetOptions(t) \/ ReadAgain(t)
  <2>1. PICK change, r :
           /\ Begin(t, r) /\ r \in {ChangeRecord(change), LoneRecord(change)}
           /\ \/ r = ChangeRecord(change) /\ \E o \in Offsets : change = <<"offset", o>>
              \/ r = ChangeRecord(change) /\ \E o \in Options : change = <<"options", o>>
              \/ r = LoneRecord(change) /\ (\E d \in Documents : change = <<"read", d>>) /\ Others(t) = {}
    BY <1>6, SetsBegin
  <2>2. /\ IsCall(r) /\ r.pc = "invalidate" /\ r.change = change
        /\ r = LoneRecord(change) => r.alone
        /\ r = ChangeRecord(change) => ~r.alone
    BY <2>1, ChangingCall
  <2>3. /\ th'[t] = r /\ \A u \in Threads \ {t} : th'[u] = th[u]
        /\ \A u \in Threads : ~th[u].alone
    BY <1>4, <2>1, <2>2
  <2>4. /\ \/ \E o \in Offsets \cup {Origin} : change = <<"offset", o>>
           \/ \E o \in Options : change = <<"options", o>>
           \/ r.alone /\ \E d \in Documents : change = <<"read", d>>
        /\ r.alone => \A u \in Threads \ {t} : th[u].pc = "idle"
    BY <2>1, <2>2 DEF Others
  <2> HIDE DEF Others
  <2>5. \A u \in Threads : th'[u].alone =>
          /\ th'[u].pc \in Changing \cup {"invalidate", "assign"}
          /\ \A v \in Threads \ {u} : th'[v].pc = "idle"
          /\ th'[u].pc \notin {"invalidate", "drain"} => ~ready'
    BY <2>2, <2>3, <2>4
  <2>6. \A u \in Threads : th'[u].pc \in Changing \cup {"invalidate", "assign"} =>
          \/ \E o \in Offsets \cup {Origin} : th'[u].change = <<"offset", o>>
          \/ \E o \in Options : th'[u].change = <<"options", o>>
          \/ th'[u].alone /\ \E d \in Documents : th'[u].change = <<"read", d>>
    BY <2>2, <2>3, <2>4 DEF StructureInv
  <2>7. \A u \in Threads : th'[u].pc \notin Changing \cup {"invalidate", "assign", "idle"} => th'[u].want \in Requests
    BY <2>2, <2>3 DEF StructureInv
  <2>8. /\ source' \in Documents /\ mOffset' \in Offsets \cup {Origin} /\ options' \in Options
        /\ parsed'.ok => parsed' = Contents[source'][Mode']
        /\ "ok" \in DOMAIN parsed'
    BY <1>2 DEF StructureInv
  <2>9. QED
    BY <2>5, <2>6, <2>7, <2>8 DEF StructureInv
<1>7. QED
  BY <1>3, <1>5, <1>6 DEF Calling

\* The assignment of a new offset or new options, or a file read anew.
LEMMA StructureAssigns ==
  ASSUME SpoolInv, StructureInv, NEW t \in Threads, AssignOffset(t) \/ AssignOptions(t) \/ ReadFile(t)
  PROVE  StructureInv'
<1> USE DEF SpoolInv
<1>1. th[t].pc = "assign" /\ ready' = ready /\ Mode' = Mode
  BY DEF AssignOffset, AssignOptions, ReadFile, At, Mode, spoolVars
<1>2. \/ \E o \in Offsets \cup {Origin} : th[t].change = <<"offset", o>>
      \/ \E o \in Options : th[t].change = <<"options", o>>
      \/ th[t].alone /\ \E d \in Documents : th[t].change = <<"read", d>>
  BY <1>1 DEF StructureInv
<1>3. \A u \in Threads \ {t} : ~th[u].alone
  BY <1>1 DEF StructureInv
<1>4. /\ source \in Documents /\ mOffset \in Offsets \cup {Origin} /\ options \in Options
      /\ parsed.ok => parsed = Contents[source][Mode]
      /\ "ok" \in DOMAIN parsed
  BY DEF StructureInv
<1>5. ASSUME Leave(t), source' \in Documents, mOffset' \in Offsets \cup {Origin}, options' \in Options,
             parsed'.ok => parsed' = Contents[source'][Mode'], "ok" \in DOMAIN parsed'
      PROVE  StructureInv'
  <2>1. th'[t].pc = "idle" /\ ~th'[t].alone /\ \A u \in Threads \ {t} : th'[u] = th[u]
    BY <1>5, GoIdle, IdleCall
  <2>2. \A u \in Threads : ~th'[u].alone
    BY <1>3, <2>1
  <2>3. QED
    BY <1>5, <2>1, <2>2 DEF StructureInv, Changing
<1>6. CASE AssignOffset(t)
  <2>1. mOffset' = th[t].change[2] /\ th[t].change[1] = "offset" /\ Leave(t) /\ UNCHANGED <<source, parsed, options>>
    BY <1>6 DEF AssignOffset
  <2>2. mOffset' \in Offsets \cup {Origin}
    BY <1>2, <2>1
  <2>3. QED
    BY <1>1, <1>4, <1>5, <2>1, <2>2
<1>7. CASE AssignOptions(t)
  <2>1. options' = th[t].change[2] /\ th[t].change[1] = "options" /\ Leave(t) /\ UNCHANGED <<source, parsed, mOffset>>
    BY <1>7 DEF AssignOptions
  <2>2. options' \in Options
    BY <1>2, <2>1
  <2>3. QED
    BY <1>1, <1>4, <1>5, <2>1, <2>2
<1>8. CASE ReadFile(t)
  <2>1. th[t].change[1] = "read" /\ source' = th[t].change[2] /\ UNCHANGED <<boundsOnly, mOffset, options>>
    BY <1>8 DEF ReadFile
  <2>2. source' \in Documents /\ th[t].alone
    BY <1>2, <2>1
  <2>3. \A u \in Threads \ {t} : th[u].pc = "idle"
    BY <2>2 DEF StructureInv
  <2>4. \/ /\ parsed' = Contents[source'][Mode]
           /\ th' = [th EXCEPT ![t] = LoneRecord(<<"offset", Origin>>)]
        \/ Leave(t) /\ parsed' = [parsed EXCEPT !.ok = FALSE, !.entities = {}, !.count = 0]
    BY <1>8 DEF ReadFile, Mode, LoneRecord
  <2>5. CASE Leave(t) /\ parsed' = [parsed EXCEPT !.ok = FALSE, !.entities = {}, !.count = 0]
    <3>1. ~parsed'.ok /\ "ok" \in DOMAIN parsed'
      BY <1>4, <2>5
    <3>2. QED
      BY <1>4, <1>5, <2>1, <2>2, <2>5, <3>1
  <2>6. CASE /\ parsed' = Contents[source'][Mode]
             /\ th' = [th EXCEPT ![t] = LoneRecord(<<"offset", Origin>>)]
    <3> DEFINE r == LoneRecord(<<"offset", Origin>>)
    <3>1. IsCall(r) /\ r.pc = "invalidate" /\ r.change = <<"offset", Origin>> /\ r.alone
      BY ChangingCall
    <3>2. th' = [th EXCEPT ![t] = r]
      BY <2>6
    <3> HIDE DEF r
    <3>3. th'[t] = r /\ \A u \in Threads \ {t} : th'[u] = th[u]
      BY <3>1, <3>2, Turn
    <3>4. Mode \in {"full", "bounds", "stream"}
      BY DEF Mode
    <3>5. "ok" \in DOMAIN parsed'
      BY <2>2, <2>6, <3>4, ReadHasOk
    <3>6. parsed' = Contents[source'][Mode']
      BY <1>1, <2>6
    <3>7. \A u \in Threads : th'[u].alone =>
            /\ th'[u].pc \in Changing \cup {"invalidate", "assign"}
            /\ \A v \in Threads \ {u} : th'[v].pc = "idle"
            /\ th'[u].pc \notin {"invalidate", "drain"} => ~ready'
      BY <1>3, <2>3, <3>1, <3>3
    <3>8. \A u \in Threads : th'[u].pc \in Changing \cup {"invalidate", "assign"} =>
            \/ \E o \in Offsets \cup {Origin} : th'[u].change = <<"offset", o>>
            \/ \E o \in Options : th'[u].change = <<"options", o>>
            \/ th'[u].alone /\ \E d \in Documents : th'[u].change = <<"read", d>>
      BY <2>3, <3>1, <3>3 DEF Changing
    <3>9. \A u \in Threads : th'[u].pc \notin Changing \cup {"invalidate", "assign", "idle"} => th'[u].want \in Requests
      BY <2>3, <3>1, <3>3
    <3>10. source' \in Documents /\ mOffset' \in Offsets \cup {Origin} /\ options' \in Options
      BY <1>4, <2>1, <2>2
    <3>11. QED
      BY <3>5, <3>6, <3>7, <3>8, <3>9, <3>10 DEF StructureInv
  <2>7. QED
    BY <2>4, <2>5, <2>6
<1>9. QED
  BY <1>6, <1>7, <1>8

LEMMA StructureStep ==
  ASSUME SpoolInv, StructureInv, [SpoolNext]_readerVars
  PROVE  StructureInv'
<1> USE DEF SpoolInv
<1>1. CASE UNCHANGED readerVars
  BY <1>1, StructureStays DEF readerVars, spoolVars
<1>2. CASE Destroy
  BY <1>2, StructureStays DEF Destroy
<1>3. ASSUME NEW t \in Threads, Calling(t) PROVE StructureInv'
  BY <1>3, StructureBegins
<1>4. ASSUME NEW t \in Threads, Getter(t) PROVE StructureInv'
  <2>1. UNCHANGED structureVars
    BY <1>4, CreateEffect, AppendEffect, ReadEffect
    DEF Getter, Stream, Ensure, EnsureRefused, WaitForBuild, Publish, BuildFailed, Discard, AcquireReader,
        Release, Sleep
  <2>2. CASE Ensure(t) \/ WaitForBuild(t)
    <3>1. ready' = ready /\ th[t].pc \in {"ensure", "waitBuild"}
      BY <2>2 DEF Ensure, WaitForBuild, Sleep, spoolVars, At
    <3>2. CASE th' = th
      BY <2>1, <3>1, <3>2, StructureStays
    <3>3. CASE th' # th
      <4>1. (Goes(t) \/ Ends(t)) /\ ~th[t].alone
        BY <2>2, <3>1, <3>3, EnsureTurns, WaitTurns DEF StructureInv, Changing
      <4>2. QED
        BY <2>1, <4>1, StructureGoes
    <3>4. QED
      BY <3>2, <3>3
  <2>3. CASE ~(Ensure(t) \/ WaitForBuild(t))
    <3>1. Goes(t) \/ Ends(t)
      BY <1>4, <2>3, BuildTurns, ReadTurns DEF Getter
    <3>2. th[t].pc \notin Changing \cup {"invalidate", "assign"}
      BY <1>4, <2>3, CreateEffect, AppendEffect, ReadEffect
      DEF Getter, Stream, EnsureRefused, Publish, BuildFailed, Discard, AcquireReader, Release, At, Changing
    <3>3. ~th[t].alone
      BY <3>2 DEF StructureInv
    <3>4. QED
      BY <2>1, <3>1, <3>3, StructureGoes
  <2>4. QED
    BY <2>2, <2>3
<1>5. ASSUME NEW t \in Threads, Mutator(t) PROVE StructureInv'
  <2>1. CASE AssignOffset(t) \/ AssignOptions(t) \/ ReadFile(t)
    BY <2>1, StructureAssigns
  <2>2. CASE BeginInvalidation(t) \/ Drain(t) \/ RemoveSpool(t) \/ Reopen(t)
    <3>1. UNCHANGED structureVars /\ ready' \in {ready, FALSE}
      BY <2>2 DEF BeginInvalidation, Drain, RemoveSpool, Reopen, TakeOver, Sleep, spoolVars
    <3>2. CASE th' = th
      <4>1. ready' => ready
        BY <3>1
      <4>2. QED
        BY <3>1, <3>2, <4>1, StructureStays
    <3>3. CASE th' # th
      <4>1. th[t].pc \in Changing \cup {"invalidate"}
        BY <2>2 DEF BeginInvalidation, Drain, RemoveSpool, Reopen, At, Changing
      <4>2. Goes(t)
        BY <1>5, <3>3, <4>1, ChangeTurns DEF Ends, GoesAgain, Changing
      <4>3. th[t].alone /\ th'[t].pc \notin {"invalidate", "drain"} => ~ready'
        <5>1. CASE th[t].pc \in {"remove", "reopen"}
          BY <3>1, <5>1 DEF StructureInv
        <5>2. CASE th[t].pc \in {"invalidate", "drain"}
          BY <2>2, <3>3, <5>2, ChangeTurns, GoTo
          DEF BeginInvalidation, Drain, RemoveSpool, Reopen, TakeOver, At, Sleep, CallNames, Changing, TurnOf
        <5>3. QED
          BY <4>1, <5>1, <5>2 DEF Changing
      <4>4. QED
        BY <3>1, <4>2, <4>3, StructureGoes
    <3>4. QED
      BY <3>2, <3>3
  <2>3. QED
    BY <1>5, <2>1, <2>2 DEF Mutator
<1>6. QED
  BY <1>1, <1>2, <1>3, <1>4, <1>5 DEF SpoolNext, Working

LEMMA StructureStart == SpoolInit => StructureInv
<1> SUFFICES ASSUME SpoolInit PROVE StructureInv
  OBVIOUS
<1>1. /\ th = [t \in Threads |-> Idle] /\ source \in Documents /\ mOffset = Origin /\ options \in Options
  BY Zenon DEF SpoolInit
<1>2. parsed = Contents[source][Mode]
  BY Zenon DEF SpoolInit, Mode
<1>3. Mode \in {"full", "bounds", "stream"}
  BY DEF Mode
<1>4. "ok" \in DOMAIN parsed
  BY <1>1, <1>2, <1>3, ReadHasOk
<1>5. \A t \in Threads : th[t].pc = "idle" /\ ~th[t].alone
  BY <1>1, IdleCall
<1>6. QED
  BY <1>1, <1>2, <1>4, <1>5 DEF StructureInv, Changing

(***************************************************************************)
(* What is answered.                                                       *)
(***************************************************************************)

LEMMA NowStays ==
  ASSUME UNCHANGED structureVars
  PROVE  /\ Decoded' = Decoded /\ Current' = Current /\ Mode' = Mode
         /\ UNCHANGED <<boundsOnly, source, parsed, mOffset, options>>
<1> USE DEF structureVars
<1>1. Decoded' = Decoded
  BY DEF Decoded
<1>2. Current' = Current
  BY <1>1 DEF Current
<1>3. QED
  BY <1>1, <1>2 DEF Mode

\* A call that does not move keeps what it has found, unless it was disturbed.
LEMMA CallKept ==
  ASSUME NEW u \in Threads, CallRight(u), UNCHANGED structureVars, th'[u] = th[u],
         stale => stale', u \in disturbed => u \in disturbed',
         error' \in {error, ""} \/ (~stale => Justified(error'))
  PROVE  CallRight(u)'
  BY NowStays DEF CallRight, OfNow, ReplyExact, Justified

LEMMA ContentTurn ==
  ASSUME ContentInv, NEW t \in Threads, UNCHANGED structureVars, \A u \in Threads \ {t} : th'[u] = th[u],
         stale => stale', disturbed \ {t} \subseteq disturbed',
         error' \in {error, ""} \/ (~stale => Justified(error')),
         ready' /\ ~stale' => OfNow(published'.shards), building' => error' = "",
         CallRight(t)', AnswerRight'
  PROVE  ContentInv'
<1>1. \A u \in Threads \ {t} : CallRight(u)'
  <2> SUFFICES ASSUME NEW u \in Threads \ {t} PROVE CallRight(u)'
    OBVIOUS
  <2>1. CallRight(u) /\ th'[u] = th[u] /\ u \in Threads
    BY DEF ContentInv
  <2>2. u \in disturbed => u \in disturbed'
    OBVIOUS
  <2>3. QED
    BY <2>1, <2>2, CallKept
<1>2. ready' /\ ~stale' => OfNow(published.shards)'
  BY NowStays DEF OfNow
<1>3. QED
  BY <1>1, <1>2 DEF ContentInv

LEMMA AnswerStays ==
  ASSUME AnswerRight, UNCHANGED <<structureVars, answer>>
  PROVE  AnswerRight'
  BY NowStays DEF AnswerRight, ReplyExact, Justified

LEMMA NothingAnswered ==
  ASSUME answer' = NoAnswer
  PROVE  AnswerRight'
  BY DEF AnswerRight, NoAnswer

LEMMA Answered ==
  ASSUME NEW t \in Threads, NEW reply, Answer(t, reply), UNCHANGED structureVars, th[t].want \in Requests,
         parsed.ok /\ t \notin disturbed /\ ~stale => ReplyExact(reply, th[t].want)
  PROVE  AnswerRight'
<1> DEFINE exact == parsed.ok /\ t \notin disturbed /\ ~stale
<1>1. answer' = [kind |-> "chunks", reply |-> reply, want |-> th[t].want, exact |-> exact]
  BY DEF Answer
<1>2. exact => parsed.ok /\ ReplyExact(reply, th[t].want)
  OBVIOUS
<1> HIDE DEF exact
<1>3. answer'.kind = "chunks" /\ answer'.reply = reply /\ answer'.want = th[t].want /\ answer'.exact = exact
  BY <1>1
<1>4. answer'.exact => exact
  BY <1>3, Zenon
<1>5. answer'.exact => parsed'.ok /\ ReplyExact(reply, answer'.want)
  BY <1>2, <1>3, <1>4, NowStays
<1>6. answer'.exact => ReplyExact(answer.reply, answer.want)'
  BY <1>3, <1>5, NowStays DEF ReplyExact, Justified
<1>7. QED
  BY <1>3, <1>5, <1>6 DEF AnswerRight

\* Where a call has found nothing yet.
LEMMA CalmCall ==
  ASSUME NEW t \in Threads, th'[t].pc \in {"idle", "stream", "invalidate", "assign"} \cup Changing
  PROVE  CallRight(t)'
  BY DEF CallRight, Failing, Asking, Changing

LEMMA StillAsking ==
  ASSUME NEW t \in Threads, th'[t].pc \in Asking \ {"publish"}, th'[t].pc = "waitBuild" => error' = "",
         t \notin disturbed' => options'.allow
  PROVE  CallRight(t)'
  BY DEF CallRight, Failing, Asking

\* A thread asks only while spools are allowed.
LEMMA AskingAllowed ==
  ASSUME ContentInv, NEW t \in Threads, th[t].pc \in Asking, UNCHANGED <<structureVars, disturbed>>
  PROVE  t \notin disturbed' => options'.allow
  BY NowStays DEF ContentInv, CallRight

LEMMA ContentStays ==
  ASSUME ContentInv, UNCHANGED <<structureVars, spoolVars, th, answer, disturbed, stale>>
  PROVE  ContentInv'
<1>1. \A u \in Threads : CallRight(u)'
  BY CallKept DEF ContentInv, spoolVars
<1>2. AnswerRight'
  BY AnswerStays DEF ContentInv
<1>3. ready' /\ ~stale' => OfNow(published.shards)'
  BY NowStays DEF ContentInv, OfNow, spoolVars
<1>4. QED
  BY <1>1, <1>2, <1>3 DEF ContentInv, spoolVars

\* A step that leaves what the spool is and only moves one call.
LEMMA ContentMoves ==
  ASSUME ContentInv, NEW t \in Threads, UNCHANGED <<structureVars, published, disturbed, stale>>,
         \A u \in Threads \ {t} : th'[u] = th[u], error' \in {error, ""},
         ready' => ready, building' => building \/ error' = "",
         CallRight(t)', AnswerRight'
  PROVE  ContentInv'
<1>1. ready' /\ ~stale' => OfNow(published'.shards)
  BY DEF ContentInv
<1>2. building' => error' = ""
  BY DEF ContentInv
<1>3. (stale => stale') /\ disturbed \ {t} \subseteq disturbed'
  OBVIOUS
<1>4. QED
  BY <1>1, <1>2, <1>3, ContentTurn

LEMMA ContentBegins ==
  ASSUME SpoolInv, StructureInv, ContentInv, NEW t \in Threads, Calling(t)
  PROVE  ContentInv'
<1> USE DEF SpoolInv
<1>1. UNCHANGED <<structureVars, spoolVars, stale>>
  BY DEF Calling, Ask, AskEntities, SetOffset, SetOptions, ReadAgain, history
<1>2. /\ error' = error /\ (stale => stale')
      /\ ready' /\ ~stale' => OfNow(published'.shards)
      /\ building' => error' = ""
  BY <1>1 DEF ContentInv, spoolVars
<1>3. CASE AskEntities(t)
  <2>1. th' = th /\ disturbed' = disturbed
    BY <1>3 DEF AskEntities, history
  <2>2. PICK want \in Requests :
           answer' = [kind |-> "entities", found |-> EntitiesFound(parsed, mOffset, want), want |-> want]
    BY <1>3 DEF AskEntities
  <2> DEFINE found == EntitiesFound(parsed, mOffset, want)
  <2>3. answer'.kind = "entities" /\ answer'.found = found /\ answer'.want = want
    <3> HIDE DEF found
    <3>1. answer' = [kind |-> "entities", found |-> found, want |-> want]
      BY <2>2 DEF found
    <3>2. QED
      BY <3>1
  <2>4. answer'.found = EntitiesFound(parsed', mOffset', answer'.want) /\ answer'.want \in Requests
    BY <1>1, <2>3, NowStays
  <2>5. AnswerRight'
    BY <2>3, <2>4 DEF AnswerRight
  <2>6. CallRight(t)'
    BY <1>1, <1>2, <2>1, CallKept DEF ContentInv
  <2>7. QED
    BY <1>1, <1>2, <2>1, <2>5, <2>6, ContentTurn
<1>4. CASE Ask(t) \/ SetOffset(t) \/ SetOptions(t) \/ ReadAgain(t)
  <2>1. PICK r : Begin(t, r) /\ IsCall(r) /\ (\/ r.pc \in {"stream", "invalidate"}
                                              \/ (r.pc = "ensure" /\ options.allow))
    <3>1. CASE Ask(t)
      <4> DEFINE q == IF options.allow THEN "ensure" ELSE "stream"
      <4>1. q \in CallNames /\ q \in {"ensure", "stream"} /\ (q = "ensure" => options.allow)
        BY DEF CallNames, Asking
      <4>2. PICK want \in Requests : Begin(t, AskRecord(q, want))
        BY <3>1, AskBegins
      <4> HIDE DEF q
      <4>3. IsCall(AskRecord(q, want)) /\ AskRecord(q, want).pc = q
        BY <4>1, AskingCall
      <4>4. QED
        BY <4>1, <4>2, <4>3
    <3>2. CASE SetOffset(t) \/ SetOptions(t) \/ ReadAgain(t)
      BY <3>2, SetsBegin, ChangingCall
    <3>3. QED
      BY <1>4, <3>1, <3>2
  <2>2. th' = [th EXCEPT ![t] = r] /\ answer' = NoAnswer
    BY <2>1 DEF Begin
  <2>3. th'[t] = r /\ \A u \in Threads \ {t} : th'[u] = th[u]
    BY <2>1, <2>2, Turn
  <2>4. CallRight(t)'
    <3>1. CASE r.pc \in {"stream", "invalidate"}
      BY <2>3, <3>1, CalmCall
    <3>2. CASE r.pc = "ensure" /\ options.allow
      <4>1. options'.allow
        BY <1>1, <3>2, NowStays
      <4>2. QED
        BY <2>3, <3>2, <4>1, StillAsking DEF Asking
    <3>3. QED
      BY <2>1, <3>1, <3>2
  <2>5. disturbed \ {t} \subseteq disturbed'
    BY <1>4 DEF Ask, SetOffset, SetOptions, ReadAgain, history
  <2>6. AnswerRight'
    BY <2>2, NothingAnswered
  <2>7. QED
    BY <1>1, <1>2, <2>3, <2>4, <2>5, <2>6, ContentTurn
<1>5. QED
  BY <1>3, <1>4 DEF Calling

\* A request that needs no spool, or may not have one.
LEMMA ContentAlone ==
  ASSUME SpoolInv, StructureInv, ContentInv, NEW t \in Threads, Stream(t) \/ EnsureRefused(t)
  PROVE  ContentInv'
<1> USE DEF SpoolInv
<1>1. /\ th[t].pc \in {"stream", "ensure"} /\ Leave(t)
      /\ UNCHANGED <<structureVars, spoolVars, disturbed, stale>>
  BY DEF Stream, EnsureRefused, At, history
<1>2. th'[t].pc = "idle" /\ \A u \in Threads \ {t} : th'[u] = th[u]
  BY <1>1, GoIdle, IdleCall
<1>3. th[t].want \in Requests
  BY <1>1 DEF StructureInv, Changing
<1>4. AnswerRight'
  <2>1. CASE Stream(t)
    <3> DEFINE good == [ok |-> TRUE, blocks |-> Replayed(Current, th[t].want)]
               bad == [ok |-> FALSE, reason |-> "decode"]
               reply == IF ~Decoded.ok THEN bad ELSE good
    <3>1. Answer(t, reply)
      BY <2>1, Zenon DEF Stream, Decoded, Current
    <3>2. ReplyExact(reply, th[t].want)
      <4>1. CASE ~Decoded.ok
        BY <4>1 DEF ReplyExact, Justified
      <4>2. CASE Decoded.ok
        BY <4>2 DEF ReplyExact
      <4>3. QED
        BY <4>1, <4>2
    <3> HIDE DEF reply
    <3>3. QED
      BY <1>1, <1>3, <3>1, <3>2, Answered
  <2>2. CASE EnsureRefused(t)
    <3> DEFINE reply == [ok |-> FALSE, reason |-> "refused"]
    <3>1. Answer(t, reply) /\ ~options.allow /\ th[t].pc = "ensure"
      BY <2>2 DEF EnsureRefused, At
    <3> HIDE DEF reply
    <3>2. t \in disturbed
      BY <3>1 DEF ContentInv, CallRight, Asking
    <3>3. QED
      BY <1>1, <1>3, <3>1, <3>2, Answered
  <2>3. QED
    BY <2>1, <2>2
<1>5. QED
  BY <1>1, <1>2, <1>4, CalmCall, ContentMoves DEF spoolVars

LEMMA ContentWaits ==
  ASSUME SpoolInv, StructureInv, ContentInv, NEW t \in Threads, Ensure(t) \/ WaitForBuild(t)
  PROVE  ContentInv'
<1> USE DEF SpoolInv
<1>1. ASSUME NEW p, Sleep(t, p) PROVE ContentInv'
  BY <1>1, ContentStays DEF Sleep, history
<1>2. UNCHANGED <<structureVars, published, ready, disturbed, stale>> /\ th[t].pc \in {"ensure", "waitBuild"}
  BY DEF Ensure, WaitForBuild, Sleep, At, history, spoolVars
<1>3. t \notin disturbed' => options'.allow
  BY <1>2, AskingAllowed DEF Asking
<1>4. ASSUME NEW q \in {"acquire", "waitBuild", "create"}, Go(t, q), error' \in {error, ""},
             building' => building \/ error' = "", q = "waitBuild" => error' = "", answer' = answer
      PROVE  ContentInv'
  <2>1. q \in CallNames /\ q \in Asking \ {"publish"}
    BY DEF CallNames, Asking
  <2>2. th'[t].pc = q /\ \A u \in Threads \ {t} : th'[u] = th[u]
    BY <1>4, <2>1, GoTo DEF TurnOf
  <2>3. CallRight(t)'
    BY <1>3, <1>4, <2>1, <2>2, StillAsking
  <2>4. AnswerRight'
    BY <1>2, <1>4, AnswerStays DEF ContentInv
  <2>5. QED
    BY <1>2, <1>4, <2>2, <2>3, <2>4, ContentMoves
<1>5. CASE Ensure(t) /\ ~Sleep(t, ~invalidating)
  <2>1. /\ answer' = answer
        /\ \/ Go(t, "acquire") /\ (building' => building) /\ error' = error
           \/ Go(t, "waitBuild") /\ (building' => building) /\ error' = "" /\ error = ""
           \/ Go(t, "create") /\ error' = ""
    BY <1>5 DEF Ensure, ContentInv
  <2>2. CASE Go(t, "acquire") /\ (building' => building) /\ error' = error
    BY <1>4, <2>1, <2>2
  <2>3. CASE Go(t, "waitBuild") /\ (building' => building) /\ error' = "" /\ error = ""
    BY <1>4, <2>1, <2>3
  <2>4. CASE Go(t, "create") /\ error' = ""
    BY <1>4, <2>1, <2>4
  <2>5. QED
    BY <2>1, <2>2, <2>3, <2>4
<1>6. CASE WaitForBuild(t) /\ ~Sleep(t, BuildOver)
  <2>1. \/ Go(t, "acquire") /\ (building' => building) /\ UNCHANGED <<error, answer>>
        \/ Go(t, "create") /\ error' = "" /\ UNCHANGED answer
        \/ /\ error # "" /\ Answer(t, [ok |-> FALSE, reason |-> error])
           /\ Leave(t) /\ UNCHANGED <<building, error>>
    BY <1>6 DEF WaitForBuild
  <2>2. CASE /\ error # "" /\ Answer(t, [ok |-> FALSE, reason |-> error])
             /\ Leave(t) /\ UNCHANGED <<building, error>>
    <3> DEFINE reply == [ok |-> FALSE, reason |-> error]
    <3>1. Answer(t, reply) /\ ~reply.ok /\ reply.reason = error
      BY <2>2
    <3> HIDE DEF reply
    <3>2. th'[t].pc = "idle" /\ \A u \in Threads \ {t} : th'[u] = th[u]
      BY <2>2, GoIdle, IdleCall
    <3>3. th[t].pc = "waitBuild"
      BY <1>6 DEF WaitForBuild, At
    <3>4. t \notin disturbed /\ ~stale => ReplyExact(reply, th[t].want)
      BY <2>2, <3>1, <3>3 DEF ContentInv, CallRight, ReplyExact
    <3>5. th[t].want \in Requests
      BY <3>3 DEF StructureInv, Changing
    <3>6. AnswerRight'
      BY <1>2, <3>1, <3>4, <3>5, Answered
    <3>7. QED
      BY <1>2, <2>2, <3>2, <3>6, CalmCall, ContentMoves
  <2>3. CASE Go(t, "acquire") /\ (building' => building) /\ UNCHANGED <<error, answer>>
    BY <1>4, <2>3
  <2>4. CASE Go(t, "create") /\ error' = "" /\ UNCHANGED answer
    BY <1>4, <2>4
  <2>5. QED
    BY <2>1, <2>2, <2>3, <2>4
<1>7. QED
  BY <1>1, <1>5, <1>6

LEMMA ContentBuilds ==
  ASSUME SpoolInv, StructureInv, ContentInv, NEW t \in Threads,
         CreateDirectory(t) \/ AppendPlacements(t) \/ Publish(t) \/ BuildFailed(t) \/ Discard(t)
  PROVE  ContentInv'
<1> USE DEF SpoolInv
<1>1. CASE CreateDirectory(t)
  <2>1. /\ th[t].pc = "create" /\ UNCHANGED <<structureVars, spoolVars, answer, disturbed, stale>>
        /\ \/ TurnOf(t, "append")
           \/ TurnOf(t, "failed") /\ ~th'[t].reply.ok /\ th'[t].reply.reason = "fault"
    BY <1>1, CreateEffect DEF history
  <2>2. \A u \in Threads \ {t} : th'[u] = th[u]
    BY <2>1 DEF TurnOf
  <2>3. CallRight(t)'
    <3>1. CASE TurnOf(t, "append")
      BY <2>1, <3>1, AskingAllowed, StillAsking DEF TurnOf, Asking
    <3>2. CASE TurnOf(t, "failed") /\ ~th'[t].reply.ok /\ th'[t].reply.reason = "fault"
      BY <3>2 DEF CallRight, TurnOf, Failing, Asking, Justified
    <3>3. QED
      BY <2>1, <3>1, <3>2
  <2>4. AnswerRight'
    BY <2>1, AnswerStays DEF ContentInv
  <2>5. QED
    BY <2>1, <2>2, <2>3, <2>4, ContentMoves DEF spoolVars
<1>2. CASE AppendPlacements(t)
  <2>1. /\ th[t].pc = "append" /\ UNCHANGED <<structureVars, spoolVars, answer, disturbed, stale>>
        /\ \/ TurnOf(t, "publish") /\ OfNow(th'[t].spool.shards)
           \/ TurnOf(t, "failed") /\ ~th'[t].reply.ok /\ Justified(th'[t].reply.reason)
    BY <1>2, AppendEffect DEF history, StructureInv
  <2>2. \A u \in Threads \ {t} : th'[u] = th[u]
    BY <2>1 DEF TurnOf
  <2>3. CallRight(t)'
    <3>1. CASE TurnOf(t, "publish") /\ OfNow(th'[t].spool.shards)
      <4>1. t \notin disturbed' => options'.allow
        BY <2>1, AskingAllowed DEF Asking
      <4>2. OfNow(th[t].spool.shards)'
        BY <2>1, <3>1, NowStays DEF OfNow
      <4>3. QED
        BY <3>1, <4>1, <4>2 DEF CallRight, TurnOf, Failing
    <3>2. CASE TurnOf(t, "failed") /\ ~th'[t].reply.ok /\ Justified(th'[t].reply.reason)
      <4>1. Justified(th[t].reply.reason)'
        BY <2>1, <3>2, NowStays DEF Justified
      <4>2. QED
        BY <3>2, <4>1 DEF CallRight, TurnOf, Failing, Asking
    <3>3. QED
      BY <2>1, <3>1, <3>2
  <2>4. AnswerRight'
    BY <2>1, AnswerStays DEF ContentInv
  <2>5. QED
    BY <2>1, <2>2, <2>3, <2>4, ContentMoves DEF spoolVars
<1>3. CASE Publish(t)
  <2>1. /\ th[t].pc = "publish" /\ UNCHANGED <<structureVars, answer, disturbed, stale>>
        /\ error' = "" /\ published' = th[t].spool
    BY <1>3 DEF Publish, At, history
  <2>2. th' = [th EXCEPT ![t].pc = "acquire", ![t].spool = NoSpool]
    BY <1>3 DEF Publish
  <2>3. TurnOf(t, "acquire")
    BY <2>2, PutSpool, IdleCall DEF CallNames, Asking
  <2>4. th'[t].pc = "acquire" /\ \A u \in Threads \ {t} : th'[u] = th[u]
    BY <2>3 DEF TurnOf
  <2>5. t \notin disturbed' => options'.allow
    BY <2>1, AskingAllowed DEF Asking
  <2>6. CallRight(t)'
    BY <2>4, <2>5, StillAsking DEF Asking
  <2>7. AnswerRight'
    BY <2>1, AnswerStays DEF ContentInv
  <2>8. ready' /\ ~stale' => OfNow(published'.shards)
    BY <2>1 DEF ContentInv, CallRight
  <2>9. (stale => stale') /\ disturbed \ {t} \subseteq disturbed'
    BY <2>1
  <2>10. error' \in {error, ""} /\ (building' => error' = "")
    BY <2>1
  <2>11. QED
    BY <2>1, <2>4, <2>6, <2>7, <2>8, <2>9, <2>10, ContentTurn
<1>4. CASE BuildFailed(t)
  <2>1. /\ th[t].pc = "failed" /\ UNCHANGED <<structureVars, answer, disturbed, stale>>
        /\ error' = th[t].reply.reason /\ ~building' /\ ~ready'
    BY <1>4 DEF BuildFailed, At, history
  <2>2. TurnOf(t, "discard") /\ th'[t].reply = th[t].reply
    BY <1>4, GoTo DEF BuildFailed, CallNames, Failing
  <2>3. th'[t].pc = "discard" /\ \A u \in Threads \ {t} : th'[u] = th[u]
    BY <2>2 DEF TurnOf
  <2>4. ~stale => Justified(error')
    BY <2>1 DEF ContentInv, CallRight
  <2>5. /\ ~th'[t].reply.ok
        /\ t \notin disturbed' => Justified(th'[t].reply.reason)
    BY <2>1, <2>2 DEF ContentInv, CallRight, Failing
  <2>6. t \notin disturbed' => Justified(th[t].reply.reason)'
    BY <2>1, <2>5, NowStays DEF Justified
  <2>7. CallRight(t)'
    BY <2>3, <2>5, <2>6 DEF CallRight, Failing, Asking
  <2>8. AnswerRight'
    BY <2>1, AnswerStays DEF ContentInv
  <2>9. (stale => stale') /\ disturbed \ {t} \subseteq disturbed'
    BY <2>1
  <2>10. QED
    BY <2>1, <2>3, <2>4, <2>7, <2>8, <2>9, ContentTurn
<1>5. CASE Discard(t)
  <2>1. /\ th[t].pc = "discard" /\ Answer(t, th[t].reply) /\ Leave(t)
        /\ UNCHANGED <<structureVars, spoolVars, disturbed, stale>>
    BY <1>5 DEF Discard, At
  <2>2. th'[t].pc = "idle" /\ \A u \in Threads \ {t} : th'[u] = th[u]
    BY <2>1, GoIdle, IdleCall
  <2>3. th[t].want \in Requests
    BY <2>1 DEF StructureInv, Changing
  <2>4. t \notin disturbed => ReplyExact(th[t].reply, th[t].want)
    BY <2>1 DEF ContentInv, CallRight, Failing, ReplyExact
  <2>5. AnswerRight'
    BY <2>1, <2>3, <2>4, Answered
  <2>6. QED
    BY <2>1, <2>2, <2>5, CalmCall, ContentMoves DEF spoolVars
<1>6. QED
  BY <1>1, <1>2, <1>3, <1>4, <1>5

LEMMA ContentChanges ==
  ASSUME SpoolInv, StructureInv, ContentInv, NEW t \in Threads,
         BeginInvalidation(t) \/ Drain(t) \/ RemoveSpool(t) \/ Reopen(t)
  PROVE  ContentInv'
<1> USE DEF SpoolInv
<1>1. UNCHANGED <<structureVars, answer, disturbed>>
  BY DEF BeginInvalidation, Drain, RemoveSpool, Reopen, Sleep, history
<1>2. AnswerRight'
  BY <1>1, AnswerStays DEF ContentInv
<1>3. ASSUME NEW p, Sleep(t, p) PROVE ContentInv'
  BY <1>3, ContentStays DEF Sleep, history
<1>4. ASSUME TakeOver(t), Drained PROVE ContentInv'
  <2>1. th'[t].pc = "remove" /\ (\A u \in Threads \ {t} : th'[u] = th[u]) /\ ~ready' /\ error' = ""
    BY <1>4, TakeOverEffect DEF TurnOf
  <2>2. CallRight(t)'
    BY <2>1, CalmCall DEF Changing
  <2>3. \A u \in Threads : th[u].pc \notin Building /\ th[u].pc \notin Reading
    <3>1. ~building /\ readers = 0
      BY <1>4 DEF Drained
    <3>2. ReadersOf = {}
      BY <3>1, FS_EmptySet DEF MutexInv
    <3>3. QED
      BY <3>1, <3>2 DEF MutexInv, ReadersOf
  <2>4. ASSUME NEW u \in Threads \ {t} PROVE CallRight(u)'
    <3>1. th[u].pc \notin {"publish", "failed", "read", "release"}
      BY <2>3 DEF Building, Reading
    <3>2. CallRight(u)
      BY DEF ContentInv
    <3>3. QED
      BY <1>1, <2>1, <3>1, <3>2, NowStays DEF CallRight, Justified
  <2>5. QED
    BY <1>2, <2>1, <2>2, <2>4 DEF ContentInv
<1>5. ASSUME NEW q \in Changing \cup {"assign"}, th'[t].pc = q, \A u \in Threads \ {t} : th'[u] = th[u],
             ready' => ready, building' => building, error' = error, UNCHANGED <<published, stale>>
      PROVE  ContentInv'
  <2>1. CallRight(t)'
    BY <1>5, CalmCall
  <2>2. QED
    BY <1>1, <1>2, <1>5, <2>1, ContentMoves
<1>6. CASE BeginInvalidation(t) /\ ~Sleep(t, ~invalidating)
  <2>1. CASE Drained
    BY <1>4, <1>6, <2>1 DEF BeginInvalidation
  <2>2. CASE ~Drained
    <3>1. Go(t, "drain") /\ ~ready' /\ (building' => building) /\ UNCHANGED <<error, published, stale>>
      BY <1>6, <2>2 DEF BeginInvalidation
    <3>2. th'[t].pc = "drain" /\ \A u \in Threads \ {t} : th'[u] = th[u]
      BY <3>1, GoTo DEF TurnOf, CallNames, Changing
    <3>3. QED
      BY <1>5, <3>1, <3>2 DEF Changing
  <2>3. QED
    BY <2>1, <2>2
<1>7. CASE Drain(t) /\ ~Sleep(t, Drained)
  BY <1>4, <1>7 DEF Drain, Await
<1>8. CASE RemoveSpool(t)
  <2>1. UNCHANGED <<published, error, stale>> /\ (ready' => ready) /\ (building' => building)
        /\ th' = [th EXCEPT ![t].pc = "reopen", ![t].spool = NoSpool]
    BY <1>8 DEF RemoveSpool, spoolVars
  <2>2. TurnOf(t, "reopen")
    BY <2>1, PutSpool, IdleCall DEF CallNames, Changing
  <2>3. th'[t].pc = "reopen" /\ \A u \in Threads \ {t} : th'[u] = th[u]
    BY <2>2 DEF TurnOf
  <2>4. UNCHANGED <<published, error, stale>> /\ (ready' => ready) /\ (building' => building)
    BY <2>1
  <2>5. QED
    BY <1>5, <2>3, <2>4 DEF Changing
<1>9. CASE Reopen(t)
  <2>1. Go(t, "assign") /\ UNCHANGED <<published, error, stale>> /\ (ready' => ready) /\ (building' => building)
    BY <1>9 DEF Reopen, history
  <2>2. th'[t].pc = "assign" /\ \A u \in Threads \ {t} : th'[u] = th[u]
    BY <2>1, GoTo DEF TurnOf, CallNames
  <2>3. QED
    BY <1>5, <2>1, <2>2
<1>10. QED
  BY <1>3, <1>6, <1>7, <1>8, <1>9

\* After an assignment no call in progress counts on what it has found.
LEMMA ContentAssigns ==
  ASSUME SpoolInv, StructureInv, ContentInv, NEW t \in Threads,
         AssignOffset(t) \/ AssignOptions(t) \/ ReadFile(t)
  PROVE  ContentInv'
<1> USE DEF SpoolInv
<1>1. th[t].pc = "assign" /\ answer' = NoAnswer /\ UNCHANGED spoolVars
  BY DEF AssignOffset, AssignOptions, ReadFile, At
<1>2. AnswerRight'
  BY <1>1, NothingAnswered
<1>3. building' => error' = ""
  BY <1>1 DEF ContentInv, spoolVars
<1>4. CASE AssignOffset(t) \/ AssignOptions(t)
  <2>1. Disturb(t) /\ Leave(t)
    BY <1>4 DEF AssignOffset, AssignOptions
  <2>2. th'[t].pc = "idle" /\ \A u \in Threads \ {t} : th'[u] = th[u]
    BY <2>1, GoIdle, IdleCall
  <2>3. ~stale' => ~ready /\ ~building
    BY <2>1 DEF Disturb
  <2>4. ASSUME NEW u \in Threads \ {t} PROVE CallRight(u)'
    <3>1. th'[u] = th[u] /\ CallRight(u)
      BY <2>2 DEF ContentInv
    <3>2. th[u].pc = "idle" \/ u \in disturbed'
      BY <2>1 DEF Disturb, Others
    <3>3. th[u].pc \in {"publish", "failed"} => building
      BY DEF MutexInv, Building
    <3>4. th[u].pc \in Failing => ~th[u].reply.ok
      BY <3>1 DEF CallRight
    <3>5. QED
      BY <2>3, <3>1, <3>2, <3>3, <3>4 DEF CallRight, Failing, Asking
  <2>5. ready' /\ ~stale' => OfNow(published.shards)'
    BY <1>1, <2>3 DEF spoolVars
  <2>6. CallRight(t)'
    BY <2>2, CalmCall
  <2>7. QED
    BY <1>2, <1>3, <2>4, <2>5, <2>6 DEF ContentInv
<1>5. CASE ReadFile(t)
  <2>1. th[t].change[1] = "read"
        /\ (Leave(t) \/ th' = [th EXCEPT ![t] = LoneRecord(<<"offset", Origin>>)])
    BY <1>5 DEF ReadFile, LoneRecord
  <2>2. th[t].alone
    BY <1>1, <2>1 DEF StructureInv
  <2>3. ~ready /\ \A u \in Threads \ {t} : th[u].pc = "idle"
    BY <1>1, <2>2 DEF StructureInv
  <2>4. th'[t].pc \in {"idle", "invalidate"} /\ \A u \in Threads \ {t} : th'[u] = th[u]
    <3>1. CASE Leave(t)
      BY <3>1, GoIdle, IdleCall
    <3>2. CASE th' = [th EXCEPT ![t] = LoneRecord(<<"offset", Origin>>)]
      <4> DEFINE r == LoneRecord(<<"offset", Origin>>)
      <4>1. IsCall(r) /\ r.pc = "invalidate"
        BY ChangingCall
      <4> HIDE DEF r
      <4>2. th'[t] = r /\ \A u \in Threads \ {t} : th'[u] = th[u]
        BY <3>2, <4>1, Turn DEF r
      <4>3. QED
        BY <4>1, <4>2
    <3>3. QED
      BY <2>1, <3>1, <3>2
  <2>5. \A u \in Threads : CallRight(u)'
    BY <2>3, <2>4, CalmCall
  <2>6. ~ready'
    BY <1>1, <2>3 DEF spoolVars
  <2>7. QED
    BY <1>2, <1>3, <2>5, <2>6 DEF ContentInv
<1>6. QED
  BY <1>4, <1>5

LEMMA ContentDestroyed ==
  ASSUME SpoolInv, ContentInv, Destroy
  PROVE  ContentInv'
<1>1. /\ \A u \in Threads : th[u].pc = "idle"
      /\ ~ready' /\ error' = "" /\ UNCHANGED <<structureVars, th, answer>>
  BY DEF Destroy, At
<1>2. \A u \in Threads : CallRight(u)'
  BY <1>1, CalmCall
<1>3. AnswerRight'
  BY <1>1, AnswerStays DEF ContentInv
<1>4. QED
  BY <1>1, <1>2, <1>3 DEF ContentInv

(***************************************************************************)
(* What a request reads of its shards.                                     *)
(***************************************************************************)

LEMMA ShardInRange ==
  ASSUME NEW c \in Int \X Int
  PROVE  placement_shard(c) \in 0 .. ShardCount - 1
<1>1. ShardCount \in Nat \ {0}
  BY SpoolAssumption
<1>2. c[1] \in Int /\ c[2] \in Int
  OBVIOUS
<1>3. 5 * c[1] + 3 * c[2] \in Int
  BY <1>2
<1> DEFINE n == 5 * c[1] + 3 * c[2]
<1>4. n \in Int
  BY <1>3
<1> HIDE DEF n
<1>5. n % ShardCount \in 0 .. ShardCount - 1
  BY <1>1, <1>4
<1>6. QED
  BY <1>5 DEF placement_shard, n

\* The kept placements lie in the structure, moved by the offset.
LEMMA NormalizedInExtent ==
  ASSUME NEW placed, NEW min, NEW dim \in [Axes -> Int], NEW offset \in [Axes -> Int],
         NEW i \in DOMAIN Normalized(placed, min, dim, offset)
  PROVE  InExtent(Normalized(placed, min, dim, offset)[i][1], offset, dim)
<1> DEFINE inner(p) == [a \in Axes |-> p[1][a] - min[a]]
           kept(p) == \A a \in Axes : inner(p)[a] \in 0 .. dim[a] - 1 /\ inner(p)[a] + offset[a] \in Ints
           cell == [a \in Axes |-> inner(placed[i])[a] + offset[a]]
<1>1. kept(placed[i]) /\ Normalized(placed, min, dim, offset)[i] = <<cell, placed[i][2]>>
  BY DEF Normalized
<1>2. Normalized(placed, min, dim, offset)[i][1] = cell
  BY <1>1
<1>3. ASSUME NEW a \in Axes PROVE cell[a] \in offset[a] .. offset[a] + dim[a] - 1
  <2> DEFINE n == inner(placed[i])[a]
  <2>1. n \in 0 .. dim[a] - 1 /\ cell[a] = n + offset[a]
    BY <1>1
  <2> HIDE DEF n, cell
  <2>2. dim[a] \in Int /\ offset[a] \in Int
    OBVIOUS
  <2>3. QED
    BY <2>1, <2>2
<1> HIDE DEF cell
<1>4. QED
  BY <1>2, <1>3 DEF InExtent

LEMMA ShardOf ==
  ASSUME NEW R, NEW k \in 0 .. ShardCount - 1
  PROVE  /\ DOMAIN Sharded(R)[k] = {j \in DOMAIN R : placement_shard(Column(R[j][1])) = k}
         /\ \A i \in DOMAIN Sharded(R)[k] : Sharded(R)[k][i] = R[i]
  BY DEF Sharded

\* Placements of one cell are in one shard: replaying the shards of some columns
\* gives what replaying everything gives.
LEMMA ShardsHoldTheColumns ==
  ASSUME NEW R, NEW want, want \subseteq Int \X Int
  PROVE  UNION {Replayed(records, want) : records \in {Sharded(R)[placement_shard(c)] : c \in want}}
           = Replayed(R, want)
<1> DEFINE col(i) == Column(R[i][1])
           mine == {i \in DOMAIN R : col(i) \in want}
           Top(i) == i \in mine /\ (\A j \in mine : R[j][1] = R[i][1] => j <= i) /\ R[i][2] # Air
           S(c) == Sharded(R)[placement_shard(c)]
<1>1. \A i : Top(i) => R[i] \in Replayed(R, want)
  BY DEF Replayed
<1>2. \A r \in Replayed(R, want) : \E i : Top(i) /\ r = R[i]
  BY DEF Replayed
<1>3. ASSUME NEW c \in want
      PROVE  /\ DOMAIN S(c) = {j \in DOMAIN R : placement_shard(col(j)) = placement_shard(c)}
             /\ \A i \in DOMAIN S(c) : S(c)[i] = R[i]
  <2>1. placement_shard(c) \in 0 .. ShardCount - 1
    BY <1>3, ShardInRange
  <2>2. QED
    BY <2>1, ShardOf
<1> HIDE DEF S
<1>4. ASSUME NEW c \in want, NEW r \in Replayed(S(c), want)
      PROVE  r \in Replayed(R, want)
  <2> DEFINE there == {i \in DOMAIN S(c) : Column(S(c)[i][1]) \in want}
  <2>1. PICK i \in there : /\ \A j \in there : S(c)[j][1] = S(c)[i][1] => j <= i
                           /\ S(c)[i][2] # Air /\ r = S(c)[i]
    BY DEF Replayed
  <2>2. i \in mine /\ R[i][2] # Air /\ r = R[i] /\ placement_shard(col(i)) = placement_shard(c)
    BY <1>3, <2>1
  <2>3. ASSUME NEW j \in mine, R[j][1] = R[i][1] PROVE j <= i
    <3>1. col(j) = col(i)
      BY <2>3
    <3>2. j \in there /\ S(c)[j][1] = S(c)[i][1]
      BY <1>3, <2>1, <2>2, <2>3, <3>1
    <3>3. QED
      BY <2>1, <3>2
  <2>4. Top(i)
    BY <2>2, <2>3
  <2>5. QED
    BY <1>1, <2>2, <2>4
<1>5. ASSUME NEW r \in Replayed(R, want)
      PROVE  \E c \in want : r \in Replayed(S(c), want)
  <2>1. PICK i : Top(i) /\ r = R[i]
    BY <1>2, <1>5
  <2> DEFINE c == col(i)
             there == {j \in DOMAIN S(c) : Column(S(c)[j][1]) \in want}
  <2>2. c \in want /\ i \in DOMAIN R
    BY <2>1
  <2>3. DOMAIN S(c) = {j \in DOMAIN R : placement_shard(col(j)) = placement_shard(c)}
        /\ \A j \in DOMAIN S(c) : S(c)[j] = R[j]
    BY <1>3, <2>2
  <2>4. i \in there /\ S(c)[i] = R[i]
    BY <2>2, <2>3
  <2>5. \A j \in there : S(c)[j][1] = S(c)[i][1] => j <= i
    BY <2>1, <2>3, <2>4
  <2>6. r \in Replayed(S(c), want)
    BY <2>1, <2>4, <2>5 DEF Replayed
  <2>7. QED
    BY <2>2, <2>6
<1>6. UNION {Replayed(records, want) : records \in {S(c) : c \in want}} = Replayed(R, want)
  BY <1>4, <1>5
<1>7. QED
  BY <1>6 DEF S

LEMMA OffsetsAreIntegers ==
  ASSUME StructureInv
  PROVE  mOffset \in [Axes -> Int]
<1>1. Ints \subseteq Int
  BY CommandsAssumption DEF Ints
<1>2. Origin \in [Axes -> Int]
  BY DEF Origin, Axes
<1>3. Offsets \subseteq [Axes -> Ints]
  BY SpoolAssumption
<1>4. CASE mOffset \in Offsets
  <2>1. mOffset \in [Axes -> Ints]
    BY <1>3, <1>4
  <2>2. QED
    BY <1>1, <2>1
<1>5. QED
  BY <1>2, <1>4 DEF StructureInv

LEMMA ParsedSize ==
  ASSUME DecodingIsExact, StructureInv, parsed.ok, NEW want \in Requests
  PROVE  parsed.dim \in [Axes -> Int]
<1>1. source \in Documents /\ Mode \in {"full", "bounds"} /\ parsed = Contents[source][Mode]
  BY DEF StructureInv, Mode
<1>2. Origin \in Offsets \cup {Origin}
  OBVIOUS
<1>3. QED
  BY <1>1, <1>2 DEF DecodingIsExact

LEMMA ContentReads ==
  ASSUME DecodingIsExact, SpoolInv, StructureInv, ContentInv, NEW t \in Threads,
         AcquireReader(t) \/ ReadShards(t) \/ Release(t)
  PROVE  ContentInv'
<1> USE DEF SpoolInv
<1>1. CASE AcquireReader(t)
  <2>1. th[t].pc = "acquire" /\ UNCHANGED <<structureVars, published, disturbed, stale, error, answer>>
        /\ (ready' => ready) /\ (building' => building)
    BY <1>1 DEF AcquireReader, At, history
  <2>2. AnswerRight'
    BY <2>1, AnswerStays DEF ContentInv
  <2>3. CASE Usable
    <3>1. th' = [th EXCEPT ![t].pc = "read", ![t].spool = published]
      BY <1>1, <2>3 DEF AcquireReader
    <3>2. TurnOf(t, "read") /\ th'[t].spool = published
      BY <3>1, PutSpool DEF ThreadsInv, CallNames, Reading
    <3>3. th'[t].pc = "read" /\ \A u \in Threads \ {t} : th'[u] = th[u]
      BY <3>2 DEF TurnOf
    <3>4. ~stale => OfNow(published.shards)
      BY <2>3 DEF ContentInv, Usable
    <3>5. ~stale' => OfNow(th[t].spool.shards)'
      BY <2>1, <3>2, <3>4, NowStays DEF OfNow
    <3>6. CallRight(t)'
      BY <3>3, <3>5 DEF CallRight, Failing, Asking
    <3>7. QED
      BY <2>1, <2>2, <3>3, <3>6, ContentMoves
  <2>4. CASE ~Usable
    <3>1. Go(t, "ensure")
      BY <1>1, <2>4 DEF AcquireReader
    <3>2. th'[t].pc = "ensure" /\ \A u \in Threads \ {t} : th'[u] = th[u]
      BY <3>1, GoTo DEF TurnOf, CallNames, Asking
    <3>3. t \notin disturbed' => options'.allow
      BY <2>1, AskingAllowed DEF Asking
    <3>4. CallRight(t)'
      BY <3>2, <3>3, StillAsking DEF Asking
    <3>5. QED
      BY <2>1, <2>2, <3>2, <3>4, ContentMoves
  <2>5. QED
    BY <2>3, <2>4
<1>2. CASE ReadShards(t)
  <2>1. /\ th[t].pc = "read" /\ TurnOf(t, "release")
        /\ UNCHANGED <<structureVars, spoolVars, answer, disturbed, stale>>
        /\ Outside(t) => ~th'[t].reply.ok
        /\ ~Outside(t) => /\ th'[t].reply.ok
                          /\ th'[t].reply.blocks = UNION {Replayed(records, th[t].want) : records \in ShardsFor(t)}
    BY <1>2, ReadEffect DEF history
  <2>2. /\ th'[t].pc = "release" /\ th'[t].want = th[t].want
        /\ \A u \in Threads \ {t} : th'[u] = th[u]
    BY <2>1 DEF TurnOf
  <2>3. ASSUME ~stale, t \notin disturbed, parsed.ok
        PROVE  ReplyExact(th'[t].reply, th[t].want)
    <3>1. Decoded.ok /\ th[t].spool.shards = Sharded(Current)
      BY <2>1, <2>3 DEF ContentInv, CallRight, OfNow
    <3>2. th[t].want \in Requests
      BY <2>1 DEF StructureInv, Changing
    <3>3. th[t].want \subseteq Int \X Int
      BY <3>2, SpoolAssumption
    <3>4. ShardsFor(t) = {Sharded(Current)[placement_shard(c)] : c \in th[t].want}
      BY <3>1 DEF ShardsFor
    <3>5. parsed.dim \in [Axes -> Int]
      BY <2>3, <3>2, ParsedSize
    <3>6. ~Outside(t)
      <4> SUFFICES ASSUME NEW c \in th[t].want, NEW i \in DOMAIN Sharded(Current)[placement_shard(c)]
                   PROVE  InExtent(Sharded(Current)[placement_shard(c)][i][1], mOffset, parsed.dim)
        BY <3>4 DEF Outside
      <4>1. placement_shard(c) \in 0 .. ShardCount - 1
        BY <3>3, ShardInRange
      <4>2. i \in DOMAIN Current /\ Sharded(Current)[placement_shard(c)][i] = Current[i]
        BY <4>1, ShardOf
      <4>3. QED
        BY <3>5, <4>2, OffsetsAreIntegers, NormalizedInExtent DEF Current
    <3>7. th'[t].reply.ok /\ th'[t].reply.blocks = Replayed(Current, th[t].want)
      <4>1. UNION {Replayed(records, th[t].want) : records \in ShardsFor(t)} = Replayed(Current, th[t].want)
        BY <3>3, <3>4, ShardsHoldTheColumns
      <4>2. QED
        BY <2>1, <3>6, <4>1
    <3>8. QED
      BY <3>1, <3>7 DEF ReplyExact
  <2>4. ~stale' /\ t \notin disturbed' /\ parsed'.ok => ReplyExact(th[t].reply, th[t].want)'
    <3>1. ~stale' /\ t \notin disturbed' /\ parsed'.ok => ReplyExact(th'[t].reply, th'[t].want)
      BY <2>1, <2>2, <2>3, NowStays
    <3>2. QED
      BY <2>1, <3>1, NowStays DEF ReplyExact, Justified
  <2>5. CallRight(t)'
    BY <2>2, <2>4 DEF CallRight, Failing, Asking
  <2>6. AnswerRight'
    BY <2>1, AnswerStays DEF ContentInv
  <2>7. QED
    BY <2>1, <2>2, <2>5, <2>6, ContentMoves DEF spoolVars
<1>3. CASE Release(t)
  <2>1. /\ th[t].pc = "release" /\ Answer(t, th[t].reply) /\ Leave(t)
        /\ UNCHANGED <<structureVars, published, error, disturbed, stale>>
        /\ (ready' => ready) /\ (building' => building)
    BY <1>3 DEF Release, At, history
  <2>2. th'[t].pc = "idle" /\ \A u \in Threads \ {t} : th'[u] = th[u]
    BY <2>1, GoIdle, IdleCall
  <2>3. th[t].want \in Requests
    BY <2>1 DEF StructureInv, Changing
  <2>4. parsed.ok /\ t \notin disturbed /\ ~stale => ReplyExact(th[t].reply, th[t].want)
    BY <2>1 DEF ContentInv, CallRight
  <2>5. AnswerRight'
    BY <2>1, <2>3, <2>4, Answered
  <2>6. QED
    BY <2>1, <2>2, <2>5, CalmCall, ContentMoves
<1>4. QED
  BY <1>1, <1>2, <1>3

LEMMA ContentStep ==
  ASSUME DecodingIsExact, SpoolInv, StructureInv, ContentInv, [SpoolNext]_readerVars
  PROVE  ContentInv'
<1>1. CASE UNCHANGED readerVars
  BY <1>1, ContentStays DEF readerVars, history
<1>2. CASE Destroy
  BY <1>2, ContentDestroyed
<1>3. ASSUME NEW t \in Threads, Calling(t) PROVE ContentInv'
  BY <1>3, ContentBegins
<1>4. ASSUME NEW t \in Threads, Getter(t) PROVE ContentInv'
  BY <1>4, ContentAlone, ContentWaits, ContentBuilds, ContentReads DEF Getter
<1>5. ASSUME NEW t \in Threads, Mutator(t) PROVE ContentInv'
  BY <1>5, ContentChanges, ContentAssigns DEF Mutator
<1>6. QED
  BY <1>1, <1>2, <1>3, <1>4, <1>5 DEF SpoolNext, Working

LEMMA ContentStart == SpoolInit => ContentInv
<1> SUFFICES ASSUME SpoolInit PROVE ContentInv
  OBVIOUS
<1>1. th = [t \in Threads |-> Idle] /\ ~ready /\ ~building /\ answer = NoAnswer
  BY Zenon DEF SpoolInit
<1>2. \A t \in Threads : CallRight(t)
  BY <1>1, IdleCall DEF CallRight, Failing, Asking
<1>3. QED
  BY <1>1, <1>2 DEF ContentInv, AnswerRight, NoAnswer

\* What is answered is what the stream means, as far as decoding is exact.
LEMMA RightIsExact ==
  ASSUME DecodingIsExact, StructureInv, AnswerRight
  PROVE  AnswersAreExact
<1> DEFINE first == Contents[source][Mode]
<1>1. /\ source \in Documents /\ Mode \in {"full", "bounds"} /\ mOffset \in Offsets \cup {Origin}
      /\ parsed.ok => parsed = first
  BY DEF StructureInv, Mode
<1>2. ASSUME answer.kind = "chunks", answer.exact
      PROVE  IF answer.reply.ok
             THEN /\ WellFormed(source)
                  /\ answer.reply.blocks = InColumns(Blocks(source, mOffset), answer.want)
                  /\ \A layer \in Layouts : source = write_bdx(layer) =>
                       answer.reply.blocks = InColumns({<<From(b[1], Origin, mOffset), b[2]>> : b \in layer}, answer.want)
             ELSE \/ answer.reply.reason = "fault"
                  \/ answer.reply.reason = "limit" /\ options.limit > 0
                  \/ answer.reply.reason = "decode" /\ ~WellFormed(source)
  <2>1. parsed.ok /\ ReplyExact(answer.reply, answer.want) /\ answer.want \in Requests
    BY <1>2 DEF AnswerRight
  <2>2. /\ Decoded.ok => /\ WellFormed(source)
                         /\ Replayed(Current, answer.want) = InColumns(Blocks(source, mOffset), answer.want)
        /\ ~Decoded.ok => ~WellFormed(source)
        /\ \A layer \in Layouts : source = write_bdx(layer) /\ Decoded.ok =>
             InColumns(Blocks(source, mOffset), answer.want)
               = InColumns({<<From(b[1], Origin, mOffset), b[2]>> : b \in layer}, answer.want)
    BY <1>1, <2>1 DEF DecodingIsExact, Decoded, Current
  <2>3. QED
    BY <2>1, <2>2 DEF ReplyExact, Justified
<1>3. ASSUME answer.kind = "entities", ~boundsOnly, parsed.ok
      PROVE  {e.cell : e \in answer.found}
               = {c \in Entities(source, mOffset) : c[2] >= 0 /\ Column(c) \in answer.want}
  <2>1. Mode = "full"
    BY <1>3 DEF Mode
  <2>2. answer.found = EntitiesFound(first, mOffset, answer.want) /\ answer.want \in Requests /\ first.ok
    BY <1>1, <1>3 DEF AnswerRight
  <2>3. QED
    BY <1>1, <2>1, <2>2 DEF DecodingIsExact
<1>4. QED
  BY <1>2, <1>3 DEF AnswersAreExact

\* Whatever the other threads ask, build, change and throw away, a request the
\* structure was not changed under returns the blocks its stream means, moved by
\* the offset, and fails only for a reason; a request for block entities returns
\* those of the stream.  The assumption is about decoding alone.
THEOREM AnswersStayExact ==
  ASSUME DecodingIsExact
  PROVE  StructureSpec => []AnswersAreExact
<1>1. StructureInit => StructureInv /\ ContentInv
  BY StructureStart, ContentStart DEF StructureInit
<1>2. SpoolInv /\ StructureInv /\ ContentInv /\ [StructureNext]_structure => StructureInv' /\ ContentInv'
  BY StepsOfSpool, StructureStep, ContentStep
<1>3. StructureInv /\ ContentInv => AnswersAreExact
  BY RightIsExact DEF ContentInv
<1>4. QED
  BY <1>1, <1>2, <1>3, AlwaysSpoolInv, PTL DEF StructureSpec
=============================================================================
