---------------------------- MODULE LevelDbProofs ----------------------------
(***************************************************************************)
(* The store opens again after every crash and failed file operation, no   *)
(* writer waits in vain, and no reader loses a file: for every number of   *)
(* writers, readers, levels, batches and faults.                           *)
(***************************************************************************)
EXTENDS LevelDb, SequenceTheorems, FiniteSetTheorems, TLAPS

(***************************************************************************)
(* The invariant.                                                          *)
(***************************************************************************)

Phases == {"closed", "newdb", "replay", "save", "current", "open", "closing"}
Recovering == phase \in {"replay", "save", "current"}
InUse == phase \in {"open", "closing"}
Recording == bg.pc \in {"flushManifest", "moveManifest", "compactManifest"}
Installing == bg.pc \in {"flushInstall", "moveInstall", "compactInstall"}
Sweeping == bg.pc \in {"sweep", "sweepOn"}

IsSequence(s) == s \in Seq(Range(s))
NumbersOf(added) == {p[2].num : p \in added}
Tables == DOMAIN disk.tables
Current == VersionOf(Manifest)

\* CURRENT names a manifest of tables that exist, whose last record reserves a
\* larger number.
DiskInv ==
  /\ disk = [current |-> disk.current, manifests |-> disk.manifests, tables |-> disk.tables,
             logs |-> disk.logs]
  /\ disk.current \in Nat
  /\ DOMAIN disk.logs \subseteq Nat
  /\ \A n \in DOMAIN disk.logs : IsSequence(disk.logs[n])
  /\ disk.current # 0 =>
       /\ disk.current \in DOMAIN disk.manifests
       /\ IsSequence(Manifest) /\ Len(Manifest) > 0
       /\ Last(Manifest).next \in Nat /\ disk.current < Last(Manifest).next
       /\ Numbers(Current) \subseteq Tables
       /\ \A l \in Levels : IsFiniteSet(Current[l])

\* The version set; before the store is in use nothing runs in the background.
MemoryInv ==
  /\ phase \in Phases
  /\ version = [l \in Levels |-> version[l]]
  /\ \A l \in Levels : IsFiniteSet(version[l])
  /\ nextFile \in Nat /\ manifestNumber \in Nat
  /\ recovery = [edit |-> recovery.edit, logs |-> recovery.logs]
  /\ recovery.edit = [log |-> recovery.edit.log, next |-> recovery.edit.next, last |-> recovery.edit.last,
                      deleted |-> recovery.edit.deleted, added |-> recovery.edit.added]
  /\ IsFiniteSet(recovery.edit.added)
  /\ ~InUse => bg = IdleBg /\ ~bgScheduled /\ seekFile = {} /\ imm = NoMem
  /\ \A r \in Readers : reader[r].pc # "idle" => phase = "open"

\* A manifest that is being written has a number of its own, and the tables it
\* will name exist.
OpeningInv ==
  /\ phase = "newdb" => /\ disk.current = 0
                        /\ 1 \in DOMAIN disk.manifests
                        /\ disk.manifests[1] = <<[NoEdit EXCEPT !.next = 2]>>
  /\ Recovering => /\ disk.current # 0
                   /\ disk.current < manifestNumber /\ manifestNumber < nextFile
                   /\ Numbers(version) \subseteq Tables
                   /\ NumbersOf(recovery.edit.added) \subseteq Tables
  /\ phase = "replay" => recovery.logs \subseteq DOMAIN disk.logs
  /\ phase = "current" => /\ manifestNumber \in DOMAIN disk.manifests
                          /\ disk.manifests[manifestNumber] = <<Snapshot, SavedEdit>>

\* In use, and until an error, the version in memory is the one the manifest
\* describes, but for a record that is written and not installed yet.
UseInv ==
  InUse => /\ disk.current # 0 /\ disk.current = manifestNumber
           /\ manifestNumber < nextFile
           /\ ~bgError => Current = IF Installing THEN Apply(version, bg.edit) ELSE version
           /\ \A p \in seekFile : p[1] \in Levels

HasFields(b) ==
  b = [pc |-> b.pc, flushed |-> b.flushed, edit |-> b.edit, level |-> b.level, inputs |-> b.inputs,
       base |-> b.base, oldest |-> b.oldest, todo |-> b.todo, outs |-> b.outs,
       compacting |-> b.compacting, doomed |-> b.doomed]

\* What the background thread holds is on the disk, and what it is about to
\* remove belongs to nobody.
BgInv ==
  /\ HasFields(bg)
  /\ bg.compacting \in BOOLEAN
  /\ bg.pc # "idle" => bgScheduled
  /\ bg.pc = "idle" => bg = IdleBg
  /\ IsFiniteSet(bg.flushed) /\ IsFiniteSet(bg.outs) /\ IsFiniteSet(bg.edit.added)
  /\ NumbersOf(bg.flushed) \subseteq Tables
  /\ NumbersOf(bg.outs) \subseteq Tables
  /\ NumbersOf(bg.edit.added) \subseteq Tables
  /\ Recording \/ Installing => bg.edit.next \in Nat /\ manifestNumber < bg.edit.next
  /\ Sweeping => /\ bg.flushed = {} /\ bg.edit = NoEdit
                 /\ \A n \in Numbers(Current) : <<"table", n>> \notin bg.doomed
                 /\ <<"manifest", disk.current>> \notin bg.doomed
  /\ bg.pc = "sweepOn" => \A n \in NumbersOf(bg.outs) : <<"table", n>> \notin bg.doomed

StoreInv == DiskInv /\ MemoryInv /\ OpeningInv /\ UseInv /\ BgInv

\* The queue holds exactly the writers that called, once each, and its head
\* is the one that works.
QueueInv ==
  /\ writer \in [Writers -> [pc : {"idle", "queued", "head", "asleep", "logged"}, batch : Writes \cup {0}]]
  /\ queue \in Seq(Writers)
  /\ \A i, j \in DOMAIN queue : queue[i] = queue[j] => i = j
  /\ \A w \in Writers : writer[w].pc # "idle" <=> \E i \in DOMAIN queue : queue[i] = w
  /\ \A i \in DOMAIN queue : writer[queue[i]].pc = "queued" <=> i # 1
  /\ \A w \in Writers : writer[w].pc = "logged" => Len(group) \in 1 .. Len(queue)
  /\ queue # <<>> => phase = "open"

\* Work for the background thread has a call scheduled, and a writer sleeps
\* only while one is.
ScheduleInv ==
  /\ phase = "open" /\ ~bgError /\ (imm # NoMem \/ NeedsCompaction(version, seekFile)) => bgScheduled
  /\ \A w \in Writers : writer[w].pc = "asleep" => bgScheduled

DbInv == StoreInv /\ QueueInv /\ ScheduleInv

(***************************************************************************)
(* Operators.                                                              *)
(***************************************************************************)

LEMMA MaxOfTwo ==
  ASSUME NEW a \in Nat, NEW b \in Nat
  PROVE  Max({a, b}) \in Nat /\ a <= Max({a, b}) /\ b <= Max({a, b})
<1>1. \E x \in {a, b} : \A y \in {a, b} : x >= y
  <2>1. CASE a >= b
    BY <2>1
  <2>2. CASE b >= a
    BY <2>2
  <2>3. QED
    BY <2>1, <2>2
<1>2. Max({a, b}) \in {a, b} /\ \A y \in {a, b} : Max({a, b}) >= y
  BY <1>1 DEF Max
<1>3. QED
  BY <1>2

LEMMA MinOfTwo ==
  ASSUME NEW a \in Nat, NEW b \in Nat
  PROVE  Min({a, b}) \in {a, b} /\ Min({a, b}) <= a /\ Min({a, b}) <= b
<1>1. \E x \in {a, b} : \A y \in {a, b} : x =< y
  <2>1. CASE a <= b
    BY <2>1
  <2>2. CASE b <= a
    BY <2>2
  <2>3. QED
    BY <2>1, <2>2
<1>2. Min({a, b}) \in {a, b} /\ \A y \in {a, b} : Min({a, b}) =< y
  BY <1>1 DEF Min
<1>3. QED
  BY <1>2

\* A sequence with one more element.
LEMMA AppendElements ==
  ASSUME NEW s, IsSequence(s), NEW e
  PROVE  /\ IsSequence(Append(s, e))
         /\ Len(s) \in Nat /\ Len(Append(s, e)) = Len(s) + 1
         /\ DOMAIN s = 1 .. Len(s) /\ DOMAIN Append(s, e) = 1 .. Len(s) + 1
         /\ \A i \in 1 .. Len(s) : Append(s, e)[i] = s[i]
         /\ Append(s, e)[Len(s) + 1] = e
<1> DEFINE S == Range(s) \cup {e}
<1>1. s \in Seq(S)
  <2>1. s \in Seq(Range(s))
    BY DEF IsSequence
  <2>2. Range(s) \subseteq S
    OBVIOUS
  <2>3. QED
    BY <2>1, <2>2
<1> HIDE DEF S
<1>2. /\ Append(s, e) \in Seq(S)
      /\ Len(s) \in Nat /\ Len(Append(s, e)) = Len(s) + 1
      /\ DOMAIN s = 1 .. Len(s) /\ DOMAIN Append(s, e) = 1 .. Len(s) + 1
      /\ \A i \in 1 .. Len(s) : Append(s, e)[i] = s[i]
      /\ Append(s, e)[Len(s) + 1] = e
  BY <1>1 DEF S
<1>3. IsSequence(Append(s, e))
  <2>1. \A i \in 1 .. Len(Append(s, e)) : Append(s, e)[i] \in Range(Append(s, e))
    BY <1>2 DEF Range
  <2>2. QED
    BY <1>2, <2>1 DEF IsSequence
<1>4. QED
  BY <1>2, <1>3

LEMMA EmptySequence == IsSequence(<<>>) /\ DOMAIN <<>> = {}
  BY DEF IsSequence, Range

\* Sets made of the components of finitely many pairs.
LEMMA SecondsFinite ==
  ASSUME NEW P, IsFiniteSet(P)
  PROVE  IsFiniteSet({p[2] : p \in P})
<1> DEFINE T == {p[2] : p \in P}
           f == [p \in P |-> p[2]]
<1>1. f \in Surjection(P, T)
  BY DEF Surjection
<1>2. QED
  BY <1>1, FS_Surjection

LEMMA PairsFinite ==
  ASSUME NEW S, IsFiniteSet(S), NEW a
  PROVE  IsFiniteSet({<<a, s>> : s \in S})
<1> DEFINE T == {<<a, s>> : s \in S}
           f == [s \in S |-> <<a, s>>]
<1>1. f \in Surjection(S, T)
  BY DEF Surjection
<1>2. QED
  BY <1>1, FS_Surjection

\* An edit turns finite levels into finite levels.
LEMMA ApplyFinite ==
  ASSUME NEW v, NEW e, \A l \in Levels : IsFiniteSet(v[l]), IsFiniteSet(e.added), NEW l \in Levels
  PROVE  IsFiniteSet(Apply(v, e)[l])
<1> DEFINE Kept1 == {f \in v[l] : <<l, f.num>> \notin e.deleted}
           Mine == {q \in e.added : q[1] = l}
           New1 == {p[2] : p \in Mine}
<1>1. IsFiniteSet(Kept1)
  <2>1. IsFiniteSet(v[l]) /\ Kept1 \in SUBSET v[l]
    OBVIOUS
  <2>2. QED
    BY <2>1, FS_Subset
<1>2. IsFiniteSet(Mine)
  <2>1. Mine \in SUBSET e.added
    OBVIOUS
  <2>2. QED
    BY <2>1, FS_Subset
<1>3. IsFiniteSet(New1)
  BY <1>2, SecondsFinite
<1>4. Apply(v, e)[l] = Kept1 \cup New1
  BY DEF Apply
<1> HIDE DEF Kept1, Mine, New1
<1>5. QED
  BY <1>1, <1>3, <1>4, FS_Union

\* The table numbers of a version and of what an edit makes of it.
LEMMA NumbersMember ==
  ASSUME NEW v, NEW n
  PROVE  n \in Numbers(v) <=> \E l \in Levels : \E f \in v[l] : f.num = n
  BY DEF Numbers, AllFiles

LEMMA NumbersApply ==
  ASSUME NEW v, NEW e
  PROVE  Numbers(Apply(v, e)) \subseteq Numbers(v) \cup NumbersOf(e.added)
<1> SUFFICES ASSUME NEW n \in Numbers(Apply(v, e)), n \notin Numbers(v)
             PROVE  n \in NumbersOf(e.added)
  OBVIOUS
<1>1. PICK l \in Levels : \E f \in Apply(v, e)[l] : f.num = n
  BY NumbersMember
<1>2. PICK f \in Apply(v, e)[l] : f.num = n
  BY <1>1
<1>3. f \notin v[l]
  BY <1>2, NumbersMember
<1>4. f \in {p[2] : p \in {q \in e.added : q[1] = l}}
  BY <1>2, <1>3 DEF Apply
<1>5. PICK p \in e.added : f = p[2]
  BY <1>4
<1>6. QED
  BY <1>2, <1>5 DEF NumbersOf

LEMMA ApplyShape ==
  ASSUME NEW v, NEW e
  PROVE  Apply(v, e) = [l \in Levels |-> Apply(v, e)[l]]
  BY DEF Apply

\* What a manifest leaves on a level: what some record added and no later one
\* deleted.
LEMMA VersionMember ==
  ASSUME NEW m, NEW l \in Levels, NEW f
  PROVE  f \in VersionOf(m)[l] <=>
           \E i \in DOMAIN m : \E q \in m[i].added :
             q[1] = l /\ q[2] = f /\ \A j \in i + 1 .. Len(m) : <<l, f.num>> \notin m[j].deleted
<1> DEFINE Left(k) == {q \in m[k].added :
                         q[1] = l /\ \A j \in k + 1 .. Len(m) : <<l, q[2].num>> \notin m[j].deleted}
           In(k) == {p[2] : p \in Left(k)}
<1>1. VersionOf(m)[l] = UNION {In(i) : i \in DOMAIN m}
  BY DEF VersionOf
<1>2. ASSUME NEW i
      PROVE  f \in In(i) <=>
               \E q \in m[i].added :
                 q[1] = l /\ q[2] = f /\ \A j \in i + 1 .. Len(m) : <<l, f.num>> \notin m[j].deleted
  <2>1. f \in In(i) <=> \E q \in Left(i) : q[2] = f
    BY Zenon
  <2>2. QED
    BY <2>1
<1> HIDE DEF In
<1>3. f \in VersionOf(m)[l] <=> \E i \in DOMAIN m : f \in In(i)
  BY <1>1
<1>4. QED
  BY <1>2, <1>3

\* One more record is one more edit.
LEMMA VersionOfAppend ==
  ASSUME NEW m, IsSequence(m), NEW e
  PROVE  VersionOf(Append(m, e)) = Apply(VersionOf(m), e)
<1> DEFINE a == Append(m, e)
<1>1. /\ Len(m) \in Nat /\ Len(a) = Len(m) + 1
      /\ DOMAIN m = 1 .. Len(m) /\ DOMAIN a = 1 .. Len(m) + 1
      /\ \A i \in 1 .. Len(m) : a[i] = m[i]
      /\ a[Len(m) + 1] = e
  BY AppendElements
<1> HIDE DEF a
<1>2. ASSUME NEW l \in Levels, NEW f
      PROVE  f \in VersionOf(a)[l] <=> f \in Apply(VersionOf(m), e)[l]
  <2>1. f \in VersionOf(a)[l] <=>
          \E i \in 1 .. Len(m) + 1 : \E q \in a[i].added :
            q[1] = l /\ q[2] = f /\ \A j \in i + 1 .. Len(m) + 1 : <<l, f.num>> \notin a[j].deleted
    BY <1>1, <1>2, VersionMember
  <2>2. f \in VersionOf(m)[l] <=>
          \E i \in 1 .. Len(m) : \E q \in m[i].added :
            q[1] = l /\ q[2] = f /\ \A j \in i + 1 .. Len(m) : <<l, f.num>> \notin m[j].deleted
    BY <1>1, <1>2, VersionMember
  <2>3. f \in Apply(VersionOf(m), e)[l] <=>
          \/ f \in VersionOf(m)[l] /\ <<l, f.num>> \notin e.deleted
          \/ \E q \in e.added : q[1] = l /\ q[2] = f
    BY DEF Apply
  <2>4. ASSUME f \in VersionOf(a)[l] PROVE f \in Apply(VersionOf(m), e)[l]
    <3>1. PICK i \in 1 .. Len(m) + 1 : \E q \in a[i].added :
            q[1] = l /\ q[2] = f /\ \A j \in i + 1 .. Len(m) + 1 : <<l, f.num>> \notin a[j].deleted
      BY <2>1, <2>4
    <3>2. PICK q \in a[i].added :
            q[1] = l /\ q[2] = f /\ \A j \in i + 1 .. Len(m) + 1 : <<l, f.num>> \notin a[j].deleted
      BY <3>1
    <3>3. CASE i = Len(m) + 1
      BY <1>1, <2>3, <3>2, <3>3
    <3>4. CASE i \in 1 .. Len(m)
      <4>1. q \in m[i].added
        BY <1>1, <3>2, <3>4
      <4>2. \A j \in i + 1 .. Len(m) : <<l, f.num>> \notin m[j].deleted
        BY <1>1, <3>2, <3>4
      <4>3. <<l, f.num>> \notin e.deleted
        BY <1>1, <3>2, <3>4
      <4>4. f \in VersionOf(m)[l]
        BY <2>2, <3>2, <3>4, <4>1, <4>2
      <4>5. QED
        BY <2>3, <4>3, <4>4
    <3>5. QED
      BY <1>1, <3>3, <3>4
  <2>5. ASSUME f \in Apply(VersionOf(m), e)[l] PROVE f \in VersionOf(a)[l]
    <3>1. CASE \E q \in e.added : q[1] = l /\ q[2] = f
      <4>1. PICK q \in a[Len(m) + 1].added : q[1] = l /\ q[2] = f
        BY <1>1, <3>1
      <4>2. Len(m) + 1 \in 1 .. Len(m) + 1 /\ Len(m) + 1 + 1 .. Len(m) + 1 = {}
        BY <1>1
      <4>3. QED
        BY <2>1, <4>1, <4>2
    <3>2. CASE f \in VersionOf(m)[l] /\ <<l, f.num>> \notin e.deleted
      <4>1. PICK i \in 1 .. Len(m) : \E q \in m[i].added :
              q[1] = l /\ q[2] = f /\ \A j \in i + 1 .. Len(m) : <<l, f.num>> \notin m[j].deleted
        BY <2>2, <3>2
      <4>2. PICK q \in m[i].added :
              q[1] = l /\ q[2] = f /\ \A j \in i + 1 .. Len(m) : <<l, f.num>> \notin m[j].deleted
        BY <4>1
      <4>3. i \in 1 .. Len(m) + 1 /\ q \in a[i].added
        BY <1>1, <4>2
      <4>4. \A j \in i + 1 .. Len(m) + 1 : <<l, f.num>> \notin a[j].deleted
        <5> SUFFICES ASSUME NEW j \in i + 1 .. Len(m) + 1 PROVE <<l, f.num>> \notin a[j].deleted
          OBVIOUS
        <5>1. CASE j = Len(m) + 1
          BY <1>1, <3>2, <5>1
        <5>2. CASE j \in i + 1 .. Len(m)
          <6>1. a[j] = m[j]
            BY <1>1, <5>2
          <6>2. QED
            BY <4>2, <5>2, <6>1
        <5>3. QED
          BY <1>1, <5>1, <5>2
      <4>5. QED
        BY <2>1, <4>2, <4>3, <4>4
    <3>3. QED
      BY <2>3, <2>5, <3>1, <3>2
  <2>6. QED
    BY <2>4, <2>5
<1>3. \A l \in Levels : VersionOf(a)[l] = Apply(VersionOf(m), e)[l]
  BY <1>2
<1>4. VersionOf(a) = [l \in Levels |-> VersionOf(a)[l]]
  BY DEF VersionOf
<1>5. Apply(VersionOf(m), e) = [l \in Levels |-> Apply(VersionOf(m), e)[l]]
  BY ApplyShape
<1>6. VersionOf(a) = Apply(VersionOf(m), e)
  BY <1>3, <1>4, <1>5
<1>7. QED
  BY <1>6 DEF a

\* The first manifest describes an empty store.
LEMMA FirstManifest ==
  ASSUME NEW m, m = <<[NoEdit EXCEPT !.next = 2]>>
  PROVE  /\ IsSequence(m) /\ Len(m) = 1 /\ Last(m).next = 2
         /\ VersionOf(m) = NoFiles /\ Numbers(NoFiles) = {}
<1>1. IsSequence(m) /\ Len(m) = 1 /\ m[1] = [NoEdit EXCEPT !.next = 2]
  BY DEF IsSequence, Range
<1>2. m[1].next = 2 /\ m[1].added = {}
  BY <1>1 DEF NoEdit
<1>3. \A l \in Levels : VersionOf(m)[l] = {}
  <2> SUFFICES ASSUME NEW l \in Levels, NEW f \in VersionOf(m)[l] PROVE FALSE
    OBVIOUS
  <2>1. \E i \in DOMAIN m : \E q \in m[i].added : TRUE
    <3>1. f \in VersionOf(m)[l] <=>
            \E i \in DOMAIN m : \E q \in m[i].added :
              q[1] = l /\ q[2] = f /\ \A j \in i + 1 .. Len(m) : <<l, f.num>> \notin m[j].deleted
      BY VersionMember, SMTT(30)
    <3>2. PICK i \in DOMAIN m : \E q \in m[i].added :
            q[1] = l /\ q[2] = f /\ \A j \in i + 1 .. Len(m) : <<l, f.num>> \notin m[j].deleted
      BY <3>1, Zenon
    <3>3. QED
      BY <3>2, Zenon
  <2>2. DOMAIN m = {1}
    BY <1>1
  <2>3. QED
    BY <1>2, <2>1, <2>2
<1>4. VersionOf(m) = NoFiles
  BY <1>3 DEF VersionOf, NoFiles
<1>5. Numbers(NoFiles) = {}
  BY NumbersMember DEF NoFiles
<1>6. QED
  BY <1>1, <1>2, <1>4, <1>5 DEF Last

\* A new manifest describes the recovered version with the recovered tables.
LEMMA SavedManifest ==
  ASSUME MemoryInv, NEW m, m = <<Snapshot, SavedEdit>>
  PROVE  /\ IsSequence(m) /\ Len(m) = 2 /\ Last(m) = SavedEdit
         /\ VersionOf(m) = Apply(version, SavedEdit)
         /\ SavedEdit.next = nextFile /\ SavedEdit.added = recovery.edit.added
<1>1. Len(m) = 2 /\ DOMAIN m = {1, 2} /\ m[1] = Snapshot /\ m[2] = SavedEdit
  OBVIOUS
<1>2. IsSequence(m)
  BY <1>1 DEF IsSequence, Range
<1>3. SavedEdit.next = nextFile /\ SavedEdit.added = recovery.edit.added
  BY DEF MemoryInv, SavedEdit
<1> DEFINE pairs == UNION {{<<l, f>> : f \in version[l]} : l \in Levels}
<1>4. Snapshot.added = pairs
  BY DEF Snapshot, NoEdit
<1>5. ASSUME NEW l \in Levels, NEW f
      PROVE  (\E q \in pairs : q[1] = l /\ q[2] = f) <=> f \in version[l]
  <2>1. ASSUME NEW q \in pairs, q[1] = l, q[2] = f PROVE f \in version[l]
    <3>1. PICK k \in Levels : q \in {<<k, g>> : g \in version[k]}
      BY <2>1
    <3>2. PICK g \in version[k] : q = <<k, g>>
      BY <3>1
    <3>3. QED
      BY <2>1, <3>2
  <2>2. ASSUME f \in version[l] PROVE \E q \in pairs : q[1] = l /\ q[2] = f
    <3>1. <<l, f>> \in {<<l, g>> : g \in version[l]}
      BY <2>2
    <3>2. <<l, f>> \in pairs
      BY <3>1
    <3>3. <<l, f>>[1] = l /\ <<l, f>>[2] = f
      OBVIOUS
    <3>4. QED
      BY <3>2, <3>3
  <2>3. QED
    BY <2>1, <2>2
<1> HIDE DEF pairs
<1>6. ASSUME NEW l \in Levels, NEW f
      PROVE  f \in VersionOf(m)[l] <=> f \in Apply(version, SavedEdit)[l]
  <2>1. f \in VersionOf(m)[l] <=>
          \E i \in {1, 2} : \E q \in m[i].added :
             q[1] = l /\ q[2] = f /\ \A j \in i + 1 .. 2 : <<l, f.num>> \notin m[j].deleted
    BY <1>1, <1>6, VersionMember
  <2>2. f \in Apply(version, SavedEdit)[l] <=>
          \/ f \in version[l] /\ <<l, f.num>> \notin SavedEdit.deleted
          \/ \E q \in SavedEdit.added : q[1] = l /\ q[2] = f
    BY DEF Apply
  <2>3. 1 + 1 .. 2 = {2} /\ 2 + 1 .. 2 = {}
    OBVIOUS
  <2>4. f \in VersionOf(m)[l] <=>
          \/ (\E q \in pairs : q[1] = l /\ q[2] = f) /\ <<l, f.num>> \notin SavedEdit.deleted
          \/ \E q \in SavedEdit.added : q[1] = l /\ q[2] = f
    BY <1>1, <1>4, <2>1, <2>3
  <2>5. QED
    BY <1>5, <2>2, <2>4
<1>7. VersionOf(m) = [l \in Levels |-> VersionOf(m)[l]]
  BY DEF VersionOf
<1>8. \A l \in Levels : VersionOf(m)[l] = Apply(version, SavedEdit)[l]
  BY <1>6
<1>9. VersionOf(m) = Apply(version, SavedEdit)
  BY <1>7, <1>8, ApplyShape
<1>10. QED
  BY <1>1, <1>2, <1>3, <1>9 DEF Last

(***************************************************************************)
(* What file operations do to the disk.                                    *)
(***************************************************************************)

\* Everything that leaves the current manifest and its tables alone.
LEMMA DiskKept ==
  ASSUME DiskInv, NEW ms, NEW ts, NEW ls,
         disk' = [current |-> disk.current, manifests |-> ms, tables |-> ts, logs |-> ls],
         disk.current # 0 => /\ disk.current \in DOMAIN ms /\ ms[disk.current] = Manifest
                             /\ Numbers(Current) \subseteq DOMAIN ts,
         DOMAIN ls \subseteq Nat, \A n \in DOMAIN ls : IsSequence(ls[n])
  PROVE  /\ DiskInv' /\ Tables' = DOMAIN ts
         /\ disk.current # 0 => Current' = Current /\ Manifest' = Manifest
<1>1. /\ disk'.current = disk.current /\ disk'.manifests = ms /\ disk'.tables = ts /\ disk'.logs = ls
      /\ disk' = [current |-> disk'.current, manifests |-> disk'.manifests, tables |-> disk'.tables,
                  logs |-> disk'.logs]
  OBVIOUS
<1>2. disk.current # 0 => Manifest' = Manifest
  BY <1>1 DEF Manifest
<1>3. disk.current # 0 => Current' = Current
  BY <1>2 DEF Current
<1>4. Tables' = DOMAIN ts
  BY <1>1 DEF Tables
<1>5. DiskInv'
  BY <1>1, <1>2, <1>3, <1>4 DEF DiskInv
<1>6. QED
  BY <1>2, <1>3, <1>4, <1>5

\* One more record in the current manifest.
LEMMA AppendRecord ==
  ASSUME DiskInv, disk.current # 0, disk.current = manifestNumber, NEW e,
         disk' = [disk EXCEPT !.manifests[manifestNumber] = Append(@, e)],
         e.next \in Nat, disk.current < e.next,
         NumbersOf(e.added) \subseteq Tables, IsFiniteSet(e.added)
  PROVE  /\ DiskInv' /\ Tables' = Tables /\ disk'.logs = disk.logs
         /\ disk'.current = disk.current /\ Current' = Apply(Current, e)
<1> DEFINE ms == [disk.manifests EXCEPT ![manifestNumber] = Append(@, e)]
<1>1. disk' = [current |-> disk.current, manifests |-> ms, tables |-> disk.tables, logs |-> disk.logs]
  BY DEF DiskInv
<1>2. disk.current \in DOMAIN ms /\ ms[disk.current] = Append(Manifest, e)
  BY DEF DiskInv, Manifest
<1> HIDE DEF ms
<1>3. /\ disk'.current = disk.current /\ disk'.manifests = ms /\ disk'.tables = disk.tables
      /\ disk'.logs = disk.logs
      /\ disk' = [current |-> disk'.current, manifests |-> disk'.manifests, tables |-> disk'.tables,
                  logs |-> disk'.logs]
  <2>1. disk'.current = disk.current /\ disk'.manifests = ms
    BY <1>1
  <2>2. disk'.tables = disk.tables /\ disk'.logs = disk.logs
    BY <1>1
  <2>3. QED
    BY <1>1, <2>1, <2>2
<1>4. Manifest' = Append(Manifest, e)
  BY <1>2, <1>3 DEF Manifest
<1>5. IsSequence(Manifest)
  BY DEF DiskInv
<1>6. /\ IsSequence(Manifest') /\ Len(Manifest') > 0 /\ Last(Manifest') = e
  BY <1>4, <1>5, AppendElements DEF Last
<1>7. Current' = Apply(Current, e)
  BY <1>4, <1>5, VersionOfAppend DEF Current
<1>8. Tables' = Tables
  BY <1>3 DEF Tables
<1>9. Numbers(Current') \subseteq Tables'
  BY <1>7, <1>8, NumbersApply DEF DiskInv
<1>10. \A l \in Levels : IsFiniteSet(Current'[l])
  <2>1. \A l \in Levels : IsFiniteSet(Current[l])
    BY DEF DiskInv
  <2>2. QED
    BY <1>7, <2>1, ApplyFinite
<1>11. DiskInv'
  BY <1>2, <1>3, <1>6, <1>9, <1>10 DEF DiskInv
<1>12. QED
  BY <1>3, <1>7, <1>8, <1>11

\* Removing files.
LEMMA WithoutFacts ==
  ASSUME NEW d, NEW c, NEW ms, NEW ts, NEW ls, NEW doomed,
         d = [current |-> c, manifests |-> ms, tables |-> ts, logs |-> ls]
  PROVE  Without(doomed, d) =
           [current |-> c,
            manifests |-> Restrict(ms, {n \in DOMAIN ms : <<"manifest", n>> \notin doomed}),
            tables |-> Restrict(ts, {n \in DOMAIN ts : <<"table", n>> \notin doomed}),
            logs |-> Restrict(ls, {n \in DOMAIN ls : <<"log", n>> \notin doomed})]
<1>1. d.manifests = ms /\ d.tables = ts /\ d.logs = ls
  OBVIOUS
<1> DEFINE kept1 == Restrict(ms, {n \in DOMAIN ms : <<"manifest", n>> \notin doomed})
           kept2 == Restrict(ts, {n \in DOMAIN ts : <<"table", n>> \notin doomed})
           kept3 == Restrict(ls, {n \in DOMAIN ls : <<"log", n>> \notin doomed})
<1>2. Without(doomed, d) = [d EXCEPT !.tables = kept2, !.logs = kept3, !.manifests = kept1]
  BY <1>1 DEF Without
<1> HIDE DEF kept1, kept2, kept3
<1>3. Without(doomed, d) = [current |-> c, manifests |-> kept1, tables |-> kept2, logs |-> kept3]
  BY <1>2
<1>4. QED
  BY <1>3 DEF kept1, kept2, kept3

LEMMA RestrictFacts ==
  ASSUME NEW f, NEW S
  PROVE  DOMAIN Restrict(f, S) = S /\ \A x \in S : Restrict(f, S)[x] = f[x]
  BY DEF Restrict

LEMMA LogsLeft ==
  ASSUME NEW logs, NEW doomed, DOMAIN logs \subseteq Nat, \A n \in DOMAIN logs : IsSequence(logs[n])
  PROVE  LET left == Restrict(logs, {n \in DOMAIN logs : <<"log", n>> \notin doomed})
         IN  DOMAIN left \subseteq Nat /\ \A n \in DOMAIN left : IsSequence(left[n])
<1> DEFINE left == Restrict(logs, {n \in DOMAIN logs : <<"log", n>> \notin doomed})
<1>1. DOMAIN left \subseteq DOMAIN logs /\ \A n \in DOMAIN left : left[n] = logs[n]
  BY DEF Restrict
<1> HIDE DEF left
<1>2. DOMAIN left \subseteq Nat /\ \A n \in DOMAIN left : IsSequence(left[n])
  BY <1>1
<1>3. QED
  BY <1>2 DEF left

\* One more file.
LEMMA WithFacts ==
  ASSUME NEW files, NEW num, NEW content
  PROVE  /\ DOMAIN With(files, num, content) = DOMAIN files \cup {num}
         /\ With(files, num, content)[num] = content
         /\ \A n \in DOMAIN files : n # num => With(files, num, content)[n] = files[n]
  BY DEF With

\* Removing files that nobody names.
LEMMA DiskSwept ==
  ASSUME DiskInv, NEW doomed, disk' = Without(doomed, disk),
         disk.current # 0,
         \A n \in Numbers(Current) : <<"table", n>> \notin doomed,
         <<"manifest", disk.current>> \notin doomed
  PROVE  /\ DiskInv'
         /\ Tables' = {n \in Tables : <<"table", n>> \notin doomed}
         /\ disk'.current = disk.current /\ Current' = Current
<1> DEFINE ms == Restrict(disk.manifests, {n \in DOMAIN disk.manifests : <<"manifest", n>> \notin doomed})
           ts == Restrict(disk.tables, {n \in DOMAIN disk.tables : <<"table", n>> \notin doomed})
           ls == Restrict(disk.logs, {n \in DOMAIN disk.logs : <<"log", n>> \notin doomed})
<1>1. disk = [current |-> disk.current, manifests |-> disk.manifests, tables |-> disk.tables,
              logs |-> disk.logs]
  BY DEF DiskInv
<1>2. disk' = [current |-> disk.current, manifests |-> ms, tables |-> ts, logs |-> ls]
  <2>1. disk' = [disk EXCEPT !.tables = ts, !.logs = ls, !.manifests = ms]
    BY DEF Without
  <2> HIDE DEF ms, ts, ls
  <2>2. QED
    BY <1>1, <2>1
<1>3. disk.current \in DOMAIN ms /\ ms[disk.current] = Manifest
  BY RestrictFacts DEF DiskInv, Manifest
<1>4. DOMAIN ts = {n \in Tables : <<"table", n>> \notin doomed}
  BY RestrictFacts DEF Tables
<1>5. DOMAIN ls \subseteq Nat /\ \A n \in DOMAIN ls : IsSequence(ls[n])
  BY LogsLeft DEF DiskInv
<1> HIDE DEF ms, ts, ls
<1>6. Numbers(Current) \subseteq DOMAIN ts
  BY <1>4 DEF DiskInv
<1>7. DiskInv' /\ Tables' = DOMAIN ts /\ Current' = Current
  BY <1>2, <1>3, <1>5, <1>6, DiskKept
<1>8. QED
  BY <1>2, <1>4, <1>7

\* The new manifest becomes the current one, and any of the files it does not
\* need may be gone.
LEMMA DiskSwitched ==
  ASSUME DiskInv, MemoryInv, OpeningInv, phase = "current",
         NEW doomed \in SUBSET Obsolete(Numbers(Apply(version, SavedEdit)), memLog, manifestNumber),
         disk' = Without(doomed, [disk EXCEPT !.current = manifestNumber])
  PROVE  /\ DiskInv' /\ disk'.current = manifestNumber
         /\ Current' = Apply(version, SavedEdit)
<1> DEFINE v == Apply(version, SavedEdit)
           ms == Restrict(disk.manifests, {n \in DOMAIN disk.manifests : <<"manifest", n>> \notin doomed})
           ts == Restrict(disk.tables, {n \in DOMAIN disk.tables : <<"table", n>> \notin doomed})
           ls == Restrict(disk.logs, {n \in DOMAIN disk.logs : <<"log", n>> \notin doomed})
           m == <<Snapshot, SavedEdit>>
<1>1. disk = [current |-> disk.current, manifests |-> disk.manifests, tables |-> disk.tables,
              logs |-> disk.logs]
  BY DEF DiskInv
<1>2. [disk EXCEPT !.current = manifestNumber] =
        [current |-> manifestNumber, manifests |-> disk.manifests, tables |-> disk.tables,
         logs |-> disk.logs]
  BY <1>1
<1>3. disk' = [current |-> manifestNumber, manifests |-> ms, tables |-> ts, logs |-> ls]
  BY <1>2, WithoutFacts
<1>4. /\ manifestNumber \in DOMAIN disk.manifests /\ disk.manifests[manifestNumber] = m
      /\ Numbers(version) \subseteq Tables /\ NumbersOf(recovery.edit.added) \subseteq Tables
      /\ manifestNumber \in Nat /\ manifestNumber < nextFile /\ nextFile \in Nat
  BY DEF OpeningInv, MemoryInv, Recovering
<1>5. <<"manifest", manifestNumber>> \notin doomed
  <2>1. ASSUME <<"manifest", manifestNumber>> \in Obsolete(Numbers(v), memLog, manifestNumber)
        PROVE  FALSE
    BY <1>4, <2>1 DEF Obsolete
  <2>2. QED
    BY <2>1
<1>6. \A n \in Numbers(v) : <<"table", n>> \notin doomed
  <2>1. ASSUME NEW n \in Numbers(v), <<"table", n>> \in Obsolete(Numbers(v), memLog, manifestNumber)
        PROVE  FALSE
    BY <2>1 DEF Obsolete
  <2>2. QED
    BY <2>1
<1>7. manifestNumber \in DOMAIN ms /\ ms[manifestNumber] = m
  BY <1>4, <1>5, RestrictFacts
<1>8. /\ IsSequence(m) /\ Len(m) > 0 /\ Last(m).next = nextFile
      /\ VersionOf(m) = v /\ SavedEdit.added = recovery.edit.added
  BY SavedManifest
<1>9. Numbers(v) \subseteq DOMAIN ts
  <2>1. Numbers(v) \subseteq Tables
    BY <1>4, <1>8, NumbersApply
  <2>2. DOMAIN ts = {n \in Tables : <<"table", n>> \notin doomed}
    BY RestrictFacts DEF Tables
  <2>3. QED
    BY <1>6, <2>1, <2>2
<1>10. DOMAIN ls \subseteq Nat /\ \A n \in DOMAIN ls : IsSequence(ls[n])
  BY LogsLeft DEF DiskInv
<1>11. \A l \in Levels : IsFiniteSet(v[l])
  <2>1. (\A l \in Levels : IsFiniteSet(version[l])) /\ IsFiniteSet(SavedEdit.added)
    BY <1>8 DEF MemoryInv
  <2>2. QED
    BY <2>1, ApplyFinite
<1> HIDE DEF v, ms, ts, ls, m
<1>12. /\ disk'.current = manifestNumber /\ disk'.manifests = ms /\ disk'.tables = ts /\ disk'.logs = ls
       /\ disk' = [current |-> disk'.current, manifests |-> disk'.manifests, tables |-> disk'.tables,
                   logs |-> disk'.logs]
  BY <1>3
<1>13. Manifest' = m /\ Tables' = DOMAIN ts
  BY <1>7, <1>12 DEF Manifest, Tables
<1>14. Current' = v
  BY <1>8, <1>13 DEF Current
<1>15. DiskInv'
  BY <1>4, <1>7, <1>8, <1>9, <1>10, <1>11, <1>12, <1>13, <1>14 DEF DiskInv
<1>16. QED
  BY <1>12, <1>14, <1>15 DEF v

(***************************************************************************)
(* The disk and what is in memory.                                         *)
(***************************************************************************)

LEMMA NoNumbers == NumbersOf({}) = {}
  BY DEF NumbersOf

LEMMA IdleBgFacts ==
  /\ IdleBg.pc = "idle" /\ IdleBg.flushed = {} /\ IdleBg.outs = {} /\ IdleBg.edit = NoEdit
  /\ IdleBg.compacting = FALSE /\ IdleBg.edit.added = {} /\ NoEdit.added = {}
  BY DEF IdleBg, NoEdit

LEMMA IdleBgInv ==
  ASSUME bg' = IdleBg
  PROVE  BgInv'
<1>1. HasFields(bg')
  BY DEF IdleBg, HasFields
<1>2. /\ bg'.pc = "idle" /\ bg'.flushed = {} /\ bg'.outs = {} /\ bg'.edit.added = {}
      /\ bg'.compacting = FALSE
  BY IdleBgFacts
<1>3. IsFiniteSet({})
  BY FS_EmptySet
<1>4. NumbersOf({}) = {}
  BY NoNumbers
<1>5. QED
  BY <1>1, <1>2, <1>3, <1>4 DEF BgInv, Recording, Installing, Sweeping

LEMMA DiskUnchanged ==
  ASSUME DiskInv, UNCHANGED disk
  PROVE  DiskInv' /\ Current' = Current /\ Manifest' = Manifest /\ Tables' = Tables
  BY DEF DiskInv, Current, Manifest, Tables

\* The logs change, nothing else on the disk.
LEMMA LogsChanged ==
  ASSUME DiskInv, NEW ls,
         disk' = [disk EXCEPT !.logs = ls],
         DOMAIN ls \subseteq Nat, \A n \in DOMAIN ls : IsSequence(ls[n])
  PROVE  /\ DiskInv' /\ Tables' = Tables /\ disk'.current = disk.current /\ disk'.logs = ls
         /\ disk'.manifests = disk.manifests
         /\ disk.current # 0 => Current' = Current /\ Manifest' = Manifest
<1>1. disk' = [current |-> disk.current, manifests |-> disk.manifests, tables |-> disk.tables, logs |-> ls]
  BY DEF DiskInv
<1>2. disk.current # 0 => /\ disk.current \in DOMAIN disk.manifests
                          /\ disk.manifests[disk.current] = Manifest
                          /\ Numbers(Current) \subseteq DOMAIN disk.tables
  BY DEF DiskInv, Manifest, Tables
<1>3. /\ DiskInv' /\ Tables' = DOMAIN disk.tables
      /\ disk.current # 0 => Current' = Current /\ Manifest' = Manifest
  BY <1>1, <1>2, DiskKept
<1>4. disk'.current = disk.current /\ disk'.logs = ls /\ disk'.manifests = disk.manifests
  BY <1>1
<1>5. QED
  BY <1>3, <1>4 DEF Tables

\* A new empty log.
LEMMA LogAdded ==
  ASSUME DiskInv, nextFile \in Nat
  PROVE  LET ls == With(disk.logs, nextFile, <<>>)
         IN  DOMAIN ls \subseteq Nat /\ \A n \in DOMAIN ls : IsSequence(ls[n])
<1> DEFINE ls == With(disk.logs, nextFile, <<>>)
<1>1. /\ DOMAIN ls = DOMAIN disk.logs \cup {nextFile} /\ ls[nextFile] = <<>>
      /\ \A n \in DOMAIN disk.logs : n # nextFile => ls[n] = disk.logs[n]
  BY DEF With
<1> HIDE DEF ls
<1>2. DOMAIN disk.logs \subseteq Nat /\ \A n \in DOMAIN disk.logs : IsSequence(disk.logs[n])
  BY DEF DiskInv
<1>3. IsSequence(<<>>)
  BY EmptySequence
<1>4. DOMAIN ls \subseteq Nat /\ \A n \in DOMAIN ls : IsSequence(ls[n])
  BY <1>1, <1>2, <1>3
<1>5. QED
  BY <1>4 DEF ls

\* A new table.
LEMMA TableAdded ==
  ASSUME DiskInv, NEW num, NEW content, disk' = [disk EXCEPT !.tables = With(@, num, content)]
  PROVE  /\ DiskInv' /\ Tables' = Tables \cup {num} /\ disk'.current = disk.current
         /\ disk.current # 0 => Current' = Current
<1> DEFINE ts == With(disk.tables, num, content)
<1>1. disk' = [current |-> disk.current, manifests |-> disk.manifests, tables |-> ts, logs |-> disk.logs]
  BY DEF DiskInv
<1>2. DOMAIN ts = Tables \cup {num}
  BY WithFacts DEF Tables
<1> HIDE DEF ts
<1>3. disk.current # 0 => /\ disk.current \in DOMAIN disk.manifests
                          /\ disk.manifests[disk.current] = Manifest
                          /\ Numbers(Current) \subseteq DOMAIN ts
  BY <1>2 DEF DiskInv, Manifest
<1>4. DOMAIN disk.logs \subseteq Nat /\ \A n \in DOMAIN disk.logs : IsSequence(disk.logs[n])
  BY DEF DiskInv
<1>5. /\ DiskInv' /\ Tables' = DOMAIN ts
      /\ disk.current # 0 => Current' = Current /\ Manifest' = Manifest
  BY <1>1, <1>3, <1>4, DiskKept
<1>6. disk'.current = disk.current
  BY <1>1
<1>7. QED
  BY <1>2, <1>5, <1>6

\* A step of a caller while the store is in use.
LEMMA CallerStep ==
  ASSUME StoreInv, phase = "open", phase' \in {"open", "closing"},
         UNCHANGED <<recovery, version, manifestNumber, bg>>,
         DiskInv', disk'.current = disk.current, Current' = Current, Tables' = Tables,
         nextFile' \in Nat, nextFile <= nextFile',
         bgScheduled => bgScheduled', bgError => bgError',
         \A p \in seekFile' : p[1] \in Levels,
         \A r \in Readers : reader'[r].pc # "idle" => phase' = "open"
  PROVE  StoreInv'
<1>1. InUse /\ InUse' /\ phase' \in Phases /\ phase' \notin {"newdb", "replay", "save", "current"}
  BY DEF InUse, Phases
<1>2. MemoryInv'
  BY <1>1 DEF StoreInv, MemoryInv
<1>3. OpeningInv'
  BY <1>1 DEF OpeningInv, Recovering
<1>4. /\ (Installing' <=> Installing) /\ (Recording' <=> Recording) /\ (Sweeping' <=> Sweeping)
      /\ Apply(version, bg.edit)' = Apply(version, bg.edit)
  BY DEF Installing, Recording, Sweeping, Apply
<1>5. UseInv'
  <2>1. /\ disk.current # 0 /\ disk.current = manifestNumber /\ manifestNumber < nextFile
        /\ ~bgError => Current = IF Installing THEN Apply(version, bg.edit) ELSE version
        /\ nextFile \in Nat /\ manifestNumber \in Nat
    BY <1>1 DEF StoreInv, UseInv, MemoryInv
  <2>2. disk'.current # 0 /\ disk'.current = manifestNumber' /\ manifestNumber' < nextFile'
    BY <2>1
  <2>3. ~bgError' => Current' = IF Installing' THEN Apply(version, bg.edit)' ELSE version'
    BY <1>4, <2>1
  <2>4. QED
    BY <2>2, <2>3 DEF UseInv
<1>6. BgInv'
  <2>1. BgInv
    BY DEF StoreInv
  <2>2. UNCHANGED <<bg, manifestNumber>> /\ (bgScheduled => bgScheduled')
        /\ disk'.current = disk.current /\ Current' = Current /\ Tables' = Tables
    OBVIOUS
  <2>3. QED
    BY <1>4, <2>1, <2>2 DEF BgInv
<1>7. QED
  BY <1>2, <1>3, <1>5, <1>6 DEF StoreInv

\* The process dies or the object goes: what is in memory is gone.
LEMMA Forgotten ==
  ASSUME ForgetMemory, DiskInv'
  PROVE  StoreInv'
<1>1. /\ phase' = "closed" /\ version' = NoFiles /\ manifestNumber' = 0 /\ nextFile' = 2
      /\ recovery' = [edit |-> NoEdit, logs |-> {}]
      /\ bg' = IdleBg /\ bgScheduled' = FALSE /\ seekFile' = {} /\ imm' = NoMem
      /\ reader' = [r \in Readers |-> IdleReader]
  BY DEF ForgetMemory
<1>2. ~InUse' /\ ~Recovering' /\ phase' \in Phases
  BY <1>1 DEF InUse, Recovering, Phases
<1>3. /\ version' = [l \in Levels |-> version'[l]]
      /\ \A l \in Levels : IsFiniteSet(version'[l])
  BY <1>1, FS_EmptySet DEF NoFiles
<1>4. /\ recovery' = [edit |-> recovery'.edit, logs |-> recovery'.logs]
      /\ recovery'.edit = [log |-> recovery'.edit.log, next |-> recovery'.edit.next,
                           last |-> recovery'.edit.last, deleted |-> recovery'.edit.deleted,
                           added |-> recovery'.edit.added]
      /\ IsFiniteSet(recovery'.edit.added)
  BY <1>1, FS_EmptySet DEF NoEdit
<1>5. \A r \in Readers : reader'[r].pc = "idle"
  BY <1>1 DEF IdleReader
<1>6. MemoryInv'
  BY <1>1, <1>2, <1>3, <1>4, <1>5 DEF MemoryInv
<1>7. OpeningInv'
  BY <1>1, <1>2 DEF OpeningInv
<1>8. UseInv'
  BY <1>2 DEF UseInv
<1>9. BgInv'
  BY <1>1, IdleBgInv
<1>10. QED
  BY <1>6, <1>7, <1>8, <1>9 DEF StoreInv

LEMMA StoreInit == Init => StoreInv
<1> SUFFICES ASSUME Init PROVE StoreInv
  OBVIOUS
<1>1. /\ disk = [current |-> 0, manifests |-> <<>>, tables |-> <<>>, logs |-> <<>>]
      /\ phase = "closed" /\ version = NoFiles /\ manifestNumber = 0 /\ nextFile = 2
      /\ recovery = [edit |-> NoEdit, logs |-> {}]
      /\ bg = IdleBg /\ bgScheduled = FALSE /\ seekFile = {} /\ imm = NoMem
      /\ reader = [r \in Readers |-> IdleReader]
  BY DEF Init
<1>2. ~InUse /\ ~Recovering /\ phase \in Phases
  BY <1>1 DEF InUse, Recovering, Phases
<1>3. /\ version = [l \in Levels |-> version[l]]
      /\ \A l \in Levels : IsFiniteSet(version[l])
  BY <1>1, FS_EmptySet DEF NoFiles
<1>4. /\ recovery = [edit |-> recovery.edit, logs |-> recovery.logs]
      /\ recovery.edit = [log |-> recovery.edit.log, next |-> recovery.edit.next,
                          last |-> recovery.edit.last, deleted |-> recovery.edit.deleted,
                          added |-> recovery.edit.added]
      /\ IsFiniteSet(recovery.edit.added)
  BY <1>1, FS_EmptySet DEF NoEdit
<1>5. \A r \in Readers : reader[r].pc = "idle"
  BY <1>1 DEF IdleReader
<1>6. MemoryInv
  BY <1>1, <1>2, <1>3, <1>4, <1>5 DEF MemoryInv
<1>7. OpeningInv
  BY <1>1, <1>2 DEF OpeningInv
<1>8. UseInv
  BY <1>2 DEF UseInv
<1>9. BgInv
  <2>1. HasFields(bg)
    BY <1>1 DEF IdleBg, HasFields
  <2>2. /\ bg.pc = "idle" /\ bg.flushed = {} /\ bg.outs = {} /\ bg.edit.added = {}
        /\ bg.compacting = FALSE
    BY <1>1, IdleBgFacts
  <2>3. QED
    BY <1>1, <2>1, <2>2, FS_EmptySet, NoNumbers DEF BgInv, Recording, Installing, Sweeping
<1>10. DiskInv
  <2>1. DOMAIN disk.logs = {} /\ disk.current = 0
    BY <1>1, EmptySequence
  <2>2. disk = [current |-> disk.current, manifests |-> disk.manifests, tables |-> disk.tables,
                logs |-> disk.logs]
    BY <1>1
  <2>3. QED
    BY <2>1, <2>2 DEF DiskInv
<1>11. QED
  BY <1>6, <1>7, <1>8, <1>9, <1>10 DEF StoreInv

(***************************************************************************)
(* Opening the store.                                                      *)
(***************************************************************************)

LEMMA OpeningStep ==
  ASSUME MemoryInv, ~InUse, phase' \in {"newdb", "replay", "save", "current"},
         UNCHANGED <<bg, bgScheduled, seekFile, imm, reader>>,
         version' = [l \in Levels |-> version'[l]], \A l \in Levels : IsFiniteSet(version'[l]),
         nextFile' \in Nat, manifestNumber' \in Nat,
         recovery' = [edit |-> recovery'.edit, logs |-> recovery'.logs],
         recovery'.edit = [log |-> recovery'.edit.log, next |-> recovery'.edit.next,
                           last |-> recovery'.edit.last, deleted |-> recovery'.edit.deleted,
                           added |-> recovery'.edit.added],
         IsFiniteSet(recovery'.edit.added),
         DiskInv', OpeningInv'
  PROVE  StoreInv'
<1>1. bg' = IdleBg /\ ~bgScheduled' /\ seekFile' = {} /\ imm' = NoMem
  BY DEF MemoryInv
<1>2. ~InUse' /\ phase' \in Phases
  BY DEF InUse, Phases
<1>3. \A r \in Readers : reader'[r].pc = "idle"
  BY DEF MemoryInv, InUse
<1>4. MemoryInv'
  BY <1>1, <1>2, <1>3 DEF MemoryInv
<1>5. UseInv'
  BY <1>2 DEF UseInv
<1>6. BgInv'
  BY <1>1, IdleBgInv
<1>7. QED
  BY <1>4, <1>5, <1>6 DEF StoreInv

LEMMA NewDbStep == StoreInv /\ NewDb => StoreInv'
<1> SUFFICES ASSUME StoreInv, NewDb PROVE StoreInv'
  OBVIOUS
<1> DEFINE first == <<[NoEdit EXCEPT !.next = 2]>>
           ms == With(disk.manifests, 1, first)
<1>1. /\ phase = "closed" /\ phase' = "newdb" /\ disk.current = 0
      /\ disk' = [disk EXCEPT !.manifests = ms]
      /\ UNCHANGED <<nextFile, recovery, version, manifestNumber, bg, bgScheduled, seekFile, imm, reader>>
  BY DEF NewDb, memVars, versionVars, bgVars, readVars
<1>2. ~InUse
  BY <1>1 DEF InUse
<1>3. 1 \in DOMAIN ms /\ ms[1] = first
  BY DEF With
<1> HIDE DEF ms
<1>4. disk' = [current |-> disk.current, manifests |-> ms, tables |-> disk.tables, logs |-> disk.logs]
  BY <1>1 DEF StoreInv, DiskInv
<1>5. DiskInv'
  BY <1>1, <1>4, DiskKept DEF StoreInv, DiskInv
<1>6. OpeningInv'
  BY <1>1, <1>3, <1>4 DEF OpeningInv, Recovering
<1>7. MemoryInv
  BY DEF StoreInv
<1>8. QED
  <2>1. /\ version' = [l \in Levels |-> version'[l]]
        /\ \A l \in Levels : IsFiniteSet(version'[l])
        /\ nextFile' \in Nat /\ manifestNumber' \in Nat
    BY <1>1, <1>7 DEF MemoryInv
  <2>2. /\ recovery' = [edit |-> recovery'.edit, logs |-> recovery'.logs]
        /\ recovery'.edit = [log |-> recovery'.edit.log, next |-> recovery'.edit.next,
                             last |-> recovery'.edit.last, deleted |-> recovery'.edit.deleted,
                             added |-> recovery'.edit.added]
        /\ IsFiniteSet(recovery'.edit.added)
    BY <1>1, <1>7 DEF MemoryInv
  <2>3. QED
    BY <1>1, <1>2, <1>5, <1>6, <1>7, <2>1, <2>2, OpeningStep

\* The edit a recovery starts with.
LEMMA EmptyEdit ==
  ASSUME NEW S, recovery' = [edit |-> NoEdit, logs |-> S]
  PROVE  /\ recovery' = [edit |-> recovery'.edit, logs |-> recovery'.logs]
         /\ recovery'.edit = [log |-> recovery'.edit.log, next |-> recovery'.edit.next,
                              last |-> recovery'.edit.last, deleted |-> recovery'.edit.deleted,
                              added |-> recovery'.edit.added]
         /\ recovery'.edit.added = {} /\ recovery'.logs = S
         /\ IsFiniteSet(recovery'.edit.added) /\ NumbersOf(recovery'.edit.added) = {}
  BY FS_EmptySet, NoNumbers DEF NoEdit

LEMMA RecoverStep == StoreInv /\ Recover => StoreInv'
<1> SUFFICES ASSUME StoreInv, Recover PROVE StoreInv'
  OBVIOUS
<1> DEFINE S == {n \in DOMAIN disk.logs : n >= Last(Manifest).log}
<1>1. /\ phase = "closed" /\ phase' = "replay" /\ disk.current # 0 /\ disk' = disk
      /\ version' = Current
      /\ manifestNumber' = Last(Manifest).next /\ nextFile' = Last(Manifest).next + 1
      /\ recovery' = [edit |-> NoEdit, logs |-> S]
      /\ UNCHANGED <<bg, bgScheduled, seekFile, imm, reader>>
  BY DEF Recover, Current, bgVars, readVars
<1>2. ~InUse /\ MemoryInv /\ DiskInv
  BY <1>1 DEF InUse, StoreInv
<1>3. DiskInv' /\ Current' = Current /\ Manifest' = Manifest /\ Tables' = Tables
  BY <1>1, <1>2, DiskUnchanged
<1>4. /\ version' = [l \in Levels |-> version'[l]]
      /\ \A l \in Levels : IsFiniteSet(version'[l])
  <2>1. Current = [l \in Levels |-> Current[l]]
    BY DEF Current, VersionOf
  <2>2. \A l \in Levels : IsFiniteSet(Current[l])
    BY <1>1, <1>2 DEF DiskInv
  <2>3. QED
    BY <1>1, <2>1, <2>2
<1>5. /\ manifestNumber' \in Nat /\ nextFile' \in Nat
      /\ disk.current < manifestNumber' /\ manifestNumber' < nextFile'
  BY <1>1, <1>2 DEF DiskInv
<1>6. Numbers(Current) \subseteq Tables
  BY <1>1, <1>2 DEF DiskInv
<1>7. S \subseteq DOMAIN disk.logs
  OBVIOUS
<1> HIDE DEF S
<1>8. /\ recovery' = [edit |-> recovery'.edit, logs |-> recovery'.logs]
      /\ recovery'.edit = [log |-> recovery'.edit.log, next |-> recovery'.edit.next,
                           last |-> recovery'.edit.last, deleted |-> recovery'.edit.deleted,
                           added |-> recovery'.edit.added]
      /\ recovery'.edit.added = {} /\ recovery'.logs = S
      /\ IsFiniteSet(recovery'.edit.added) /\ NumbersOf(recovery'.edit.added) = {}
  BY <1>1, EmptyEdit
<1>9. OpeningInv'
  <2>1. Numbers(version') \subseteq Tables'
    BY <1>1, <1>3, <1>6
  <2>2. recovery'.logs \subseteq DOMAIN disk'.logs
    BY <1>1, <1>7, <1>8
  <2>3. disk'.current # 0 /\ disk'.current < manifestNumber' /\ manifestNumber' < nextFile'
    BY <1>1, <1>5
  <2>4. QED
    BY <1>1, <1>8, <2>1, <2>2, <2>3 DEF OpeningInv
<1>10. QED
  BY <1>1, <1>2, <1>3, <1>4, <1>5, <1>8, <1>9, OpeningStep

LEMMA NewCurrentStep == StoreInv /\ NewCurrent => StoreInv'
<1> SUFFICES ASSUME StoreInv, NewCurrent PROVE StoreInv'
  OBVIOUS
<1>1. /\ phase = "newdb" /\ phase' = "replay"
      /\ disk' = [disk EXCEPT !.current = 1]
      /\ version' = NoFiles /\ manifestNumber' = 2 /\ nextFile' = 3
      /\ recovery' = [edit |-> NoEdit, logs |-> {}]
      /\ UNCHANGED <<bg, bgScheduled, seekFile, imm, reader>>
  BY DEF NewCurrent, bgVars, readVars
<1>2. ~InUse /\ MemoryInv /\ DiskInv
  BY <1>1 DEF InUse, StoreInv
<1> DEFINE m == disk.manifests[1]
<1>3. 1 \in DOMAIN disk.manifests /\ m = <<[NoEdit EXCEPT !.next = 2]>>
  BY <1>1 DEF StoreInv, OpeningInv
<1> HIDE DEF m
<1>4. /\ IsSequence(m) /\ Len(m) = 1 /\ Last(m).next = 2
      /\ VersionOf(m) = NoFiles /\ Numbers(NoFiles) = {}
  BY <1>3, FirstManifest
<1>5. /\ disk' = [current |-> 1, manifests |-> disk.manifests, tables |-> disk.tables, logs |-> disk.logs]
      /\ disk'.current = 1 /\ disk'.manifests = disk.manifests /\ disk'.tables = disk.tables
      /\ disk'.logs = disk.logs
  <2>1. disk' = [current |-> 1, manifests |-> disk.manifests, tables |-> disk.tables, logs |-> disk.logs]
    BY <1>1, <1>2 DEF DiskInv
  <2>2. QED
    BY <2>1
<1>6. Manifest' = m /\ Current' = NoFiles
  BY <1>4, <1>5 DEF Manifest, Current, m
<1>7. \A l \in Levels : IsFiniteSet(NoFiles[l])
  BY FS_EmptySet DEF NoFiles
<1>8. DiskInv'
  <2>1. DOMAIN disk'.logs \subseteq Nat /\ \A n \in DOMAIN disk'.logs : IsSequence(disk'.logs[n])
    BY <1>2, <1>5 DEF DiskInv
  <2>2. disk' = [current |-> disk'.current, manifests |-> disk'.manifests, tables |-> disk'.tables,
                 logs |-> disk'.logs]
    BY <1>5
  <2>3. IsSequence(Manifest') /\ Len(Manifest') > 0 /\ Last(Manifest').next = 2
    BY <1>4, <1>6
  <2>4. Numbers(Current') \subseteq Tables' /\ \A l \in Levels : IsFiniteSet(Current'[l])
    BY <1>4, <1>6, <1>7
  <2>5. QED
    BY <1>3, <1>5, <2>1, <2>2, <2>3, <2>4 DEF DiskInv
<1>9. /\ recovery' = [edit |-> recovery'.edit, logs |-> recovery'.logs]
      /\ recovery'.edit = [log |-> recovery'.edit.log, next |-> recovery'.edit.next,
                           last |-> recovery'.edit.last, deleted |-> recovery'.edit.deleted,
                           added |-> recovery'.edit.added]
      /\ recovery'.edit.added = {} /\ recovery'.logs = {}
      /\ IsFiniteSet(recovery'.edit.added) /\ NumbersOf(recovery'.edit.added) = {}
  BY <1>1, EmptyEdit
<1>10. OpeningInv'
  <2>1. Numbers(version') \subseteq Tables'
    BY <1>1, <1>4
  <2>2. QED
    BY <1>1, <1>5, <1>9, <2>1 DEF OpeningInv
<1>11. version' = [l \in Levels |-> version'[l]] /\ \A l \in Levels : IsFiniteSet(version'[l])
  BY <1>1, <1>7 DEF NoFiles
<1>12. QED
  BY <1>1, <1>2, <1>8, <1>9, <1>10, <1>11, OpeningStep

LEMMA NewLogStep == StoreInv /\ NewLog => StoreInv'
<1> SUFFICES ASSUME StoreInv, NewLog PROVE StoreInv'
  OBVIOUS
<1> DEFINE ls == With(disk.logs, nextFile, <<>>)
<1>1. /\ phase = "replay" /\ phase' = "save"
      /\ disk' = [disk EXCEPT !.logs = ls]
      /\ nextFile' = nextFile + 1
      /\ UNCHANGED <<recovery, version, manifestNumber, bg, bgScheduled, seekFile, imm, reader>>
  BY DEF NewLog, versionVars, bgVars, readVars
<1>2. ~InUse /\ MemoryInv /\ DiskInv /\ OpeningInv /\ nextFile \in Nat
  BY <1>1 DEF InUse, StoreInv, MemoryInv
<1>3. DOMAIN ls \subseteq Nat /\ \A n \in DOMAIN ls : IsSequence(ls[n])
  BY <1>2, LogAdded
<1> HIDE DEF ls
<1>4. DiskInv' /\ Tables' = Tables /\ disk'.current = disk.current
  BY <1>1, <1>2, <1>3, LogsChanged
<1>5. OpeningInv'
  <2>1. /\ disk.current # 0 /\ disk.current < manifestNumber /\ manifestNumber < nextFile
        /\ Numbers(version) \subseteq Tables /\ NumbersOf(recovery.edit.added) \subseteq Tables
    BY <1>1, <1>2 DEF OpeningInv, Recovering
  <2>2. /\ disk'.current # 0 /\ disk'.current < manifestNumber'
        /\ Numbers(version') \subseteq Tables' /\ NumbersOf(recovery'.edit.added) \subseteq Tables'
    BY <1>1, <1>4, <2>1
  <2>3. manifestNumber' < nextFile'
    BY <1>1, <1>2, <2>1 DEF MemoryInv
  <2>4. QED
    BY <1>1, <2>2, <2>3 DEF OpeningInv
<1>6. /\ version' = [l \in Levels |-> version'[l]] /\ \A l \in Levels : IsFiniteSet(version'[l])
      /\ nextFile' \in Nat /\ manifestNumber' \in Nat
  BY <1>1, <1>2 DEF MemoryInv
<1>7. /\ recovery' = [edit |-> recovery'.edit, logs |-> recovery'.logs]
      /\ recovery'.edit = [log |-> recovery'.edit.log, next |-> recovery'.edit.next,
                           last |-> recovery'.edit.last, deleted |-> recovery'.edit.deleted,
                           added |-> recovery'.edit.added]
      /\ IsFiniteSet(recovery'.edit.added)
  BY <1>1, <1>2 DEF MemoryInv
<1>8. QED
  BY <1>1, <1>2, <1>4, <1>5, <1>6, <1>7, OpeningStep

LEMMA SaveManifestStep == StoreInv /\ SaveManifest => StoreInv'
<1> SUFFICES ASSUME StoreInv, SaveManifest PROVE StoreInv'
  OBVIOUS
<1> DEFINE m == <<Snapshot, SavedEdit>>
           ms == With(disk.manifests, manifestNumber, m)
<1>1. /\ phase = "save" /\ phase' = "current"
      /\ disk' = [disk EXCEPT !.manifests = ms]
      /\ UNCHANGED <<nextFile, recovery, version, manifestNumber, memLog, lastSequence, bg, bgScheduled,
                     seekFile, imm, reader>>
  BY DEF SaveManifest, memVars, versionVars, bgVars, readVars
<1>2. ~InUse /\ MemoryInv /\ DiskInv /\ OpeningInv
  BY <1>1 DEF InUse, StoreInv
<1>3. m' = m
  BY <1>1 DEF Snapshot, SavedEdit
<1>4. /\ disk.current # 0 /\ disk.current < manifestNumber /\ manifestNumber < nextFile
      /\ Numbers(version) \subseteq Tables /\ NumbersOf(recovery.edit.added) \subseteq Tables
  BY <1>1, <1>2 DEF OpeningInv, Recovering
<1>5. disk.current # manifestNumber
  BY <1>2, <1>4 DEF MemoryInv, DiskInv
<1>6. /\ manifestNumber \in DOMAIN ms /\ ms[manifestNumber] = m
      /\ disk.current \in DOMAIN ms /\ ms[disk.current] = Manifest
  BY <1>2, <1>4, <1>5 DEF With, DiskInv, Manifest
<1> HIDE DEF ms, m
<1>7. disk' = [current |-> disk.current, manifests |-> ms, tables |-> disk.tables, logs |-> disk.logs]
  BY <1>1, <1>2 DEF DiskInv
<1>8. DiskInv' /\ Tables' = Tables
  <2>1. Numbers(Current) \subseteq DOMAIN disk.tables
    BY <1>2, <1>4 DEF DiskInv, Tables
  <2>2. DOMAIN disk.logs \subseteq Nat /\ \A n \in DOMAIN disk.logs : IsSequence(disk.logs[n])
    BY <1>2 DEF DiskInv
  <2>3. DiskInv' /\ Tables' = DOMAIN disk.tables
    BY <1>2, <1>6, <1>7, <2>1, <2>2, DiskKept
  <2>4. QED
    BY <2>3 DEF Tables
<1>9. OpeningInv'
  <2>1. disk'.current = disk.current /\ disk'.manifests = ms
    BY <1>7
  <2>2. manifestNumber' \in DOMAIN disk'.manifests /\ disk'.manifests[manifestNumber'] = m'
    BY <1>1, <1>3, <1>6, <2>1
  <2>3. /\ disk'.current # 0 /\ disk'.current < manifestNumber' /\ manifestNumber' < nextFile'
        /\ Numbers(version') \subseteq Tables' /\ NumbersOf(recovery'.edit.added) \subseteq Tables'
    BY <1>1, <1>4, <1>8, <2>1
  <2>4. QED
    BY <1>1, <2>2, <2>3 DEF OpeningInv, m
<1>10. /\ version' = [l \in Levels |-> version'[l]] /\ \A l \in Levels : IsFiniteSet(version'[l])
      /\ nextFile' \in Nat /\ manifestNumber' \in Nat
  BY <1>1, <1>2 DEF MemoryInv
<1>11. /\ recovery' = [edit |-> recovery'.edit, logs |-> recovery'.logs]
       /\ recovery'.edit = [log |-> recovery'.edit.log, next |-> recovery'.edit.next,
                            last |-> recovery'.edit.last, deleted |-> recovery'.edit.deleted,
                            added |-> recovery'.edit.added]
       /\ IsFiniteSet(recovery'.edit.added)
  BY <1>1, <1>2 DEF MemoryInv
<1>12. QED
  BY <1>1, <1>2, <1>8, <1>9, <1>10, <1>11, OpeningStep

LEMMA ReplayLogStep == StoreInv /\ ReplayLog => StoreInv'
<1> SUFFICES ASSUME StoreInv, ReplayLog PROVE StoreInv'
  OBVIOUS
<1>1. /\ phase = "replay" /\ phase' = "replay"
      /\ UNCHANGED <<version, manifestNumber, bg, bgScheduled, seekFile, imm, reader>>
  BY DEF ReplayLog, versionVars, bgVars, readVars
<1>2. ~InUse /\ MemoryInv /\ DiskInv /\ OpeningInv
  BY <1>1 DEF InUse, StoreInv
<1>3. PICK n \in recovery.logs : \E ends \in SUBSET DOMAIN disk.logs[n] :
        LET number(e) == nextFile + Cardinality({d \in ends : d < e})
            files == {[num |-> number(e), ents |-> MemtableUpTo(disk.logs[n], ends, e)] : e \in ends}
        IN  /\ disk' = [disk EXCEPT !.tables =
                          [t \in DOMAIN @ \cup {f.num : f \in files} |->
                             IF \E f \in files : f.num = t
                             THEN (CHOOSE f \in files : f.num = t).ents ELSE @[t]]]
            /\ nextFile' = Max({nextFile + Cardinality(ends), n + 1})
            /\ recovery' = [edit |-> [recovery.edit EXCEPT !.added = @ \cup {<<0, f>> : f \in files}],
                            logs |-> recovery.logs \ {n}]
  BY DEF ReplayLog
<1>4. PICK ends \in SUBSET DOMAIN disk.logs[n] :
        LET number(e) == nextFile + Cardinality({d \in ends : d < e})
            files == {[num |-> number(e), ents |-> MemtableUpTo(disk.logs[n], ends, e)] : e \in ends}
        IN  /\ disk' = [disk EXCEPT !.tables =
                          [t \in DOMAIN @ \cup {f.num : f \in files} |->
                             IF \E f \in files : f.num = t
                             THEN (CHOOSE f \in files : f.num = t).ents ELSE @[t]]]
            /\ nextFile' = Max({nextFile + Cardinality(ends), n + 1})
            /\ recovery' = [edit |-> [recovery.edit EXCEPT !.added = @ \cup {<<0, f>> : f \in files}],
                            logs |-> recovery.logs \ {n}]
  BY <1>3
<1> DEFINE file(e) == [num |-> nextFile + Cardinality({d \in ends : d < e}),
                       ents |-> MemtableUpTo(disk.logs[n], ends, e)]
           files == {file(e) : e \in ends}
           ts == [t \in Tables \cup {f.num : f \in files} |->
                    IF \E f \in files : f.num = t
                    THEN (CHOOSE f \in files : f.num = t).ents ELSE disk.tables[t]]
           pairs == {<<0, f>> : f \in files}
<1>5. disk' = [disk EXCEPT !.tables = ts]
  BY <1>4 DEF Tables
<1>6. nextFile' = Max({nextFile + Cardinality(ends), n + 1})
  BY <1>4
<1>7. recovery' = [edit |-> [recovery.edit EXCEPT !.added = recovery.edit.added \cup pairs],
                   logs |-> recovery.logs \ {n}]
  BY <1>4
<1>8. n \in Nat /\ recovery.logs \subseteq DOMAIN disk.logs /\ IsSequence(disk.logs[n])
  BY <1>1, <1>2 DEF OpeningInv, DiskInv
<1>9. IsFiniteSet(ends) /\ Cardinality(ends) \in Nat
  <2>1. Len(disk.logs[n]) \in Nat /\ DOMAIN disk.logs[n] = 1 .. Len(disk.logs[n])
    BY <1>8, AppendElements
  <2>2. IsFiniteSet(1 .. Len(disk.logs[n]))
    BY <2>1, FS_Interval
  <2>3. ends \in SUBSET (1 .. Len(disk.logs[n]))
    BY <2>1
  <2>4. IsFiniteSet(ends)
    BY <2>2, <2>3, FS_Subset
  <2>5. QED
    BY <2>4, FS_CardinalityType
<1>10. nextFile' \in Nat /\ nextFile <= nextFile'
  <2>1. nextFile \in Nat /\ nextFile + Cardinality(ends) \in Nat /\ n + 1 \in Nat
    BY <1>2, <1>8, <1>9 DEF MemoryInv
  <2>2. nextFile' \in Nat /\ nextFile + Cardinality(ends) <= nextFile'
    BY <1>6, <2>1, MaxOfTwo
  <2>3. QED
    BY <1>9, <2>1, <2>2
<1>11. IsFiniteSet(pairs)
  <2> DEFINE f == [e \in ends |-> file(e)]
  <2>1. f \in Surjection(ends, files)
    BY DEF Surjection
  <2>2. IsFiniteSet(files)
    BY <1>9, <2>1, FS_Surjection
  <2>3. QED
    BY <2>2, PairsFinite
<1>12. \A p \in pairs : p[2].num \in DOMAIN ts
  <2> SUFFICES ASSUME NEW p \in pairs PROVE p[2].num \in DOMAIN ts
    OBVIOUS
  <2>1. PICK f \in files : p = <<0, f>>
    OBVIOUS
  <2>2. p[2].num = f.num
    BY <2>1
  <2>3. QED
    BY <2>2
<1>13. Tables \subseteq DOMAIN ts
  OBVIOUS
<1> HIDE DEF file, files, ts, pairs
<1>14. disk' = [current |-> disk.current, manifests |-> disk.manifests, tables |-> ts, logs |-> disk.logs]
  BY <1>2, <1>5 DEF DiskInv
<1>15. DiskInv' /\ Tables' = DOMAIN ts
  <2>1. disk.current # 0 => /\ disk.current \in DOMAIN disk.manifests
                            /\ disk.manifests[disk.current] = Manifest
                            /\ Numbers(Current) \subseteq DOMAIN ts
    BY <1>2, <1>13 DEF DiskInv, Manifest
  <2>2. DOMAIN disk.logs \subseteq Nat /\ \A k \in DOMAIN disk.logs : IsSequence(disk.logs[k])
    BY <1>2 DEF DiskInv
  <2>3. QED
    BY <1>2, <1>14, <2>1, <2>2, DiskKept
<1>16. /\ recovery' = [edit |-> recovery'.edit, logs |-> recovery'.logs]
       /\ recovery'.edit = [log |-> recovery'.edit.log, next |-> recovery'.edit.next,
                            last |-> recovery'.edit.last, deleted |-> recovery'.edit.deleted,
                            added |-> recovery'.edit.added]
       /\ recovery'.edit.added = recovery.edit.added \cup pairs
       /\ recovery'.logs = recovery.logs \ {n}
  <2>1. recovery'.edit = [log |-> recovery.edit.log, next |-> recovery.edit.next,
                          last |-> recovery.edit.last, deleted |-> recovery.edit.deleted,
                          added |-> recovery.edit.added \cup pairs]
    BY <1>2, <1>7 DEF MemoryInv
  <2>2. recovery' = [edit |-> recovery'.edit, logs |-> recovery.logs \ {n}]
    BY <1>7
  <2>3. recovery'.logs = recovery.logs \ {n}
    BY <2>2
  <2>4. QED
    BY <2>1, <2>2, <2>3
<1>17. IsFiniteSet(recovery'.edit.added)
  <2>1. IsFiniteSet(recovery.edit.added)
    BY <1>2 DEF MemoryInv
  <2>2. IsFiniteSet(recovery.edit.added \cup pairs)
    BY <1>11, <2>1, FS_Union
  <2>3. QED
    BY <1>16, <2>2, Zenon
<1>18. OpeningInv'
  <2>1. /\ disk.current # 0 /\ disk.current < manifestNumber /\ manifestNumber < nextFile
        /\ Numbers(version) \subseteq Tables /\ NumbersOf(recovery.edit.added) \subseteq Tables
    BY <1>1, <1>2 DEF OpeningInv, Recovering
  <2>2. disk'.current = disk.current /\ disk'.logs = disk.logs
    BY <1>14
  <2>3. NumbersOf(recovery'.edit.added) \subseteq Tables'
    BY <1>12, <1>13, <1>15, <1>16, <2>1 DEF NumbersOf
  <2>4. manifestNumber' < nextFile'
    BY <1>1, <1>2, <1>10, <2>1 DEF MemoryInv
  <2>5. recovery'.logs \subseteq DOMAIN disk'.logs
    BY <1>8, <1>16, <2>2
  <2>6. Numbers(version') \subseteq Tables'
    BY <1>1, <1>13, <1>15, <2>1
  <2>7. disk'.current # 0 /\ disk'.current < manifestNumber'
    BY <1>1, <2>1, <2>2
  <2>8. QED
    BY <1>1, <2>3, <2>4, <2>5, <2>6, <2>7 DEF OpeningInv
<1>19. /\ version' = [l \in Levels |-> version'[l]] /\ \A l \in Levels : IsFiniteSet(version'[l])
       /\ manifestNumber' \in Nat
  BY <1>1, <1>2 DEF MemoryInv
<1>20. QED
  BY <1>1, <1>2, <1>10, <1>15, <1>16, <1>17, <1>18, <1>19, OpeningStep

LEMMA SetCurrentStep == StoreInv /\ SetCurrent => StoreInv'
<1> SUFFICES ASSUME StoreInv, SetCurrent PROVE StoreInv'
  OBVIOUS
<1> DEFINE v == Apply(version, SavedEdit)
           doomed == Obsolete(Numbers(v), memLog, manifestNumber)
<1>1. /\ phase = "current" /\ phase' = "open" /\ version' = v
      /\ disk' = Without(doomed, [disk EXCEPT !.current = manifestNumber])
      /\ UNCHANGED <<nextFile, recovery, manifestNumber, bg, seekFile, reader>>
  BY DEF SetCurrent, readVars
<1>2. ~InUse /\ InUse' /\ MemoryInv /\ DiskInv /\ OpeningInv
  BY <1>1 DEF InUse, StoreInv
<1>3. DiskInv' /\ disk'.current = manifestNumber /\ Current' = v
  BY <1>1, <1>2, DiskSwitched
<1>4. bg' = IdleBg /\ seekFile' = {} /\ \A r \in Readers : reader'[r].pc = "idle"
  BY <1>1, <1>2 DEF MemoryInv
<1>5. v = [l \in Levels |-> v[l]]
  BY ApplyShape
<1>6. \A l \in Levels : IsFiniteSet(v[l])
  <2>1. SavedEdit.added = recovery.edit.added
    BY <1>2, SavedManifest
  <2>2. (\A l \in Levels : IsFiniteSet(version[l])) /\ IsFiniteSet(SavedEdit.added)
    BY <1>2, <2>1 DEF MemoryInv
  <2>3. QED
    BY <2>2, ApplyFinite
<1>7. manifestNumber \in Nat /\ nextFile \in Nat /\ manifestNumber < nextFile /\ manifestNumber # 0
  BY <1>1, <1>2 DEF OpeningInv, Recovering, MemoryInv, DiskInv
<1> HIDE DEF v, doomed
<1>8. MemoryInv'
  BY <1>1, <1>2, <1>4, <1>5, <1>6, <1>7 DEF MemoryInv, Phases
<1>9. OpeningInv'
  BY <1>1 DEF OpeningInv, Recovering
<1>10. UseInv'
  <2>1. ~Installing'
    BY <1>4, IdleBgFacts DEF Installing
  <2>2. QED
    BY <1>1, <1>3, <1>4, <1>7, <2>1 DEF UseInv
<1>11. BgInv'
  BY <1>4, IdleBgInv
<1>12. QED
  BY <1>3, <1>8, <1>9, <1>10, <1>11 DEF StoreInv

LEMMA OpenFailsStep == StoreInv /\ OpenFails => StoreInv'
<1> SUFFICES ASSUME StoreInv, OpenFails PROVE StoreInv'
  OBVIOUS
<1>1. ForgetMemory
  BY DEF OpenFails
<1>2. DiskInv'
  <2>1. CASE phase # "current"
    <3>1. disk' = disk
      BY <2>1 DEF OpenFails
    <3>2. QED
      BY <3>1, DiskUnchanged DEF StoreInv
  <2>2. CASE phase = "current"
    <3> DEFINE ms == Restrict(disk.manifests, DOMAIN disk.manifests \ {manifestNumber})
    <3>1. disk' = [disk EXCEPT !.manifests = ms]
      BY <2>2 DEF OpenFails
    <3>2. DiskInv
      BY DEF StoreInv
    <3>3. disk.current # 0 /\ disk.current < manifestNumber /\ manifestNumber \in Nat
      BY <2>2 DEF StoreInv, OpeningInv, Recovering, MemoryInv
    <3>4. disk.current # manifestNumber /\ disk.current \in DOMAIN disk.manifests
      BY <3>2, <3>3 DEF DiskInv
    <3>5. disk.current \in DOMAIN ms /\ ms[disk.current] = Manifest
      BY <3>4, RestrictFacts DEF Manifest
    <3> HIDE DEF ms
    <3>6. disk' = [current |-> disk.current, manifests |-> ms, tables |-> disk.tables, logs |-> disk.logs]
      BY <3>1, <3>2 DEF DiskInv
    <3>7. Numbers(Current) \subseteq DOMAIN disk.tables
      BY <3>2, <3>3 DEF DiskInv, Tables
    <3>8. DOMAIN disk.logs \subseteq Nat /\ \A n \in DOMAIN disk.logs : IsSequence(disk.logs[n])
      BY <3>2 DEF DiskInv
    <3>9. QED
      BY <3>2, <3>5, <3>6, <3>7, <3>8, DiskKept
  <2>3. QED
    BY <2>1, <2>2
<1>3. QED
  BY <1>1, <1>2, Forgotten

LEMMA DieCleaningStep == StoreInv /\ DieCleaning => StoreInv'
<1> SUFFICES ASSUME StoreInv, DieCleaning PROVE StoreInv'
  OBVIOUS
<1>1. /\ ForgetMemory /\ phase = "current"
      /\ \E doomed \in SUBSET Obsolete(Numbers(Apply(version, SavedEdit)), memLog, manifestNumber) :
           disk' = Without(doomed, [disk EXCEPT !.current = manifestNumber])
  BY DEF DieCleaning
<1>2. DiskInv /\ MemoryInv /\ OpeningInv
  BY DEF StoreInv
<1>3. PICK doomed \in SUBSET Obsolete(Numbers(Apply(version, SavedEdit)), memLog, manifestNumber) :
        disk' = Without(doomed, [disk EXCEPT !.current = manifestNumber])
  BY <1>1
<1>4. DiskInv'
  BY <1>1, <1>2, <1>3, DiskSwitched
<1>5. QED
  BY <1>1, <1>4, Forgotten

LEMMA EndStep == StoreInv /\ (Closed \/ Crash) => StoreInv'
<1> SUFFICES ASSUME StoreInv, Closed \/ Crash PROVE StoreInv'
  OBVIOUS
<1>1. ForgetMemory /\ UNCHANGED disk
  BY DEF Closed, Crash
<1>2. DiskInv'
  BY <1>1, DiskUnchanged DEF StoreInv
<1>3. QED
  BY <1>1, <1>2, Forgotten

(***************************************************************************)
(* Writing, reading and closing.                                           *)
(***************************************************************************)

\* A writer that is not queued works, or waits for the one before it to let it
\* work: it is the head of the queue.
LEMMA HeadFacts ==
  ASSUME QueueInv, NEW w \in Writers, writer[w].pc \in {"head", "asleep", "logged"}
  PROVE  /\ phase = "open" /\ queue # <<>> /\ 1 \in DOMAIN queue /\ queue[1] = w
         /\ Len(queue) \in Nat \ {0} /\ DOMAIN queue = 1 .. Len(queue)
<1>1. queue \in Seq(Writers) /\ Len(queue) \in Nat /\ DOMAIN queue = 1 .. Len(queue)
  BY DEF QueueInv
<1>2. PICK i \in DOMAIN queue : queue[i] = w
  BY DEF QueueInv
<1>3. i = 1
  BY <1>2 DEF QueueInv
<1>4. Len(queue) # 0 /\ queue # <<>>
  BY <1>1, <1>2
<1>5. QED
  BY <1>1, <1>2, <1>3, <1>4 DEF QueueInv

LEMMA Stutter ==
  ASSUME StoreInv,
         UNCHANGED <<disk, nextFile, phase, recovery, imm, memLog, lastSequence, version,
                     manifestNumber, bg, bgScheduled, bgError, seekFile, reader>>
  PROVE  StoreInv'
<1>1. DiskInv' /\ Current' = Current /\ Tables' = Tables
  BY DiskUnchanged DEF StoreInv
<1>2. /\ (InUse' <=> InUse) /\ (Recovering' <=> Recovering) /\ (Installing' <=> Installing)
      /\ (Recording' <=> Recording) /\ (Sweeping' <=> Sweeping)
      /\ Apply(version, bg.edit)' = Apply(version, bg.edit)
      /\ Snapshot' = Snapshot /\ SavedEdit' = SavedEdit
  BY DEF InUse, Recovering, Installing, Recording, Sweeping, Apply, Snapshot, SavedEdit
<1>3. MemoryInv'
  BY <1>2 DEF StoreInv, MemoryInv
<1>4. OpeningInv'
  BY <1>1, <1>2 DEF StoreInv, OpeningInv
<1>5. UseInv'
  BY <1>1, <1>2 DEF StoreInv, UseInv
<1>6. BgInv'
  BY <1>1, <1>2 DEF StoreInv, BgInv
<1>7. QED
  BY <1>1, <1>3, <1>4, <1>5, <1>6 DEF StoreInv

LEMMA WriterStep ==
  ASSUME StoreInv, QueueInv, NEW w \in Writers,
         Write(w) \/ Refused(w) \/ Sleep(w) \/ Insert(w) \/ NoNewLog(w)
  PROVE  StoreInv'
<1>1. phase = "open"
  <2>1. Write(w) => phase = "open"
    BY DEF Write
  <2>2. ~Write(w) => writer[w].pc \in {"head", "logged"}
    BY DEF Refused, Sleep, Insert, NoNewLog
  <2>3. QED
    BY <2>1, <2>2, HeadFacts
<1>2. UNCHANGED <<disk, nextFile, phase, recovery, version, manifestNumber, bg, bgScheduled, bgError,
                  seekFile, reader>>
  BY DEF Write, Refused, Sleep, Insert, NoNewLog, openVars, memVars, versionVars, bgVars, readVars
<1>3. DiskInv' /\ Current' = Current /\ Tables' = Tables
  BY <1>2, DiskUnchanged DEF StoreInv
<1>4. nextFile' \in Nat /\ nextFile <= nextFile'
  BY <1>2 DEF StoreInv, MemoryInv
<1>5. \A p \in seekFile' : p[1] \in Levels
  BY <1>1, <1>2 DEF StoreInv, UseInv, InUse
<1>6. QED
  BY <1>1, <1>2, <1>3, <1>4, <1>5, CallerStep

LEMMA AppendLogStep ==
  ASSUME StoreInv, QueueInv, NEW w \in Writers, AppendLog(w)
  PROVE  StoreInv'
<1> DEFINE record == GroupEntries(group')
           ls == [disk.logs EXCEPT ![memLog] = Append(@, record)]
<1>1. phase = "open"
  BY HeadFacts DEF AppendLog
<1>2. /\ disk' = [disk EXCEPT !.logs = ls]
      /\ UNCHANGED <<nextFile, phase, recovery, version, manifestNumber, bg, bgScheduled, bgError,
                     seekFile, reader>>
  <2>1. disk' = [disk EXCEPT !.logs[memLog] = Append(@, record)]
    BY DEF AppendLog
  <2>2. [disk EXCEPT !.logs[memLog] = Append(@, record)] = [disk EXCEPT !.logs = ls]
    OBVIOUS
  <2>3. QED
    BY <2>1, <2>2 DEF AppendLog, openVars, versionVars, bgVars, readVars
<1>3. DOMAIN ls \subseteq Nat /\ \A n \in DOMAIN ls : IsSequence(ls[n])
  <2>1. DOMAIN disk.logs \subseteq Nat /\ \A n \in DOMAIN disk.logs : IsSequence(disk.logs[n])
    BY DEF StoreInv, DiskInv
  <2>2. DOMAIN ls = DOMAIN disk.logs
    OBVIOUS
  <2>3. ASSUME NEW n \in DOMAIN ls PROVE IsSequence(ls[n])
    <3>1. CASE n = memLog
      <4>1. ls[n] = Append(disk.logs[n], record)
        BY <2>2, <2>3, <3>1
      <4>2. IsSequence(disk.logs[n])
        BY <2>1, <2>2, <2>3
      <4>3. QED
        BY <4>1, <4>2, AppendElements
    <3>2. CASE n # memLog
      BY <2>1, <2>2, <2>3, <3>2
    <3>3. QED
      BY <3>1, <3>2
  <2>4. QED
    BY <2>1, <2>2, <2>3
<1> HIDE DEF ls
<1>4. disk.current # 0
  BY <1>1 DEF StoreInv, UseInv, InUse
<1>5. DiskInv' /\ Tables' = Tables /\ disk'.current = disk.current /\ Current' = Current
  BY <1>2, <1>3, <1>4, LogsChanged DEF StoreInv
<1>6. nextFile' \in Nat /\ nextFile <= nextFile'
  BY <1>2 DEF StoreInv, MemoryInv
<1>7. \A p \in seekFile' : p[1] \in Levels
  BY <1>1, <1>2 DEF StoreInv, UseInv, InUse
<1>8. QED
  <2>1. \A r \in Readers : reader'[r].pc # "idle" => phase' = "open"
    BY <1>1, <1>2
  <2>2. UNCHANGED <<recovery, version, manifestNumber, bg>> /\ phase' = "open"
    BY <1>1, <1>2
  <2>3. (bgScheduled => bgScheduled') /\ (bgError => bgError')
    BY <1>2
  <2>4. QED
    BY <1>1, <1>5, <1>6, <1>7, <2>1, <2>2, <2>3, CallerStep

LEMMA SwitchStep ==
  ASSUME StoreInv, QueueInv, NEW w \in Writers, SwitchMemtable(w)
  PROVE  StoreInv'
<1> DEFINE ls == With(disk.logs, nextFile, <<>>)
<1>1. phase = "open"
  BY HeadFacts DEF SwitchMemtable
<1>2. /\ disk' = [disk EXCEPT !.logs = ls]
      /\ nextFile' = nextFile + 1
      /\ UNCHANGED <<phase, recovery, version, manifestNumber, bg, seekFile, reader>>
      /\ bgScheduled => bgScheduled'
      /\ ~bgError
  BY DEF SwitchMemtable, MaybeSchedule, openVars, versionVars, readVars
<1>3. nextFile' \in Nat /\ nextFile <= nextFile' /\ nextFile \in Nat
  BY <1>2 DEF StoreInv, MemoryInv
<1>4. DOMAIN ls \subseteq Nat /\ \A n \in DOMAIN ls : IsSequence(ls[n])
  BY <1>3, LogAdded DEF StoreInv
<1> HIDE DEF ls
<1>5. disk.current # 0
  BY <1>1 DEF StoreInv, UseInv, InUse
<1>6. DiskInv' /\ Tables' = Tables /\ disk'.current = disk.current /\ Current' = Current
  BY <1>2, <1>4, <1>5, LogsChanged DEF StoreInv
<1>7. \A p \in seekFile' : p[1] \in Levels
  BY <1>1, <1>2 DEF StoreInv, UseInv, InUse
<1>8. \A r \in Readers : reader'[r].pc # "idle" => phase' = "open"
  BY <1>1, <1>2
<1>9. QED
  BY <1>1, <1>2, <1>3, <1>6, <1>7, <1>8, CallerStep

LEMMA ReaderStep ==
  ASSUME StoreInv,
         (\E r \in Readers : BeginRead(r) \/ EndRead(r)) \/ GetSnapshot \/ Close
  PROVE  StoreInv'
<1>1. phase = "open"
  <2>1. ASSUME NEW r \in Readers, EndRead(r) PROVE phase = "open"
    BY <2>1 DEF EndRead, StoreInv, MemoryInv
  <2>2. QED
    BY <2>1 DEF BeginRead, GetSnapshot, Close
<1>2. /\ UNCHANGED <<disk, nextFile, recovery, version, manifestNumber, bg, bgError>>
      /\ bgScheduled => bgScheduled'
  <2>1. ASSUME NEW r \in Readers, BeginRead(r)
        PROVE  UNCHANGED <<disk, nextFile, recovery, version, manifestNumber, bg, bgError, bgScheduled>>
    BY <2>1 DEF BeginRead, openVars, versionVars, bgVars
  <2>2. ASSUME NEW r \in Readers, EndRead(r)
        PROVE  UNCHANGED <<disk, nextFile, recovery, version, manifestNumber, bg, bgError>>
    BY <2>2 DEF EndRead, openVars, versionVars
  <2>3. ASSUME NEW r \in Readers, EndRead(r) PROVE bgScheduled => bgScheduled'
    BY <2>3 DEF EndRead, MaybeSchedule
  <2>4. ASSUME GetSnapshot
        PROVE  UNCHANGED <<disk, nextFile, recovery, version, manifestNumber, bg, bgError, bgScheduled>>
    BY <2>4 DEF GetSnapshot, openVars, versionVars, bgVars
  <2>5. ASSUME Close
        PROVE  UNCHANGED <<disk, nextFile, recovery, version, manifestNumber, bg, bgError, bgScheduled>>
    BY <2>5 DEF Close, versionVars, bgVars
  <2>6. QED
    BY <2>1, <2>2, <2>3, <2>4, <2>5
<1>3. DiskInv' /\ Current' = Current /\ Tables' = Tables
  BY <1>2, DiskUnchanged DEF StoreInv
<1>4. nextFile' \in Nat /\ nextFile <= nextFile'
  BY <1>2 DEF StoreInv, MemoryInv
<1>5. \A p \in seekFile : p[1] \in Levels
  BY <1>1 DEF StoreInv, UseInv, InUse
<1>6. \A p \in seekFile' : p[1] \in Levels
  <2>1. ASSUME NEW r \in Readers, EndRead(r) PROVE \A p \in seekFile' : p[1] \in Levels
    <3>1. seekFile' = seekFile \/ \E k \in Keys : seekFile' = Blamed(version, k, reader[r].snap)
      BY <2>1 DEF EndRead
    <3>2. ASSUME NEW k \in Keys, NEW p \in Blamed(version, k, reader[r].snap) PROVE p[1] \in Levels
      <4>1. p \in Levels \X AllFiles(version)
        BY <3>2 DEF Blamed, Met
      <4>2. QED
        BY <4>1
    <3>3. QED
      BY <1>5, <3>1, <3>2
  <2>2. ASSUME (\E r \in Readers : BeginRead(r)) \/ GetSnapshot \/ Close PROVE seekFile' = seekFile
    BY <2>2 DEF BeginRead, GetSnapshot, Close, bgVars
  <2>3. QED
    BY <1>5, <2>1, <2>2
<1>7. phase' \in {"open", "closing"} /\ \A r \in Readers : reader'[r].pc # "idle" => phase' = "open"
  <2>1. CASE Close
    BY <2>1 DEF Close, readVars
  <2>2. CASE ~Close
    BY <1>1, <2>2 DEF BeginRead, EndRead, GetSnapshot, openVars
  <2>3. QED
    BY <2>1, <2>2
<1>8. QED
  BY <1>1, <1>2, <1>3, <1>4, <1>6, <1>7, CallerStep

LEMMA ReleaseStep ==
  ASSUME StoreInv, ReleaseSnapshot
  PROVE  StoreInv'
<1>1. UNCHANGED <<disk, nextFile, phase, recovery, imm, memLog, lastSequence, version,
                  manifestNumber, bg, bgScheduled, bgError, seekFile, reader>>
  BY DEF ReleaseSnapshot, openVars, memVars, versionVars, bgVars
<1>2. QED
  BY <1>1, Stutter

(***************************************************************************)
(* The background thread.                                                  *)
(***************************************************************************)

LEMMA NumbersOfFacts ==
  ASSUME NEW A, NEW B
  PROVE  NumbersOf(A \cup B) = NumbersOf(A) \cup NumbersOf(B)
  BY DEF NumbersOf

LEMMA NumbersOfOne ==
  ASSUME NEW l, NEW f
  PROVE  NumbersOf({<<l, f>>}) = {f.num}
  BY DEF NumbersOf

\* Nothing that is removed is live, and no manifest is that is not older.
LEMMA DoomedFacts ==
  ASSUME NEW v, NEW log, NEW c, NEW n
  PROVE  /\ <<"table", n>> \in Doomed(v, log, c) => ~bgError /\ n \notin Live(v, c)
         /\ <<"manifest", n>> \in Doomed(v, log, c) => n < manifestNumber
  BY DEF Doomed, Obsolete

\* Files of a level stay files of the level when a compaction widens its
\* choice.
LEMMA InputsInside ==
  ASSUME NEW v, NEW l, NEW first, first \subseteq v[l], NEW ins \in Inputs(v, l, first)
  PROVE  ins[1] \subseteq v[l]
<1>1. ASSUME NEW files, NEW chosen, chosen \subseteq files
      PROVE  AddBoundaryInputs(files, chosen) \subseteq files
  BY <1>1 DEF AddBoundaryInputs
<1>2. \A files, k, lo, hi : GetOverlappingInputs(files, k, lo, hi) \subseteq files
  BY DEF GetOverlappingInputs, Overlapping
<1> DEFINE in0 == AddBoundaryInputs(v[l], first)
           in1 == AddBoundaryInputs(v[l + 1], GetOverlappingInputs(v[l + 1], l + 1, Low(in0), High(in0)))
           all == in0 \cup in1
           more0 == AddBoundaryInputs(v[l], GetOverlappingInputs(v[l], l, Low(all), High(all)))
           more1 == AddBoundaryInputs(v[l + 1],
                      GetOverlappingInputs(v[l + 1], l + 1, Low(more0), High(more0)))
<1>3. in0 \subseteq v[l] /\ more0 \subseteq v[l]
  BY <1>1, <1>2
<1>4. ins = <<in0, in1>> \/ ins = <<more0, more1>>
  BY DEF Inputs
<1> HIDE DEF in0, in1, more0, more1
<1>5. QED
  BY <1>3, <1>4

LEMMA CandidateInside ==
  ASSUME StoreInv, InUse, NEW p \in Candidates, p[2] \in version[p[1]],
         NEW ins \in Inputs(version, p[1], First(p[1], p[2]))
  PROVE  p[1] \in Levels /\ ins[1] \subseteq version[p[1]]
<1>1. p[1] \in Levels
  <2>1. \A q \in seekFile : q[1] \in Levels
    BY DEF StoreInv, UseInv
  <2> DEFINE full == {l \in 0 .. MaxLevel - 1 :
                        Cardinality(version[l]) >= IF l = 0 THEN L0Trigger ELSE LevelLimit + 1}
  <2>2. p \in {<<l, f>> : l \in full, f \in AllFiles(version)} \/ p \in seekFile
    BY DEF Candidates
  <2>3. MaxLevel \in Nat
    BY LevelDbAssumption
  <2>4. \A l \in full : l \in Levels
    BY <2>3 DEF Levels
  <2> HIDE DEF full
  <2>5. ASSUME p \in {<<l, f>> : l \in full, f \in AllFiles(version)} PROVE p[1] \in full
    BY <2>5
  <2>6. QED
    BY <2>1, <2>2, <2>4, <2>5
<1>2. First(p[1], p[2]) \subseteq version[p[1]]
  <2>1. CASE p[1] = 0
    BY <2>1 DEF First, GetOverlappingInputs, Overlapping
  <2>2. CASE p[1] # 0
    BY <2>2 DEF First
  <2>3. QED
    BY <2>1, <2>2
<1>3. QED
  BY <1>1, <1>2, InputsInside

\* The background thread only runs while the store is in use.
LEMMA BgActive ==
  ASSUME StoreInv
  PROVE  /\ bg.pc # "idle" => InUse /\ bgScheduled
         /\ bgScheduled => InUse
<1>1. MemoryInv /\ BgInv
  BY DEF StoreInv
<1>2. bgScheduled => InUse
  BY <1>1 DEF MemoryInv
<1>3. QED
  BY <1>1, <1>2 DEF BgInv

LEMMA BgStep ==
  ASSUME StoreInv, InUse,
         UNCHANGED <<phase, recovery, manifestNumber, reader>>,
         DiskInv', disk'.current = disk.current,
         nextFile' \in Nat, nextFile <= nextFile',
         version' = [l \in Levels |-> version'[l]], \A l \in Levels : IsFiniteSet(version'[l]),
         \A p \in seekFile' : p[1] \in Levels,
         ~bgError' => Current' = IF Installing' THEN Apply(version', bg'.edit) ELSE version',
         BgInv'
  PROVE  StoreInv'
<1>1. InUse' /\ phase \notin {"newdb", "replay", "save", "current"}
  BY DEF InUse
<1>2. MemoryInv'
  BY <1>1 DEF StoreInv, MemoryInv
<1>3. OpeningInv'
  BY <1>1 DEF OpeningInv, Recovering
<1>4. UseInv'
  <2>1. /\ disk.current # 0 /\ disk.current = manifestNumber /\ manifestNumber < nextFile
        /\ manifestNumber \in Nat /\ nextFile \in Nat
    BY DEF StoreInv, UseInv, MemoryInv
  <2>2. disk'.current # 0 /\ disk'.current = manifestNumber' /\ manifestNumber' < nextFile'
    BY <2>1
  <2>3. Apply(version, bg.edit)' = Apply(version', bg'.edit)
    BY DEF Apply
  <2>4. QED
    BY <2>2, <2>3 DEF UseInv
<1>5. QED
  BY <1>2, <1>3, <1>4 DEF StoreInv

\* What a step that leaves the version and the files alone keeps.
LEMMA VersionKept ==
  ASSUME StoreInv, InUse, UNCHANGED <<version, seekFile, nextFile>>
  PROVE  /\ nextFile' \in Nat /\ nextFile <= nextFile'
         /\ version' = [l \in Levels |-> version'[l]]
         /\ \A l \in Levels : IsFiniteSet(version'[l])
         /\ \A p \in seekFile' : p[1] \in Levels
<1>1. MemoryInv /\ UseInv
  BY DEF StoreInv
<1>2. \A p \in seekFile : p[1] \in Levels
  BY <1>1 DEF UseInv
<1>3. QED
  BY <1>1, <1>2 DEF MemoryInv

LEMMA EndCallStep ==
  ASSUME StoreInv, CallRefused \/ CallEnds \/ Sweep
  PROVE  StoreInv'
<1>1. /\ bg' = IdleBg /\ bgScheduled
      /\ UNCHANGED <<nextFile, phase, recovery, version, manifestNumber, bgError, seekFile, reader>>
  <2>1. bgScheduled
    BY BgActive DEF CallRefused, CallEnds, Sweep
  <2>2. bg' = IdleBg
    BY DEF CallRefused, CallEnds, Sweep, EndCall
  <2>3. UNCHANGED <<nextFile, phase, recovery, version, manifestNumber, bgError, seekFile, reader>>
    BY DEF CallRefused, CallEnds, Sweep, openVars, versionVars, readVars
  <2>4. QED
    BY <2>1, <2>2, <2>3
<1>2. InUse
  BY <1>1, BgActive
<1>3. disk.current # 0 /\ ~Installing
  BY <1>2 DEF StoreInv, UseInv, CallRefused, CallEnds, Sweep, Installing
<1>4. DiskInv' /\ disk'.current = disk.current /\ Current' = Current
  <2>1. CASE CallRefused \/ CallEnds
    <3>1. disk' = disk
      BY <2>1 DEF CallRefused, CallEnds
    <3>2. QED
      BY <3>1, DiskUnchanged DEF StoreInv
  <2>2. CASE Sweep
    <3>1. disk' = Without(bg.doomed, disk) /\ Sweeping
      BY <2>2 DEF Sweep, Sweeping
    <3>2. /\ \A n \in Numbers(Current) : <<"table", n>> \notin bg.doomed
          /\ <<"manifest", disk.current>> \notin bg.doomed
      BY <3>1 DEF StoreInv, BgInv
    <3>3. QED
      BY <1>3, <3>1, <3>2, DiskSwept DEF StoreInv
  <2>3. QED
    BY <2>1, <2>2
<1>5. ~bgError' => Current' = IF Installing' THEN Apply(version', bg'.edit) ELSE version'
  <2>1. ~Installing'
    BY <1>1, IdleBgFacts DEF Installing
  <2>2. ~bgError => Current = version
    BY <1>2, <1>3 DEF StoreInv, UseInv
  <2>3. QED
    BY <1>1, <1>4, <2>1, <2>2
<1>6. BgInv'
  BY <1>1, IdleBgInv
<1>7. QED
  BY <1>1, <1>2, <1>4, <1>5, <1>6, VersionKept, BgStep

LEMMA FlushTableStep ==
  ASSUME StoreInv, FlushTable
  PROVE  StoreInv'
<1> DEFINE file == [num |-> nextFile, ents |-> imm]
           level == PickLevelForMemTableOutput(version, MinKey(file), MaxKey(file))
<1>1. /\ disk' = [disk EXCEPT !.tables = With(@, nextFile, imm)]
      /\ nextFile' = nextFile + 1
      /\ bg' = [bg EXCEPT !.pc = "flushed", !.flushed = {<<level, file>>}]
      /\ bgScheduled /\ bgScheduled'
      /\ UNCHANGED <<phase, recovery, version, manifestNumber, bgError, seekFile, reader>>
  BY DEF FlushTable, BgRuns, openVars, versionVars, readVars
<1>2. file.num = nextFile /\ bg.pc \in {"idle", "compact"}
  BY DEF FlushTable, Flushes
<1> HIDE DEF file, level
<1>3. InUse /\ DiskInv /\ MemoryInv /\ UseInv /\ BgInv
  BY <1>1, BgActive DEF StoreInv
<1>4. disk.current # 0 /\ ~Installing
  BY <1>2, <1>3 DEF UseInv, Installing
<1>5. DiskInv' /\ Tables' = Tables \cup {nextFile} /\ disk'.current = disk.current /\ Current' = Current
  BY <1>1, <1>3, <1>4, TableAdded
<1>6. /\ bg' = [pc |-> "flushed", flushed |-> {<<level, file>>}, edit |-> bg.edit, level |-> bg.level,
                inputs |-> bg.inputs, base |-> bg.base, oldest |-> bg.oldest, todo |-> bg.todo,
                outs |-> bg.outs, compacting |-> bg.compacting, doomed |-> bg.doomed]
  BY <1>1, <1>3 DEF BgInv, HasFields
<1>7. /\ bg'.pc = "flushed" /\ bg'.flushed = {<<level, file>>} /\ bg'.edit = bg.edit
      /\ bg'.outs = bg.outs /\ bg'.compacting = bg.compacting
      /\ HasFields(bg')
  BY <1>6 DEF HasFields
<1>8. BgInv'
  <2>1. NumbersOf(bg'.flushed) \subseteq Tables' /\ IsFiniteSet(bg'.flushed)
    <3>1. NumbersOf({<<level, file>>}) = {file.num}
      BY NumbersOfOne
    <3>2. NumbersOf(bg'.flushed) = {nextFile}
      BY <1>2, <1>7, <3>1
    <3>3. IsFiniteSet({<<level, file>>})
      BY FS_Singleton
    <3>4. QED
      BY <1>5, <1>7, <3>2, <3>3
  <2>2. /\ NumbersOf(bg'.outs) \subseteq Tables' /\ NumbersOf(bg'.edit.added) \subseteq Tables'
        /\ IsFiniteSet(bg'.outs) /\ IsFiniteSet(bg'.edit.added) /\ bg'.compacting \in BOOLEAN
    BY <1>3, <1>5, <1>7 DEF BgInv
  <2>3. ~Recording' /\ ~Installing' /\ ~Sweeping'
    BY <1>7 DEF Recording, Installing, Sweeping
  <2>4. QED
    BY <1>1, <1>7, <2>1, <2>2, <2>3 DEF BgInv
<1>9. ~bgError' => Current' = IF Installing' THEN Apply(version', bg'.edit) ELSE version'
  <2>1. ~Installing'
    BY <1>7 DEF Installing
  <2>2. ~bgError => Current = version
    BY <1>3, <1>4 DEF UseInv
  <2>3. QED
    BY <1>1, <1>5, <2>1, <2>2
<1>10. nextFile' \in Nat /\ nextFile <= nextFile'
  BY <1>1, <1>3 DEF MemoryInv
<1>11. /\ version' = [l \in Levels |-> version'[l]]
       /\ \A l \in Levels : IsFiniteSet(version'[l])
       /\ \A p \in seekFile' : p[1] \in Levels
  BY <1>1, <1>3 DEF MemoryInv, UseInv
<1>12. QED
  BY <1>1, <1>3, <1>5, <1>8, <1>9, <1>10, <1>11, BgStep

LEMMA FlushEditStep ==
  ASSUME StoreInv, FlushEdit
  PROVE  StoreInv'
<1>1. /\ bg.pc = "flushed"
      /\ UNCHANGED <<disk, nextFile, phase, recovery, version, manifestNumber, bgScheduled, seekFile, reader>>
  BY DEF FlushEdit, openVars, versionVars, readVars
<1>2. InUse /\ DiskInv /\ MemoryInv /\ UseInv /\ BgInv /\ bgScheduled
  BY <1>1, BgActive DEF StoreInv
<1>3. ~Installing /\ ~Recording /\ ~Sweeping
  BY <1>1 DEF Installing, Recording, Sweeping
<1>4. DiskInv' /\ Current' = Current /\ Tables' = Tables
  BY <1>1, <1>2, DiskUnchanged
<1>5. /\ HasFields(bg') /\ ~Installing' /\ ~Sweeping' /\ bg'.pc # "idle"
      /\ bg'.outs = bg.outs /\ bg'.flushed = bg.flushed /\ bg'.compacting = bg.compacting
      /\ bg'.edit.added \in {bg.edit.added, bg.flushed}
      /\ Recording' => bg'.edit.next = nextFile
      /\ bgError => bgError'
  <2>1. CASE phase = "closing"
    <3>1. bgError' = TRUE /\ bg' = [bg EXCEPT !.pc = IF bg.compacting THEN "compact" ELSE "end"]
      BY <2>1 DEF FlushEdit
    <3>2. /\ HasFields(bg') /\ bg'.pc \in {"compact", "end"}
          /\ bg'.outs = bg.outs /\ bg'.flushed = bg.flushed /\ bg'.compacting = bg.compacting
          /\ bg'.edit = bg.edit
      BY <1>2, <3>1 DEF BgInv, HasFields
    <3>3. QED
      BY <3>1, <3>2 DEF Installing, Sweeping, Recording
  <2>2. CASE phase # "closing"
    <3> DEFINE e == [NoEdit EXCEPT !.log = memLog, !.next = nextFile, !.last = lastSequence,
                                   !.added = bg.flushed]
    <3>1. bgError' = bgError /\ bg' = [bg EXCEPT !.pc = "flushManifest", !.edit = e]
      BY <2>2 DEF FlushEdit
    <3>2. e.next = nextFile /\ e.added = bg.flushed
      BY DEF NoEdit
    <3> HIDE DEF e
    <3>3. /\ HasFields(bg') /\ bg'.pc = "flushManifest"
          /\ bg'.outs = bg.outs /\ bg'.flushed = bg.flushed /\ bg'.compacting = bg.compacting
          /\ bg'.edit = e
      BY <1>2, <3>1 DEF BgInv, HasFields
    <3>4. QED
      BY <3>1, <3>2, <3>3 DEF Installing, Sweeping, Recording
  <2>3. QED
    BY <2>1, <2>2
<1>6. BgInv'
  <2>1. /\ IsFiniteSet(bg.flushed) /\ IsFiniteSet(bg.outs) /\ IsFiniteSet(bg.edit.added)
        /\ NumbersOf(bg.flushed) \subseteq Tables /\ NumbersOf(bg.outs) \subseteq Tables
        /\ NumbersOf(bg.edit.added) \subseteq Tables /\ bg.compacting \in BOOLEAN
    BY <1>2 DEF BgInv
  <2>2. /\ IsFiniteSet(bg'.edit.added) /\ NumbersOf(bg'.edit.added) \subseteq Tables'
    BY <1>4, <1>5, <2>1
  <2>3. Recording' => bg'.edit.next \in Nat /\ manifestNumber' < bg'.edit.next
    BY <1>1, <1>2, <1>5 DEF MemoryInv, UseInv
  <2>4. bg'.pc # "sweepOn"
    BY <1>5 DEF Sweeping
  <2>5. QED
    BY <1>1, <1>2, <1>4, <1>5, <2>1, <2>2, <2>3, <2>4 DEF BgInv
<1>7. ~bgError' => Current' = IF Installing' THEN Apply(version', bg'.edit) ELSE version'
  <2>1. ~bgError => Current = version
    BY <1>2, <1>3 DEF UseInv
  <2>2. QED
    BY <1>1, <1>4, <1>5, <2>1
<1>8. QED
  BY <1>1, <1>2, <1>4, <1>6, <1>7, VersionKept, BgStep

\* A record of the manifest is written, completely or as far as a failed write
\* got.
LEMMA RecordWritten ==
  ASSUME StoreInv, Recording,
         disk' \in {disk, [disk EXCEPT !.manifests[manifestNumber] = Append(@, bg.edit)]}
  PROVE  DiskInv' /\ Tables' = Tables /\ disk'.current = disk.current
<1>1. InUse /\ DiskInv /\ UseInv /\ BgInv
  BY BgActive DEF StoreInv, Recording
<1>2. CASE disk' = disk
  BY <1>1, <1>2, DiskUnchanged
<1>3. CASE disk' = [disk EXCEPT !.manifests[manifestNumber] = Append(@, bg.edit)]
  <2>1. /\ disk.current # 0 /\ disk.current = manifestNumber
        /\ bg.edit.next \in Nat /\ disk.current < bg.edit.next
        /\ NumbersOf(bg.edit.added) \subseteq Tables /\ IsFiniteSet(bg.edit.added)
    BY <1>1 DEF UseInv, BgInv
  <2>2. QED
    BY <1>1, <1>3, <2>1, AppendRecord
<1>4. QED
  BY <1>2, <1>3

LEMMA FailStep ==
  ASSUME StoreInv, FlushFails \/ CompactionFails
  PROVE  StoreInv'
<1>1. /\ bgError' = TRUE
      /\ UNCHANGED <<nextFile, phase, recovery, version, manifestNumber, bgScheduled, seekFile, reader>>
  BY DEF FlushFails, CompactionFails, Fail, openVars, versionVars, readVars
<1>2. /\ bgScheduled
      /\ \/ disk' = disk
         \/ Recording /\ disk' \in {disk, [disk EXCEPT !.manifests[manifestNumber] = Append(@, bg.edit)]}
  <2>1. CASE FlushFails
    <3>1. \/ BgRuns /\ UNCHANGED disk
          \/ /\ bg.pc = "flushManifest"
             /\ disk' \in {disk, [disk EXCEPT !.manifests[manifestNumber] = Append(@, bg.edit)]}
      BY <2>1 DEF FlushFails
    <3>2. QED
      BY <3>1, BgActive DEF BgRuns, Recording
  <2>2. CASE CompactionFails
    <3>1. \/ bg.pc = "compact" /\ UNCHANGED disk
          \/ /\ bg.pc \in {"moveManifest", "compactManifest"}
             /\ disk' \in {disk, [disk EXCEPT !.manifests[manifestNumber] = Append(@, bg.edit)]}
      BY <2>2 DEF CompactionFails
    <3>2. QED
      BY <3>1, BgActive DEF Recording
  <2>3. QED
    BY <2>1, <2>2
<1>3. InUse /\ DiskInv /\ BgInv
  BY <1>2, BgActive DEF StoreInv
<1>4. DiskInv' /\ Tables' = Tables /\ disk'.current = disk.current
  <2>1. CASE disk' = disk
    BY <1>3, <2>1, DiskUnchanged
  <2>2. CASE disk' # disk
    BY <1>2, <2>2, RecordWritten
  <2>3. QED
    BY <2>1, <2>2
<1>5. BgInv'
  <2>1. CASE FlushFails
    <3>1. bg' = [bg EXCEPT !.pc = IF bg.compacting THEN "compact" ELSE "end", !.flushed = {}, !.edit = NoEdit]
      BY <2>1 DEF FlushFails
    <3>2. /\ HasFields(bg') /\ bg'.pc \in {"compact", "end"} /\ bg'.flushed = {} /\ bg'.edit = NoEdit
          /\ bg'.outs = bg.outs /\ bg'.compacting = bg.compacting
      BY <1>3, <3>1 DEF BgInv, HasFields
    <3>3. /\ IsFiniteSet(bg.outs) /\ NumbersOf(bg.outs) \subseteq Tables /\ bg.compacting \in BOOLEAN
      BY <1>3 DEF BgInv
    <3>4. /\ IsFiniteSet({}) /\ NumbersOf({}) = {} /\ NoEdit.added = {}
      BY FS_EmptySet, NoNumbers, IdleBgFacts
    <3>5. ~Recording' /\ ~Installing' /\ ~Sweeping' /\ bg'.pc # "idle" /\ bg'.pc # "sweepOn"
      BY <3>2 DEF Recording, Installing, Sweeping
    <3>6. QED
      BY <1>1, <1>2, <1>4, <3>2, <3>3, <3>4, <3>5 DEF BgInv
  <2>2. CASE CompactionFails
    <3>1. bg' = [IdleBg EXCEPT !.pc = "end"]
      BY <2>2 DEF CompactionFails
    <3>2. /\ HasFields(bg') /\ bg'.pc = "end" /\ bg'.flushed = {} /\ bg'.edit = NoEdit
          /\ bg'.outs = {} /\ bg'.compacting = FALSE
      BY <3>1 DEF IdleBg, HasFields
    <3>3. /\ IsFiniteSet({}) /\ NumbersOf({}) = {} /\ NoEdit.added = {}
      BY FS_EmptySet, NoNumbers, IdleBgFacts
    <3>4. ~Recording' /\ ~Installing' /\ ~Sweeping' /\ bg'.pc # "idle" /\ bg'.pc # "sweepOn"
      BY <3>2 DEF Recording, Installing, Sweeping
    <3>5. QED
      BY <1>1, <1>2, <3>2, <3>3, <3>4 DEF BgInv
  <2>3. QED
    BY <2>1, <2>2
<1>6. QED
  BY <1>1, <1>3, <1>4, <1>5, VersionKept, BgStep

LEMMA AppendManifestStep ==
  ASSUME StoreInv, AppendManifest
  PROVE  StoreInv'
<1>1. /\ Recording
      /\ disk' = [disk EXCEPT !.manifests[manifestNumber] = Append(@, bg.edit)]
      /\ bg' = [bg EXCEPT !.pc = CASE bg.pc = "flushManifest" -> "flushInstall"
                                   [] bg.pc = "moveManifest" -> "moveInstall"
                                   [] OTHER -> "compactInstall"]
      /\ UNCHANGED <<nextFile, phase, recovery, version, manifestNumber, bgScheduled, bgError, seekFile, reader>>
  BY DEF AppendManifest, Recording, openVars, versionVars, readVars
<1>2. InUse /\ DiskInv /\ MemoryInv /\ UseInv /\ BgInv /\ bgScheduled
  BY <1>1, BgActive DEF StoreInv, Recording
<1>3. ~Installing
  BY <1>1 DEF Recording, Installing
<1>4. /\ disk.current # 0 /\ disk.current = manifestNumber
      /\ bg.edit.next \in Nat /\ disk.current < bg.edit.next
      /\ NumbersOf(bg.edit.added) \subseteq Tables /\ IsFiniteSet(bg.edit.added)
  BY <1>1, <1>2 DEF UseInv, BgInv
<1>5. /\ DiskInv' /\ Tables' = Tables /\ disk'.current = disk.current
      /\ Current' = Apply(Current, bg.edit)
  BY <1>1, <1>2, <1>4, AppendRecord
<1>6. \E q \in {"flushInstall", "moveInstall", "compactInstall"} : bg' = [bg EXCEPT !.pc = q]
  <2>1. CASE bg.pc = "flushManifest"
    BY <1>1, <2>1
  <2>2. CASE bg.pc = "moveManifest"
    BY <1>1, <2>2
  <2>3. CASE bg.pc = "compactManifest"
    BY <1>1, <2>3
  <2>4. QED
    BY <1>1, <2>1, <2>2, <2>3 DEF Recording
<1>7. /\ HasFields(bg') /\ bg'.pc \in {"flushInstall", "moveInstall", "compactInstall"}
      /\ bg'.flushed = bg.flushed /\ bg'.edit = bg.edit
      /\ bg'.outs = bg.outs /\ bg'.compacting = bg.compacting
  BY <1>2, <1>6 DEF BgInv, HasFields
<1>8. Installing' /\ ~Recording' /\ ~Sweeping' /\ bg'.pc # "idle" /\ bg'.pc # "sweepOn"
  BY <1>7 DEF Recording, Installing, Sweeping
<1>9. BgInv'
  <2>1. /\ IsFiniteSet(bg.flushed) /\ IsFiniteSet(bg.outs) /\ IsFiniteSet(bg.edit.added)
        /\ NumbersOf(bg.flushed) \subseteq Tables /\ NumbersOf(bg.outs) \subseteq Tables
        /\ NumbersOf(bg.edit.added) \subseteq Tables /\ bg.compacting \in BOOLEAN
    BY <1>2 DEF BgInv
  <2>2. bg'.edit.next \in Nat /\ manifestNumber' < bg'.edit.next
    BY <1>1, <1>4, <1>7
  <2>3. QED
    BY <1>1, <1>2, <1>5, <1>7, <1>8, <2>1, <2>2 DEF BgInv
<1>10. ~bgError' => Current' = IF Installing' THEN Apply(version', bg'.edit) ELSE version'
  <2>1. ~bgError => Current = version
    BY <1>2, <1>3 DEF UseInv
  <2>2. ~bgError => Current' = Apply(version, bg.edit)
    BY <1>5, <2>1
  <2>3. QED
    BY <1>1, <1>7, <1>8, <2>2
<1>11. QED
  BY <1>1, <1>2, <1>5, <1>9, <1>10, VersionKept, BgStep

\* A change of the version that is in the manifest already is installed.
LEMMA FlushInstallStep ==
  ASSUME StoreInv, FlushInstall
  PROVE  StoreInv'
<1> DEFINE swept == IF bg.compacting THEN "sweepOn" ELSE "sweep"
           removed == Doomed(version', logNumber', bg.compacting)
<1>1. /\ bg.pc = "flushInstall"
      /\ version' = Apply(version, bg.edit) /\ seekFile' = {}
      /\ bg' = [bg EXCEPT !.pc = swept, !.flushed = {}, !.edit = NoEdit, !.doomed = removed]
      /\ UNCHANGED <<disk, nextFile, phase, recovery, manifestNumber, bgScheduled, bgError, reader>>
  BY DEF FlushInstall, openVars, readVars
<1>2. swept \in {"sweep", "sweepOn"} /\ (swept = "sweepOn" => bg.compacting)
  OBVIOUS
<1>3. ASSUME NEW n
      PROVE  /\ <<"table", n>> \in removed => ~bgError /\ n \notin Live(version', bg.compacting)
             /\ <<"manifest", n>> \in removed => n < manifestNumber
  BY DoomedFacts
<1> HIDE DEF swept, removed
<1>4. InUse /\ DiskInv /\ MemoryInv /\ UseInv /\ BgInv /\ bgScheduled
  BY <1>1, BgActive DEF StoreInv
<1>5. DiskInv' /\ Current' = Current /\ Tables' = Tables /\ disk'.current = disk.current
  BY <1>1, <1>4, DiskUnchanged
<1>6. ~bgError => Current = version'
  BY <1>1, <1>4 DEF UseInv, Installing
<1>7. /\ HasFields(bg') /\ bg'.pc = swept /\ bg'.flushed = {} /\ bg'.edit = NoEdit
      /\ bg'.outs = bg.outs /\ bg'.compacting = bg.compacting /\ bg'.doomed = removed
  BY <1>1, <1>4 DEF BgInv, HasFields
<1>8. ~Recording' /\ ~Installing' /\ Sweeping' /\ bg'.pc # "idle"
  BY <1>2, <1>7 DEF Recording, Installing, Sweeping
<1>9. \A n \in Numbers(Current) : <<"table", n>> \notin removed
  <2> SUFFICES ASSUME NEW n \in Numbers(Current), <<"table", n>> \in removed PROVE FALSE
    OBVIOUS
  <2>1. n \in Numbers(version')
    BY <1>3, <1>6
  <2>2. n \in Live(version', bg.compacting)
    BY <2>1 DEF Live
  <2>3. QED
    BY <1>3, <2>2
<1>10. <<"manifest", disk.current>> \notin removed
  <2>1. disk.current = manifestNumber /\ manifestNumber \in Nat
    BY <1>4 DEF UseInv, MemoryInv
  <2>2. ~(manifestNumber < manifestNumber)
    BY <2>1
  <2>3. QED
    BY <1>3, <2>1, <2>2
<1>11. bg.compacting => \A n \in NumbersOf(bg.outs) : <<"table", n>> \notin removed
  <2> SUFFICES ASSUME bg.compacting, NEW n \in NumbersOf(bg.outs), <<"table", n>> \in removed PROVE FALSE
    OBVIOUS
  <2>1. n \in Live(version', bg.compacting)
    BY DEF Live, Pending, NumbersOf
  <2>2. QED
    BY <1>3, <2>1
<1>12. BgInv'
  <2>1. IsFiniteSet(bg.outs) /\ NumbersOf(bg.outs) \subseteq Tables /\ bg.compacting \in BOOLEAN
    BY <1>4 DEF BgInv
  <2>2. IsFiniteSet({}) /\ NumbersOf({}) = {} /\ NoEdit.added = {}
    BY FS_EmptySet, NoNumbers, IdleBgFacts
  <2>3. /\ \A n \in Numbers(Current') : <<"table", n>> \notin bg'.doomed
        /\ <<"manifest", disk'.current>> \notin bg'.doomed
    BY <1>5, <1>7, <1>9, <1>10
  <2>4. bg'.pc = "sweepOn" => \A n \in NumbersOf(bg'.outs) : <<"table", n>> \notin bg'.doomed
    BY <1>2, <1>7, <1>11
  <2>5. QED
    BY <1>1, <1>4, <1>5, <1>7, <1>8, <2>1, <2>2, <2>3, <2>4 DEF BgInv
<1>13. /\ version' = [l \in Levels |-> version'[l]]
       /\ \A l \in Levels : IsFiniteSet(version'[l])
  <2>1. (\A l \in Levels : IsFiniteSet(version[l])) /\ IsFiniteSet(bg.edit.added)
    BY <1>4 DEF MemoryInv, BgInv
  <2>2. QED
    BY <1>1, <2>1, ApplyShape, ApplyFinite
<1>14. /\ nextFile' \in Nat /\ nextFile <= nextFile'
       /\ \A p \in seekFile' : p[1] \in Levels
  BY <1>1, <1>4 DEF MemoryInv
<1>15. QED
  BY <1>1, <1>4, <1>5, <1>6, <1>8, <1>12, <1>13, <1>14, BgStep

LEMMA InstallStep ==
  ASSUME StoreInv, Install
  PROVE  StoreInv'
<1> DEFINE after == IF bg.pc = "moveInstall" THEN "end" ELSE "sweep"
           removed == IF bg.pc = "moveInstall" THEN {} ELSE Doomed(version', logNumber', FALSE)
<1>1. /\ Installing
      /\ version' = Apply(version, bg.edit) /\ seekFile' = {}
      /\ bg' = [IdleBg EXCEPT !.pc = after, !.doomed = removed]
      /\ UNCHANGED <<disk, nextFile, phase, recovery, manifestNumber, bgScheduled, bgError, reader>>
  BY DEF Install, Installing, openVars, readVars
<1>2. after \in {"end", "sweep"}
  OBVIOUS
<1>3. ASSUME NEW n
      PROVE  /\ <<"table", n>> \in removed => ~bgError /\ n \notin Live(version', FALSE)
             /\ <<"manifest", n>> \in removed => n < manifestNumber
  BY DoomedFacts
<1> HIDE DEF after, removed
<1>4. InUse /\ DiskInv /\ MemoryInv /\ UseInv /\ BgInv /\ bgScheduled
  BY <1>1, BgActive DEF StoreInv, Installing
<1>5. DiskInv' /\ Current' = Current /\ Tables' = Tables /\ disk'.current = disk.current
  BY <1>1, <1>4, DiskUnchanged
<1>6. ~bgError => Current = version'
  BY <1>1, <1>4 DEF UseInv
<1>7. /\ HasFields(bg') /\ bg'.pc = after /\ bg'.flushed = {} /\ bg'.edit = NoEdit
      /\ bg'.outs = {} /\ bg'.compacting = FALSE /\ bg'.doomed = removed
  BY <1>1 DEF IdleBg, HasFields
<1>8. ~Recording' /\ ~Installing' /\ bg'.pc # "idle" /\ bg'.pc # "sweepOn"
  BY <1>2, <1>7 DEF Recording, Installing
<1>9. \A n \in Numbers(Current) : <<"table", n>> \notin removed
  <2> SUFFICES ASSUME NEW n \in Numbers(Current), <<"table", n>> \in removed PROVE FALSE
    OBVIOUS
  <2>1. n \in Numbers(version')
    BY <1>3, <1>6
  <2>2. n \in Live(version', FALSE)
    BY <2>1 DEF Live
  <2>3. QED
    BY <1>3, <2>2
<1>10. <<"manifest", disk.current>> \notin removed
  <2>1. disk.current = manifestNumber /\ manifestNumber \in Nat
    BY <1>4 DEF UseInv, MemoryInv
  <2>2. ~(manifestNumber < manifestNumber)
    BY <2>1
  <2>3. QED
    BY <1>3, <2>1, <2>2
<1>11. BgInv'
  <2>1. IsFiniteSet({}) /\ NumbersOf({}) = {} /\ NoEdit.added = {}
    BY FS_EmptySet, NoNumbers, IdleBgFacts
  <2>2. /\ \A n \in Numbers(Current') : <<"table", n>> \notin bg'.doomed
        /\ <<"manifest", disk'.current>> \notin bg'.doomed
    BY <1>5, <1>7, <1>9, <1>10
  <2>3. QED
    BY <1>1, <1>4, <1>7, <1>8, <2>1, <2>2 DEF BgInv
<1>12. /\ version' = [l \in Levels |-> version'[l]]
       /\ \A l \in Levels : IsFiniteSet(version'[l])
  <2>1. (\A l \in Levels : IsFiniteSet(version[l])) /\ IsFiniteSet(bg.edit.added)
    BY <1>4 DEF MemoryInv, BgInv
  <2>2. QED
    BY <1>1, <2>1, ApplyShape, ApplyFinite
<1>13. /\ nextFile' \in Nat /\ nextFile <= nextFile'
       /\ \A p \in seekFile' : p[1] \in Levels
  BY <1>1, <1>4 DEF MemoryInv
<1>14. QED
  BY <1>1, <1>4, <1>5, <1>6, <1>8, <1>11, <1>12, <1>13, BgStep

LEMMA SweepAndGoOnStep ==
  ASSUME StoreInv, SweepAndGoOn
  PROVE  StoreInv'
<1>1. /\ bg.pc = "sweepOn" /\ disk' = Without(bg.doomed, disk)
      /\ bg' = [bg EXCEPT !.pc = "compact", !.doomed = {}]
      /\ UNCHANGED <<nextFile, phase, recovery, version, manifestNumber, bgScheduled, bgError, seekFile, reader>>
  BY DEF SweepAndGoOn, openVars, versionVars, readVars
<1>2. InUse /\ DiskInv /\ UseInv /\ BgInv /\ bgScheduled /\ Sweeping /\ ~Installing
  BY <1>1, BgActive DEF StoreInv, Sweeping, Installing
<1>3. disk.current # 0 /\ (~bgError => Current = version)
  BY <1>2 DEF UseInv
<1>4. /\ \A n \in Numbers(Current) : <<"table", n>> \notin bg.doomed
      /\ <<"manifest", disk.current>> \notin bg.doomed
      /\ \A n \in NumbersOf(bg.outs) : <<"table", n>> \notin bg.doomed
      /\ bg.flushed = {} /\ bg.edit = NoEdit
      /\ IsFiniteSet(bg.outs) /\ NumbersOf(bg.outs) \subseteq Tables /\ bg.compacting \in BOOLEAN
  BY <1>1, <1>2 DEF BgInv
<1>5. /\ DiskInv' /\ Tables' = {n \in Tables : <<"table", n>> \notin bg.doomed}
      /\ disk'.current = disk.current /\ Current' = Current
  BY <1>1, <1>2, <1>3, <1>4, DiskSwept
<1>6. /\ HasFields(bg') /\ bg'.pc = "compact" /\ bg'.flushed = {} /\ bg'.edit = NoEdit
      /\ bg'.outs = bg.outs /\ bg'.compacting = bg.compacting
  BY <1>1, <1>2, <1>4 DEF BgInv, HasFields
<1>7. ~Recording' /\ ~Installing' /\ ~Sweeping' /\ bg'.pc # "idle" /\ bg'.pc # "sweepOn"
  BY <1>6 DEF Recording, Installing, Sweeping
<1>8. BgInv'
  <2>1. IsFiniteSet({}) /\ NumbersOf({}) = {} /\ NoEdit.added = {}
    BY FS_EmptySet, NoNumbers, IdleBgFacts
  <2>2. NumbersOf(bg.outs) \subseteq Tables'
    BY <1>4, <1>5
  <2>3. QED
    BY <1>1, <1>2, <1>4, <1>6, <1>7, <2>1, <2>2 DEF BgInv
<1>9. QED
  BY <1>1, <1>2, <1>3, <1>5, <1>7, <1>8, VersionKept, BgStep

LEMMA WriteOutputStep ==
  ASSUME StoreInv, WriteOutput
  PROVE  StoreInv'
<1>1. PICK ents :
        /\ disk' = [disk EXCEPT !.tables = With(@, nextFile, ents)]
        /\ bg' = [bg EXCEPT !.todo = @ \ ents,
                            !.outs = @ \cup {<<bg.level + 1, [num |-> nextFile, ents |-> ents]>>}]
  BY DEF WriteOutput
<1>2. /\ bg.pc = "compact" /\ nextFile' = nextFile + 1
      /\ UNCHANGED <<phase, recovery, version, manifestNumber, bgScheduled, bgError, seekFile, reader>>
  BY DEF WriteOutput, openVars, versionVars, readVars
<1> DEFINE file == [num |-> nextFile, ents |-> ents]
           level == bg.level + 1
<1>3. file.num = nextFile
  OBVIOUS
<1>4. bg' = [bg EXCEPT !.todo = @ \ ents, !.outs = @ \cup {<<level, file>>}]
  BY <1>1
<1> HIDE DEF file, level
<1>5. InUse /\ DiskInv /\ MemoryInv /\ UseInv /\ BgInv /\ bgScheduled /\ ~Installing
  BY <1>2, BgActive DEF StoreInv, Installing
<1>6. disk.current # 0 /\ (~bgError => Current = version)
  BY <1>5 DEF UseInv
<1>7. DiskInv' /\ Tables' = Tables \cup {nextFile} /\ disk'.current = disk.current /\ Current' = Current
  BY <1>1, <1>5, <1>6, TableAdded
<1>8. /\ HasFields(bg') /\ bg'.pc = "compact" /\ bg'.flushed = bg.flushed /\ bg'.edit = bg.edit
      /\ bg'.outs = bg.outs \cup {<<level, file>>} /\ bg'.compacting = bg.compacting
  BY <1>2, <1>4, <1>5 DEF BgInv, HasFields
<1>9. ~Recording' /\ ~Installing' /\ ~Sweeping' /\ bg'.pc # "idle" /\ bg'.pc # "sweepOn"
  BY <1>8 DEF Recording, Installing, Sweeping
<1>10. BgInv'
  <2>1. /\ IsFiniteSet(bg.flushed) /\ IsFiniteSet(bg.outs) /\ IsFiniteSet(bg.edit.added)
        /\ NumbersOf(bg.flushed) \subseteq Tables /\ NumbersOf(bg.outs) \subseteq Tables
        /\ NumbersOf(bg.edit.added) \subseteq Tables /\ bg.compacting \in BOOLEAN
    BY <1>5 DEF BgInv
  <2>2. IsFiniteSet(bg'.outs)
    BY <1>8, <2>1, FS_AddElement
  <2>3. NumbersOf({<<level, file>>}) = {nextFile}
    BY <1>3, NumbersOfOne
  <2>4. NumbersOf(bg.outs \cup {<<level, file>>}) = NumbersOf(bg.outs) \cup NumbersOf({<<level, file>>})
    BY NumbersOfFacts
  <2>5. NumbersOf(bg'.outs) \subseteq Tables'
    BY <1>7, <1>8, <2>1, <2>3, <2>4
  <2>6. QED
    BY <1>2, <1>5, <1>7, <1>8, <1>9, <2>1, <2>2, <2>5 DEF BgInv
<1>11. nextFile' \in Nat /\ nextFile <= nextFile'
  BY <1>2, <1>5 DEF MemoryInv
<1>12. /\ version' = [l \in Levels |-> version'[l]]
       /\ \A l \in Levels : IsFiniteSet(version'[l])
       /\ \A p \in seekFile' : p[1] \in Levels
  BY <1>2, <1>5 DEF MemoryInv, UseInv
<1>13. QED
  BY <1>2, <1>5, <1>6, <1>7, <1>9, <1>10, <1>11, <1>12, BgStep

LEMMA FinishCompactionStep ==
  ASSUME StoreInv, FinishCompaction
  PROVE  StoreInv'
<1> DEFINE e == EditOf(bg.inputs, bg.outs)
<1>1. /\ bg.pc = "compact" /\ bg' = [bg EXCEPT !.pc = "compactManifest", !.edit = e]
      /\ UNCHANGED <<disk, nextFile, phase, recovery, version, manifestNumber, bgScheduled, bgError,
                     seekFile, reader>>
  BY DEF FinishCompaction, openVars, versionVars, readVars
<1>2. e.next = nextFile /\ e.added = bg.outs
  BY DEF EditOf
<1> HIDE DEF e
<1>3. InUse /\ DiskInv /\ MemoryInv /\ UseInv /\ BgInv /\ bgScheduled /\ ~Installing
  BY <1>1, BgActive DEF StoreInv, Installing
<1>4. /\ ~bgError => Current = version
      /\ manifestNumber < nextFile /\ nextFile \in Nat
  BY <1>3 DEF UseInv, MemoryInv
<1>5. DiskInv' /\ Current' = Current /\ Tables' = Tables /\ disk'.current = disk.current
  BY <1>1, <1>3, DiskUnchanged
<1>6. /\ HasFields(bg') /\ bg'.pc = "compactManifest" /\ bg'.flushed = bg.flushed /\ bg'.edit = e
      /\ bg'.outs = bg.outs /\ bg'.compacting = bg.compacting
  BY <1>1, <1>3 DEF BgInv, HasFields
<1>7. ~Installing' /\ ~Sweeping' /\ bg'.pc # "idle" /\ bg'.pc # "sweepOn"
  BY <1>6 DEF Installing, Sweeping
<1>8. BgInv'
  <2>1. /\ IsFiniteSet(bg.flushed) /\ IsFiniteSet(bg.outs)
        /\ NumbersOf(bg.flushed) \subseteq Tables /\ NumbersOf(bg.outs) \subseteq Tables
        /\ bg.compacting \in BOOLEAN
    BY <1>3 DEF BgInv
  <2>2. bg'.edit.added = bg.outs /\ bg'.edit.next \in Nat /\ manifestNumber' < bg'.edit.next
    BY <1>1, <1>2, <1>4, <1>6
  <2>3. QED
    BY <1>1, <1>3, <1>5, <1>6, <1>7, <2>1, <2>2 DEF BgInv
<1>9. QED
  BY <1>1, <1>3, <1>4, <1>5, <1>7, <1>8, VersionKept, BgStep

LEMMA StartCompactionStep ==
  ASSUME StoreInv, StartCompaction
  PROVE  StoreInv'
<1>1. /\ bg.pc = "idle" /\ bgScheduled /\ ~bgError
      /\ UNCHANGED <<disk, nextFile, phase, recovery, version, manifestNumber, bgScheduled, bgError,
                     seekFile, reader>>
  BY DEF StartCompaction, BgRuns, openVars, versionVars, readVars
<1>2. InUse /\ DiskInv /\ MemoryInv /\ UseInv /\ BgInv /\ ~Installing
  BY <1>1, BgActive DEF StoreInv, Installing
<1>3. /\ Current = version /\ disk.current # 0
      /\ manifestNumber < nextFile /\ nextFile \in Nat
  BY <1>1, <1>2 DEF UseInv, MemoryInv
<1>4. DiskInv' /\ Current' = Current /\ Tables' = Tables /\ disk'.current = disk.current
  BY <1>1, <1>2, DiskUnchanged
<1>5. PICK p \in Candidates :
        /\ p[2] \in version[p[1]]
        /\ \E ins \in Inputs(version, p[1], First(p[1], p[2])) :
             bg' = IF IsTrivialMove(p[1], ins)
                   THEN [bg EXCEPT !.pc = "moveManifest",
                           !.edit = EditOf(Deletions(p[1], ins), {<<p[1] + 1, f>> : f \in ins[1]})]
                   ELSE [bg EXCEPT !.pc = "compact", !.compacting = TRUE, !.level = p[1],
                           !.inputs = Deletions(p[1], ins), !.base = version, !.oldest = OldestSnapshot,
                           !.todo = Kept(version, p[1], Entries(ins[1] \cup ins[2]), OldestSnapshot)]
  BY DEF StartCompaction
<1>6. PICK ins \in Inputs(version, p[1], First(p[1], p[2])) :
             bg' = IF IsTrivialMove(p[1], ins)
                   THEN [bg EXCEPT !.pc = "moveManifest",
                           !.edit = EditOf(Deletions(p[1], ins), {<<p[1] + 1, f>> : f \in ins[1]})]
                   ELSE [bg EXCEPT !.pc = "compact", !.compacting = TRUE, !.level = p[1],
                           !.inputs = Deletions(p[1], ins), !.base = version, !.oldest = OldestSnapshot,
                           !.todo = Kept(version, p[1], Entries(ins[1] \cup ins[2]), OldestSnapshot)]
  BY <1>5
<1>7. p[1] \in Levels /\ ins[1] \subseteq version[p[1]]
  BY <1>2, <1>5, CandidateInside
<1>8. /\ IsFiniteSet(bg.flushed) /\ IsFiniteSet(bg.outs) /\ IsFiniteSet(bg.edit.added)
      /\ NumbersOf(bg.flushed) \subseteq Tables /\ NumbersOf(bg.outs) \subseteq Tables
      /\ NumbersOf(bg.edit.added) \subseteq Tables /\ HasFields(bg) /\ bg.compacting \in BOOLEAN
  BY <1>2 DEF BgInv
<1> DEFINE moved == {<<p[1] + 1, f>> : f \in ins[1]}
<1>9. IsFiniteSet(moved)
  <2>1. IsFiniteSet(ins[1])
    BY <1>2, <1>7, FS_Subset DEF MemoryInv
  <2>2. QED
    BY <2>1, PairsFinite
<1>10. NumbersOf(moved) \subseteq Tables
  <2> SUFFICES ASSUME NEW n \in NumbersOf(moved) PROVE n \in Tables
    OBVIOUS
  <2>1. PICK q \in moved : n = q[2].num
    BY DEF NumbersOf
  <2>2. PICK f \in ins[1] : q = <<p[1] + 1, f>>
    OBVIOUS
  <2>3. f \in version[p[1]] /\ f.num = n
    BY <1>7, <2>1, <2>2
  <2>4. n \in Numbers(version)
    BY <1>7, <2>3, NumbersMember
  <2>5. Numbers(Current) \subseteq Tables
    BY <1>2, <1>3 DEF DiskInv
  <2>6. QED
    BY <1>3, <2>4, <2>5
<1>11. CASE IsTrivialMove(p[1], ins)
  <2> DEFINE e == EditOf(Deletions(p[1], ins), moved)
  <2>1. bg' = [bg EXCEPT !.pc = "moveManifest", !.edit = e]
    BY <1>6, <1>11
  <2>2. e.next = nextFile /\ e.added = moved
    BY DEF EditOf
  <2> HIDE DEF e, moved
  <2>3. /\ HasFields(bg') /\ bg'.pc = "moveManifest" /\ bg'.flushed = bg.flushed /\ bg'.edit = e
        /\ bg'.outs = bg.outs /\ bg'.compacting = bg.compacting
    BY <1>8, <2>1 DEF HasFields
  <2>4. ~Installing' /\ ~Sweeping' /\ bg'.pc # "idle" /\ bg'.pc # "sweepOn"
    BY <2>3 DEF Installing, Sweeping
  <2>5. bg'.edit.added = moved /\ bg'.edit.next \in Nat /\ manifestNumber' < bg'.edit.next
    BY <1>1, <1>3, <2>2, <2>3
  <2>6. BgInv'
    BY <1>1, <1>4, <1>8, <1>9, <1>10, <2>3, <2>4, <2>5 DEF BgInv
  <2>7. QED
    BY <1>1, <1>2, <1>3, <1>4, <2>4, <2>6, VersionKept, BgStep
<1>12. CASE ~IsTrivialMove(p[1], ins)
  <2> HIDE DEF moved
  <2> DEFINE gone == Deletions(p[1], ins)
             kept == Kept(version, p[1], Entries(ins[1] \cup ins[2]), OldestSnapshot)
             oldest == OldestSnapshot
             from == p[1]
  <2>1. bg' = [bg EXCEPT !.pc = "compact", !.compacting = TRUE, !.level = from, !.inputs = gone,
                         !.base = version, !.oldest = oldest, !.todo = kept]
    BY <1>6, <1>12
  <2> HIDE DEF gone, kept, oldest, from
  <2>2. /\ HasFields(bg') /\ bg'.pc = "compact" /\ bg'.flushed = bg.flushed /\ bg'.edit = bg.edit
        /\ bg'.outs = bg.outs /\ bg'.compacting = TRUE
    BY <1>8, <2>1 DEF HasFields
  <2>3. ~Recording' /\ ~Installing' /\ ~Sweeping' /\ bg'.pc # "idle" /\ bg'.pc # "sweepOn"
    BY <2>2 DEF Recording, Installing, Sweeping
  <2>4. BgInv'
    BY <1>1, <1>4, <1>8, <2>2, <2>3 DEF BgInv
  <2>5. QED
    BY <1>1, <1>2, <1>3, <1>4, <2>3, <2>4, VersionKept, BgStep
<1>13. QED
  BY <1>11, <1>12

LEMMA BackgroundStep ==
  ASSUME StoreInv, Background \/ FlushFails
  PROVE  StoreInv'
<1>1. CASE CallRefused \/ CallEnds \/ Sweep
  BY <1>1, EndCallStep
<1>2. CASE FlushTable
  BY <1>2, FlushTableStep
<1>3. CASE FlushEdit
  BY <1>3, FlushEditStep
<1>4. CASE AppendManifest
  BY <1>4, AppendManifestStep
<1>5. CASE FlushInstall
  BY <1>5, FlushInstallStep
<1>6. CASE SweepAndGoOn
  BY <1>6, SweepAndGoOnStep
<1>7. CASE StartCompaction
  BY <1>7, StartCompactionStep
<1>8. CASE WriteOutput
  BY <1>8, WriteOutputStep
<1>9. CASE FinishCompaction
  BY <1>9, FinishCompactionStep
<1>10. CASE Install
  BY <1>10, InstallStep
<1>11. CASE FlushFails \/ CompactionFails
  BY <1>11, FailStep
<1>12. QED
  BY <1>1, <1>2, <1>3, <1>4, <1>5, <1>6, <1>7, <1>8, <1>9, <1>10, <1>11 DEF Background

(***************************************************************************)
(* The queue of the writers.                                               *)
(***************************************************************************)

LEMMA QueueKept ==
  ASSUME QueueInv, UNCHANGED writeVars, queue # <<>> => phase' = "open"
  PROVE  QueueInv'
<1>1. UNCHANGED <<queue, writer, group>>
  BY DEF writeVars
<1>2. QED
  BY <1>1 DEF QueueInv

\* Who is not in the store does not wait in it.
LEMMA QueueEmpty ==
  ASSUME QueueInv, phase # "open" \/ \A w \in Writers : writer[w].pc = "idle"
  PROVE  queue = <<>>
<1> SUFFICES ASSUME queue # <<>> PROVE FALSE
  OBVIOUS
<1>1. queue \in Seq(Writers) /\ Len(queue) \in Nat /\ DOMAIN queue = 1 .. Len(queue)
  BY DEF QueueInv
<1>2. Len(queue) # 0
  BY <1>1
<1>3. 1 \in DOMAIN queue /\ queue[1] \in Writers
  BY <1>1, <1>2
<1>4. writer[queue[1]].pc # "idle"
  BY <1>3 DEF QueueInv
<1>5. QED
  BY <1>3, <1>4 DEF QueueInv

LEMMA NobodyWrites ==
  ASSUME queue' = <<>>, writer' = [w \in Writers |-> IdleWriter]
  PROVE  QueueInv'
<1>1. /\ IdleWriter \in [pc : {"idle", "queued", "head", "asleep", "logged"}, batch : Writes \cup {0}]
      /\ IdleWriter.pc = "idle"
  BY DEF IdleWriter
<1>2. \A w \in Writers : writer'[w].pc = "idle"
  BY <1>1
<1>3. writer' \in [Writers -> [pc : {"idle", "queued", "head", "asleep", "logged"}, batch : Writes \cup {0}]]
  BY <1>1
<1>4. DOMAIN queue' = {} /\ queue' \in Seq(Writers)
  OBVIOUS
<1>5. QED
  BY <1>2, <1>3, <1>4 DEF QueueInv

\* A signal turns sleepers into heads again.
LEMMA QueueSignalled ==
  ASSUME QueueInv, SignalAll, UNCHANGED <<queue, group, phase>>
  PROVE  QueueInv' /\ \A w \in Writers : writer'[w].pc # "asleep"
<1> DEFINE Pcs == {"idle", "queued", "head", "asleep", "logged"}
<1>1. writer \in [Writers -> [pc : Pcs, batch : Writes \cup {0}]]
  BY DEF QueueInv
<1>2. ASSUME NEW w \in Writers
      PROVE  /\ writer'[w] \in [pc : Pcs, batch : Writes \cup {0}]
             /\ writer'[w].pc = IF writer[w].pc = "asleep" THEN "head" ELSE writer[w].pc
  <2>1. writer[w] \in [pc : Pcs, batch : Writes \cup {0}]
    BY <1>1
  <2>2. writer'[w] = IF writer[w].pc = "asleep" THEN [writer[w] EXCEPT !.pc = "head"] ELSE writer[w]
    BY DEF SignalAll
  <2>3. QED
    BY <2>1, <2>2
<1>3. writer' \in [Writers -> [pc : Pcs, batch : Writes \cup {0}]]
  BY <1>2 DEF SignalAll
<1>4. queue \in Seq(Writers) /\ \A i \in DOMAIN queue : queue[i] \in Writers
  BY DEF QueueInv
<1>5. \A w \in Writers : writer'[w].pc # "idle" <=> \E i \in DOMAIN queue' : queue'[i] = w
  BY <1>2 DEF QueueInv
<1>6. \A i \in DOMAIN queue' : writer'[queue'[i]].pc = "queued" <=> i # 1
  BY <1>2, <1>4 DEF QueueInv
<1>7. \A w \in Writers : writer'[w].pc = "logged" => Len(group') \in 1 .. Len(queue')
  BY <1>2 DEF QueueInv
<1>8. (\A i, j \in DOMAIN queue' : queue'[i] = queue'[j] => i = j) /\ (queue' # <<>> => phase' = "open")
  BY DEF QueueInv
<1>9. QueueInv'
  BY <1>3, <1>4, <1>5, <1>6, <1>7, <1>8 DEF QueueInv
<1>10. QED
  BY <1>2, <1>9

\* The head of the queue does something else.
LEMMA HeadMoves ==
  ASSUME QueueInv, NEW w \in Writers, writer[w].pc = "head",
         NEW pc \in {"asleep", "logged"}, Set(w, pc), UNCHANGED <<queue, phase>>,
         pc = "logged" => Len(group') \in 1 .. Len(queue)
  PROVE  QueueInv'
<1> DEFINE Pcs == {"idle", "queued", "head", "asleep", "logged"}
<1>1. /\ phase = "open" /\ 1 \in DOMAIN queue /\ queue[1] = w
      /\ \A x \in Writers : writer[x].pc = "logged" => x = w
  BY HeadFacts
<1>2. writer \in [Writers -> [pc : Pcs, batch : Writes \cup {0}]]
  BY DEF QueueInv
<1>3. ASSUME NEW x \in Writers
      PROVE  /\ writer'[x] \in [pc : Pcs, batch : Writes \cup {0}]
             /\ writer'[x].pc = IF x = w THEN pc ELSE writer[x].pc
  BY <1>2 DEF Set
<1>4. writer' \in [Writers -> [pc : Pcs, batch : Writes \cup {0}]]
  BY <1>2, <1>3 DEF Set
<1>5. queue \in Seq(Writers) /\ \A i \in DOMAIN queue : queue[i] \in Writers
  BY DEF QueueInv
<1>6. \A i, j \in DOMAIN queue : queue[i] = queue[j] => i = j
  BY DEF QueueInv
<1>7. \A x \in Writers : writer'[x].pc # "idle" <=> \E i \in DOMAIN queue' : queue'[i] = x
  BY <1>1, <1>3 DEF QueueInv
<1>8. \A i \in DOMAIN queue' : writer'[queue'[i]].pc = "queued" <=> i # 1
  <2> SUFFICES ASSUME NEW i \in DOMAIN queue PROVE writer'[queue[i]].pc = "queued" <=> i # 1
    OBVIOUS
  <2>1. queue[i] = w <=> i = 1
    BY <1>1, <1>6
  <2>2. writer[queue[i]].pc = "queued" <=> i # 1
    BY DEF QueueInv
  <2>3. QED
    BY <1>3, <1>5, <2>1, <2>2
<1>9. \A x \in Writers : writer'[x].pc = "logged" => Len(group') \in 1 .. Len(queue')
  <2> SUFFICES ASSUME NEW x \in Writers, writer'[x].pc = "logged" PROVE Len(group') \in 1 .. Len(queue)
    OBVIOUS
  <2>1. x = w
    BY <1>1, <1>3
  <2>2. pc = "logged"
    BY <1>3, <2>1
  <2>3. QED
    BY <2>2
<1>10. QED
  BY <1>1, <1>4, <1>5, <1>6, <1>7, <1>8, <1>9 DEF QueueInv

\* The first writers leave, and the next one becomes the head.
LEMMA QueueLeft ==
  ASSUME QueueInv, NEW n \in 1 .. Len(queue), NEW result, Leave(n, result), UNCHANGED phase
  PROVE  /\ QueueInv'
         /\ \A x \in Writers : writer'[x].pc = "asleep" => writer[x].pc = "asleep"
<1> DEFINE Pcs == {"idle", "queued", "head", "asleep", "logged"}
           gone == {queue[i] : i \in 1 .. n}
<1>1. /\ queue \in Seq(Writers) /\ Len(queue) \in Nat /\ DOMAIN queue = 1 .. Len(queue)
      /\ \A i \in DOMAIN queue : queue[i] \in Writers
  BY DEF QueueInv
<1>2. /\ Rest(n) \in Seq(Writers) /\ Len(Rest(n)) = Len(queue) - n
      /\ \A i \in 1 .. Len(queue) - n : Rest(n)[i] = queue[n + i]
  <2>1. n + 1 \in Int /\ Len(queue) \in Int /\ \A i \in n + 1 .. Len(queue) : queue[i] \in Writers
    BY <1>1
  <2>2. /\ Rest(n) \in Seq(Writers)
        /\ Len(Rest(n)) = IF n + 1 <= Len(queue) THEN Len(queue) - (n + 1) + 1 ELSE 0
        /\ \A i \in 1 .. Len(queue) - (n + 1) + 1 : Rest(n)[i] = queue[n + 1 + i - 1]
    BY <2>1, SubSeqProperties DEF Rest
  <2>3. ASSUME NEW k \in Nat, NEW j \in 1 .. k
        PROVE  /\ k - (j + 1) + 1 = k - j /\ (IF j + 1 <= k THEN k - (j + 1) + 1 ELSE 0) = k - j
               /\ \A i \in 1 .. k - j : j + 1 + i - 1 = j + i
    OBVIOUS
  <2>4. /\ Len(queue) - (n + 1) + 1 = Len(queue) - n
        /\ (IF n + 1 <= Len(queue) THEN Len(queue) - (n + 1) + 1 ELSE 0) = Len(queue) - n
        /\ \A i \in 1 .. Len(queue) - n : n + 1 + i - 1 = n + i
    BY <1>1, <2>3
  <2>5. \A i \in 1 .. Len(queue) - n : Rest(n)[i] = queue[n + i]
    BY <2>2, <2>4
  <2>6. QED
    BY <2>2, <2>4, <2>5
<1>3. ToSet(SubSeq(queue, 1, n)) = gone
  <2>1. /\ SubSeq(queue, 1, n) \in Seq(Writers) /\ Len(SubSeq(queue, 1, n)) = n
        /\ \A i \in 1 .. n : SubSeq(queue, 1, n)[i] = queue[i]
    BY <1>1
  <2>2. DOMAIN SubSeq(queue, 1, n) = 1 .. n
    BY <2>1
  <2>3. QED
    BY <2>1, <2>2 DEF ToSet
<1>4. /\ queue' = Rest(n) /\ DOMAIN queue' = 1 .. Len(queue) - n /\ Len(queue') = Len(queue) - n
      /\ \A i \in DOMAIN queue' : queue'[i] = queue[n + i] /\ n + i \in DOMAIN queue /\ n + i # 1
  BY <1>1, <1>2 DEF Leave
<1> DEFINE next(x) == queue' # <<>> /\ x = queue'[1]
<1>5. ASSUME NEW x \in Writers
      PROVE  writer'[x] = IF x \in gone THEN IdleWriter
                          ELSE IF next(x) THEN [writer[x] EXCEPT !.pc = "head"] ELSE writer[x]
  <2>1. Rest(n) # <<>> => Head(Rest(n)) = Rest(n)[1]
    BY <1>2
  <2>2. QED
    BY <1>3, <1>4, <2>1 DEF Leave
<1> HIDE DEF gone
<1>6. writer \in [Writers -> [pc : Pcs, batch : Writes \cup {0}]]
  BY DEF QueueInv
<1>7. ASSUME NEW x \in Writers
      PROVE  /\ writer'[x] \in [pc : Pcs, batch : Writes \cup {0}]
             /\ writer'[x].pc = IF x \in gone THEN "idle" ELSE IF next(x) THEN "head" ELSE writer[x].pc
  <2>1. writer[x] \in [pc : Pcs, batch : Writes \cup {0}]
    BY <1>6
  <2>2. IdleWriter \in [pc : Pcs, batch : Writes \cup {0}] /\ IdleWriter.pc = "idle"
    BY DEF IdleWriter
  <2>3. /\ [writer[x] EXCEPT !.pc = "head"] \in [pc : Pcs, batch : Writes \cup {0}]
        /\ [writer[x] EXCEPT !.pc = "head"].pc = "head"
    BY <2>1
  <2>4. QED
    BY <1>5, <2>1, <2>2, <2>3
<1>8. writer' \in [Writers -> [pc : Pcs, batch : Writes \cup {0}]]
  <2>1. writer' = [x \in Writers |-> writer'[x]]
    BY DEF Leave
  <2>2. QED
    BY <1>7, <2>1
<1>9. \A i, j \in DOMAIN queue : queue[i] = queue[j] => i = j
  BY DEF QueueInv
<1>10. \A i \in DOMAIN queue' : queue'[i] \notin gone
  <2> SUFFICES ASSUME NEW i \in DOMAIN queue', queue'[i] \in gone PROVE FALSE
    OBVIOUS
  <2>1. PICK j \in 1 .. n : queue'[i] = queue[j]
    BY DEF gone
  <2>2. j \in DOMAIN queue /\ queue[j] = queue[n + i] /\ n + i \in DOMAIN queue
    BY <1>1, <1>4, <2>1
  <2>3. j = n + i
    BY <1>9, <2>2
  <2>4. QED
    BY <1>4, <2>3
<1>11. \A i, j \in DOMAIN queue' : queue'[i] = queue'[j] => i = j
  <2> SUFFICES ASSUME NEW i \in DOMAIN queue', NEW j \in DOMAIN queue', queue'[i] = queue'[j] PROVE i = j
    OBVIOUS
  <2>1. n + i = n + j
    BY <1>4, <1>9
  <2>2. QED
    BY <1>4, <2>1
<1>12. ASSUME NEW i \in DOMAIN queue'
       PROVE  next(queue'[i]) <=> i = 1
  <2>1. queue' # <<>> /\ 1 \in DOMAIN queue'
    BY <1>4
  <2>2. QED
    BY <1>11, <2>1
<1>13. \A i \in DOMAIN queue' : writer'[queue'[i]].pc = "queued" <=> i # 1
  <2> SUFFICES ASSUME NEW i \in DOMAIN queue' PROVE writer'[queue'[i]].pc = "queued" <=> i # 1
    OBVIOUS
  <2>1. writer[queue[n + i]].pc = "queued"
    BY <1>4 DEF QueueInv
  <2>2. queue'[i] \in Writers /\ queue'[i] \notin gone
    BY <1>1, <1>4, <1>10
  <2>3. QED
    BY <1>4, <1>7, <1>12, <2>1, <2>2
<1>14. \A x \in Writers : writer'[x].pc # "idle" <=> \E i \in DOMAIN queue' : queue'[i] = x
  <2> SUFFICES ASSUME NEW x \in Writers
               PROVE  writer'[x].pc # "idle" <=> \E i \in DOMAIN queue' : queue'[i] = x
    OBVIOUS
  <2>1. CASE x \in gone
    BY <1>7, <1>10, <2>1
  <2>2. CASE \E i \in DOMAIN queue' : queue'[i] = x
    <3>1. PICK i \in DOMAIN queue' : queue'[i] = x
      BY <2>2
    <3>2. x \notin gone /\ writer[x].pc = "queued"
      BY <1>4, <1>10, <3>1 DEF QueueInv
    <3>3. QED
      BY <1>7, <2>2, <3>2
  <2>3. CASE x \notin gone /\ ~\E i \in DOMAIN queue' : queue'[i] = x
    <3>1. ~\E i \in DOMAIN queue : queue[i] = x
      <4> SUFFICES ASSUME NEW i \in DOMAIN queue, queue[i] = x PROVE FALSE
        OBVIOUS
      <4>1. CASE i <= n
        BY <1>1, <2>3, <4>1 DEF gone
      <4>2. CASE i > n
        <5>1. i - n \in DOMAIN queue' /\ n + (i - n) = i
          BY <1>1, <1>4, <4>2
        <5>2. queue'[i - n] = x
          BY <1>4, <5>1
        <5>3. QED
          BY <2>3, <5>1, <5>2
      <4>3. QED
        BY <1>1, <4>1, <4>2
    <3>2. writer[x].pc = "idle"
      BY <3>1 DEF QueueInv
    <3>3. ~next(x)
      <4>1. queue' # <<>> => 1 \in DOMAIN queue'
        BY <1>2, <1>4
      <4>2. QED
        BY <2>3, <4>1
    <3>4. QED
      BY <1>7, <2>3, <3>2, <3>3
  <2>4. QED
    BY <2>1, <2>2, <2>3
<1>15. ASSUME NEW x \in Writers, writer'[x].pc \in {"asleep", "logged"}
       PROVE  FALSE
  <2>1. x \notin gone /\ writer[x].pc \in {"asleep", "logged"}
    BY <1>7, <1>15
  <2>2. queue[1] = x
    BY <2>1, HeadFacts
  <2>3. QED
    BY <1>1, <2>1, <2>2 DEF gone
<1>16. queue' \in Seq(Writers)
  BY <1>2, <1>4
<1>17. queue' # <<>> => phase' = "open"
  <2>1. queue # <<>>
    BY <1>1
  <2>2. QED
    BY <2>1 DEF QueueInv
<1>18. QueueInv'
  BY <1>8, <1>11, <1>13, <1>14, <1>15, <1>16, <1>17 DEF QueueInv
<1>19. QED
  BY <1>15, <1>18

LEMMA WriteQueue ==
  ASSUME QueueInv, NEW w \in Writers, Write(w)
  PROVE  QueueInv' /\ \A x \in Writers : writer'[x].pc = "asleep" => writer[x].pc = "asleep"
<1> DEFINE Pcs == {"idle", "queued", "head", "asleep", "logged"}
           pc == IF queue = <<>> THEN "head" ELSE "queued"
<1>1. PICK b \in Writes : writer' = [writer EXCEPT ![w] = [pc |-> pc, batch |-> b]]
  BY DEF Write
<1>2. /\ phase = "open" /\ phase' = "open" /\ writer[w].pc = "idle"
      /\ queue' = Append(queue, w) /\ group' = group
  BY DEF Write, openVars
<1>3. /\ queue \in Seq(Writers) /\ Len(queue) \in Nat /\ DOMAIN queue = 1 .. Len(queue)
      /\ \A i \in DOMAIN queue : queue[i] \in Writers
      /\ writer \in [Writers -> [pc : Pcs, batch : Writes \cup {0}]]
  BY DEF QueueInv
<1>4. /\ queue' \in Seq(Writers) /\ Len(queue') = Len(queue) + 1
      /\ DOMAIN queue' = 1 .. Len(queue) + 1
      /\ \A i \in DOMAIN queue : queue'[i] = queue[i]
      /\ queue'[Len(queue) + 1] = w
  BY <1>2, <1>3
<1>5. pc \in Pcs /\ pc \notin {"idle", "asleep", "logged"} /\ (pc = "queued" <=> Len(queue) + 1 # 1)
  BY <1>3
<1> HIDE DEF pc
<1>6. ASSUME NEW x \in Writers
      PROVE  /\ writer'[x] \in [pc : Pcs, batch : Writes \cup {0}]
             /\ writer'[x].pc = IF x = w THEN pc ELSE writer[x].pc
  BY <1>1, <1>3, <1>5
<1>7. writer' \in [Writers -> [pc : Pcs, batch : Writes \cup {0}]]
  BY <1>1, <1>3, <1>6
<1>8. \A i \in DOMAIN queue : queue[i] # w
  BY <1>2 DEF QueueInv
<1>9. \A i, j \in DOMAIN queue' : queue'[i] = queue'[j] => i = j
  <2> SUFFICES ASSUME NEW i \in DOMAIN queue', NEW j \in DOMAIN queue', queue'[i] = queue'[j] PROVE i = j
    OBVIOUS
  <2>1. CASE i \in DOMAIN queue /\ j \in DOMAIN queue
    BY <1>4, <2>1 DEF QueueInv
  <2>2. CASE i = Len(queue) + 1
    BY <1>3, <1>4, <1>8, <2>2
  <2>3. CASE j = Len(queue) + 1
    BY <1>3, <1>4, <1>8, <2>3
  <2>4. QED
    BY <1>3, <1>4, <2>1, <2>2, <2>3
<1>10. \A x \in Writers : writer'[x].pc # "idle" <=> \E i \in DOMAIN queue' : queue'[i] = x
  <2> SUFFICES ASSUME NEW x \in Writers
               PROVE  writer'[x].pc # "idle" <=> \E i \in DOMAIN queue' : queue'[i] = x
    OBVIOUS
  <2>1. CASE x = w
    <3>1. Len(queue) + 1 \in DOMAIN queue' /\ queue'[Len(queue) + 1] = x
      BY <1>3, <1>4, <2>1
    <3>2. QED
      BY <1>5, <1>6, <2>1, <3>1
  <2>2. CASE x # w
    <3>1. writer[x].pc # "idle" <=> \E i \in DOMAIN queue : queue[i] = x
      BY DEF QueueInv
    <3>2. (\E i \in DOMAIN queue' : queue'[i] = x) <=> \E i \in DOMAIN queue : queue[i] = x
      BY <1>3, <1>4, <2>2
    <3>3. QED
      BY <1>6, <2>2, <3>1, <3>2
  <2>3. QED
    BY <2>1, <2>2
<1>11. \A i \in DOMAIN queue' : writer'[queue'[i]].pc = "queued" <=> i # 1
  <2> SUFFICES ASSUME NEW i \in DOMAIN queue' PROVE writer'[queue'[i]].pc = "queued" <=> i # 1
    OBVIOUS
  <2>1. CASE i = Len(queue) + 1
    BY <1>4, <1>5, <1>6, <2>1
  <2>2. CASE i \in DOMAIN queue
    <3>1. writer[queue[i]].pc = "queued" <=> i # 1
      BY <2>2 DEF QueueInv
    <3>2. queue'[i] = queue[i] /\ queue[i] \in Writers /\ queue[i] # w
      BY <1>3, <1>4, <1>8, <2>2
    <3>3. QED
      BY <1>6, <3>1, <3>2
  <2>3. QED
    BY <1>3, <1>4, <2>1, <2>2
<1>12. \A x \in Writers : writer'[x].pc = "logged" => Len(group') \in 1 .. Len(queue')
  <2> SUFFICES ASSUME NEW x \in Writers, writer'[x].pc = "logged" PROVE Len(group') \in 1 .. Len(queue')
    OBVIOUS
  <2>1. writer[x].pc = "logged"
    BY <1>5, <1>6
  <2>2. Len(group) \in 1 .. Len(queue)
    BY <2>1 DEF QueueInv
  <2>3. QED
    BY <1>2, <1>3, <1>4, <2>2
<1>13. \A x \in Writers : writer'[x].pc = "asleep" => writer[x].pc = "asleep"
  BY <1>5, <1>6
<1>14. QueueInv'
  BY <1>2, <1>4, <1>7, <1>9, <1>10, <1>11, <1>12 DEF QueueInv
<1>15. QED
  BY <1>13, <1>14

LEMMA AppendLogQueue ==
  ASSUME QueueInv, NEW w \in Writers, AppendLog(w)
  PROVE  QueueInv' /\ \A x \in Writers : writer'[x].pc = "asleep" => writer[x].pc = "asleep"
<1>1. /\ writer[w].pc = "head" /\ Set(w, "logged") /\ UNCHANGED <<queue, phase>>
      /\ group' = SubSeq(queue, 1, Min({GroupSize, Len(queue)}))
  BY DEF AppendLog, openVars
<1>2. queue \in Seq(Writers) /\ Len(queue) \in Nat \ {0} /\ DOMAIN queue = 1 .. Len(queue)
  BY <1>1, HeadFacts DEF QueueInv
<1>3. GroupSize \in Nat \ {0}
  BY LevelDbAssumption
<1> DEFINE n == Min({GroupSize, Len(queue)})
<1>4. n \in {GroupSize, Len(queue)} /\ n <= Len(queue)
  BY <1>2, <1>3, MinOfTwo
<1> HIDE DEF n
<1>5. n \in 1 .. Len(queue)
  <2>1. n \in Nat /\ n # 0
    <3>1. CASE n = GroupSize
      BY <1>3, <3>1
    <3>2. CASE n = Len(queue)
      BY <1>2, <3>2
    <3>3. QED
      BY <1>4, <3>1, <3>2
  <2>2. n >= 1
    BY <2>1
  <2>3. Len(queue) \in Int
    BY <1>2
  <2>4. n \in Int
    BY <2>1
  <2>5. 1 <= n
    BY <2>2
  <2>6. n <= Len(queue)
    BY <1>4
  <2>7. Len(queue) \in Int /\ n \in Int /\ 1 <= n /\ n <= Len(queue)
    BY <2>3, <2>4, <2>5, <2>6
  <2>8. QED
    BY <2>7
<1>6. Len(SubSeq(queue, 1, n)) = n
  BY <1>2, <1>5, SubSeqProperties
<1>7. Len(group') \in 1 .. Len(queue)
  BY <1>1, <1>5, <1>6 DEF n
<1>8. QueueInv'
  BY <1>1, <1>7, HeadMoves
<1>9. \A x \in Writers : writer'[x].pc = "asleep" => writer[x].pc = "asleep"
  BY <1>1 DEF Set, QueueInv
<1>10. QED
  BY <1>8, <1>9

LEMMA LeaveQueue ==
  ASSUME QueueInv, NEW w \in Writers, Refused(w) \/ NoNewLog(w) \/ Insert(w)
  PROVE  QueueInv' /\ \A x \in Writers : writer'[x].pc = "asleep" => writer[x].pc = "asleep"
<1>1. UNCHANGED phase
  BY DEF Refused, NoNewLog, Insert, openVars
<1>2. \E n \in 1 .. Len(queue) : \E result : Leave(n, result)
  <2>1. CASE Refused(w) \/ NoNewLog(w)
    <3>1. writer[w].pc = "head" /\ Leave(1, "error")
      BY <2>1 DEF Refused, NoNewLog
    <3>2. 1 \in 1 .. Len(queue)
      BY <3>1, HeadFacts
    <3>3. QED
      BY <3>1, <3>2
  <2>2. CASE Insert(w)
    <3>1. writer[w].pc = "logged" /\ Leave(Len(group), "ok")
      BY <2>2 DEF Insert
    <3>2. Len(group) \in 1 .. Len(queue)
      BY <3>1 DEF QueueInv
    <3>3. QED
      BY <3>1, <3>2
  <2>3. QED
    BY <2>1, <2>2
<1>3. QED
  BY <1>1, <1>2, QueueLeft

(***************************************************************************)
(* Scheduling of the background thread.                                    *)
(***************************************************************************)

LEMMA ScheduleKept ==
  ASSUME ScheduleInv, UNCHANGED <<phase, version, imm, bgScheduled, bgError, seekFile>>,
         \A w \in Writers : writer'[w].pc = "asleep" => writer[w].pc = "asleep"
  PROVE  ScheduleInv'
<1>1. NeedsCompaction(version', seekFile') = NeedsCompaction(version, seekFile)
  OBVIOUS
<1>2. NeedsCompaction(version, seekFile)' = NeedsCompaction(version', seekFile')
  BY DEF NeedsCompaction
<1>3. QED
  BY <1>1, <1>2 DEF ScheduleInv

LEMMA ScheduleRunning ==
  ASSUME bgScheduled'
  PROVE  ScheduleInv'
  BY DEF ScheduleInv

LEMMA Rescheduled ==
  ASSUME ScheduleInv, MaybeSchedule(version', imm', bgError', seekFile'), UNCHANGED writer
  PROVE  ScheduleInv' /\ (bgScheduled => bgScheduled')
<1>1. NeedsCompaction(version, seekFile)' = NeedsCompaction(version', seekFile')
  BY DEF NeedsCompaction
<1>2. bgScheduled' = (bgScheduled \/ (phase' = "open" /\ ~bgError' /\
                        (imm' # NoMem \/ NeedsCompaction(version', seekFile'))))
  BY DEF MaybeSchedule
<1>3. QED
  BY <1>1, <1>2 DEF ScheduleInv

(***************************************************************************)
(* Every step keeps the invariant.                                         *)
(***************************************************************************)

LEMMA ForgottenQueues ==
  ASSUME ForgetMemory
  PROVE  QueueInv' /\ ScheduleInv'
<1>1. queue' = <<>> /\ writer' = [w \in Writers |-> IdleWriter] /\ phase' = "closed"
  BY DEF ForgetMemory
<1>2. \A w \in Writers : writer'[w].pc = "idle"
  BY <1>1 DEF IdleWriter
<1>3. ScheduleInv'
  BY <1>1, <1>2 DEF ScheduleInv
<1>4. QED
  BY <1>1, <1>3, NobodyWrites

LEMMA DbInit == Init => DbInv
<1> SUFFICES ASSUME Init PROVE DbInv
  OBVIOUS
<1>1. queue = <<>> /\ writer = [w \in Writers |-> IdleWriter] /\ phase = "closed"
  BY DEF Init
<1>2. \A w \in Writers : writer[w].pc = "idle"
  BY <1>1 DEF IdleWriter
<1>3. ScheduleInv
  BY <1>1, <1>2 DEF ScheduleInv
<1>4. QueueInv
  <2>1. /\ IdleWriter \in [pc : {"idle", "queued", "head", "asleep", "logged"}, batch : Writes \cup {0}]
    BY DEF IdleWriter
  <2>2. writer \in [Writers -> [pc : {"idle", "queued", "head", "asleep", "logged"}, batch : Writes \cup {0}]]
    BY <1>1, <2>1
  <2>3. DOMAIN queue = {} /\ queue \in Seq(Writers)
    BY <1>1
  <2>4. QED
    BY <1>1, <1>2, <2>2, <2>3 DEF QueueInv
<1>5. QED
  BY <1>3, <1>4, StoreInit DEF DbInv

LEMMA OpeningKeepsDb ==
  ASSUME DbInv, Opening
  PROVE  DbInv'
<1>1. StoreInv /\ QueueInv /\ ScheduleInv
  BY DEF DbInv
<1>2. StoreInv'
  BY <1>1, NewDbStep, NewCurrentStep, RecoverStep, ReplayLogStep, NewLogStep, SaveManifestStep,
     SetCurrentStep DEF Opening
<1>3. phase # "open" /\ phase \notin {"open", "closing"} /\ UNCHANGED writeVars
  BY DEF Opening, NewDb, NewCurrent, Recover, ReplayLog, NewLog, SaveManifest, SetCurrent
<1>4. queue = <<>>
  BY <1>1, <1>3, QueueEmpty
<1>5. QueueInv'
  BY <1>1, <1>3, <1>4, QueueKept
<1>6. \A w \in Writers : writer'[w].pc # "asleep"
  <2>1. \A w \in Writers : writer[w].pc = "idle"
    BY <1>1, <1>4 DEF QueueInv
  <2>2. QED
    BY <1>3, <2>1 DEF writeVars
<1>7. ScheduleInv'
  <2>1. CASE SetCurrent
    <3>1. /\ MaybeSchedule(version', imm, FALSE, {}) /\ UNCHANGED <<imm, seekFile>>
      BY <2>1 DEF SetCurrent, memVars
    <3>2. seekFile = {}
      BY <1>1, <1>3 DEF StoreInv, MemoryInv, InUse
    <3>3. NeedsCompaction(version, seekFile)' = NeedsCompaction(version', {})
      BY <3>1, <3>2 DEF NeedsCompaction
    <3>4. bgScheduled' = (bgScheduled \/ (phase' = "open" /\ (imm # NoMem \/ NeedsCompaction(version', {}))))
      BY <3>1 DEF MaybeSchedule
    <3>5. QED
      BY <1>6, <3>1, <3>3, <3>4 DEF ScheduleInv
  <2>2. CASE ~SetCurrent
    <3>1. phase' # "open"
      BY <1>3, <2>2 DEF Opening, NewDb, NewCurrent, Recover, ReplayLog, NewLog, SaveManifest, openVars
    <3>2. QED
      BY <1>6, <3>1 DEF ScheduleInv
  <2>3. QED
    BY <2>1, <2>2
<1>8. QED
  BY <1>2, <1>5, <1>7 DEF DbInv

LEMMA EndKeepsDb ==
  ASSUME DbInv, OpenFails \/ DieCleaning \/ Closed \/ Crash
  PROVE  DbInv'
<1>1. StoreInv
  BY DEF DbInv
<1>2. StoreInv'
  BY <1>1, OpenFailsStep, DieCleaningStep, EndStep
<1>3. ForgetMemory
  BY DEF OpenFails, DieCleaning, Closed, Crash
<1>4. QED
  BY <1>2, <1>3, ForgottenQueues DEF DbInv

LEMMA SleepStep ==
  ASSUME DbInv, NEW w \in Writers, Sleep(w)
  PROVE  QueueInv' /\ ScheduleInv'
<1>1. /\ writer[w].pc = "head" /\ ~bgError /\ MustWait /\ Set(w, "asleep")
      /\ UNCHANGED <<queue, phase, version, imm, bgScheduled, bgError, seekFile>>
  BY DEF Sleep, openVars, memVars, versionVars, bgVars
<1>2. StoreInv /\ QueueInv /\ ScheduleInv
  BY DEF DbInv
<1>3. phase = "open"
  BY <1>1, <1>2, HeadFacts
<1>4. Cardinality(version[0]) >= L0Stop => Cardinality(version[0]) >= L0Trigger
  <2>1. MaxLevel \in Nat /\ L0Stop \in Nat /\ L0Trigger \in Nat /\ L0Trigger <= L0Stop
    BY LevelDbAssumption
  <2>2. 0 \in Levels
    BY <2>1 DEF Levels
  <2>3. IsFiniteSet(version[0])
    BY <1>2, <2>2 DEF StoreInv, MemoryInv
  <2>4. Cardinality(version[0]) \in Nat
    BY <2>3, FS_CardinalityType
  <2>5. QED
    BY <2>1, <2>4
<1>5. imm # NoMem \/ NeedsCompaction(version, seekFile)
  BY <1>1, <1>4 DEF MustWait, NeedsCompaction
<1>6. bgScheduled'
  BY <1>1, <1>2, <1>3, <1>5 DEF ScheduleInv
<1>7. QueueInv'
  BY <1>1, <1>2, HeadMoves
<1>8. QED
  BY <1>6, <1>7, ScheduleRunning

LEMMA WritingKeepsDb ==
  ASSUME DbInv, NEW w \in Writers, Write(w) \/ Writing(w) \/ NoNewLog(w)
  PROVE  DbInv'
<1>1. StoreInv /\ QueueInv /\ ScheduleInv
  BY DEF DbInv
<1>2. CASE Write(w) \/ Refused(w) \/ Insert(w) \/ NoNewLog(w)
  <2>1. StoreInv'
    BY <1>1, <1>2, WriterStep
  <2>2. QueueInv' /\ \A x \in Writers : writer'[x].pc = "asleep" => writer[x].pc = "asleep"
    BY <1>1, <1>2, WriteQueue, LeaveQueue
  <2>3. UNCHANGED <<phase, version, imm, bgScheduled, bgError, seekFile>>
    BY <1>2 DEF Write, Refused, Insert, NoNewLog, openVars, memVars, versionVars, bgVars
  <2>4. QED
    BY <1>1, <2>1, <2>2, <2>3, ScheduleKept DEF DbInv
<1>3. CASE Sleep(w)
  <2>1. StoreInv'
    BY <1>1, <1>3, WriterStep
  <2>2. QED
    BY <1>3, <2>1, SleepStep DEF DbInv
<1>4. CASE AppendLog(w)
  <2>1. StoreInv'
    BY <1>1, <1>4, AppendLogStep
  <2>2. QueueInv' /\ \A x \in Writers : writer'[x].pc = "asleep" => writer[x].pc = "asleep"
    BY <1>1, <1>4, AppendLogQueue
  <2>3. UNCHANGED <<phase, version, imm, bgScheduled, bgError, seekFile>>
    BY <1>4 DEF AppendLog, openVars, memVars, versionVars, bgVars
  <2>4. QED
    BY <1>1, <2>1, <2>2, <2>3, ScheduleKept DEF DbInv
<1>5. CASE SwitchMemtable(w)
  <2>1. StoreInv'
    BY <1>1, <1>5, SwitchStep
  <2>2. UNCHANGED writeVars /\ UNCHANGED <<phase, version, seekFile>>
    BY <1>5 DEF SwitchMemtable, openVars, versionVars
  <2>3. MaybeSchedule(version, imm', bgError', seekFile) /\ writer' = writer
    BY <1>5 DEF SwitchMemtable, writeVars
  <2>4. MaybeSchedule(version', imm', bgError', seekFile')
    BY <2>2, <2>3
  <2>5. queue # <<>> => phase' = "open"
    BY <1>1, <2>2 DEF QueueInv
  <2>6. QED
    BY <1>1, <2>1, <2>2, <2>3, <2>4, <2>5, QueueKept, Rescheduled DEF DbInv
<1>6. QED
  BY <1>2, <1>3, <1>4, <1>5 DEF Writing

LEMMA ReadingKeepsDb ==
  ASSUME DbInv, (\E r \in Readers : BeginRead(r) \/ EndRead(r)) \/ GetSnapshot \/ ReleaseSnapshot \/ Close
  PROVE  DbInv'
<1>1. StoreInv /\ QueueInv /\ ScheduleInv
  BY DEF DbInv
<1>2. StoreInv'
  BY <1>1, ReaderStep, ReleaseStep
<1>3. UNCHANGED writeVars /\ writer' = writer
  BY DEF BeginRead, EndRead, GetSnapshot, ReleaseSnapshot, Close, writeVars
<1>4. CASE (\E r \in Readers : BeginRead(r)) \/ GetSnapshot \/ ReleaseSnapshot
  <2>1. UNCHANGED <<phase, version, imm, bgScheduled, bgError, seekFile>>
    BY <1>4 DEF BeginRead, GetSnapshot, ReleaseSnapshot, openVars, memVars, versionVars, bgVars
  <2>2. queue # <<>> => phase' = "open"
    BY <1>1, <2>1 DEF QueueInv
  <2>3. QED
    BY <1>1, <1>2, <1>3, <2>1, <2>2, QueueKept, ScheduleKept DEF DbInv
<1>5. CASE \E r \in Readers : EndRead(r)
  <2>1. UNCHANGED <<phase, version, imm, bgError>> /\ MaybeSchedule(version, imm, bgError, seekFile')
    BY <1>5 DEF EndRead, openVars, memVars, versionVars
  <2>2. MaybeSchedule(version', imm', bgError', seekFile')
    BY <2>1
  <2>3. queue # <<>> => phase' = "open"
    BY <1>1, <2>1 DEF QueueInv
  <2>4. QED
    BY <1>1, <1>2, <1>3, <2>2, <2>3, QueueKept, Rescheduled DEF DbInv
<1>6. CASE Close
  <2>1. phase' = "closing" /\ bgScheduled' = bgScheduled /\ \A w \in Writers : writer[w].pc = "idle"
    BY <1>6 DEF Close, bgVars
  <2>2. queue = <<>>
    BY <1>1, <2>1, QueueEmpty
  <2>3. ScheduleInv'
    BY <1>3, <2>1 DEF ScheduleInv
  <2>4. QED
    BY <1>1, <1>2, <1>3, <2>2, <2>3, QueueKept DEF DbInv
<1>7. QED
  BY <1>4, <1>5, <1>6

LEMMA BackgroundKeepsDb ==
  ASSUME DbInv, Background \/ FlushFails
  PROVE  DbInv'
<1>1. StoreInv /\ QueueInv /\ ScheduleInv
  BY DEF DbInv
<1>2. StoreInv'
  BY <1>1, BackgroundStep
<1>3. UNCHANGED <<queue, group, phase>>
  BY DEF Background, FlushFails, CallRefused, FlushTable, FlushEdit, AppendManifest, FlushInstall, Sweep,
         SweepAndGoOn, CallEnds, StartCompaction, WriteOutput, FinishCompaction, Install, CompactionFails,
         openVars, writeVars
<1>4. SignalAll \/ UNCHANGED writeVars
  BY DEF Background, FlushFails, CallRefused, FlushTable, FlushEdit, AppendManifest, FlushInstall, Sweep,
         SweepAndGoOn, CallEnds, StartCompaction, WriteOutput, FinishCompaction, Install, CompactionFails,
         EndCall, Fail, writeVars
<1>5. QueueInv'
  <2>1. CASE SignalAll
    BY <1>1, <1>3, <2>1, QueueSignalled
  <2>2. CASE UNCHANGED writeVars
    <3>1. queue # <<>> => phase' = "open"
      BY <1>1, <1>3 DEF QueueInv
    <3>2. QED
      BY <1>1, <2>2, <3>1, QueueKept
  <2>3. QED
    BY <1>4, <2>1, <2>2
<1>6. ScheduleInv'
  <2>1. CASE CallRefused \/ CallEnds \/ Sweep
    <3>1. /\ EndCall(version, imm, bgError, seekFile)
          /\ UNCHANGED <<phase, version, imm, bgError, seekFile>>
      BY <2>1 DEF CallRefused, CallEnds, Sweep, openVars, memVars, versionVars
    <3>2. /\ bgScheduled' = (phase = "open" /\ ~bgError /\ (imm # NoMem \/ NeedsCompaction(version, seekFile)))
          /\ SignalAll
      BY <3>1 DEF EndCall
    <3>3. \A w \in Writers : writer'[w].pc # "asleep"
      BY <1>1, <1>3, <3>2, QueueSignalled
    <3>4. NeedsCompaction(version, seekFile)' = NeedsCompaction(version, seekFile)
      BY <3>1 DEF NeedsCompaction
    <3>5. QED
      BY <3>1, <3>2, <3>3, <3>4 DEF ScheduleInv
  <2>2. CASE ~(CallRefused \/ CallEnds \/ Sweep)
    <3>1. bgScheduled' = bgScheduled
      BY <2>2 DEF Background, FlushFails, FlushTable, FlushEdit, AppendManifest, FlushInstall,
                  SweepAndGoOn, StartCompaction, WriteOutput, FinishCompaction, Install, CompactionFails
    <3>2. bg.pc # "idle" \/ BgRuns
      BY <2>2 DEF Background, FlushFails, FlushTable, FlushEdit, AppendManifest, FlushInstall,
                  SweepAndGoOn, StartCompaction, WriteOutput, FinishCompaction, Install, CompactionFails
    <3>3. bgScheduled
      BY <1>1, <3>2, BgActive DEF BgRuns
    <3>4. QED
      BY <3>1, <3>3, ScheduleRunning
  <2>3. QED
    BY <2>1, <2>2
<1>7. QED
  BY <1>2, <1>5, <1>6 DEF DbInv

LEMMA DbStep == DbInv /\ [Next]_vars => DbInv'
<1> SUFFICES ASSUME DbInv, [Next]_vars PROVE DbInv'
  OBVIOUS
<1>1. CASE UNCHANGED vars
  <2>1. StoreInv /\ QueueInv /\ ScheduleInv
    BY DEF DbInv
  <2>2. UNCHANGED <<disk, nextFile, phase, recovery, imm, memLog, lastSequence, version,
                    manifestNumber, bg, bgScheduled, bgError, seekFile, reader>>
    BY <1>1 DEF vars, openVars, memVars, versionVars, bgVars, readVars
  <2>3. UNCHANGED writeVars /\ writer' = writer
    BY <1>1 DEF vars, writeVars
  <2>4. queue # <<>> => phase' = "open"
    BY <2>1, <2>2 DEF QueueInv
  <2>5. QED
    BY <2>1, <2>2, <2>3, <2>4, Stutter, QueueKept, ScheduleKept DEF DbInv
<1>2. CASE Next
  <2>1. CASE Opening
    BY <2>1, OpeningKeepsDb
  <2>2. CASE OpenFails \/ DieCleaning \/ Closed \/ Crash
    BY <2>2, EndKeepsDb
  <2>3. CASE \E w \in Writers : Write(w) \/ Writing(w) \/ NoNewLog(w)
    BY <2>3, WritingKeepsDb
  <2>4. CASE Background \/ FlushFails
    BY <2>4, BackgroundKeepsDb
  <2>5. CASE (\E r \in Readers : BeginRead(r) \/ EndRead(r)) \/ GetSnapshot \/ ReleaseSnapshot \/ Close
    BY <2>5, ReadingKeepsDb
  <2>6. QED
    BY <1>2, <2>1, <2>2, <2>3, <2>4, <2>5 DEF Next
<1>3. QED
  BY <1>1, <1>2

(***************************************************************************)
(* The files somebody reads.                                               *)
(***************************************************************************)

\* Tables of the current version and of those a reader holds. None of them is
\* among what the background thread is about to remove: it listed that under the
\* mutex, and a version made or taken up since has no older file but these.
Needed == Numbers(version) \cup UNION {Numbers(reader[r].version) : r \in {s \in Readers : reader[s].pc = "reading"}}

FilesInv ==
  /\ reader = [r \in Readers |-> reader[r]]
  /\ InUse => /\ Needed \subseteq Tables
              /\ Sweeping => \A n \in Needed : <<"table", n>> \notin bg.doomed

LEMMA NeededMember ==
  ASSUME NEW n
  PROVE  n \in Needed <=> \/ n \in Numbers(version)
                          \/ \E r \in Readers : reader[r].pc = "reading" /\ n \in Numbers(reader[r].version)
  BY DEF Needed

LEMMA FilesInit == Init => FilesInv
<1> SUFFICES ASSUME Init PROVE FilesInv
  OBVIOUS
<1>1. phase = "closed" /\ reader = [r \in Readers |-> IdleReader]
  BY DEF Init
<1>2. QED
  BY <1>1 DEF FilesInv, InUse

\* A step of a caller, or of the background thread between two sweeps.
LEMMA FilesKept ==
  ASSUME FilesInv, InUse, Tables \subseteq Tables', version' = version, reader' = reader,
         ~Sweeping' \/ bg' = bg
  PROVE  FilesInv'
<1>1. Needed' = Needed
  BY DEF Needed
<1>2. Needed \subseteq Tables /\ (Sweeping => \A n \in Needed : <<"table", n>> \notin bg.doomed)
  BY DEF FilesInv
<1>3. Sweeping' => \A n \in Needed' : <<"table", n>> \notin bg'.doomed
  BY <1>1, <1>2 DEF Sweeping
<1>4. QED
  BY <1>1, <1>2, <1>3 DEF FilesInv

LEMMA FilesOfWriters ==
  ASSUME DbInv, FilesInv, NEW w \in Writers, Write(w) \/ Writing(w) \/ NoNewLog(w)
  PROVE  FilesInv'
<1>1. DiskInv /\ QueueInv
  BY DEF DbInv, StoreInv
<1>2. UNCHANGED <<version, reader, bg>> /\ phase = "open"
  <2>1. UNCHANGED <<version, reader, bg>>
    BY DEF Write, Writing, Refused, Sleep, SwitchMemtable, AppendLog, Insert, NoNewLog, versionVars, readVars, bgVars
  <2>2. phase = "open" \/ writer[w].pc \in {"head", "logged"}
    BY DEF Write, Writing, Refused, Sleep, SwitchMemtable, AppendLog, Insert, NoNewLog
  <2>3. QED
    BY <1>1, <2>1, <2>2, HeadFacts
<1>3. disk' = disk \/ \E ls : disk' = [disk EXCEPT !.logs = ls]
  <2>1. CASE SwitchMemtable(w)
    BY <2>1 DEF SwitchMemtable
  <2>2. CASE AppendLog(w)
    <3> DEFINE ls == [disk.logs EXCEPT ![memLog] = Append(@, GroupEntries(group'))]
    <3>1. disk' = [disk EXCEPT !.logs = ls]
      BY <2>2 DEF AppendLog
    <3>2. QED
      BY <3>1
  <2>3. CASE ~SwitchMemtable(w) /\ ~AppendLog(w)
    BY <2>3 DEF Write, Writing, Refused, Sleep, Insert, NoNewLog
  <2>4. QED
    BY <2>1, <2>2, <2>3
<1>4. Tables' = Tables
  <2>1. ASSUME NEW ls, disk' = [disk EXCEPT !.logs = ls] PROVE disk'.tables = disk.tables
    BY <1>1, <2>1 DEF DiskInv
  <2>2. QED
    BY <1>3, <2>1 DEF Tables
<1>5. QED
  BY <1>2, <1>4, FilesKept DEF InUse

LEMMA FilesOfReaders ==
  ASSUME DbInv, FilesInv,
         (\E r \in Readers : BeginRead(r) \/ EndRead(r)) \/ GetSnapshot \/ ReleaseSnapshot \/ Close
  PROVE  FilesInv'
<1>1. UNCHANGED <<disk, version, bg>> /\ Tables' = Tables
  BY DEF BeginRead, EndRead, GetSnapshot, ReleaseSnapshot, Close, versionVars, bgVars, Tables
<1>2. CASE GetSnapshot \/ Close
  BY <1>1, <1>2, FilesKept DEF GetSnapshot, Close, readVars, InUse
<1>3. CASE ReleaseSnapshot
  <2>1. UNCHANGED <<phase, reader>>
    BY <1>3 DEF ReleaseSnapshot, openVars
  <2>2. CASE InUse
    BY <1>1, <2>1, <2>2, FilesKept
  <2>3. CASE ~InUse
    BY <2>1, <2>3 DEF FilesInv, InUse
  <2>4. QED
    BY <2>2, <2>3
<1>4. CASE \E r \in Readers : BeginRead(r) \/ EndRead(r)
  <2>1. PICK r \in Readers : BeginRead(r) \/ EndRead(r)
    BY <1>4
  <2>2. phase = "open"
    <3>1. BeginRead(r) => phase = "open"
      BY DEF BeginRead
    <3>2. EndRead(r) => reader[r].pc # "idle"
      BY DEF EndRead
    <3>3. QED
      BY <2>1, <3>1, <3>2 DEF DbInv, StoreInv, MemoryInv
  <2>3. PICK new : /\ reader' = [reader EXCEPT ![r] = new]
                   /\ new.pc = "reading" => new.version = version
    <3>1. CASE BeginRead(r)
      <4> DEFINE new == [pc |-> "reading", snap |-> lastSequence, mem |-> mem, imm |-> imm,
                         version |-> version, expected |-> Contents]
      <4>1. reader' = [reader EXCEPT ![r] = new]
        BY <3>1 DEF BeginRead
      <4>2. new.version = version
        OBVIOUS
      <4> HIDE DEF new
      <4>3. QED
        BY <4>1, <4>2
    <3>2. CASE EndRead(r)
      <4>1. reader' = [reader EXCEPT ![r] = IdleReader]
        BY <3>2 DEF EndRead
      <4>2. IdleReader.pc # "reading"
        BY DEF IdleReader
      <4>3. QED
        BY <4>1, <4>2
    <3>3. QED
      BY <2>1, <3>1, <3>2
  <2>4. reader = [s \in Readers |-> reader[s]]
    BY DEF FilesInv
  <2>5. /\ reader' = [s \in Readers |-> reader'[s]]
        /\ \A s \in Readers : reader'[s] = IF s = r THEN new ELSE reader[s]
    BY <2>3, <2>4
  <2>6. Needed' \subseteq Needed
    <3> SUFFICES ASSUME NEW n \in Needed' PROVE n \in Needed
      OBVIOUS
    <3>1. \/ n \in Numbers(version')
          \/ \E s \in Readers : reader'[s].pc = "reading" /\ n \in Numbers(reader'[s].version)
      BY DEF Needed
    <3>2. CASE n \in Numbers(version')
      BY <1>1, <3>2 DEF Needed
    <3>3. CASE \E s \in Readers : reader'[s].pc = "reading" /\ n \in Numbers(reader'[s].version)
      <4>1. PICK s \in Readers : reader'[s].pc = "reading" /\ n \in Numbers(reader'[s].version)
        BY <3>3
      <4>2. CASE s = r
        <5>1. n \in Numbers(version)
          BY <2>3, <2>5, <4>1, <4>2
        <5>2. QED
          BY <5>1, NeededMember
      <4>3. CASE s # r
        BY <2>5, <4>1, <4>3, NeededMember
      <4>4. QED
        BY <4>2, <4>3
    <3>4. QED
      BY <3>1, <3>2, <3>3
  <2>7. Needed \subseteq Tables /\ (Sweeping => \A n \in Needed : <<"table", n>> \notin bg.doomed)
    BY <2>2 DEF FilesInv, InUse
  <2>8. Sweeping' => \A n \in Needed' : <<"table", n>> \notin bg'.doomed
    BY <1>1, <2>6, <2>7 DEF Sweeping
  <2>9. QED
    BY <1>1, <2>5, <2>6, <2>7, <2>8 DEF FilesInv
<1>5. QED
  BY <1>2, <1>3, <1>4

\* A file nobody needs is all that a new version dooms.
LEMMA NothingNeededDoomed ==
  ASSUME NEW c, NEW log, reader' = reader, NEW n \in Needed'
  PROVE  <<"table", n>> \notin Doomed(version', log, c)
<1>1. n \in Live(version', c)
  BY DEF Needed, Live, Held
<1>2. QED
  BY <1>1, DoomedFacts

LEMMA FilesOfInstalls ==
  ASSUME DbInv, FilesInv, FlushInstall \/ Install
  PROVE  FilesInv'
<1>1. Installing /\ version' = Apply(version, bg.edit) /\ UNCHANGED <<disk, reader, phase>>
  BY DEF FlushInstall, Install, Installing, openVars, readVars
<1>2. InUse /\ BgInv /\ MemoryInv
  BY <1>1, BgActive DEF DbInv, StoreInv, Installing
<1>3. Needed \subseteq Tables /\ NumbersOf(bg.edit.added) \subseteq Tables /\ Tables' = Tables
  BY <1>1, <1>2 DEF FilesInv, BgInv, Tables
<1>4. Numbers(version') \subseteq Numbers(version) \cup NumbersOf(bg.edit.added)
  BY <1>1, NumbersApply
<1>5. Needed' \subseteq Tables'
  <2>1. Needed' \subseteq Needed \cup NumbersOf(bg.edit.added)
    BY <1>1, <1>4 DEF Needed
  <2>2. QED
    BY <1>3, <2>1
<1>6. Sweeping' => \E log, c : bg'.doomed = Doomed(version', log, c)
  <2>1. CASE FlushInstall
    <3> DEFINE after == IF bg.compacting THEN "sweepOn" ELSE "sweep"
               gone == Doomed(version', logNumber', bg.compacting)
    <3>1. bg' = [bg EXCEPT !.pc = after, !.flushed = {}, !.edit = NoEdit, !.doomed = gone]
      BY <2>1 DEF FlushInstall
    <3> HIDE DEF after, gone
    <3>2. bg'.doomed = gone
      BY <1>2, <3>1 DEF BgInv, HasFields
    <3>3. QED
      BY <3>2 DEF gone
  <2>2. CASE Install
    <3> DEFINE after == IF bg.pc = "moveInstall" THEN "end" ELSE "sweep"
               gone == IF bg.pc = "moveInstall" THEN {} ELSE Doomed(version', logNumber', FALSE)
    <3>1. bg' = [IdleBg EXCEPT !.pc = after, !.doomed = gone]
      BY <2>2 DEF Install
    <3> HIDE DEF after, gone
    <3>2. bg'.pc = after /\ bg'.doomed = gone
      BY <3>1 DEF IdleBg
    <3>3. CASE bg.pc = "moveInstall"
      BY <3>2, <3>3 DEF after, Sweeping
    <3>4. CASE bg.pc # "moveInstall"
      BY <3>2, <3>4 DEF gone
    <3>5. QED
      BY <3>3, <3>4
  <2>3. QED
    BY <2>1, <2>2
<1>7. Sweeping' => \A n \in Needed' : <<"table", n>> \notin bg'.doomed
  BY <1>1, <1>6, NothingNeededDoomed
<1>8. reader' = [r \in Readers |-> reader'[r]]
  BY <1>1 DEF FilesInv
<1>9. QED
  BY <1>5, <1>7, <1>8 DEF FilesInv

LEMMA FilesOfSweeps ==
  ASSUME DbInv, FilesInv, Sweep \/ SweepAndGoOn
  PROVE  FilesInv'
<1>1. Sweeping /\ disk' = Without(bg.doomed, disk) /\ UNCHANGED <<version, reader>>
  BY DEF Sweep, SweepAndGoOn, Sweeping, versionVars, readVars
<1>2. InUse /\ DiskInv /\ UseInv /\ BgInv
  BY <1>1, BgActive DEF DbInv, StoreInv, Sweeping
<1>3. Tables' = {n \in Tables : <<"table", n>> \notin bg.doomed}
  <2>1. disk.current # 0
    BY <1>2 DEF UseInv
  <2>2. /\ \A n \in Numbers(Current) : <<"table", n>> \notin bg.doomed
        /\ <<"manifest", disk.current>> \notin bg.doomed
    BY <1>1, <1>2 DEF BgInv
  <2>3. QED
    BY <1>1, <1>2, <2>1, <2>2, DiskSwept
<1>4. Needed' = Needed
  BY <1>1 DEF Needed
<1>5. Needed \subseteq Tables /\ \A n \in Needed : <<"table", n>> \notin bg.doomed
  BY <1>1, <1>2 DEF FilesInv
<1>6. ~Sweeping'
  <2>1. CASE Sweep
    <3>1. bg' = IdleBg
      BY <2>1 DEF Sweep, EndCall
    <3>2. QED
      BY <3>1, IdleBgFacts DEF Sweeping
  <2>2. CASE SweepAndGoOn
    <3>1. bg' = [bg EXCEPT !.pc = "compact", !.doomed = {}]
      BY <2>2 DEF SweepAndGoOn
    <3>2. bg'.pc = "compact"
      BY <1>2, <3>1 DEF BgInv, HasFields
    <3>3. QED
      BY <3>2 DEF Sweeping
  <2>3. QED
    BY <2>1, <2>2
<1>7. reader' = [r \in Readers |-> reader'[r]]
  BY <1>1 DEF FilesInv
<1>8. QED
  BY <1>3, <1>4, <1>5, <1>6, <1>7 DEF FilesInv

\* The other steps of the background thread only add tables.
LEMMA FilesOfOthers ==
  ASSUME DbInv, FilesInv,
         \/ CallRefused \/ CallEnds \/ FlushTable \/ FlushEdit \/ AppendManifest \/ StartCompaction
         \/ WriteOutput \/ FinishCompaction \/ CompactionFails \/ FlushFails
  PROVE  FilesInv'
<1>1. UNCHANGED <<version, reader>> /\ (bg.pc # "idle" \/ bgScheduled)
  BY DEF CallRefused, CallEnds, FlushTable, FlushEdit, AppendManifest, StartCompaction, WriteOutput,
         FinishCompaction, CompactionFails, FlushFails, BgRuns, versionVars, readVars
<1>2. StoreInv /\ InUse /\ DiskInv /\ BgInv
  BY <1>1, BgActive DEF DbInv, StoreInv
<1>3. Tables \subseteq Tables'
  <2>1. CASE FlushTable \/ WriteOutput
    <3>1. \E content : disk' = [disk EXCEPT !.tables = With(@, nextFile, content)]
      BY <2>1 DEF FlushTable, WriteOutput
    <3>2. QED
      BY <1>2, <3>1, TableAdded
  <2>2. CASE AppendManifest \/ CompactionFails \/ FlushFails
    <3>1. \/ disk' = disk
          \/ Recording /\ disk' \in {disk, [disk EXCEPT !.manifests[manifestNumber] = Append(@, bg.edit)]}
      BY <2>2 DEF AppendManifest, CompactionFails, FlushFails, Recording
    <3>2. CASE disk' = disk
      BY <3>2 DEF Tables
    <3>3. CASE disk' # disk
      BY <1>2, <3>1, <3>3, RecordWritten
    <3>4. QED
      BY <3>2, <3>3
  <2>3. CASE CallRefused \/ CallEnds \/ FlushEdit \/ StartCompaction \/ FinishCompaction
    BY <2>3 DEF CallRefused, CallEnds, FlushEdit, StartCompaction, FinishCompaction, Tables
  <2>4. QED
    BY <2>1, <2>2, <2>3
<1>4. ~Sweeping'
  <2>2. CASE CallRefused \/ CallEnds
    BY <2>2, IdleBgFacts DEF CallRefused, CallEnds, EndCall, Sweeping
  <2>3. CASE CompactionFails
    <3>1. bg' = [IdleBg EXCEPT !.pc = "end"]
      BY <2>3 DEF CompactionFails
    <3>2. bg'.pc = "end"
      BY <3>1 DEF IdleBg
    <3>3. QED
      BY <3>2 DEF Sweeping
  <2>4. CASE FlushTable \/ FlushEdit \/ FlushFails \/ WriteOutput \/ FinishCompaction
    <3>1. bg = [bg EXCEPT !.pc = bg.pc] /\ HasFields(bg)
      BY <1>2 DEF BgInv, HasFields
    <3>2. bg'.pc \in {"flushed", "compact", "end", "flushManifest", "compactManifest"}
      <4>1. CASE FlushTable
        BY <3>1, <4>1 DEF FlushTable, HasFields
      <4>2. CASE FlushEdit
        BY <3>1, <4>2 DEF FlushEdit, HasFields
      <4>3. CASE FlushFails
        BY <3>1, <4>3 DEF FlushFails, HasFields
      <4>4. CASE WriteOutput
        BY <3>1, <4>4 DEF WriteOutput, HasFields
      <4>5. CASE FinishCompaction
        BY <3>1, <4>5 DEF FinishCompaction, HasFields
      <4>6. QED
        BY <2>4, <4>1, <4>2, <4>3, <4>4, <4>5
    <3>3. QED
      BY <3>2 DEF Sweeping
  <2>5. CASE AppendManifest
    <3>1. \E q \in {"flushInstall", "moveInstall", "compactInstall"} : bg' = [bg EXCEPT !.pc = q]
      BY <2>5 DEF AppendManifest
    <3>2. bg'.pc \in {"flushInstall", "moveInstall", "compactInstall"}
      BY <1>2, <3>1 DEF BgInv, HasFields
    <3>3. QED
      BY <3>2 DEF Sweeping
  <2>6. CASE StartCompaction
    <3> DEFINE moves(p, ins) ==
                 [bg EXCEPT !.pc = "moveManifest",
                            !.edit = EditOf(Deletions(p[1], ins), {<<p[1] + 1, f>> : f \in ins[1]})]
               rewrites(p, ins) ==
                 [bg EXCEPT !.pc = "compact", !.compacting = TRUE, !.level = p[1],
                            !.inputs = Deletions(p[1], ins), !.base = version, !.oldest = OldestSnapshot,
                            !.todo = Kept(version, p[1], Entries(ins[1] \cup ins[2]), OldestSnapshot)]
    <3>0. PICK p \in Candidates :
            \E ins \in Inputs(version, p[1], First(p[1], p[2])) :
              bg' = IF IsTrivialMove(p[1], ins) THEN moves(p, ins) ELSE rewrites(p, ins)
      BY <2>6, Zenon DEF StartCompaction
    <3>1. PICK ins : bg' = moves(p, ins) \/ bg' = rewrites(p, ins)
      BY <3>0, Zenon
    <3>2. bg'.pc \in {"moveManifest", "compact"}
      BY <1>2, <3>1 DEF BgInv, HasFields
    <3>3. QED
      BY <3>2 DEF Sweeping
  <2>7. QED
    BY <2>2, <2>3, <2>4, <2>5, <2>6
<1>5. QED
  BY <1>1, <1>2, <1>3, <1>4, FilesKept

LEMMA FilesStep == DbInv /\ FilesInv /\ [Next]_vars => FilesInv'
<1> SUFFICES ASSUME DbInv, FilesInv, [Next]_vars PROVE FilesInv'
  OBVIOUS
<1>1. CASE UNCHANGED vars
  <2>1. UNCHANGED <<disk, phase, version, reader, bg>>
    BY <1>1 DEF vars, openVars, versionVars, bgVars, readVars
  <2>2. QED
    BY <2>1 DEF FilesInv, InUse, Needed, Sweeping, Tables
<1>2. CASE \E w \in Writers : Write(w) \/ Writing(w) \/ NoNewLog(w)
  BY <1>2, FilesOfWriters
<1>3. CASE (\E r \in Readers : BeginRead(r) \/ EndRead(r)) \/ GetSnapshot \/ ReleaseSnapshot \/ Close
  BY <1>3, FilesOfReaders
<1>4. CASE Background \/ FlushFails
  <2>1. CASE FlushInstall \/ Install
    BY <2>1, FilesOfInstalls
  <2>2. CASE Sweep \/ SweepAndGoOn
    BY <2>2, FilesOfSweeps
  <2>3. CASE ~(FlushInstall \/ Install \/ Sweep \/ SweepAndGoOn)
    BY <1>4, <2>3, FilesOfOthers DEF Background
  <2>4. QED
    BY <2>1, <2>2, <2>3
<1>5. CASE OpenFails \/ DieCleaning \/ Closed \/ Crash
  <2>1. phase' = "closed" /\ reader' = [r \in Readers |-> IdleReader]
    BY <1>5 DEF OpenFails, DieCleaning, Closed, Crash, ForgetMemory
  <2>2. QED
    BY <2>1 DEF FilesInv, InUse
<1>6. CASE Opening
  <2>1. UNCHANGED <<reader, bg>>
    BY <1>6 DEF Opening, NewDb, NewCurrent, Recover, ReplayLog, NewLog, SaveManifest, SetCurrent, readVars, bgVars
  <2>2. reader' = [r \in Readers |-> reader'[r]]
    BY <2>1 DEF FilesInv
  <2>3. CASE SetCurrent
    <3>1. /\ phase = "current" /\ version' = Apply(version, SavedEdit)
          /\ disk' = Without(Obsolete(Numbers(version'), memLog, manifestNumber),
                             [disk EXCEPT !.current = manifestNumber])
      BY <2>3 DEF SetCurrent
    <3>2. DiskInv /\ MemoryInv /\ OpeningInv
      BY DEF DbInv, StoreInv
    <3>3. DiskInv' /\ Current' = version' /\ disk'.current = manifestNumber
      BY <3>1, <3>2, DiskSwitched
    <3>4. disk'.current # 0
      BY <3>1, <3>2, <3>3 DEF OpeningInv, Recovering, DiskInv, MemoryInv
    <3>5. Numbers(version') \subseteq Tables'
      BY <3>3, <3>4 DEF DiskInv
    <3>6. bg = IdleBg /\ \A r \in Readers : reader[r].pc = "idle"
      BY <3>1, <3>2 DEF MemoryInv, InUse
    <3>7. Needed' = Numbers(version') /\ ~Sweeping'
      BY <2>1, <3>6, IdleBgFacts DEF Needed, Sweeping
    <3>8. QED
      BY <2>2, <3>5, <3>7 DEF FilesInv
  <2>4. CASE ~SetCurrent
    <3>1. phase' \notin {"open", "closing"}
      BY <1>6, <2>4 DEF Opening, NewDb, NewCurrent, Recover, ReplayLog, NewLog, SaveManifest, openVars
    <3>2. QED
      BY <2>2, <3>1 DEF FilesInv, InUse
  <2>5. QED
    BY <2>3, <2>4
<1>7. QED
  BY <1>1, <1>2, <1>3, <1>4, <1>5, <1>6 DEF Next

(***************************************************************************)
(* The theorems.                                                           *)
(***************************************************************************)

\* The queue, the scheduled call, the version and the manifest agree whatever
\* is written, read, flushed, compacted, killed and opened again
\* (DBImpl::writers_, background_compaction_scheduled_, VersionSet).
THEOREM StoreInvariant == Spec => []DbInv
<1>1. QED
  BY DbInit, DbStep, PTL DEF Spec

\* DB::Open never meets a manifest that names a table which is not there: not
\* after a crash between any two file operations of an opening, a flush or a
\* compaction, and not after one of them failed (VersionSet::LogAndApply,
\* DBImpl::RemoveObsoleteFiles, DBImpl::Recover).
THEOREM StoreAlwaysOpens == Spec => []RecoverySucceeds
<1>1. DbInv => RecoverySucceeds
  <2> SUFFICES ASSUME DbInv, disk.current # 0 PROVE Missing = {}
    BY DEF RecoverySucceeds
  <2>1. Numbers(Current) \subseteq Tables
    BY DEF DbInv, StoreInv, DiskInv
  <2>2. QED
    BY <2>1 DEF Missing, Current, Tables
<1>2. QED
  BY <1>1, StoreInvariant, PTL

\* No writer waits in vain: one that sleeps in MakeRoomForWrite is the head of
\* the queue and a background call is coming that signals it; one behind it
\* waits for a head that is at work (DBImpl::Write, BackgroundCall).
THEOREM NoWriterWaitsInVain == Spec => []WaitersAreServed
<1>1. DbInv => WaitersAreServed
  <2> SUFFICES ASSUME DbInv, NEW w \in Writers
               PROVE  /\ writer[w].pc = "asleep" => queue # <<>> /\ w = Head(queue) /\ bgScheduled
                      /\ writer[w].pc = "queued" =>
                           /\ queue # <<>> /\ w \in ToSet(Tail(queue))
                           /\ writer[Head(queue)].pc \in {"head", "asleep", "logged"}
    BY DEF WaitersAreServed
  <2>1. QueueInv /\ ScheduleInv
    BY DEF DbInv
  <2>2. /\ queue \in Seq(Writers) /\ Len(queue) \in Nat /\ DOMAIN queue = 1 .. Len(queue)
        /\ \A i \in DOMAIN queue : queue[i] \in Writers
    BY <2>1 DEF QueueInv
  <2>3. ASSUME writer[w].pc = "asleep" PROVE queue # <<>> /\ w = Head(queue) /\ bgScheduled
    <3>1. queue # <<>> /\ queue[1] = w
      BY <2>1, <2>3, HeadFacts
    <3>2. Head(queue) = queue[1]
      BY <2>2, <3>1
    <3>3. bgScheduled
      BY <2>1, <2>3 DEF ScheduleInv
    <3>4. QED
      BY <3>1, <3>2, <3>3
  <2>4. ASSUME writer[w].pc = "queued"
        PROVE  /\ queue # <<>> /\ w \in ToSet(Tail(queue))
               /\ writer[Head(queue)].pc \in {"head", "asleep", "logged"}
    <3>1. PICK i \in DOMAIN queue : queue[i] = w
      BY <2>1, <2>4 DEF QueueInv
    <3>2. i # 1
      BY <2>1, <2>4, <3>1 DEF QueueInv
    <3>3. i \in 2 .. Len(queue) /\ queue # <<>> /\ 1 \in DOMAIN queue
      BY <2>2, <3>1, <3>2
    <3>4. /\ Tail(queue) \in Seq(Writers) /\ Len(Tail(queue)) = Len(queue) - 1
          /\ \A j \in 1 .. Len(Tail(queue)) : Tail(queue)[j] = queue[j + 1]
      BY <2>2, <3>3, HeadTailProperties
    <3>5. i - 1 \in 1 .. Len(Tail(queue)) /\ (i - 1) + 1 = i
      BY <2>2, <3>3, <3>4
    <3>6. DOMAIN Tail(queue) = 1 .. Len(Tail(queue))
      BY <3>4
    <3>7. w \in ToSet(Tail(queue))
      <4>1. Tail(queue)[i - 1] = w
        BY <3>1, <3>4, <3>5
      <4>2. QED
        BY <3>5, <3>6, <4>1 DEF ToSet
    <3>8. writer[queue[1]].pc \in {"head", "asleep", "logged"}
      <4>1. queue[1] \in Writers /\ writer[queue[1]].pc # "queued"
        BY <2>1, <2>2, <3>3 DEF QueueInv
      <4>2. writer[queue[1]].pc # "idle"
        BY <2>1, <3>3, <4>1 DEF QueueInv
      <4>3. writer[queue[1]].pc \in {"idle", "queued", "head", "asleep", "logged"}
        BY <2>1, <4>1 DEF QueueInv
      <4>4. QED
        BY <4>1, <4>2, <4>3
    <3>9. Head(queue) = queue[1]
      BY <2>2, <3>3
    <3>10. QED
      BY <3>3, <3>7, <3>8, <3>9
  <2>5. QED
    BY <2>3, <2>4
<1>2. QED
  BY <1>1, StoreInvariant, PTL

\* A table file stays on the disk as long as a lookup or an iterator may open
\* it: what is removed without the mutex is in no version that is current or
\* that somebody reads, also not one that was taken up since
\* (VersionSet::AddLiveFiles, DBImpl::RemoveObsoleteFiles, Version::Ref).
THEOREM NoReaderLosesAFile == Spec => []ReadersKeepTheirFiles
<1>1. DbInv /\ FilesInv => ReadersKeepTheirFiles
  <2> SUFFICES ASSUME DbInv, FilesInv, NEW r \in Readers, reader[r].pc = "reading"
               PROVE  Numbers(reader[r].version) \subseteq Tables
    BY DEF ReadersKeepTheirFiles, Tables
  <2>1. phase = "open"
    BY DEF DbInv, StoreInv, MemoryInv
  <2>2. Needed \subseteq Tables
    BY <2>1 DEF FilesInv, InUse
  <2>3. Numbers(reader[r].version) \subseteq Needed
    BY DEF Needed
  <2>4. QED
    BY <2>2, <2>3
<1>2. QED
  BY <1>1, DbInit, DbStep, FilesInit, FilesStep, PTL DEF Spec

=============================================================================
