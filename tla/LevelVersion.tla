---------------------------- MODULE LevelVersion ----------------------------
(***************************************************************************)
(* The table files of the key-value store under a world                    *)
(* (src/thirdparty/LevelDB/db/version_set.cc, version_edit.cc, table/):    *)
(* what a version is, how an edit of the manifest changes it, where a      *)
(* lookup finds an entry and which files a compaction has to take.         *)
(*                                                                         *)
(* An entry is [key, seq, batch, del]; a file is [num, ents]; a version    *)
(* maps each level to its files.  Files of level 0 may overlap, newer      *)
(* numbers hold newer entries; deeper levels are sorted and disjoint.      *)
(***************************************************************************)
EXTENDS Integers, Sequences, FiniteSets, FiniteSetsExt, SequencesExt

CONSTANTS
  MaxLevel,          \* config::kNumLevels - 1
  MemLevel,          \* config::kMaxMemCompactLevel
  GrandparentLimit   \* files for MaxGrandParentOverlapBytes

Levels == 0 .. MaxLevel
NoFiles == [l \in Levels |-> {}]

MinKey(f) == Min({e.key : e \in f.ents})
MaxKey(f) == Max({e.key : e \in f.ents})
Entries(files) == UNION {f.ents : f \in files}
AllFiles(version) == UNION {version[l] : l \in Levels}
Numbers(version) == {f.num : f \in AllFiles(version)}

\* The internal order: by key, newer entries first.
Before(a, b) == a.key < b.key \/ (a.key = b.key /\ a.seq > b.seq)
Smallest(f) == CHOOSE e \in f.ents : \A d \in f.ents \ {e} : Before(e, d)
Largest(files) == CHOOSE e \in Entries(files) : \A d \in Entries(files) \ {e} : Before(d, e)

-----------------------------------------------------------------------------
(* Reading.                                                                *)

\* The newest of some entries of a key that a snapshot sees.
Newest(ents, key, snap) ==
  LET seen == {e \in ents : e.key = key /\ e.seq <= snap}
  IN  {e \in seen : \A d \in seen : d.seq <= e.seq}

\* FindFile: the first file of a sorted level that does not end before the key.
FindFile(files, key, snap) ==
  LET candidates == {f \in files : \E e \in f.ents : e.key > key \/ (e.key = key /\ e.seq <= snap)}
  IN  {f \in candidates : \A g \in candidates \ {f} : Before(Smallest(f), Smallest(g))}

\* Get looks at the memtables, at level 0 from the newest file to the oldest
\* and at one file of each deeper level; the first that knows the key decides.
Found(mem, imm, version, key, snap) ==
  LET known == {f \in version[0] : Newest(f.ents, key, snap) # {}}
      at == [l \in Levels |-> UNION {Newest(f.ents, key, snap) :
               f \in IF l = 0 THEN {f \in known : \A g \in known : g.num <= f.num}
                     ELSE FindFile(version[l], key, snap)}]
      inMem == Newest(mem, key, snap)
      inImm == Newest(imm, key, snap)
      knowing == {l \in Levels : at[l] # {}}
  IN  IF inMem # {} THEN inMem
      ELSE IF inImm # {} THEN inImm
      ELSE IF knowing = {} THEN {} ELSE at[Min(knowing)]

\* ForEachOverlapping: the files a search for the key meets.
Met(version, key, snap) ==
  {p \in Levels \X AllFiles(version) :
     /\ MinKey(p[2]) <= key
     /\ p[2] \in IF p[1] = 0 THEN {g \in version[0] : key <= MaxKey(g)}
               ELSE FindFile(version[p[1]], key, snap)}

\* UpdateStats and RecordReadSample blame the first of several.
Blamed(version, key, snap) ==
  LET met == Met(version, key, snap)
  IN  {p \in met : /\ Cardinality(met) > 1
                   /\ \A q \in met : p[1] < q[1] \/ (p[1] = q[1] /\ p[2].num >= q[2].num)}

\* The write whose value an entry holds; a deletion holds none.
Value(found) == IF \E e \in found : ~e.del THEN (CHOOSE e \in found : TRUE).batch ELSE 0

Lookup(mem, imm, version, key, snap) == Value(Found(mem, imm, version, key, snap))

\* The merging iterator orders the entries of all sources and yields the newest.
Merge(ents, key, snap) == Value(Newest(ents, key, snap))

-----------------------------------------------------------------------------
(* Edits of the manifest.                                                  *)

\* Builder: an added file counts even when its number is also deleted.
Apply(version, edit) ==
  [l \in Levels |->
     {f \in version[l] : <<l, f.num>> \notin edit.deleted}
       \cup {p[2] : p \in {q \in edit.added : q[1] = l}}]

\* All records applied: what was added and not deleted later.
VersionOf(manifest) ==
  [l \in Levels |->
     UNION {{p[2] : p \in {q \in manifest[i].added :
               q[1] = l /\ \A j \in i + 1 .. Len(manifest) : <<l, q[2].num>> \notin manifest[j].deleted}} :
            i \in DOMAIN manifest}]

-----------------------------------------------------------------------------
(* Choosing files.                                                         *)

Overlapping(files, lo, hi) == {f \in files : MinKey(f) <= hi /\ lo <= MaxKey(f)}
OverlapInLevel(version, l, lo, hi) == Overlapping(version[l], lo, hi) # {}
Low(files) == Min({MinKey(f) : f \in files})
High(files) == Max({MaxKey(f) : f \in files})

\* Where a flushed memtable may go: as deep as nothing above overlaps.
PickLevelForMemTableOutput(version, lo, hi) ==
  LET free(l) == \A j \in 1 .. l :
                   /\ ~OverlapInLevel(version, j, lo, hi)
                   /\ j < MaxLevel => Cardinality(Overlapping(version[j + 1], lo, hi)) <= GrandparentLimit
  IN  IF OverlapInLevel(version, 0, lo, hi) THEN 0
      ELSE Max({l \in 0 .. MemLevel : free(l)})

\* GetOverlappingInputs: in level 0 every file found widens the range.
GetOverlappingInputs(files, l, lo, hi) ==
  LET closed(S) == S = Overlapping(files, Min({lo} \cup {MinKey(f) : f \in S}),
                                          Max({hi} \cup {MaxKey(f) : f \in S}))
      closures == {S \in SUBSET files : closed(S)}
  IN  IF l > 0 THEN Overlapping(files, lo, hi)
      ELSE {f \in files : \A S \in closures : f \in S}

\* Mutant: a key split over two files is compacted in halves.
AddNoBoundaryInputs(files, chosen) == chosen

\* FindSmallestBoundaryFile: the next file, if it begins with older entries of
\* the key the chosen ones end with.
NextBoundaryFile(files, chosen) ==
  LET follows == {f \in files : /\ Smallest(f).key = Largest(chosen).key
                                /\ Before(Largest(chosen), Smallest(f))}
  IN  {f \in follows : \A g \in follows \ {f} : Before(Smallest(f), Smallest(g))}

\* AddBoundaryInputs: also all files that go on with such a key, each the next
\* one after those before it.
AddBoundaryInputs(files, chosen) ==
  LET before(added, f) == {g \in added : Before(Smallest(g), Smallest(f))}
      chains == {added \in SUBSET (files \ chosen) :
                   \A f \in added : f \in NextBoundaryFile(files, chosen \cup before(added, f))}
  IN  IF chosen = {} THEN {} ELSE chosen \cup UNION chains

\* SetupOtherInputs: the files of the next level in range, and more of this
\* level when that needs no more of the next.
Inputs(version, l, first) ==
  LET in0 == AddBoundaryInputs(version[l], first)
      in1 == AddBoundaryInputs(version[l + 1],
               GetOverlappingInputs(version[l + 1], l + 1, Low(in0), High(in0)))
      all == in0 \cup in1
      more0 == AddBoundaryInputs(version[l], GetOverlappingInputs(version[l], l, Low(all), High(all)))
      more1 == AddBoundaryInputs(version[l + 1],
                 GetOverlappingInputs(version[l + 1], l + 1, Low(more0), High(more0)))
  IN  IF in1 # {} /\ Cardinality(more0) > Cardinality(in0) /\ Cardinality(more1) = Cardinality(in1)
      THEN {<<in0, in1>>, <<more0, more1>>}   \* the second one if it is small enough
      ELSE {<<in0, in1>>}

Grandparents(version, l, files) ==
  IF l + 2 > MaxLevel THEN {}
  ELSE GetOverlappingInputs(version[l + 2], l + 2, Low(files), High(files))

-----------------------------------------------------------------------------
(* What a compaction keeps.                                                *)

\* Nothing deeper than its output holds the key.
IsBaseLevelForKey(version, l, key) ==
  \A d \in l + 2 .. MaxLevel : ~OverlapInLevel(version, d, key, key)

\* Mutant: a deletion may go although a deeper level still holds the key.
KeptForgettingDeeper(version, l, ents, oldest) ==
  {e \in ents :
     /\ ~\E n \in ents : n.key = e.key /\ n.seq > e.seq /\ n.seq <= oldest
     /\ ~(e.del /\ e.seq <= oldest)}

Kept(version, l, ents, oldest) ==
  {e \in ents :
     /\ ~\E n \in ents : n.key = e.key /\ n.seq > e.seq /\ n.seq <= oldest
     /\ ~(e.del /\ e.seq <= oldest /\ IsBaseLevelForKey(version, l, e.key))}
=============================================================================
