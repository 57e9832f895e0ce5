------------------------------- MODULE LevelDb -------------------------------
(***************************************************************************)
(* The key-value store that holds the chunks of a Bedrock world            *)
(* (src/thirdparty/LevelDB/db/db_impl.cc), as the world operator opens it: *)
(* no sync writes, no reused logs.  Writers queue up and the first one     *)
(* logs and inserts the batches of several; a full memtable becomes        *)
(* immutable and one background thread flushes it and compacts the levels; *)
(* each change of the files is an edit in the manifest.  The process may   *)
(* be killed between any two file operations and the store opened again.   *)
(*                                                                         *)
(* What the operating system has taken survives the process, so logs have  *)
(* no lost tails here; a log write that fails is not modelled.             *)
(***************************************************************************)
EXTENDS LevelVersion, Functions

CONSTANTS
  Keys, Batches, \* as in DurableStore
  Writers,       \* threads that call Write
  Readers,       \* threads that read
  WriteBuffer,   \* entries that fill a memtable
  MaxTable,      \* entries of a table file a compaction writes
  L0Trigger,     \* config::kL0_CompactionTrigger
  L0Stop,        \* config::kL0_StopWritesTrigger
  LevelLimit,    \* files for MaxBytesForLevel
  GroupSize,     \* batches for the byte limit of a group
  Faults,        \* of "open", "log", "close", "table", "manifest"
  MaxEvents      \* bound of the instance: openings, faults, reads and snapshots

ASSUME LevelDbAssumption ==
  /\ {MaxLevel, MemLevel, WriteBuffer, MaxTable, L0Trigger, L0Stop, GroupSize} \subseteq Nat \ {0}
  /\ MemLevel <= MaxLevel /\ L0Trigger <= L0Stop
  /\ Faults \subseteq {"open", "log", "close", "table", "manifest"}

NoMem == {}   \* no immutable memtable: one that was filled is never empty

VARIABLES
  disk,        \* current, manifests, tables and logs by number
  status,      \* what became of each write, see DurableStore
  phase,       \* "closed", "newdb", "replay", "newlog", "save", "current", "open", "closing"
  events,      \* counts for the bound
  mem, imm, memLog,      \* mem_, imm_, logfile_number_
  version, logNumber, manifestNumber, nextFile, lastSequence, \* VersionSet
  recovery,    \* edit and logs left in Recover
  queue, writer, group,  \* writers_, what each thread does, the batches of its head
  bg, bgScheduled, bgError, seekFile, \* the background thread
  reader, snapshots

diskVars == <<disk, nextFile>>
openVars == <<phase, recovery>>
memVars == <<mem, imm, memLog, lastSequence>>
versionVars == <<version, logNumber, manifestNumber>>
writeVars == <<status, queue, writer, group>>
bgVars == <<bg, bgScheduled, bgError, seekFile>>
readVars == <<reader, snapshots>>
vars == <<disk, nextFile, openVars, events, memVars, versionVars, writeVars, bgVars, readVars>>

Writes == DOMAIN Batches
NoEdit == [log |-> 0, next |-> 0, last |-> 0, deleted |-> {}, added |-> {}]
IdleWriter == [pc |-> "idle", batch |-> 0]
IdleReader == [pc |-> "idle", snap |-> 0, mem |-> {}, imm |-> {}, version |-> NoFiles, expected |-> <<>>]
IdleBg == [pc |-> "idle", flushed |-> {}, edit |-> NoEdit, level |-> 0, inputs |-> {}, base |-> NoFiles,
           oldest |-> 0, todo |-> {}, outs |-> {}, compacting |-> FALSE, doomed |-> {}]

Init ==
  /\ disk = [current |-> 0, manifests |-> <<>>, tables |-> <<>>, logs |-> <<>>]
  /\ status = [b \in Writes |-> "new"]
  /\ phase = "closed" /\ events = 0
  /\ mem = {} /\ imm = NoMem /\ memLog = 0
  /\ version = NoFiles /\ logNumber = 0 /\ manifestNumber = 0 /\ nextFile = 2 /\ lastSequence = 0
  /\ recovery = [edit |-> NoEdit, logs |-> {}]
  /\ queue = <<>> /\ writer = [w \in Writers |-> IdleWriter] /\ group = <<>>
  /\ bg = IdleBg /\ bgScheduled = FALSE /\ bgError = FALSE /\ seekFile = {}
  /\ reader = [r \in Readers |-> IdleReader] /\ snapshots = {}

\* What a name on the disk holds after one file operation.
With(files, num, content) ==
  [n \in DOMAIN files \cup {num} |-> IF n = num THEN content ELSE files[n]]

\* Openings, faults, reads and snapshots the instance still allows.
Counts == events < MaxEvents /\ events' = events + 1
MayFail(kind) == kind \in Faults /\ Counts

-----------------------------------------------------------------------------
(* Opening: DB::Open, DBImpl::Recover, VersionSet::Recover.                *)

Manifest == disk.manifests[disk.current]

\* Everything in memory goes with the object or the process.
ForgetMemory ==
  /\ phase' = "closed"
  /\ mem' = {} /\ imm' = NoMem /\ memLog' = 0 /\ lastSequence' = 0
  /\ version' = NoFiles /\ logNumber' = 0 /\ manifestNumber' = 0 /\ nextFile' = 2
  /\ recovery' = [edit |-> NoEdit, logs |-> {}]
  /\ queue' = <<>> /\ writer' = [w \in Writers |-> IdleWriter] /\ group' = <<>>
  /\ bg' = IdleBg /\ bgScheduled' = FALSE /\ bgError' = FALSE /\ seekFile' = {}
  /\ reader' = [r \in Readers |-> IdleReader] /\ snapshots' = {}

\* A directory without CURRENT gets a first manifest.
NewDb ==
  /\ phase = "closed" /\ Counts /\ disk.current = 0
  /\ phase' = "newdb"
  /\ disk' = [disk EXCEPT !.manifests = With(@, 1, <<[NoEdit EXCEPT !.next = 2]>>)]
  /\ UNCHANGED <<nextFile, recovery, memVars, versionVars, writeVars, bgVars, readVars>>

Missing == Numbers(VersionOf(Manifest)) \ DOMAIN disk.tables

\* Reads the manifest and lists the logs it does not cover; refuses when a
\* table it names is missing.
Recover ==
  /\ phase = "closed" /\ Counts /\ disk.current # 0
  /\ Missing = {}
  /\ LET last == Last(Manifest)
     IN  /\ logNumber' = last.log /\ manifestNumber' = last.next
         /\ nextFile' = last.next + 1
         /\ lastSequence' = last.last
         /\ recovery' = [edit |-> NoEdit, logs |-> {n \in DOMAIN disk.logs : n >= last.log}]
  /\ version' = VersionOf(Manifest)
  /\ phase' = "replay"
  /\ UNCHANGED <<disk, mem, imm, memLog, writeVars, bgVars, readVars>>

\* CURRENT of a new database; recovery goes on from it.
NewCurrent ==
  /\ phase = "newdb"
  /\ disk' = [disk EXCEPT !.current = 1]
  /\ phase' = "replay"
  /\ version' = NoFiles /\ logNumber' = 0 /\ manifestNumber' = 2 /\ nextFile' = 3
  /\ lastSequence' = 0
  /\ recovery' = [edit |-> NoEdit, logs |-> {}]
  /\ UNCHANGED <<events, mem, imm, memLog, writeVars, bgVars, readVars>>

\* The memtables a log fills: the record that overflows one is its last, and
\* so is the last record of the log.
MemtableUpTo(log, ends, i) == UNION {log[j] : j \in {k \in 1 .. i : \A e \in ends : e < i => e < k}}
FillsMemtables(log, ends) ==
  \A i \in DOMAIN log :
    i \in ends <=> i = Len(log) \/ Cardinality(MemtableUpTo(log, ends, i)) >= WriteBuffer

\* RecoverLogFile for the oldest log left; its tables go to level 0.
ReplayLog ==
  /\ phase = "replay"
  /\ \E n \in recovery.logs :
       /\ \A m \in recovery.logs : n <= m
       /\ \E ends \in SUBSET DOMAIN disk.logs[n] :
            /\ FillsMemtables(disk.logs[n], ends)
            /\ LET number(e) == nextFile + Cardinality({d \in ends : d < e})
                   files == {[num |-> number(e), ents |-> MemtableUpTo(disk.logs[n], ends, e)] : e \in ends}
               IN  /\ disk' = [disk EXCEPT !.tables =
                               [t \in DOMAIN @ \cup {f.num : f \in files} |->
                                  IF \E f \in files : f.num = t
                                  THEN (CHOOSE f \in files : f.num = t).ents ELSE @[t]]]
                   /\ nextFile' = Max({nextFile + Cardinality(ends), n + 1})
                   /\ lastSequence' = Max({lastSequence} \cup {e.seq : e \in Entries(files)})
                   /\ recovery' = [edit |-> [recovery.edit EXCEPT !.added = @ \cup {<<0, f>> : f \in files}],
                                   logs |-> recovery.logs \ {n}]
  /\ UNCHANGED <<phase, events, mem, imm, memLog, versionVars, writeVars, bgVars, readVars>>

NewLog ==
  /\ phase = "replay" /\ recovery.logs = {}
  /\ disk' = [disk EXCEPT !.logs = With(@, nextFile, <<>>)]
  /\ memLog' = nextFile /\ nextFile' = nextFile + 1
  /\ mem' = {}
  /\ phase' = "save"
  /\ UNCHANGED <<events, recovery, imm, lastSequence, versionVars, writeVars, bgVars, readVars>>

\* LogAndApply without a descriptor: a new manifest with a snapshot of the
\* version, then the edit.
SavedEdit == [recovery.edit EXCEPT !.log = memLog, !.next = nextFile, !.last = lastSequence]
Snapshot == [NoEdit EXCEPT !.added = UNION {{<<l, f>> : f \in version[l]} : l \in Levels}]

SaveManifest ==
  /\ phase = "save"
  /\ disk' = [disk EXCEPT !.manifests = With(@, manifestNumber, <<Snapshot, SavedEdit>>)]
  /\ phase' = "current"
  /\ UNCHANGED <<nextFile, events, recovery, memVars, versionVars, writeVars, bgVars, readVars>>

\* What RemoveObsoleteFiles would delete with these files in use.
Obsolete(live, log, manifest) ==
  {<<"table", n>> : n \in DOMAIN disk.tables \ live}
    \cup {<<"log", n>> : n \in {m \in DOMAIN disk.logs : m < log}}
    \cup {<<"manifest", n>> : n \in {m \in DOMAIN disk.manifests : m < manifest}}

Without(doomed, d) ==
  [d EXCEPT
     !.tables = Restrict(@, {n \in DOMAIN @ : <<"table", n>> \notin doomed}),
     !.logs = Restrict(@, {n \in DOMAIN @ : <<"log", n>> \notin doomed}),
     !.manifests = Restrict(@, {n \in DOMAIN @ : <<"manifest", n>> \notin doomed})]

NeedsCompaction(v, seek) ==
  \/ Cardinality(v[0]) >= L0Trigger
  \/ \E l \in 1 .. MaxLevel - 1 : Cardinality(v[l]) > LevelLimit
  \/ seek # {}

\* MaybeScheduleCompaction with the state after the step.
MaybeSchedule(v, immutable, error, seek) ==
  bgScheduled' = (bgScheduled \/ (phase' = "open" /\ ~error /\ (immutable # NoMem \/ NeedsCompaction(v, seek))))

\* CURRENT names the new manifest; Open installs the version and cleans up.
SetCurrent ==
  /\ phase = "current"
  /\ LET v == Apply(version, SavedEdit)
     IN  /\ disk' = Without(Obsolete(Numbers(v), memLog, manifestNumber), [disk EXCEPT !.current = manifestNumber])
         /\ version' = v
         /\ phase' = "open"
         /\ MaybeSchedule(v, imm, FALSE, {})
  /\ logNumber' = memLog
  /\ UNCHANGED <<nextFile, events, recovery, memVars, manifestNumber, writeVars,
                 bg, bgError, seekFile, readVars>>

\* The same, but the process dies after CURRENT or while it removes files.
DieCleaning ==
  /\ phase = "current"
  /\ \E doomed \in SUBSET Obsolete(Numbers(Apply(version, SavedEdit)), memLog, manifestNumber) :
       disk' = Without(doomed, [disk EXCEPT !.current = manifestNumber])
  /\ ForgetMemory
  /\ UNCHANGED <<events, status>>

\* A file operation of Open fails: the object is deleted again.
OpenFails ==
  /\ phase \in {"newdb", "replay", "save", "current"}
  /\ MayFail("open")
  /\ disk' = IF phase # "current" THEN disk
             ELSE [disk EXCEPT !.manifests = Restrict(@, DOMAIN @ \ {manifestNumber})]
  /\ ForgetMemory
  /\ UNCHANGED status
-----------------------------------------------------------------------------
(* Writing: DBImpl::Write.                                                 *)

Set(w, pc) == writer' = [writer EXCEPT ![w].pc = pc]

Write(w) ==
  /\ phase = "open" /\ writer[w].pc = "idle"
  /\ \E b \in Writes :
       /\ status[b] = "new" /\ \A a \in 1 .. b - 1 : status[a] # "new"
       /\ status' = [status EXCEPT ![b] = "open"]
       /\ writer' = [writer EXCEPT ![w] = [pc |-> IF queue = <<>> THEN "head" ELSE "queued",
                                           batch |-> b]]
  /\ queue' = Append(queue, w)
  /\ UNCHANGED <<disk, nextFile, openVars, events, memVars, versionVars, group, bgVars, readVars>>

HasRoom == Cardinality(mem) < WriteBuffer

\* The head of the queue, in MakeRoomForWrite: an earlier error is returned.
Batch(w) == writer[w].batch

Rest(n) == SubSeq(queue, n + 1, Len(queue))

\* The first n writers return with a result; the next one becomes the head.
Leave(n, result) ==
  /\ queue' = Rest(n)
  /\ writer' = [w \in Writers |->
       IF w \in ToSet(SubSeq(queue, 1, n)) THEN IdleWriter
       ELSE IF Rest(n) # <<>> /\ w = Head(Rest(n)) THEN [writer[w] EXCEPT !.pc = "head"]
       ELSE writer[w]]
  /\ status' = [b \in Writes |->
       IF b \in {Batch(queue[i]) : i \in 1 .. n} THEN result ELSE status[b]]

Refused(w) ==
  /\ writer[w].pc = "head" /\ bgError
  /\ Leave(1, "error")
  /\ UNCHANGED <<disk, nextFile, openVars, events, memVars, versionVars, group, bgVars, readVars>>

\* Memtable full: waits for the flush of the other one, or for fewer files
\* in level 0.
MustWait == imm # NoMem \/ Cardinality(version[0]) >= L0Stop

Sleep(w) ==
  /\ writer[w].pc = "head" /\ ~bgError /\ ~HasRoom /\ MustWait
  /\ Set(w, "asleep")
  /\ UNCHANGED <<disk, nextFile, openVars, events, memVars, versionVars, status, queue, group, bgVars, readVars>>

\* A new log and memtable; closing the old log may fail, which is remembered.
SwitchMemtable(w) ==
  /\ writer[w].pc = "head" /\ ~bgError /\ ~HasRoom /\ ~MustWait
  /\ disk' = [disk EXCEPT !.logs = With(@, nextFile, <<>>)]
  /\ memLog' = nextFile /\ nextFile' = nextFile + 1
  /\ imm' = mem /\ mem' = {}
  /\ \/ bgError' = FALSE /\ UNCHANGED events
     \/ bgError' = TRUE /\ MayFail("close")
  /\ UNCHANGED <<openVars, lastSequence, versionVars, writeVars, bg, seekFile, readVars>>
  /\ MaybeSchedule(version, imm', bgError', seekFile)

\* The new log cannot be created: the write is refused, the number reused.
NoNewLog(w) ==
  /\ writer[w].pc = "head" /\ ~bgError /\ ~HasRoom /\ ~MustWait
  /\ MayFail("log")
  /\ Leave(1, "error")
  /\ UNCHANGED <<disk, nextFile, openVars, memVars, versionVars, group, bgVars, readVars>>

\* The operations of a group with consecutive sequence numbers.
GroupEntries(grp) ==
  LET ops == FlattenSeq([i \in DOMAIN grp |->
               [j \in DOMAIN Batches[Batch(grp[i])] |->
                  [op |-> Batches[Batch(grp[i])][j], batch |-> Batch(grp[i])]]])
  IN  {[key |-> ops[i].op.key, seq |-> lastSequence + i, batch |-> ops[i].batch, del |-> ops[i].op.del] :
         i \in DOMAIN ops}

\* BuildBatchGroup takes the batches of the writers behind, up to a size, and
\* the log gets them as one record, without the mutex.
AppendLog(w) ==
  /\ writer[w].pc = "head" /\ ~bgError /\ HasRoom
  /\ group' = SubSeq(queue, 1, Min({GroupSize, Len(queue)}))
  /\ disk' = [disk EXCEPT !.logs[memLog] = Append(@, GroupEntries(group'))]
  /\ Set(w, "logged")
  /\ UNCHANGED <<nextFile, openVars, events, memVars, versionVars, status, queue, bgVars, readVars>>

\* Mutant: only the head of the group learns the result.
InsertWakesNoFollower(w) ==
  /\ writer[w].pc = "logged"
  /\ mem' = mem \cup GroupEntries(group)
  /\ lastSequence' = lastSequence + Cardinality(GroupEntries(group))
  /\ queue' = Rest(Len(group)) /\ group' = <<>>
  /\ writer' = [x \in Writers |->
       IF x = w THEN IdleWriter
       ELSE IF queue' # <<>> /\ x = Head(queue') THEN [writer[x] EXCEPT !.pc = "head"] ELSE writer[x]]
  /\ status' = [b \in Writes |-> IF b \in {Batch(group[i]) : i \in DOMAIN group} THEN "ok" ELSE status[b]]
  /\ UNCHANGED <<disk, nextFile, openVars, events, imm, memLog, versionVars, bgVars, readVars>>

\* Into the memtable, no reader looks at these numbers yet; then the new last
\* sequence publishes the group and its writers wake up.
Insert(w) ==
  /\ writer[w].pc = "logged"
  /\ mem' = mem \cup GroupEntries(group)
  /\ lastSequence' = lastSequence + Cardinality(GroupEntries(group))
  /\ Leave(Len(group), "ok")
  /\ group' = <<>>
  /\ UNCHANGED <<disk, nextFile, openVars, events, imm, memLog, versionVars, bgVars, readVars>>

-----------------------------------------------------------------------------
(* The background thread: BackgroundCall.                                  *)

\* background_work_finished_signal_.SignalAll().
SignalAll ==
  writer' = [w \in Writers |-> IF writer[w].pc = "asleep" THEN [writer[w] EXCEPT !.pc = "head"] ELSE writer[w]]

\* The end of BackgroundCall with the state after the step.
EndCall(v, immutable, error, seek) ==
  /\ bg' = IdleBg
  /\ bgScheduled' = (phase = "open" /\ ~error /\ (immutable # NoMem \/ NeedsCompaction(v, seek)))
  /\ SignalAll

\* Shutting down, or an error before: nothing.
CallRefused ==
  /\ bgScheduled /\ bg.pc = "idle" /\ (phase = "closing" \/ bgError)
  /\ EndCall(version, imm, bgError, seekFile)
  /\ UNCHANGED <<disk, nextFile, openVars, events, memVars, versionVars, status, queue, group,
                 bgError, seekFile, readVars>>

BgRuns == bgScheduled /\ phase \in {"open", "closing"}
Flushes == \/ bg.pc = "idle" /\ phase = "open" /\ ~bgError
           \/ bg.pc = "compact" /\ bg.todo # {} /\ phase = "open"

\* CompactMemTable, alone or from within a compaction: the table ...
FlushTable ==
  /\ BgRuns /\ Flushes /\ imm # NoMem
  /\ LET file == [num |-> nextFile, ents |-> imm]
         level == PickLevelForMemTableOutput(version, MinKey(file), MaxKey(file))
     IN  /\ disk' = [disk EXCEPT !.tables = With(@, nextFile, imm)]
         /\ nextFile' = nextFile + 1
         /\ bg' = [bg EXCEPT !.pc = "flushed", !.flushed = {<<level, file>>}]
  /\ UNCHANGED <<openVars, events, memVars, versionVars, writeVars, bgScheduled, bgError, seekFile, readVars>>

\* ... goes into an edit that also retires the old log.  A shutdown that came
\* meanwhile is an error.
FlushEdit ==
  /\ bg.pc = "flushed"
  /\ IF phase = "closing"
     THEN /\ bgError' = TRUE /\ SignalAll
          /\ bg' = [bg EXCEPT !.pc = IF bg.compacting THEN "compact" ELSE "end"]
     ELSE /\ bg' = [bg EXCEPT !.pc = "flushManifest",
                     !.edit = [NoEdit EXCEPT !.log = memLog, !.next = nextFile, !.last = lastSequence,
                                             !.added = bg.flushed]]
          /\ UNCHANGED <<writer, bgError>>
  /\ UNCHANGED <<disk, nextFile, openVars, events, memVars, versionVars, status, queue, group,
                 bgScheduled, seekFile, readVars>>

\* RecordBackgroundError; a flush inside a compaction returns to it.
Fail == bgError' = TRUE /\ SignalAll

FlushFails ==
  /\ \/ BgRuns /\ Flushes /\ imm # NoMem /\ MayFail("table") /\ UNCHANGED disk
     \/ /\ bg.pc = "flushManifest" /\ MayFail("manifest")
        /\ disk' \in {disk, [disk EXCEPT !.manifests[manifestNumber] = Append(@, bg.edit)]}
  /\ Fail
  /\ bg' = [bg EXCEPT !.pc = IF bg.compacting THEN "compact" ELSE "end", !.flushed = {}, !.edit = NoEdit]
  /\ UNCHANGED <<nextFile, openVars, memVars, versionVars, status, queue, group, bgScheduled, seekFile, readVars>>

AppendManifest ==
  /\ bg.pc \in {"flushManifest", "moveManifest", "compactManifest"}
  /\ disk' = [disk EXCEPT !.manifests[manifestNumber] = Append(@, bg.edit)]
  /\ bg' = [bg EXCEPT !.pc = CASE bg.pc = "flushManifest" -> "flushInstall"
                               [] bg.pc = "moveManifest" -> "moveInstall"
                               [] OTHER -> "compactInstall"]
  /\ UNCHANGED <<nextFile, openVars, events, memVars, versionVars, writeVars, bgScheduled, bgError, seekFile, readVars>>

\* AddLiveFiles: every version somebody still holds, and pending_outputs_.
Held == UNION {Numbers(reader[r].version) : r \in Readers}
Pending == {p[2].num : p \in bg.outs}

\* Mutant: the outputs of a running compaction are not pending.
LiveForgettingOutputs(v, compacting) == Numbers(v) \cup Held \cup IF compacting THEN Numbers(bg.base) ELSE {}

\* Mutant: nobody holds the version a lookup or an iterator reads.
LiveForgettingReaders(v, compacting) == Numbers(v) \cup IF compacting THEN Numbers(bg.base) \cup Pending ELSE {}

Live(v, compacting) ==
  Numbers(v) \cup Held \cup IF compacting THEN Numbers(bg.base) \cup Pending ELSE {}

\* After an error nobody knows which version is the durable one.
Doomed(v, log, compacting) == IF bgError THEN {} ELSE Obsolete(Live(v, compacting), log, manifestNumber)

FlushInstall ==
  /\ bg.pc = "flushInstall"
  /\ version' = Apply(version, bg.edit)
  /\ logNumber' = bg.edit.log
  /\ imm' = NoMem /\ seekFile' = {}
  /\ bg' = [bg EXCEPT !.pc = IF bg.compacting THEN "sweepOn" ELSE "sweep", !.flushed = {}, !.edit = NoEdit,
                      !.doomed = Doomed(version', logNumber', bg.compacting)]
  /\ UNCHANGED <<disk, nextFile, openVars, events, mem, memLog, lastSequence, manifestNumber, writeVars,
                 bgScheduled, bgError, readVars>>

\* The files go without the mutex.
Sweep ==
  /\ bg.pc = "sweep"
  /\ disk' = Without(bg.doomed, disk)
  /\ EndCall(version, imm, bgError, seekFile)
  /\ UNCHANGED <<nextFile, openVars, events, memVars, versionVars, status, queue, group, bgError, seekFile, readVars>>

SweepAndGoOn ==
  /\ bg.pc = "sweepOn"
  /\ disk' = Without(bg.doomed, disk)
  /\ bg' = [bg EXCEPT !.pc = "compact", !.doomed = {}]
  /\ SignalAll
  /\ UNCHANGED <<nextFile, openVars, events, memVars, versionVars, status, queue, group,
                 bgScheduled, bgError, seekFile, readVars>>

CallEnds ==
  /\ bg.pc = "end"
  /\ EndCall(version, imm, bgError, seekFile)
  /\ UNCHANGED <<disk, nextFile, openVars, events, memVars, versionVars, status, queue, group,
                 bgError, seekFile, readVars>>

\* PickCompaction: a level that is too full, wherever its turn is, or the
\* file too many lookups went through.  A call was only scheduled because of
\* one of them, and only this thread takes them away.
Candidates ==
  LET full == {l \in 0 .. MaxLevel - 1 :
                 Cardinality(version[l]) >= IF l = 0 THEN L0Trigger ELSE LevelLimit + 1}
  IN  IF full # {} THEN {<<l, f>> : l \in full, f \in AllFiles(version)} ELSE seekFile

\* Level 0 adds what overlaps the picked file.
First(l, f) == IF l = 0 THEN GetOverlappingInputs(version[0], 0, MinKey(f), MaxKey(f)) ELSE {f}

IsTrivialMove(l, ins) ==
  Cardinality(ins[1]) = 1 /\ ins[2] = {} /\ Cardinality(Grandparents(version, l, ins[1])) <= GrandparentLimit

Deletions(l, ins) == {<<l, f.num>> : f \in ins[1]} \cup {<<l + 1, f.num>> : f \in ins[2]}

EditOf(deleted, added) ==
  [log |-> logNumber, next |-> nextFile, last |-> lastSequence, deleted |-> deleted, added |-> added]

OldestSnapshot == IF snapshots = {} THEN lastSequence ELSE Min({s.seq : s \in snapshots})

StartCompaction ==
  /\ BgRuns /\ phase = "open" /\ bg.pc = "idle" /\ ~bgError /\ imm = NoMem
  /\ \E p \in Candidates :
       /\ p[2] \in version[p[1]]
       /\ \E ins \in Inputs(version, p[1], First(p[1], p[2])) :
            bg' = IF IsTrivialMove(p[1], ins)
                  THEN [bg EXCEPT !.pc = "moveManifest",
                          !.edit = EditOf(Deletions(p[1], ins), {<<p[1] + 1, f>> : f \in ins[1]})]
                  ELSE [bg EXCEPT !.pc = "compact", !.compacting = TRUE, !.level = p[1],
                          !.inputs = Deletions(p[1], ins), !.base = version, !.oldest = OldestSnapshot,
                          !.todo = Kept(version, p[1], Entries(ins[1] \cup ins[2]), OldestSnapshot)]
  /\ UNCHANGED <<disk, nextFile, openVars, events, memVars, versionVars, writeVars, bgScheduled,
                 bgError, seekFile, readVars>>

\* One output file; it ends when it is large enough, or earlier where it would
\* overlap too much of the level after the next.
WriteOutput ==
  /\ bg.pc = "compact" /\ bg.todo # {} /\ phase = "open"
  /\ \E n \in 1 .. Min({MaxTable, Cardinality(bg.todo)}) :
       LET ents == {e \in bg.todo : Cardinality({d \in bg.todo : Before(d, e)}) < n}
       IN  /\ disk' = [disk EXCEPT !.tables = With(@, nextFile, ents)]
           /\ bg' = [bg EXCEPT !.todo = @ \ ents,
                               !.outs = @ \cup {<<bg.level + 1, [num |-> nextFile, ents |-> ents]>>}]
  /\ nextFile' = nextFile + 1
  /\ UNCHANGED <<openVars, events, memVars, versionVars, writeVars, bgScheduled, bgError, seekFile, readVars>>

FinishCompaction ==
  /\ bg.pc = "compact" /\ bg.todo = {} /\ phase = "open"
  /\ bg' = [bg EXCEPT !.pc = "compactManifest", !.edit = EditOf(bg.inputs, bg.outs)]
  /\ UNCHANGED <<disk, nextFile, openVars, events, memVars, versionVars, writeVars, bgScheduled,
                 bgError, seekFile, readVars>>

\* A failed output or manifest record, or a shutdown: the outputs are not
\* pending any more, and nothing is removed after an error.
CompactionFails ==
  /\ \/ bg.pc = "compact" /\ phase = "closing" /\ UNCHANGED <<disk, events>>
     \/ bg.pc = "compact" /\ bg.todo # {} /\ MayFail("table") /\ UNCHANGED disk
     \/ /\ bg.pc \in {"moveManifest", "compactManifest"} /\ MayFail("manifest")
        /\ disk' \in {disk, [disk EXCEPT !.manifests[manifestNumber] = Append(@, bg.edit)]}
  /\ Fail
  /\ bg' = [IdleBg EXCEPT !.pc = "end"]
  /\ UNCHANGED <<nextFile, openVars, memVars, versionVars, status, queue, group, bgScheduled, seekFile, readVars>>

\* A moved file removes nothing; a compaction removes its inputs.
Install ==
  /\ bg.pc \in {"moveInstall", "compactInstall"}
  /\ version' = Apply(version, bg.edit)
  /\ logNumber' = bg.edit.log /\ seekFile' = {}
  /\ bg' = [IdleBg EXCEPT !.pc = IF bg.pc = "moveInstall" THEN "end" ELSE "sweep",
                          !.doomed = IF bg.pc = "moveInstall" THEN {} ELSE Doomed(version', logNumber', FALSE)]
  /\ UNCHANGED <<disk, nextFile, openVars, events, memVars, manifestNumber, writeVars, bgScheduled, bgError, readVars>>

-----------------------------------------------------------------------------
(* Reading: Get, iterators and snapshots.                                  *)

Contents == [k \in Keys |-> Lookup(mem, imm, version, k, lastSequence)]

\* A reader takes references to the memtables and the version it found.
BeginRead(r) ==
  /\ phase = "open" /\ reader[r].pc = "idle" /\ Counts
  /\ reader' = [reader EXCEPT ![r] = [pc |-> "reading", snap |-> lastSequence, mem |-> mem, imm |-> imm,
                                      version |-> version, expected |-> Contents]]
  /\ UNCHANGED <<disk, nextFile, openVars, memVars, versionVars, writeVars, bgVars, snapshots>>

\* The file a search is blamed on may have had enough of that.
EndRead(r) ==
  /\ reader[r].pc = "reading"
  /\ reader' = [reader EXCEPT ![r] = IdleReader]
  /\ seekFile' \in {seekFile} \cup
       IF seekFile # {} \/ reader[r].version # version THEN {}
       ELSE {Blamed(version, k, reader[r].snap) : k \in Keys}
  /\ UNCHANGED <<disk, nextFile, openVars, events, memVars, versionVars, writeVars, bg, bgError, snapshots>>
  /\ MaybeSchedule(version, imm, bgError, seekFile')

GetSnapshot ==
  /\ phase = "open" /\ Counts
  /\ snapshots' = snapshots \cup {[seq |-> lastSequence, contents |-> Contents]}
  /\ UNCHANGED <<disk, nextFile, openVars, memVars, versionVars, writeVars, bgVars, reader>>

ReleaseSnapshot ==
  /\ \E s \in snapshots : snapshots' = snapshots \ {s}
  /\ UNCHANGED <<disk, nextFile, openVars, events, memVars, versionVars, writeVars, bgVars, reader>>

-----------------------------------------------------------------------------
(* Closing and dying.                                                      *)

\* The destructor: its owner has no call left in the store.
Close ==
  /\ phase = "open" /\ events < MaxEvents
  /\ \A w \in Writers : writer[w].pc = "idle"
  /\ \A r \in Readers : reader[r].pc = "idle"
  /\ snapshots = {}
  /\ phase' = "closing"
  /\ UNCHANGED <<disk, nextFile, events, recovery, memVars, versionVars, writeVars, bgVars, readVars>>

Closed ==
  /\ phase = "closing" /\ ~bgScheduled
  /\ ForgetMemory
  /\ UNCHANGED <<disk, events, status>>

Crash ==
  /\ phase # "closed" /\ events < MaxEvents
  /\ ForgetMemory
  /\ status' = [b \in Writes |-> IF status[b] = "open" THEN "lost" ELSE status[b]]
  /\ UNCHANGED <<disk, events>>

-----------------------------------------------------------------------------
Opening == NewDb \/ NewCurrent \/ Recover \/ ReplayLog \/ NewLog \/ SaveManifest \/ SetCurrent

Writing(w) == Refused(w) \/ Sleep(w) \/ SwitchMemtable(w) \/ AppendLog(w) \/ Insert(w)

Background ==
  \/ CallRefused \/ FlushTable \/ FlushEdit \/ AppendManifest \/ FlushInstall \/ Sweep \/ SweepAndGoOn
  \/ CallEnds \/ StartCompaction \/ WriteOutput \/ FinishCompaction \/ Install
  \/ CompactionFails

Next ==
  \/ Opening \/ OpenFails \/ DieCleaning
  \/ \E w \in Writers : Write(w) \/ Writing(w) \/ NoNewLog(w)
  \/ Background \/ FlushFails
  \/ \E r \in Readers : BeginRead(r) \/ EndRead(r)
  \/ GetSnapshot \/ ReleaseSnapshot
  \/ Close \/ Closed \/ Crash

Spec == Init /\ [][Next]_vars

-----------------------------------------------------------------------------
\* What a recovery of this disk would find.
Recoverable ==
  LET ents == IF disk.current = 0 THEN {}
              ELSE Entries(AllFiles(VersionOf(Manifest)))
                     \cup UNION {UNION ToSet(disk.logs[n]) : n \in {m \in DOMAIN disk.logs : m >= Last(Manifest).log}}
      last == Max({0} \cup {e.seq : e \in ents})
  IN  [k \in Keys |-> Merge(ents, k, last)]

Now == IF phase \in {"open", "closing"} THEN Contents ELSE Recoverable

Store == INSTANCE DurableStore WITH db <- Now

\* The store keeps its promise: batches are atomic, an acknowledged write is
\* found by every lookup and survives every flush, compaction, failed file
\* operation, crash and recovery.
StoreSpec == Store!StoreSpec

\* Every file of the version a running lookup or iterator holds is on the disk.
ReadersKeepTheirFiles ==
  \A r \in Readers : reader[r].pc = "reading" => Numbers(reader[r].version) \subseteq DOMAIN disk.tables

\* A lookup or an iterator that runs has every file of its version on the disk
\* and finds, level by level, the contents at the moment it began; a snapshot
\* keeps its contents for lookups through all flushes and compactions.
ReadersSeeTheirSnapshot ==
  /\ ReadersKeepTheirFiles
  /\ \A r \in Readers, k \in Keys : reader[r].pc = "reading" =>
       LET of == reader[r]
           ents == of.mem \cup of.imm \cup Entries(AllFiles(of.version))
       IN  /\ Lookup(of.mem, of.imm, of.version, k, of.snap) = of.expected[k]
           /\ Merge(ents, k, of.snap) = of.expected[k]
  /\ \A s \in snapshots, k \in Keys : Lookup(mem, imm, version, k, s.seq) = s.contents[k]

\* Whenever the process dies, and after failed file operations too, the manifest
\* names only tables that exist, so that the store opens again.
RecoverySucceeds == disk.current # 0 => Missing = {}

\* Nobody waits in vain: a writer that sleeps for room has a background call
\* coming that wakes it, and one that waits in the queue has a leader in front
\* that is not gone.
WaitersAreServed ==
  \A w \in Writers :
    /\ writer[w].pc = "asleep" => queue # <<>> /\ w = Head(queue) /\ bgScheduled
    /\ writer[w].pc = "queued" =>
         /\ queue # <<>> /\ w \in ToSet(Tail(queue))
         /\ writer[Head(queue)].pc \in {"head", "asleep", "logged"}
=============================================================================
