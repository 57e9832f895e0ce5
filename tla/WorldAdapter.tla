---------------------------- MODULE WorldAdapter ----------------------------
(***************************************************************************)
(* The life of a BedrockWorldAdapter (src/src/world/world.cpp): open() on  *)
(* an archive, a new archive or a directory, conversions into the world,   *)
(* and the three ways it ends - close(), discard() and the destructor -    *)
(* with what they leave on disk and which statistics they report.          *)
(*                                                                         *)
(* A step is one effect on the disk or one return to the caller, so that   *)
(* the process may also die between any two of them.  World contents are   *)
(* abstracted to the set of conversions (and direct saves) that reached    *)
(* the LevelDB directory, each "whole" or "part".                          *)
(***************************************************************************)
EXTENDS Integers, FiniteSets

CONSTANTS
  Conversions,   \* 1..n: conversions a caller may run into one adapter
  FlushMayFail   \* TRUE: the last buffered bytes of a ZIP may fail to reach the disk

ASSUME AdapterAssumption ==
  /\ Conversions \subseteq Nat \ {0}
  /\ FlushMayFail \in BOOLEAN

Targets == {"archive", "newArchive", "directory"}
Marks == (Conversions \X {"whole", "part"}) \cup {<<0, "part">>}
Archives == [kind : {"absent", "original", "packed", "torn"}, data : SUBSET Marks]
Absent == [kind |-> "absent", data |-> {}]

VARIABLES
  target, writeBack,          \* what open() was asked for
  final,                      \* disk: the file at the archive path
  tempDir,                    \* disk: adapter-owned world directory exists
  pending,                    \* disk: the archive being built next to the target
  data,                       \* what the LevelDB world holds beyond its origin
  mWorld, mArchivePath, mWriteBackArchive, mTemporaryDirectory,
  mPendingArchivePath, mDiscardOnClose,
  deferred,                   \* mDeferredStats: a conversion, 0 without
  wantsStats,                 \* history: conversions run with a statistics callback
  emitted,                    \* history: statistics callbacks made, <<conversion, success>>
  runs,                       \* history: conversion |-> its result
  call,                       \* the member function in progress, "none" between
  step,                       \* where it is
  failing,                    \* it has met an error
  returned,                   \* result of the last completed member function
  stuck,                      \* history: artifacts the last cleanup could not remove
  clean,                      \* history: no conversion failed, no discard, every close succeeded
  life                        \* "unopened", "open", "destroyed", "refused", "dead"

diskVars == <<final, tempDir, pending>>
memberVars == <<mWorld, mArchivePath, mWriteBackArchive, mTemporaryDirectory,
                mPendingArchivePath, mDiscardOnClose>>
statsVars == <<deferred, wantsStats, emitted, runs>>
callVars == <<call, step, failing, returned, stuck, clean, life>>
vars == <<target, writeBack, diskVars, data, memberVars, statsVars, callVars>>

Init ==
  /\ target \in Targets
  /\ writeBack \in BOOLEAN
  /\ final = IF target = "archive" THEN [kind |-> "original", data |-> {}] ELSE Absent
  /\ tempDir = FALSE
  /\ pending = Absent
  /\ data = {}
  /\ mWorld = FALSE
  /\ mArchivePath = FALSE
  /\ mWriteBackArchive = FALSE
  /\ mTemporaryDirectory = FALSE
  /\ mPendingArchivePath = FALSE
  /\ mDiscardOnClose = FALSE
  /\ deferred = 0
  /\ wantsStats = {}
  /\ emitted = {}
  /\ runs = [c \in {} |-> "none"]
  /\ call = "none"
  /\ step = "none"
  /\ failing = FALSE
  /\ returned = "none"
  /\ stuck = {}
  /\ clean = TRUE
  /\ life = "unopened"

-----------------------------------------------------------------------------
(* open()                                                                  *)

\* An archive is extracted, a new archive gets an empty private directory, a
\* directory that is not written back is copied; only a directory that is
\* written back is opened in place.
UsesTemporary == target # "directory" \/ ~writeBack

OpenSucceeds ==
  /\ life = "unopened"
  /\ life' = "open"
  /\ tempDir' = UsesTemporary
  /\ mTemporaryDirectory' = UsesTemporary
  /\ mArchivePath' = (target # "directory")
  /\ mWriteBackArchive' = writeBack
  /\ mWorld' = TRUE
  /\ UNCHANGED <<target, writeBack, final, pending, data, mPendingArchivePath,
                 mDiscardOnClose, statsVars, call, step, failing, returned, stuck, clean>>

\* A failure after the temporary directory came into being removes it, except
\* when the parent of a new archive cannot be created; the removal itself may
\* fail and is not reported either.
OpenFails ==
  /\ life = "unopened"
  /\ life' = "refused"
  /\ tempDir' \in IF UsesTemporary THEN BOOLEAN ELSE {FALSE}
  /\ UNCHANGED <<target, writeBack, final, pending, data, memberVars, statsVars,
                 call, step, failing, returned, stuck, clean>>

-----------------------------------------------------------------------------
(* Between open() and the end: direct saves and convert_to_world.          *)

Idle == life = "open" /\ call = "none"

\* save_chunk()/save_chunks() by the caller.
SaveDirectly ==
  /\ Idle /\ mWorld
  /\ data' = data \cup {<<0, "part">>}
  /\ UNCHANGED <<target, writeBack, diskVars, memberVars, statsVars, callVars>>

\* emit_deferred_statistics(): at most once per deferred conversion.
Emit(success) ==
  /\ deferred' = 0
  /\ emitted' = IF deferred = 0 THEN emitted ELSE emitted \cup {<<deferred, success>>}

NextConversion == Cardinality(DOMAIN runs) + 1
Record(c, res) == runs' = [d \in DOMAIN runs \cup {c} |-> IF d = c THEN res ELSE runs[d]]

\* Success: statistics wait for close(); an earlier snapshot still deferred is
\* reported now (defer_statistics).
ConvertSucceeds ==
  /\ Idle /\ mWorld
  /\ NextConversion \in Conversions
  /\ LET c == NextConversion
     IN  /\ Record(c, "success")
         /\ data' = data \cup {<<c, "whole">>}
         /\ \/ UNCHANGED <<deferred, wantsStats, emitted>>
            \/ /\ wantsStats' = wantsStats \cup {c}
               /\ deferred' = c
               /\ emitted' = IF deferred = 0 THEN emitted ELSE emitted \cup {<<deferred, TRUE>>}
  /\ UNCHANGED <<target, writeBack, diskVars, memberVars, callVars>>

\* Mutant: the failure does not mark the adapter.
ConvertFailsUnmarked ==
  /\ Idle
  /\ NextConversion \in Conversions
  /\ LET c == NextConversion
     IN  /\ Record(c, "failure")
         /\ data' \in {data} \cup IF mWorld THEN {data \cup {<<c, "part">>}} ELSE {}
         /\ \/ UNCHANGED <<wantsStats, emitted>>
            \/ wantsStats' = wantsStats \cup {c} /\ emitted' = emitted \cup {<<c, FALSE>>}
  /\ clean' = FALSE
  /\ UNCHANGED <<target, writeBack, diskVars, memberVars, deferred, call, step, failing,
                 returned, stuck, life>>

\* Failure, possibly with part of the chunks written; also what a conversion
\* into an adapter that is already closed does.  Statistics come at once.
ConvertFails ==
  /\ Idle
  /\ NextConversion \in Conversions
  /\ LET c == NextConversion
     IN  /\ Record(c, "failure")
         /\ data' \in {data} \cup IF mWorld THEN {data \cup {<<c, "part">>}} ELSE {}
         /\ \/ UNCHANGED <<wantsStats, emitted>>
            \/ wantsStats' = wantsStats \cup {c} /\ emitted' = emitted \cup {<<c, FALSE>>}
  /\ mDiscardOnClose' = TRUE
  /\ clean' = FALSE
  /\ UNCHANGED <<target, writeBack, diskVars, mWorld, mArchivePath, mWriteBackArchive,
                 mTemporaryDirectory, mPendingArchivePath, deferred, call, step, failing,
                 returned, stuck, life>>

-----------------------------------------------------------------------------
(* close(), discard() and the destructor, one effect per step.             *)

\* close() turns into discard() for an adapter marked by a failed conversion.
\* The destructor drops the deferred statistics before it does the same.
Call(c) ==
  /\ Idle
  /\ call' = c
  /\ failing' = FALSE
  /\ step' = IF c = "discard" \/ mDiscardOnClose THEN "discard" ELSE "close"
  /\ deferred' = IF c = "destructor" THEN 0 ELSE deferred
  /\ returned' = "none"
  /\ clean' = (clean /\ c # "discard")
  /\ UNCHANGED <<target, writeBack, diskVars, data, memberVars, wantsStats, emitted, runs,
                 stuck, life>>

\* discard(): the LevelDB close may fail, the destination is given up anyway.
DiscardWorld ==
  /\ step = "discard"
  /\ mDiscardOnClose' = FALSE
  /\ mWorld' = FALSE
  /\ mArchivePath' = FALSE
  /\ mWriteBackArchive' = FALSE
  /\ failing' \in IF mWorld THEN BOOLEAN ELSE {FALSE}
  /\ step' = "discarded"
  /\ UNCHANGED <<target, writeBack, diskVars, data, mTemporaryDirectory, mPendingArchivePath,
                 statsVars, call, returned, stuck, clean, life>>

\* close(): a second call on a closed adapter only cleans up.
CloseWorld ==
  /\ step = "close"
  /\ mWorld' = FALSE
  /\ failing' \in IF mWorld THEN BOOLEAN ELSE {FALSE}
  /\ step' = IF mWorld /\ ~failing' /\ mArchivePath /\ mWriteBackArchive
             THEN "pack" ELSE "cleanup"
  /\ IF mWorld /\ step' = "cleanup"
     THEN mArchivePath' = FALSE /\ mWriteBackArchive' = FALSE
     ELSE UNCHANGED <<mArchivePath, mWriteBackArchive>>
  /\ UNCHANGED <<target, writeBack, diskVars, data, mTemporaryDirectory, mPendingArchivePath,
                 mDiscardOnClose, statsVars, call, returned, stuck, clean, life>>

\* Mutant: the ZIP is built in place.
BeginPackInPlace ==
  /\ step = "pack"
  /\ mPendingArchivePath' = TRUE
  /\ pending' = [kind |-> "torn", data |-> data]
  /\ final' = pending'
  /\ step' = "packing"
  /\ UNCHANGED <<target, writeBack, tempDir, data, mWorld, mArchivePath,
                 mWriteBackArchive, mTemporaryDirectory, mDiscardOnClose, statsVars,
                 call, failing, returned, stuck, clean, life>>

\* create_zip() writes into the pending path, never into the target.
BeginPack ==
  /\ step = "pack"
  /\ mPendingArchivePath' = TRUE
  /\ pending' = [kind |-> "torn", data |-> data]
  /\ step' = "packing"
  /\ UNCHANGED <<target, writeBack, final, tempDir, data, mWorld, mArchivePath,
                 mWriteBackArchive, mTemporaryDirectory, mDiscardOnClose, statsVars,
                 call, failing, returned, stuck, clean, life>>

\* create_zip() reports success.  Its last bytes are still in the stream's
\* buffer, and the stream's destructor does not report a failed flush.
PackSucceeds ==
  /\ step = "packing"
  /\ pending' \in {[kind |-> k, data |-> data] :
                      k \in IF FlushMayFail THEN {"packed", "torn"} ELSE {"packed"}}
  /\ step' = "replace"
  /\ UNCHANGED <<target, writeBack, final, tempDir, data, memberVars, statsVars,
                 call, failing, returned, stuck, clean, life>>

\* create_zip() or the rename over the target fails.
GiveUpArchive ==
  /\ step \in {"packing", "replace"}
  /\ mArchivePath' = FALSE
  /\ mWriteBackArchive' = FALSE
  /\ failing' = TRUE
  /\ step' = "cleanup"
  /\ UNCHANGED <<target, writeBack, diskVars, data, mWorld, mTemporaryDirectory,
                 mPendingArchivePath, mDiscardOnClose, statsVars, call, returned,
                 stuck, clean, life>>

\* create_zip() throws (directory iteration, file_size): the exception leaves
\* close() at once; the destructor swallows it.
PackThrows ==
  /\ step = "packing"
  /\ step' = "none"
  /\ call' = "none"
  /\ returned' = "threw"
  /\ clean' = FALSE
  /\ life' = IF call = "destructor" THEN "destroyed" ELSE life
  /\ UNCHANGED <<target, writeBack, diskVars, data, memberVars, statsVars, failing, stuck>>

\* rename(pending, target) replaces the archive in one step.
Replace ==
  /\ step = "replace"
  /\ final' = pending
  /\ pending' = Absent
  /\ mPendingArchivePath' = FALSE
  /\ mArchivePath' = FALSE
  /\ mWriteBackArchive' = FALSE
  /\ step' = "cleanup"
  /\ UNCHANGED <<target, writeBack, tempDir, data, mWorld, mTemporaryDirectory,
                 mDiscardOnClose, statsVars, call, failing, returned, stuck, clean, life>>

\* Mutant: the cleanup forgets the pending archive.
CleanupKeepsPending(fails) ==
  /\ UNCHANGED <<pending, mPendingArchivePath>>
  /\ IF mTemporaryDirectory /\ "tempDir" \notin fails
     THEN tempDir' = FALSE /\ mTemporaryDirectory' = FALSE
     ELSE UNCHANGED <<tempDir, mTemporaryDirectory>>

\* cleanup_temporary_artifacts(): each removal may fail; what could not be
\* removed stays recorded for the next call.
Cleanup(fails) ==
  /\ IF mPendingArchivePath /\ "pending" \notin fails
     THEN pending' = Absent /\ mPendingArchivePath' = FALSE
     ELSE UNCHANGED <<pending, mPendingArchivePath>>
  /\ IF mTemporaryDirectory /\ "tempDir" \notin fails
     THEN tempDir' = FALSE /\ mTemporaryDirectory' = FALSE
     ELSE UNCHANGED <<tempDir, mTemporaryDirectory>>

CleanupAndReturn ==
  /\ step \in {"cleanup", "discarded"}
  /\ \E fails \in SUBSET {"pending", "tempDir"} :
       /\ Cleanup(fails)
       /\ stuck' = {a \in fails : IF a = "pending" THEN mPendingArchivePath ELSE mTemporaryDirectory}
       /\ LET ok == ~failing /\ stuck' = {}
          IN  /\ Emit(ok /\ step = "cleanup")
              /\ returned' = IF ok THEN "success" ELSE "failure"
              /\ clean' = (clean /\ ok)
  /\ life' = IF call = "destructor" THEN "destroyed" ELSE life
  /\ call' = "none"
  /\ step' = "none"
  /\ UNCHANGED <<target, writeBack, final, data, mWorld, mArchivePath, mWriteBackArchive,
                 mDiscardOnClose, wantsStats, runs, failing>>

\* The process dies, at any moment.
Crash ==
  /\ life = "open"
  /\ life' = "dead"
  /\ call' = "none"
  /\ step' = "none"
  /\ UNCHANGED <<target, writeBack, diskVars, data, memberVars, statsVars, failing,
                 returned, stuck, clean>>

Over == life \in {"destroyed", "refused", "dead"} /\ UNCHANGED vars

End ==
  \/ DiscardWorld \/ CloseWorld \/ BeginPack \/ PackSucceeds \/ GiveUpArchive
  \/ PackThrows \/ Replace \/ CleanupAndReturn

Next ==
  \/ OpenSucceeds \/ OpenFails
  \/ SaveDirectly \/ ConvertSucceeds \/ ConvertFails
  \/ \E c \in {"close", "discard", "destructor"} : Call(c)
  \/ End
  \/ Crash
  \/ Over

Spec == Init /\ [][Next]_vars

-----------------------------------------------------------------------------
TypeOK ==
  /\ target \in Targets /\ writeBack \in BOOLEAN
  /\ final \in Archives /\ tempDir \in BOOLEAN /\ pending \in Archives
  /\ data \subseteq Marks
  /\ mWorld \in BOOLEAN /\ mArchivePath \in BOOLEAN /\ mWriteBackArchive \in BOOLEAN
  /\ mTemporaryDirectory \in BOOLEAN /\ mPendingArchivePath \in BOOLEAN
  /\ mDiscardOnClose \in BOOLEAN
  /\ mPendingArchivePath = (pending # Absent)
  /\ deferred \in {0} \cup Conversions
  /\ wantsStats \subseteq Conversions
  /\ emitted \subseteq Conversions \X BOOLEAN
  /\ call \in {"none", "close", "discard", "destructor"}
  /\ step \in {"none", "discard", "discarded", "close", "pack", "packing", "replace", "cleanup"}
  /\ (call = "none") = (step = "none")
  /\ failing \in BOOLEAN /\ clean \in BOOLEAN
  /\ returned \in {"none", "success", "failure", "threw"}
  /\ stuck \subseteq {"pending", "tempDir"}
  /\ life \in {"unopened", "open", "destroyed", "refused", "dead"}

ArchiveTarget == target # "directory" /\ writeBack

\* Whenever the process dies, and whatever fails, the file at the archive path
\* is the one found there, none, or a complete new archive: close() packs next
\* to the target and replaces it in one rename.
ArchiveIsWhole == final.kind # "torn"

\* An aborted transaction leaves the archive alone: once a conversion has
\* failed, or when write_back_archive was not asked for, no later close(),
\* discard(), destructor or conversion changes it.
AbortPreservesArchive ==
  [][(~writeBack \/ \E c \in DOMAIN runs : runs[c] = "failure") => UNCHANGED final]_vars

\* An end is complete: the destructor leaves no temporary world and no half-built
\* archive behind, except what could not be removed, unless packing itself
\* threw; and every conversion run with a statistics callback is reported
\* exactly once by the time close() or discard() has returned.  After a
\* successful close of an adapter nothing went wrong with, the archive holds
\* everything that was written.
EndIsComplete ==
  /\ (life = "destroyed" /\ returned # "threw") =>
       /\ tempDir => "tempDir" \in stuck
       /\ pending # Absent => "pending" \in stuck
  /\ \A c \in wantsStats : Cardinality({e \in emitted : e[1] = c}) <= 1
  /\ (life = "open" /\ call = "none" /\ returned \in {"success", "failure"})
       => deferred = 0 /\ {e[1] : e \in emitted} = wantsStats
  /\ (ArchiveTarget /\ clean /\ life = "open" /\ ~mWorld /\ call = "none")
       => final = [kind |-> "packed", data |-> data]

=============================================================================
