------------------------- MODULE WorldAdapterProofs -------------------------
(***************************************************************************)
(* The world adapter never leaves a torn archive, leaves the archive of an *)
(* aborted transaction alone, and ends completely, for any number of       *)
(* conversions into one adapter.                                           *)
(***************************************************************************)
EXTENDS WorldAdapter, FiniteSetTheorems, TLAPS

Packing == {"pack", "packing", "replace"}

\* What close() may rely on: the write-back flags are those of open() while
\* the world is open, and all of them are still set while close() packs.
ControlInv ==
  /\ step # "none" => life = "open"
  /\ life = "unopened" => ~mWorld /\ ~tempDir /\ ~mTemporaryDirectory /\ pending = Absent
  /\ life = "refused" => ~mWorld /\ pending = Absent
  /\ life # "refused" => mTemporaryDirectory = tempDir
  /\ mWriteBackArchive => writeBack
  /\ mWorld => mArchivePath = (target # "directory") /\ mWriteBackArchive = writeBack
  /\ step \in Packing => mArchivePath /\ mWriteBackArchive /\ ~failing
  /\ step \in Packing \cup {"cleanup", "discarded"} => ~mWorld
  /\ step \in {"packing", "replace"} => pending # Absent

TypeInv == TypeOK /\ ControlInv

\* A failed conversion marks the adapter until discard() has given the
\* destination up, so no close() ever packs its world.
AnyFailed == \E c \in DOMAIN runs : runs[c] = "failure"

AbortInv ==
  /\ life = "unopened" => DOMAIN runs = {}
  /\ AnyFailed => /\ mDiscardOnClose \/ ~mWorld
                  /\ step = "close" => ~mWorld
                  /\ step \notin Packing

\* Conversions are numbered consecutively; each that wants statistics is
\* deferred or reported, never both, and never reported twice.
Reported == {e[1] : e \in emitted}
ReportedOnce == \A d, e \in emitted : d[1] = e[1] => d = e

NumberInv ==
  /\ IsFiniteSet(DOMAIN runs)
  /\ DOMAIN runs \subseteq 1 .. Cardinality(DOMAIN runs)

StatsInv ==
  /\ wantsStats \subseteq DOMAIN runs
  /\ Reported \subseteq wantsStats
  /\ deferred # 0 => deferred \in wantsStats \ Reported
  /\ ReportedOnce
  /\ (life = "open" /\ call # "destructor") => wantsStats \subseteq Reported \cup {deferred}
  /\ life = "unopened" => wantsStats = {} /\ deferred = 0 /\ returned = "none"
  /\ (life = "open" /\ returned \in {"success", "failure"}) => deferred = 0 /\ ~mWorld /\ call = "none"

\* The removal of an artifact that failed is remembered.
RemovalInv ==
  (life = "destroyed" /\ returned # "threw") =>
     /\ tempDir => "tempDir" \in stuck
     /\ pending # Absent => "pending" \in stuck

\* The archive next to the target is complete before it replaces the target,
\* and a close() nothing went wrong with has replaced it.
Packed == final = [kind |-> "packed", data |-> data]

ArchiveInv ==
  /\ final.kind # "torn"
  /\ step = "replace" => pending = [kind |-> "packed", data |-> data]
  /\ mDiscardOnClose \/ step \in {"discard", "discarded"} => ~clean
  /\ (ArchiveTarget /\ clean /\ life = "open" /\ ~mWorld) =>
       \/ step \in Packing
       \/ step = "cleanup" /\ failing
       \/ Packed


\* The archives and marks the actions build.
LEMMA ArchiveTypes ==
  /\ Absent \in Archives
  /\ [kind |-> "original", data |-> {}] \in Archives
  /\ \A k \in {"torn", "packed"}, d \in SUBSET Marks :
        /\ [kind |-> k, data |-> d] \in Archives
        /\ [kind |-> k, data |-> d] # Absent
  BY DEF Archives, Absent

LEMMA MarkTypes ==
  /\ <<0, "part">> \in Marks
  /\ \A c \in Conversions : <<c, "whole">> \in Marks /\ <<c, "part">> \in Marks
  BY DEF Marks

\* The reports after one more, of conversion c.
LEMMA OneMoreReport ==
  ASSUME emitted \subseteq Conversions \X BOOLEAN, NEW c \in Conversions, NEW ok \in BOOLEAN,
         emitted' = emitted \cup {<<c, ok>>}
  PROVE  /\ emitted' \subseteq Conversions \X BOOLEAN
         /\ Reported' = Reported \cup {c}
         /\ (c \notin Reported /\ ReportedOnce) => ReportedOnce'
<1>1. emitted' \subseteq Conversions \X BOOLEAN
  OBVIOUS
<1>2. <<c, ok>>[1] = c
  OBVIOUS
<1>3. Reported' = Reported \cup {c}
  BY <1>2 DEF Reported
<1>4. ASSUME c \notin Reported, ReportedOnce, NEW d \in emitted', NEW e \in emitted', d[1] = e[1]
      PROVE  d = e
  <2>1. CASE d \in emitted /\ e \in emitted
    BY <1>4, <2>1 DEF ReportedOnce
  <2>2. CASE d = <<c, ok>> /\ e = <<c, ok>>
    BY <2>2
  <2>3. CASE d \in emitted /\ e = <<c, ok>>
    BY <1>2, <1>4, <2>3 DEF Reported
  <2>4. CASE d = <<c, ok>> /\ e \in emitted
    BY <1>2, <1>4, <2>4 DEF Reported
  <2>5. QED
    BY <2>1, <2>2, <2>3, <2>4
<1>5. QED
  BY <1>1, <1>3, <1>4 DEF ReportedOnce

LEMMA TypeInvInit == Init => TypeInv
  BY ArchiveTypes DEF Init, TypeInv, TypeOK, ControlInv, Targets, Packing

LEMMA TypeInvStep == TypeInv /\ [Next]_vars => TypeInv'
<1> SUFFICES ASSUME TypeInv, [Next]_vars PROVE TypeInv'
  OBVIOUS
<1> USE AdapterAssumption DEF TypeInv, TypeOK, ControlInv, Packing, Targets, diskVars, memberVars, statsVars, callVars
<1>1. CASE OpenSucceeds
  BY <1>1 DEF OpenSucceeds, UsesTemporary
<1>2. CASE OpenFails
  <2>1. /\ life = "unopened" /\ life' = "refused" /\ tempDir' \in BOOLEAN
        /\ UNCHANGED <<target, writeBack, final, pending, data, memberVars, statsVars,
                       call, step, failing, returned, stuck, clean>>
    BY <1>2 DEF OpenFails
  <2>2. mPendingArchivePath' = (pending' # Absent)
    BY <2>1
  <2>3. (call' = "none") = (step' = "none")
    BY <2>1
  <2>4. TypeOK'
    <3>1. target' \in Targets /\ writeBack' \in BOOLEAN /\ final' \in Archives
          /\ tempDir' \in BOOLEAN /\ pending' \in Archives /\ data' \subseteq Marks
      BY <2>1
    <3>2. /\ mWorld' \in BOOLEAN /\ mArchivePath' \in BOOLEAN /\ mWriteBackArchive' \in BOOLEAN
          /\ mTemporaryDirectory' \in BOOLEAN /\ mPendingArchivePath' \in BOOLEAN
          /\ mDiscardOnClose' \in BOOLEAN
      BY <2>1
    <3>3. /\ deferred' \in {0} \cup Conversions /\ wantsStats' \subseteq Conversions
          /\ emitted' \subseteq Conversions \X BOOLEAN
      BY <2>1
    <3>4. /\ call' \in {"none", "close", "discard", "destructor"}
          /\ step' \in {"none", "discard", "discarded", "close", "pack", "packing", "replace", "cleanup"}
          /\ failing' \in BOOLEAN /\ clean' \in BOOLEAN
          /\ returned' \in {"none", "success", "failure", "threw"} /\ stuck' \subseteq {"pending", "tempDir"}
          /\ life' \in {"unopened", "open", "destroyed", "refused", "dead"}
      BY <2>1
    <3>5. QED
      BY <2>2, <2>3, <3>1, <3>2, <3>3, <3>4
  <2>5. ControlInv'
    BY <2>1
  <2>6. QED
    BY <2>4, <2>5
<1>3. CASE SaveDirectly
  BY <1>3, MarkTypes DEF SaveDirectly, Idle
<1>4. CASE ConvertSucceeds
  <2>1. data' \subseteq Marks
    BY <1>4, MarkTypes DEF ConvertSucceeds
  <2>2. deferred' \in {0} \cup Conversions /\ wantsStats' \subseteq Conversions
    BY <1>4 DEF ConvertSucceeds
  <2>3. emitted' \subseteq Conversions \X BOOLEAN
    <3>1. CASE UNCHANGED emitted
      BY <3>1
    <3>2. CASE deferred # 0 /\ emitted' = emitted \cup {<<deferred, TRUE>>}
      BY <3>2, OneMoreReport
    <3>3. QED
      BY <1>4, <3>1, <3>2 DEF ConvertSucceeds
  <2>4. QED
    BY <1>4, <2>1, <2>2, <2>3 DEF ConvertSucceeds, Idle
<1>5. CASE ConvertFails
  <2>1. data' \subseteq Marks
    BY <1>5, MarkTypes DEF ConvertFails
  <2>2. wantsStats' \subseteq Conversions
    BY <1>5 DEF ConvertFails
  <2>3. emitted' \subseteq Conversions \X BOOLEAN
    BY <1>5, OneMoreReport DEF ConvertFails
  <2>4. QED
    <3>1. /\ mDiscardOnClose' = TRUE
          /\ clean' = FALSE
          /\ UNCHANGED <<target, writeBack, diskVars, mWorld, mArchivePath, mWriteBackArchive,
                         mTemporaryDirectory, mPendingArchivePath, deferred, call, step, failing,
                         returned, stuck, life>>
      BY <1>5 DEF ConvertFails
    <3>2. TypeOK'
      <4>1. mPendingArchivePath' = (pending' # Absent)
        BY <3>1
      <4>2. (call' = "none") = (step' = "none")
        BY <3>1
      <4>3. mDiscardOnClose' \in BOOLEAN /\ clean' \in BOOLEAN /\ deferred' \in {0} \cup Conversions
        BY <3>1
      <4>4. QED
        BY <2>1, <2>2, <2>3, <3>1, <4>1, <4>2, <4>3
    <3>3. ControlInv'
      BY <3>1
    <3>4. QED
      BY <3>2, <3>3
<1>6. ASSUME NEW c \in {"close", "discard", "destructor"}, Call(c) PROVE TypeInv'
  <2>1. /\ life = "open" /\ call = "none" /\ call' = c /\ failing' = FALSE
        /\ step' \in {"discard", "close"} /\ returned' = "none" /\ clean' \in BOOLEAN
        /\ UNCHANGED <<target, writeBack, diskVars, data, memberVars, wantsStats, emitted, runs,
                       stuck, life>>
    BY <1>6 DEF Call, Idle
  <2>2. deferred' \in {0} \cup Conversions
    BY <1>6 DEF Call
  <2>3. mPendingArchivePath' = (pending' # Absent)
    BY <2>1
  <2>4. (call' = "none") = (step' = "none")
    BY <1>6, <2>1
  <2>5. TypeOK'
    <3>1. target' \in Targets /\ writeBack' \in BOOLEAN /\ final' \in Archives
          /\ tempDir' \in BOOLEAN /\ pending' \in Archives /\ data' \subseteq Marks
      BY <2>1
    <3>2. /\ mWorld' \in BOOLEAN /\ mArchivePath' \in BOOLEAN /\ mWriteBackArchive' \in BOOLEAN
          /\ mTemporaryDirectory' \in BOOLEAN /\ mPendingArchivePath' \in BOOLEAN
          /\ mDiscardOnClose' \in BOOLEAN
      BY <2>1
    <3>3. /\ deferred' \in {0} \cup Conversions /\ wantsStats' \subseteq Conversions
          /\ emitted' \subseteq Conversions \X BOOLEAN
      BY <2>1, <2>2
    <3>4. /\ call' \in {"none", "close", "discard", "destructor"}
          /\ step' \in {"none", "discard", "discarded", "close", "pack", "packing", "replace", "cleanup"}
          /\ failing' \in BOOLEAN /\ clean' \in BOOLEAN
          /\ returned' \in {"none", "success", "failure", "threw"} /\ stuck' \subseteq {"pending", "tempDir"}
          /\ life' \in {"unopened", "open", "destroyed", "refused", "dead"}
      BY <1>6, <2>1
    <3>5. QED
      BY <2>3, <2>4, <3>1, <3>2, <3>3, <3>4
  <2>6. ControlInv'
    BY <2>1
  <2>7. QED
    BY <2>5, <2>6
<1>7. CASE DiscardWorld
  <2>1. failing' \in BOOLEAN
    BY <1>7 DEF DiscardWorld
  <2>2. mPendingArchivePath' = (pending' # Absent) /\ (call' = "none") = (step' = "none")
    BY <1>7 DEF DiscardWorld
  <2>3. UNCHANGED <<target, writeBack, diskVars, data, mTemporaryDirectory, mPendingArchivePath,
                    statsVars, call, returned, stuck, clean, life>>
    BY <1>7 DEF DiscardWorld
  <2>4. TypeOK'
    <3>1. target' \in Targets /\ writeBack' \in BOOLEAN /\ final' \in Archives
          /\ tempDir' \in BOOLEAN /\ pending' \in Archives /\ data' \subseteq Marks
      BY <1>7, <2>1, <2>3 DEF DiscardWorld
    <3>2. /\ mWorld' \in BOOLEAN /\ mArchivePath' \in BOOLEAN /\ mWriteBackArchive' \in BOOLEAN
          /\ mTemporaryDirectory' \in BOOLEAN /\ mPendingArchivePath' \in BOOLEAN
          /\ mDiscardOnClose' \in BOOLEAN
      BY <1>7, <2>1, <2>3 DEF DiscardWorld
    <3>3. /\ deferred' \in {0} \cup Conversions /\ wantsStats' \subseteq Conversions
          /\ emitted' \subseteq Conversions \X BOOLEAN
      BY <1>7, <2>1, <2>3 DEF DiscardWorld
    <3>4. /\ call' \in {"none", "close", "discard", "destructor"}
          /\ step' \in {"none", "discard", "discarded", "close", "pack", "packing", "replace", "cleanup"}
          /\ failing' \in BOOLEAN /\ clean' \in BOOLEAN
          /\ returned' \in {"none", "success", "failure", "threw"} /\ stuck' \subseteq {"pending", "tempDir"}
          /\ life' \in {"unopened", "open", "destroyed", "refused", "dead"}
      BY <1>7, <2>1, <2>3 DEF DiscardWorld
    <3>5. QED
      BY <2>2, <3>1, <3>2, <3>3, <3>4
  <2>5. ControlInv'
    BY <1>7, <2>3 DEF DiscardWorld
  <2>6. QED
    BY <2>4, <2>5
<1>8. CASE CloseWorld
  <2>1. failing' \in BOOLEAN
    BY <1>8 DEF CloseWorld
  <2>2. CASE step' = "pack"
    <3>1. UNCHANGED <<mArchivePath, mWriteBackArchive>>
      BY <1>8, <2>2 DEF CloseWorld
    <3>2. mArchivePath' \in BOOLEAN /\ mWriteBackArchive' \in BOOLEAN
      BY <3>1
    <3>3. mWorld /\ ~failing' /\ mArchivePath' /\ mWriteBackArchive' /\ ~mWorld'
      BY <1>8, <2>2, <3>1 DEF CloseWorld
    <3>4. TypeOK'
      <4>1. mPendingArchivePath' = (pending' # Absent)
        BY <1>8 DEF CloseWorld
      <4>2. (call' = "none") = (step' = "none")
        BY <1>8, <2>2 DEF CloseWorld
      <4>3. UNCHANGED <<target, writeBack, diskVars, data, mTemporaryDirectory, mDiscardOnClose,
                        mPendingArchivePath, statsVars, call, returned, stuck, clean, life>>
        BY <1>8 DEF CloseWorld
      <4>4. mWorld' \in BOOLEAN
        BY <1>8 DEF CloseWorld
      <4>5. QED
        BY <2>1, <2>2, <3>2, <4>1, <4>2, <4>3, <4>4
    <3>5. ControlInv'
      <4>1. step = "close" /\ UNCHANGED <<target, writeBack, tempDir, pending, mTemporaryDirectory, life>>
        BY <1>8 DEF CloseWorld
      <4>2. step' \notin {"packing", "replace"}
        BY <2>2
      <4>3. life = "open" /\ life' = "open"
        BY <4>1
      <4>4. mTemporaryDirectory' = tempDir'
        BY <4>1, <4>3
      <4>5. writeBack'
        BY <3>3, <4>1, <3>1
      <4>6. QED
        BY <3>3, <4>2, <4>3, <4>4, <4>5
    <3>6. QED
      BY <3>4, <3>5
  <2>3. CASE step' = "cleanup"
    <3>1. mArchivePath' \in BOOLEAN /\ mWriteBackArchive' \in BOOLEAN
      BY <1>8 DEF CloseWorld
    <3>2. mWriteBackArchive' => mWriteBackArchive
      BY <1>8 DEF CloseWorld
    <3>3. TypeOK'
      <4>1. mPendingArchivePath' = (pending' # Absent)
        BY <1>8 DEF CloseWorld
      <4>2. (call' = "none") = (step' = "none")
        BY <1>8, <2>3 DEF CloseWorld
      <4>3. UNCHANGED <<target, writeBack, diskVars, data, mTemporaryDirectory, mDiscardOnClose,
                        mPendingArchivePath, statsVars, call, returned, stuck, clean, life>>
        BY <1>8 DEF CloseWorld
      <4>4. mWorld' \in BOOLEAN
        BY <1>8 DEF CloseWorld
      <4>5. QED
        BY <2>1, <2>3, <3>1, <4>1, <4>2, <4>3, <4>4
    <3>4. ControlInv'
      BY <1>8, <2>1, <2>3, <3>1, <3>2 DEF CloseWorld
    <3>5. QED
      BY <3>3, <3>4
  <2>4. QED
    BY <1>8, <2>2, <2>3 DEF CloseWorld
<1>9. CASE BeginPack
  <2>1. /\ step = "pack" /\ step' = "packing" /\ mPendingArchivePath' = TRUE
        /\ UNCHANGED <<target, writeBack, final, tempDir, data, mWorld, mArchivePath,
                       mWriteBackArchive, mTemporaryDirectory, mDiscardOnClose, statsVars,
                       call, failing, returned, stuck, clean, life>>
    BY <1>9 DEF BeginPack
  <2>2. pending' \in Archives /\ pending' # Absent
    BY <1>9, ArchiveTypes DEF BeginPack
  <2>3. mPendingArchivePath' = (pending' # Absent)
    BY <2>1, <2>2
  <2>4. (call' = "none") = (step' = "none")
    BY <2>1
  <2>5. TypeOK'
    BY <2>1, <2>2, <2>3, <2>4
  <2>6. ControlInv'
    BY <2>1, <2>2
  <2>7. QED
    BY <2>5, <2>6
<1>10. CASE PackSucceeds
  <2>1. pending' \in Archives /\ pending' # Absent
    <3>1. PICK k \in {"packed", "torn"} : pending' = [kind |-> k, data |-> data]
      BY <1>10 DEF PackSucceeds
    <3>2. QED
      BY <3>1, ArchiveTypes
  <2>2. /\ step = "packing" /\ step' = "replace"
        /\ UNCHANGED <<target, writeBack, final, tempDir, data, memberVars, statsVars,
                       call, failing, returned, stuck, clean, life>>
    BY <1>10 DEF PackSucceeds
  <2>3. mPendingArchivePath' = (pending' # Absent)
    BY <2>1, <2>2
  <2>4. (call' = "none") = (step' = "none")
    BY <2>2
  <2>5. TypeOK'
    BY <2>1, <2>2, <2>3, <2>4
  <2>6. ControlInv'
    BY <2>1, <2>2
  <2>7. QED
    BY <2>5, <2>6
<1>11. CASE GiveUpArchive
  <2>1. /\ mArchivePath' = FALSE /\ mWriteBackArchive' = FALSE /\ failing' = TRUE
        /\ step \in {"packing", "replace"} /\ step' = "cleanup"
        /\ UNCHANGED <<target, writeBack, diskVars, data, mWorld, mTemporaryDirectory,
                       mPendingArchivePath, mDiscardOnClose, statsVars, call, returned,
                       stuck, clean, life>>
    BY <1>11 DEF GiveUpArchive
  <2>2. mPendingArchivePath' = (pending' # Absent)
    BY <2>1
  <2>3. (call' = "none") = (step' = "none")
    BY <2>1
  <2>4. TypeOK'
    <3>1. target' \in Targets /\ writeBack' \in BOOLEAN /\ final' \in Archives
          /\ tempDir' \in BOOLEAN /\ pending' \in Archives /\ data' \subseteq Marks
      BY <2>1
    <3>2. /\ mWorld' \in BOOLEAN /\ mArchivePath' \in BOOLEAN /\ mWriteBackArchive' \in BOOLEAN
          /\ mTemporaryDirectory' \in BOOLEAN /\ mPendingArchivePath' \in BOOLEAN
          /\ mDiscardOnClose' \in BOOLEAN
      BY <2>1
    <3>3. /\ deferred' \in {0} \cup Conversions /\ wantsStats' \subseteq Conversions
          /\ emitted' \subseteq Conversions \X BOOLEAN
      BY <2>1
    <3>4. /\ call' \in {"none", "close", "discard", "destructor"}
          /\ step' \in {"none", "discard", "discarded", "close", "pack", "packing", "replace", "cleanup"}
          /\ failing' \in BOOLEAN /\ clean' \in BOOLEAN
          /\ returned' \in {"none", "success", "failure", "threw"} /\ stuck' \subseteq {"pending", "tempDir"}
          /\ life' \in {"unopened", "open", "destroyed", "refused", "dead"}
      BY <2>1
    <3>5. QED
      BY <2>2, <2>3, <3>1, <3>2, <3>3, <3>4
  <2>5. ControlInv'
    BY <2>1
  <2>6. QED
    BY <2>4, <2>5
<1>12. CASE PackThrows
  <2>1. /\ step = "packing" /\ step' = "none" /\ call' = "none"
        /\ returned' = "threw" /\ clean' = FALSE
        /\ UNCHANGED <<target, writeBack, diskVars, data, memberVars, statsVars, failing, stuck>>
    BY <1>12 DEF PackThrows
  <2>2. life = "open" /\ life' \in {"open", "destroyed"}
    BY <1>12, <2>1 DEF PackThrows
  <2>3. mPendingArchivePath' = (pending' # Absent)
    BY <2>1
  <2>4. TypeOK'
    BY <2>1, <2>2, <2>3
  <2>5. ControlInv'
    BY <2>1, <2>2
  <2>6. QED
    BY <2>4, <2>5
<1>13. CASE Replace
  <2>1. /\ mArchivePath' = FALSE /\ mWriteBackArchive' = FALSE /\ mPendingArchivePath' = FALSE
        /\ step = "replace" /\ step' = "cleanup"
        /\ UNCHANGED <<target, writeBack, tempDir, data, mWorld, mTemporaryDirectory,
                       mDiscardOnClose, statsVars, call, failing, returned, stuck, clean, life>>
    BY <1>13 DEF Replace
  <2>2. final' \in Archives /\ pending' \in Archives
    BY <1>13, ArchiveTypes DEF Replace
  <2>3. mPendingArchivePath' = (pending' # Absent)
    BY <1>13 DEF Replace
  <2>4. (call' = "none") = (step' = "none")
    BY <2>1
  <2>5. TypeOK'
    <3>1. target' \in Targets /\ writeBack' \in BOOLEAN /\ final' \in Archives
          /\ tempDir' \in BOOLEAN /\ pending' \in Archives /\ data' \subseteq Marks
      BY <2>1, <2>2
    <3>2. /\ mWorld' \in BOOLEAN /\ mArchivePath' \in BOOLEAN /\ mWriteBackArchive' \in BOOLEAN
          /\ mTemporaryDirectory' \in BOOLEAN /\ mPendingArchivePath' \in BOOLEAN
          /\ mDiscardOnClose' \in BOOLEAN
      BY <2>1, <2>2
    <3>3. /\ deferred' \in {0} \cup Conversions /\ wantsStats' \subseteq Conversions
          /\ emitted' \subseteq Conversions \X BOOLEAN
      BY <2>1, <2>2
    <3>4. /\ call' \in {"none", "close", "discard", "destructor"}
          /\ step' \in {"none", "discard", "discarded", "close", "pack", "packing", "replace", "cleanup"}
          /\ failing' \in BOOLEAN /\ clean' \in BOOLEAN
          /\ returned' \in {"none", "success", "failure", "threw"} /\ stuck' \subseteq {"pending", "tempDir"}
          /\ life' \in {"unopened", "open", "destroyed", "refused", "dead"}
      BY <2>1, <2>2
    <3>5. QED
      BY <2>3, <2>4, <3>1, <3>2, <3>3, <3>4
  <2>6. ControlInv'
    BY <2>1
  <2>7. QED
    BY <2>5, <2>6
<1>14. CASE CleanupAndReturn
  <2>1. PICK fails \in SUBSET {"pending", "tempDir"} :
           /\ Cleanup(fails)
           /\ stuck' = {a \in fails : IF a = "pending" THEN mPendingArchivePath ELSE mTemporaryDirectory}
           /\ LET ok == ~failing /\ stuck' = {}
              IN  /\ Emit(ok /\ step = "cleanup")
                  /\ returned' = IF ok THEN "success" ELSE "failure"
                  /\ clean' = (clean /\ ok)
    BY <1>14 DEF CleanupAndReturn
  <2>2. /\ pending' \in Archives /\ tempDir' \in BOOLEAN
        /\ mPendingArchivePath' \in BOOLEAN /\ mTemporaryDirectory' \in BOOLEAN
        /\ mPendingArchivePath' = (pending' # Absent)
        /\ mTemporaryDirectory' = tempDir'
    BY <1>14, <2>1, ArchiveTypes DEF Cleanup, CleanupAndReturn
  <2>3. deferred' \in {0} \cup Conversions /\ emitted' \subseteq Conversions \X BOOLEAN
    <3>1. CASE deferred = 0
      BY <2>1, <3>1 DEF Emit
    <3>2. PICK ok \in BOOLEAN : Emit(ok)
      BY <2>1
    <3>3. CASE deferred # 0
      BY <3>2, <3>3 DEF Emit
    <3>4. QED
      BY <3>1, <3>3
  <2>4. /\ returned' \in {"none", "success", "failure", "threw"}
        /\ clean' \in BOOLEAN
        /\ stuck' \subseteq {"pending", "tempDir"}
    BY <2>1
  <2>5. QED
    BY <1>14, <2>2, <2>3, <2>4 DEF CleanupAndReturn
<1>15. CASE Crash
  BY <1>15 DEF Crash
<1>16. CASE UNCHANGED vars
  BY <1>16 DEF vars
<1>17. QED
  BY <1>1, <1>2, <1>3, <1>4, <1>5, <1>6, <1>7, <1>8, <1>9, <1>10, <1>11, <1>12, <1>13, <1>14, <1>15, <1>16 DEF Next, End, Over

\* Recording the result of a conversion adds it and leaves the others alone.
LEMMA RecordFacts ==
  ASSUME NEW c, NEW res, Record(c, res)
  PROVE  /\ DOMAIN runs' = DOMAIN runs \cup {c}
         /\ runs'[c] = res
         /\ \A d \in DOMAIN runs : d # c => runs'[d] = runs[d]
  BY DEF Record

\* A conversion never reuses the number of an earlier one.
LEMMA FreshNumber ==
  ASSUME NumberInv
  PROVE  /\ Cardinality(DOMAIN runs) \in Nat
         /\ NextConversion \in Nat \ {0}
         /\ NextConversion \notin DOMAIN runs
  BY FS_CardinalityType DEF NumberInv, NextConversion

LEMMA AbortInvStep == TypeInv /\ AbortInv /\ [Next]_vars => AbortInv'
<1> SUFFICES ASSUME TypeInv, AbortInv, [Next]_vars PROVE AbortInv'
  OBVIOUS
<1> USE AdapterAssumption DEF TypeInv, TypeOK, ControlInv, AbortInv, AnyFailed, Packing, diskVars, memberVars, statsVars, callVars
<1>1. CASE OpenSucceeds
  BY <1>1 DEF OpenSucceeds
<1>2. CASE OpenFails
  BY <1>2 DEF OpenFails, UsesTemporary
<1>3. CASE SaveDirectly
  BY <1>3 DEF SaveDirectly, Idle
<1>4. CASE ConvertSucceeds
  <2>1. /\ DOMAIN runs' = DOMAIN runs \cup {NextConversion}
        /\ runs'[NextConversion] = "success"
        /\ \A d \in DOMAIN runs : d # NextConversion => runs'[d] = runs[d]
    BY <1>4, RecordFacts DEF ConvertSucceeds
  <2>2. (\E c \in DOMAIN runs' : runs'[c] = "failure")
          => \E c \in DOMAIN runs : runs[c] = "failure"
    BY <2>1
  <2>3. QED
    BY <1>4, <2>2 DEF ConvertSucceeds, Idle
<1>5. CASE ConvertFails
  BY <1>5 DEF ConvertFails, Idle
<1>6. ASSUME NEW c \in {"close", "discard", "destructor"}, Call(c) PROVE AbortInv'
  BY <1>6 DEF Call, Idle
<1>7. CASE DiscardWorld
  BY <1>7 DEF DiscardWorld
<1>8. CASE CloseWorld
  BY <1>8 DEF CloseWorld
<1>9. CASE BeginPack
  BY <1>9 DEF BeginPack
<1>10. CASE PackSucceeds
  BY <1>10 DEF PackSucceeds
<1>11. CASE GiveUpArchive
  BY <1>11 DEF GiveUpArchive
<1>12. CASE PackThrows
  BY <1>12 DEF PackThrows
<1>13. CASE Replace
  BY <1>13 DEF Replace
<1>14. CASE CleanupAndReturn
  BY <1>14 DEF CleanupAndReturn, Cleanup, Emit
<1>15. CASE Crash
  BY <1>15 DEF Crash
<1>16. CASE UNCHANGED vars
  BY <1>16 DEF vars
<1>17. QED
  BY <1>1, <1>2, <1>3, <1>4, <1>5, <1>6, <1>7, <1>8, <1>9, <1>10, <1>11, <1>12, <1>13, <1>14, <1>15, <1>16 DEF Next, End, Over

LEMMA NumberInvStep == NumberInv /\ [Next]_vars => NumberInv'
<1> SUFFICES ASSUME NumberInv, [Next]_vars PROVE NumberInv'
  OBVIOUS
<1> USE AdapterAssumption DEF NumberInv, diskVars, memberVars, statsVars, callVars
<1>1. CASE OpenSucceeds
  BY <1>1 DEF OpenSucceeds, UsesTemporary
<1>2. CASE OpenFails
  BY <1>2 DEF OpenFails, UsesTemporary
<1>3. CASE SaveDirectly
  BY <1>3 DEF SaveDirectly, Idle
<1>4. CASE ConvertSucceeds
  <2>1. DOMAIN runs' = DOMAIN runs \cup {NextConversion}
    BY <1>4, RecordFacts DEF ConvertSucceeds
  <2>2. Cardinality(DOMAIN runs') = Cardinality(DOMAIN runs) + 1 /\ IsFiniteSet(DOMAIN runs')
    BY <2>1, FreshNumber, FS_AddElement
  <2>3. QED
    BY <2>1, <2>2, FreshNumber DEF NextConversion
<1>5. CASE ConvertFails
  <2>1. DOMAIN runs' = DOMAIN runs \cup {NextConversion}
    BY <1>5, RecordFacts DEF ConvertFails
  <2>2. Cardinality(DOMAIN runs') = Cardinality(DOMAIN runs) + 1 /\ IsFiniteSet(DOMAIN runs')
    BY <2>1, FreshNumber, FS_AddElement
  <2>3. QED
    BY <2>1, <2>2, FreshNumber DEF NextConversion
<1>6. ASSUME NEW c \in {"close", "discard", "destructor"}, Call(c) PROVE NumberInv'
  BY <1>6 DEF Call, Idle
<1>7. CASE DiscardWorld
  BY <1>7 DEF DiscardWorld
<1>8. CASE CloseWorld
  BY <1>8 DEF CloseWorld
<1>9. CASE BeginPack
  BY <1>9 DEF BeginPack
<1>10. CASE PackSucceeds
  BY <1>10 DEF PackSucceeds
<1>11. CASE GiveUpArchive
  BY <1>11 DEF GiveUpArchive
<1>12. CASE PackThrows
  BY <1>12 DEF PackThrows
<1>13. CASE Replace
  BY <1>13 DEF Replace
<1>14. CASE CleanupAndReturn
  BY <1>14 DEF CleanupAndReturn, Cleanup, Emit
<1>15. CASE Crash
  BY <1>15 DEF Crash
<1>16. CASE UNCHANGED vars
  BY <1>16 DEF vars
<1>17. QED
  BY <1>1, <1>2, <1>3, <1>4, <1>5, <1>6, <1>7, <1>8, <1>9, <1>10, <1>11, <1>12, <1>13, <1>14, <1>15, <1>16 DEF Next, End, Over

LEMMA StatsInvStep == TypeInv /\ NumberInv /\ StatsInv /\ [Next]_vars => StatsInv'
<1> SUFFICES ASSUME TypeInv, NumberInv, StatsInv, [Next]_vars PROVE StatsInv'
  OBVIOUS
<1> USE AdapterAssumption DEF TypeInv, TypeOK, ControlInv, NumberInv, StatsInv, Packing, diskVars, memberVars, statsVars, callVars
<1>1. CASE OpenSucceeds
  BY <1>1 DEF OpenSucceeds, UsesTemporary, Reported, ReportedOnce
<1>2. CASE OpenFails
  BY <1>2 DEF OpenFails, UsesTemporary, Reported, ReportedOnce
<1>3. CASE SaveDirectly
  BY <1>3 DEF SaveDirectly, Idle, Reported, ReportedOnce
<1>4. CASE ConvertSucceeds
  <2> DEFINE c == NextConversion
  <2>1. DOMAIN runs' = DOMAIN runs \cup {c} /\ c \notin DOMAIN runs /\ c # 0
    BY <1>4, RecordFacts, FreshNumber DEF ConvertSucceeds
  <2>2. CASE UNCHANGED <<deferred, wantsStats, emitted>>
    BY <1>4, <2>1, <2>2 DEF ConvertSucceeds, Idle, Reported, ReportedOnce
  <2>3. CASE /\ wantsStats' = wantsStats \cup {c}
             /\ deferred' = c
             /\ emitted' = IF deferred = 0 THEN emitted ELSE emitted \cup {<<deferred, TRUE>>}
    <3> HIDE DEF c
    <3>1. CASE deferred = 0
      BY <1>4, <2>1, <2>3, <3>1 DEF ConvertSucceeds, Idle, Reported, ReportedOnce
    <3>2. CASE deferred # 0
      <4>1. Reported' = Reported \cup {deferred} /\ ReportedOnce'
        BY <2>3, <3>2, OneMoreReport
      <4>2. QED
        BY <1>4, <2>1, <2>3, <3>2, <4>1 DEF ConvertSucceeds, Idle
    <3>3. QED
      BY <3>1, <3>2
  <2>4. QED
    BY <1>4, <2>2, <2>3 DEF ConvertSucceeds
<1>5. CASE ConvertFails
  <2> DEFINE c == NextConversion
  <2>1. DOMAIN runs' = DOMAIN runs \cup {c} /\ c \notin DOMAIN runs /\ c # 0
    BY <1>5, RecordFacts, FreshNumber DEF ConvertFails
  <2>2. CASE UNCHANGED <<wantsStats, emitted>>
    BY <1>5, <2>1, <2>2 DEF ConvertFails, Idle, Reported, ReportedOnce
  <2>3. CASE wantsStats' = wantsStats \cup {c} /\ emitted' = emitted \cup {<<c, FALSE>>}
    <3>1. c \in Conversions /\ c \notin Reported
      BY <1>5, <2>1 DEF ConvertFails
    <3> HIDE DEF c
    <3>2. Reported' = Reported \cup {c} /\ ReportedOnce'
      BY <2>3, <3>1, OneMoreReport
    <3>3. QED
      BY <1>5, <2>1, <2>3, <3>1, <3>2 DEF ConvertFails, Idle
  <2>4. QED
    BY <1>5, <2>2, <2>3 DEF ConvertFails
<1>6. ASSUME NEW c \in {"close", "discard", "destructor"}, Call(c) PROVE StatsInv'
  BY <1>6 DEF Call, Idle, Reported, ReportedOnce
<1>7. CASE DiscardWorld
  BY <1>7 DEF DiscardWorld, Reported, ReportedOnce
<1>8. CASE CloseWorld
  BY <1>8 DEF CloseWorld, Reported, ReportedOnce
<1>9. CASE BeginPack
  BY <1>9 DEF BeginPack, Reported, ReportedOnce
<1>10. CASE PackSucceeds
  BY <1>10 DEF PackSucceeds, Reported, ReportedOnce
<1>11. CASE GiveUpArchive
  BY <1>11 DEF GiveUpArchive, Reported, ReportedOnce
<1>12. CASE PackThrows
  BY <1>12 DEF PackThrows, Reported, ReportedOnce
<1>13. CASE Replace
  BY <1>13 DEF Replace, Reported, ReportedOnce
<1>14. CASE CleanupAndReturn
  <2>1. PICK ok \in BOOLEAN : Emit(ok)
    BY <1>14 DEF CleanupAndReturn
  <2>2. life = "open" /\ ~mWorld
    BY <1>14 DEF CleanupAndReturn
  <2>3. CASE deferred = 0
    BY <1>14, <2>1, <2>2, <2>3 DEF CleanupAndReturn, Emit, Reported, ReportedOnce
  <2>4. CASE deferred # 0
    <3>1. Reported' = Reported \cup {deferred} /\ ReportedOnce'
      BY <2>1, <2>4, OneMoreReport DEF Emit
    <3>2. QED
      BY <1>14, <2>1, <2>2, <2>4, <3>1 DEF CleanupAndReturn, Emit
  <2>5. QED
    BY <2>3, <2>4
<1>15. CASE Crash
  BY <1>15 DEF Crash, Reported, ReportedOnce
<1>16. CASE UNCHANGED vars
  BY <1>16 DEF vars, Reported, ReportedOnce
<1>17. QED
  BY <1>1, <1>2, <1>3, <1>4, <1>5, <1>6, <1>7, <1>8, <1>9, <1>10, <1>11, <1>12, <1>13, <1>14, <1>15, <1>16 DEF Next, End, Over

LEMMA RemovalInvStep == TypeInv /\ RemovalInv /\ [Next]_vars => RemovalInv'
<1> SUFFICES ASSUME TypeInv, RemovalInv, [Next]_vars PROVE RemovalInv'
  OBVIOUS
<1> USE AdapterAssumption DEF TypeInv, TypeOK, ControlInv, RemovalInv, Packing, diskVars, memberVars, statsVars, callVars
<1>1. CASE OpenSucceeds
  BY <1>1 DEF OpenSucceeds, UsesTemporary
<1>2. CASE OpenFails
  BY <1>2 DEF OpenFails, UsesTemporary
<1>3. CASE SaveDirectly
  BY <1>3 DEF SaveDirectly, Idle
<1>4. CASE ConvertSucceeds
  BY <1>4 DEF ConvertSucceeds, Idle, NextConversion, Record
<1>5. CASE ConvertFails
  BY <1>5 DEF ConvertFails, Idle, NextConversion, Record
<1>6. ASSUME NEW c \in {"close", "discard", "destructor"}, Call(c) PROVE RemovalInv'
  BY <1>6 DEF Call, Idle
<1>7. CASE DiscardWorld
  BY <1>7 DEF DiscardWorld
<1>8. CASE CloseWorld
  BY <1>8 DEF CloseWorld
<1>9. CASE BeginPack
  BY <1>9 DEF BeginPack
<1>10. CASE PackSucceeds
  BY <1>10 DEF PackSucceeds
<1>11. CASE GiveUpArchive
  BY <1>11 DEF GiveUpArchive
<1>12. CASE PackThrows
  BY <1>12 DEF PackThrows
<1>13. CASE Replace
  BY <1>13 DEF Replace
<1>14. CASE CleanupAndReturn
  BY <1>14 DEF CleanupAndReturn, Cleanup, Emit
<1>15. CASE Crash
  BY <1>15 DEF Crash
<1>16. CASE UNCHANGED vars
  BY <1>16 DEF vars
<1>17. QED
  BY <1>1, <1>2, <1>3, <1>4, <1>5, <1>6, <1>7, <1>8, <1>9, <1>10, <1>11, <1>12, <1>13, <1>14, <1>15, <1>16 DEF Next, End, Over

LEMMA ArchiveInvStep ==
  ~FlushMayFail /\ TypeInv /\ ArchiveInv /\ [Next]_vars => ArchiveInv'
<1> SUFFICES ASSUME ~FlushMayFail, TypeInv, ArchiveInv, [Next]_vars PROVE ArchiveInv'
  OBVIOUS
<1> USE AdapterAssumption DEF TypeInv, TypeOK, ControlInv, ArchiveInv, ArchiveTarget, Packed, Absent, Packing, diskVars, memberVars, statsVars, callVars
<1>1. CASE OpenSucceeds
  BY <1>1 DEF OpenSucceeds, UsesTemporary
<1>2. CASE OpenFails
  BY <1>2 DEF OpenFails, UsesTemporary
<1>3. CASE SaveDirectly
  BY <1>3 DEF SaveDirectly, Idle
<1>4. CASE ConvertSucceeds
  BY <1>4 DEF ConvertSucceeds, Idle, NextConversion, Record
<1>5. CASE ConvertFails
  BY <1>5 DEF ConvertFails, Idle, NextConversion, Record
<1>6. ASSUME NEW c \in {"close", "discard", "destructor"}, Call(c) PROVE ArchiveInv'
  BY <1>6 DEF Call, Idle
<1>7. CASE DiscardWorld
  BY <1>7 DEF DiscardWorld
<1>8. CASE CloseWorld
  BY <1>8 DEF CloseWorld
<1>9. CASE BeginPack
  BY <1>9 DEF BeginPack
<1>10. CASE PackSucceeds
  BY <1>10 DEF PackSucceeds
<1>11. CASE GiveUpArchive
  BY <1>11 DEF GiveUpArchive
<1>12. CASE PackThrows
  BY <1>12 DEF PackThrows
<1>13. CASE Replace
  BY <1>13 DEF Replace
<1>14. CASE CleanupAndReturn
  BY <1>14 DEF CleanupAndReturn, Cleanup, Emit
<1>15. CASE Crash
  BY <1>15 DEF Crash
<1>16. CASE UNCHANGED vars
  BY <1>16 DEF vars
<1>17. QED
  BY <1>1, <1>2, <1>3, <1>4, <1>5, <1>6, <1>7, <1>8, <1>9, <1>10, <1>11, <1>12, <1>13, <1>14, <1>15, <1>16 DEF Next, End, Over

(***************************************************************************)
(* The theorems.                                                           *)
(***************************************************************************)

LEMMA AdapterInit == Init => TypeInv /\ AbortInv /\ NumberInv /\ StatsInv /\ RemovalInv
<1> SUFFICES ASSUME Init PROVE TypeInv /\ AbortInv /\ NumberInv /\ StatsInv /\ RemovalInv
  OBVIOUS
<1>1. DOMAIN runs = {}
  BY DEF Init
<1>2. NumberInv
  BY <1>1, FS_EmptySet DEF NumberInv
<1>3. AbortInv /\ StatsInv /\ RemovalInv
  BY <1>1 DEF Init, AbortInv, AnyFailed, StatsInv, RemovalInv, Reported, ReportedOnce, Packing
<1>4. QED
  BY <1>2, <1>3, TypeInvInit

\* The state of an adapter is what its member functions may rely on: above all
\* m_pending_archive_path is set exactly while a pending archive exists.
THEOREM AdapterTypeOK == Spec => []TypeOK
<1>1. TypeInv => TypeOK
  BY DEF TypeInv
<1>2. QED
  BY TypeInvInit, TypeInvStep, <1>1, PTL DEF Spec

LEMMA AdapterInv == Spec => [](TypeInv /\ AbortInv /\ NumberInv /\ StatsInv /\ RemovalInv)
  BY AdapterInit, TypeInvStep, AbortInvStep, NumberInvStep, StatsInvStep, RemovalInvStep, PTL DEF Spec

LEMMA AdapterArchiveInv == ~FlushMayFail => (Spec => []ArchiveInv)
<1> SUFFICES ASSUME ~FlushMayFail PROVE Spec => []ArchiveInv
  OBVIOUS
<1>1. Init => ArchiveInv
  BY DEF Init, ArchiveInv, Absent
<1>2. TypeInv /\ ArchiveInv /\ [Next]_vars => ArchiveInv'
  BY ArchiveInvStep
<1>3. QED
  BY <1>1, <1>2, AdapterInv, PTL DEF Spec

\* When the last bytes of the ZIP reach the disk, the file at the archive path
\* is whole at every moment: close() replaces it in one rename by an archive
\* that create_zip() has completed.
THEOREM ArchiveStaysWhole == ~FlushMayFail => (Spec => []ArchiveIsWhole)
<1> SUFFICES ASSUME ~FlushMayFail PROVE Spec => []ArchiveIsWhole
  OBVIOUS
<1>1. ArchiveInv => ArchiveIsWhole
  BY DEF ArchiveInv, ArchiveIsWhole
<1>2. QED
  BY <1>1, AdapterArchiveInv, PTL

\* An aborted or read-only transaction never changes the archive, whatever the
\* flush of a stream does: a failed conversion marks the adapter, and neither
\* close() nor the destructor packs the world of a marked adapter.
THEOREM AbortLeavesArchive == Spec => AbortPreservesArchive
<1>1. TypeInv /\ AbortInv /\ [Next]_vars =>
        [(~writeBack \/ \E c \in DOMAIN runs : runs[c] = "failure") => UNCHANGED final]_vars
  <2> SUFFICES ASSUME TypeInv, AbortInv, Next, ~writeBack \/ AnyFailed PROVE UNCHANGED final
    BY DEF AnyFailed
  <2> USE DEF diskVars
  <2>1. ~Replace
    BY DEF Replace, TypeInv, ControlInv, AbortInv, Packing
  <2>2. CASE OpenSucceeds \/ OpenFails \/ SaveDirectly \/ ConvertSucceeds \/ ConvertFails
    BY <2>2 DEF OpenSucceeds, OpenFails, SaveDirectly, ConvertSucceeds, ConvertFails
  <2>3. CASE (\E c \in {"close", "discard", "destructor"} : Call(c)) \/ Crash \/ Over
    BY <2>3 DEF Call, Crash, Over, vars
  <2>4. CASE End
    BY <2>1, <2>4 DEF End, DiscardWorld, CloseWorld, BeginPack, PackSucceeds, GiveUpArchive,
                      PackThrows, CleanupAndReturn
  <2>5. QED
    BY <2>2, <2>3, <2>4 DEF Next
<1>2. QED
  BY <1>1, AdapterInv, PTL DEF Spec, AbortPreservesArchive

\* The end of an adapter is complete: nothing temporary is left that could be
\* removed, each conversion's statistics are reported once, and a close()
\* nothing went wrong with leaves everything written in the archive.
THEOREM EndOfAdapter == ~FlushMayFail => (Spec => []EndIsComplete)
<1> SUFFICES ASSUME ~FlushMayFail PROVE Spec => []EndIsComplete
  OBVIOUS
<1>1. TypeInv /\ StatsInv /\ RemovalInv /\ ArchiveInv => EndIsComplete
  <2> SUFFICES ASSUME TypeInv, StatsInv, RemovalInv, ArchiveInv PROVE EndIsComplete
    OBVIOUS
  <2>1. ASSUME NEW c \in wantsStats PROVE Cardinality({e \in emitted : e[1] = c}) <= 1
    <3> DEFINE E == {e \in emitted : e[1] = c}
    <3>1. \A d, e \in E : d = e
      BY DEF StatsInv, ReportedOnce
    <3>2. CASE E = {}
      BY <3>2, FS_EmptySet
    <3>3. CASE E # {}
      <4>1. PICK e : E = {e}
        BY <3>1, <3>3
      <4>2. Cardinality(E) = 1
        BY <4>1, FS_Singleton
      <4>3. QED
        BY <4>2
    <3>4. QED
      BY <3>2, <3>3
  <2>2. (life = "open" /\ call = "none" /\ returned \in {"success", "failure"})
          => deferred = 0 /\ {e[1] : e \in emitted} = wantsStats
    <3>1. (life = "open" /\ call = "none" /\ returned \in {"success", "failure"})
            => deferred = 0 /\ Reported = wantsStats
      <4>1. 0 \notin wantsStats
        BY AdapterAssumption DEF TypeInv, TypeOK
      <4>2. QED
        BY <4>1 DEF StatsInv
    <3>2. QED
      BY <3>1 DEF Reported
  <2>3. (ArchiveTarget /\ clean /\ life = "open" /\ ~mWorld /\ call = "none")
          => final = [kind |-> "packed", data |-> data]
    BY DEF ArchiveInv, Packed, TypeInv, TypeOK, Packing
  <2>4. QED
    BY <2>1, <2>2, <2>3 DEF EndIsComplete, RemovalInv
<1>2. QED
  BY <1>1, AdapterInv, AdapterArchiveInv, PTL

=============================================================================
