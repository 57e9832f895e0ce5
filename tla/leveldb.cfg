\* Four writes by two threads; three of openings, faults, reads and snapshots.
\* A store that is closed with no opening left stops: no deadlock check.
CHECK_DEADLOCK FALSE
SPECIFICATION Spec
CONSTANTS
  Keys = {1, 2}
  Batches <- MCBatches
  Writers = {w1, w2}
  Readers = {r1}
  MaxLevel = 2
  MemLevel = 2
  GrandparentLimit = 1
  WriteBuffer = 1
  MaxTable = 1
  L0Trigger = 2
  L0Stop = 2
  LevelLimit = 1
  GroupSize = 2
  Faults = {"open", "log", "close", "table", "manifest"}
  MaxEvents = 3
SYMMETRY AnyWriter
INVARIANTS
  ReadersSeeTheirSnapshot
  RecoverySucceeds
  WaitersAreServed
PROPERTIES
  StoreSpec
