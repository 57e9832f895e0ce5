\* Commands: three files, three formats, two calling threads.  Documents: some
\* sixty files of thirty formats, three offsets, seven targets.
SPECIFICATION MCSpec
CONSTANTS
  Formats = {"mcfunction", "ibimport", "tibi"}
  Files <- MCFiles
  ParseWorkers = 2
  Readers = {r1, r2}
  Requests <- MCRequests
  Offsets <- MCOffsets
  ChunkWidth = 2
  BroadSpan = 2
  MaxEntries = 4
  MaxCells = 8
  Edge = 2
  Base = 2
  MaxSpan = 20
  MaxShort = 10
  MaxInt = 120
  WordBits = 9
  MaxListed = 3
  Legacy <- MCLegacy
  Modern <- MCModern
  NameOf <- MCNameOf
  StatedName <- MCStatedName
  SchematicBlock <- MCSchematicBlock
  SchematicPair <- MCSchematicPair
  JavaBlock <- MCJavaBlock
  JavaState <- MCJavaState
  Holders <- MCHolders
  Bad = Bad
  Missing = Missing
  Documents <- MCDocuments
  Targets = {"Schematic", "Litematic", "MCStructure", "AxiomBP", "FuHongV4", "SchemV1", "SchemV2"}
  Shifts <- MCShifts
  Asks <- MCAsks
  Options <- MCOptions
INVARIANTS
  ReadIsSequential
  ReplayIsFaithful
  AnswersMatchTheFile
  AnswersStayInside
  WhatIsWrittenReadsBack
PROPERTIES
  CallsReturn
