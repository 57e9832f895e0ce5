\* The same instance; one file has air below part of its last line of chunks.
SPECIFICATION Spec
CONSTANTS
  Edge = 2
  Stride = 2
  MissingOffset = 4
  OneByte = 4
  MaxU16 = 7
  MaxRows = 9
  Documents <- MCDocuments
  Workers = {k1, k2}
  Offsets <- MCOffsets
  StartPoints <- MCStartPoints
  TopSubY = 19
  Budget = 22
  SpoolLimits = {0, 8}
  Requests <- MCRequests
  MaxCalls = 4
INVARIANT StructureIsWhole
CHECK_DEADLOCK FALSE
