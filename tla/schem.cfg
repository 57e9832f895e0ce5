\* Twelve small files, two workers, a file that may be replaced.
SPECIFICATION Spec
CONSTANTS
  Edge = 2
  Stride = 2
  MissingOffset = 4
  OneByte = 4
  MaxU16 = 7
  MaxRows = 9
  Documents <- MCDocuments
  Workers = {k1, k2}
  Offsets <- MCOffsets
  StartPoints <- MCStartPoints
  TopSubY = 19
  Budget = 22
  SpoolLimits = {0, 8}
  Requests <- MCRequests
  MaxCalls = 4
INVARIANTS
  AnswersAreExact
  WrittenInPlace
  NoPayloadLeftBehind
PROPERTY WriteReturns
CHECK_DEADLOCK FALSE
