\* Two conversions into one adapter, every target, every failing step.
SPECIFICATION Spec
CONSTANTS
  Conversions = {1, 2}
  FlushMayFail = FALSE
INVARIANTS
  ArchiveIsWhole
  EndIsComplete
PROPERTIES
  AbortPreservesArchive
