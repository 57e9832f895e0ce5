\* Six chunks, windows of two (the explicit option).
SPECIFICATION Spec
CONSTANTS
  N = 6
  Yields <- MCYields
  HasNbt <- MCHasNbt
  Starts <- MCStarts
  FormatDefault = 8
  ExplicitChunks = 2
  BudgetMiB = 450
INVARIANTS
  WholeOrDiscarded
  ProgressIsSaved
  PipelineWindow
  SinkProtocol
PROPERTIES
  TransferSpec
