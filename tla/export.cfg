\* Six tasks, six sets of options.
SPECIFICATION Spec
CONSTANTS
  Pieces = 6
  Sizes = {0, 1, 2}
  Jobs <- MCJobs
INVARIANTS
  HeldBounded
  TasksKeepTheirContext
  OneReader
PROPERTIES
  TransferSpec
