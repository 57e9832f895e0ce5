\* Six save_chunks calls, three requested workers.
SPECIFICATION Spec
CONSTANTS
  Batches <- MCBatches
  Requested = 3
  Env <- MCEnv
INVARIANTS
  BatchesAreWhole
  SuccessMeansWritten
PROPERTIES
  CallsReturn
