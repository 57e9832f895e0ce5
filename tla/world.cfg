\* Two contexts of one process, two encoding threads.
SPECIFICATION Spec
CONSTANTS
  Edge = 4
  WordBits = 32
  Upgrade <- MCUpgrade
  CurrentVersion = 5
  CacheLimit = 20
  Assets <- MCAssets
  SourceStates <- MCSourceStates
  Threads = {t1, t2}
  Writes <- MCWrites
  MinSubChunkY <- MCMinSubChunkY
  MaxSubChunkY = 1
  GenerationLimit = 3
  MaxContexts = 2
  MaxRegistered = 1
  MaxSaves = 2
  MaxLoads = 1
SYMMETRY MCSymmetry
INVARIANTS
  DiskHoldsWhatWasSaved
  RoundTrip
CHECK_DEADLOCK FALSE
