\* World: three chunks of two layers, one in the cache, three workers.  Chunks:
\* two threads, three calls, six files of which the spool may hold four records.
SPECIFICATION MCSpec
CONSTANTS
  Chunks = {1, 2, 3}
  Layers = {1, 2}
  Workers = 3
  CacheLimit = 1
  BatchSize = 1
  ColdLimit = 1
  SpillBatch = 1
  MaxWrites = 4
  Edge = 2
  Bits <- MCBits
  MaxConstants = 4
  CacheEntries = 1
  MaxEntities = 4
  RunLength = 2
  Window = 8
  Known <- MCKnown
  PoolSize <- MCPoolSize
  Streams <- MCStreams
  Layouts <- MCLayouts
  Offsets <- MCOffsets
  Options <- MCOptions
  Requests <- MCRequests
  ShardCount = 2
  Threads = {1, 2}
  MaxCalls = 3
INVARIANTS
  NoWriteLost
  CachesBounded
  AnswersAreExact
  NoSpoolLeftBehind
PROPERTIES
  CallsReturn
