\* A requested capacity of zero (clamped to one), two workers, two submitters.
SPECIFICATION Spec
CONSTANTS
  WorkerCount = 2
  RequestedCap = 0
  Submitters = {s1, s2}
  Tasks = {t1, t2, t3}
  NoTask = NoTask
INVARIANTS
  TypeOK
  FifoWithinCapacity
  DestroyedMeansDrained
PROPERTIES
  SubmitReturns
