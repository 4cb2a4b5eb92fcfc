\* Two jobs that purge, one slot, writes that fail; the server may shut down,
\* die and come back.
SPECIFICATION Spec
SYMMETRY TwoSymmetry
CONSTANTS
  j1 = j1
  j2 = j2
  Jobs <- TwoJobs
  PurgeJobs <- TwoJobs
  MaxParallel = 0
  DiskErrors = TRUE
  MaxDeaths = 1
INVARIANTS
  BoundedParallelism
  LogEndMeansFinal
  CancelledIffInTime
  PurgedMeansSuccess
  OnDoneAfterSave
PROPERTIES
  ImplementsLifecycle
  CancelPreventsStart
