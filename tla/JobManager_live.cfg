\* Two jobs compete for one slot; every script may hang until its timeout.
SPECIFICATION FairSpec
CONSTANTS
  j1 = j1
  j2 = j2
  Jobs <- TwoJobs
  PurgeJobs = {}
  MaxParallel = 1
  DiskErrors = FALSE
  MaxDeaths = 0
PROPERTIES
  SubmittedEnds
  CancelStopsInvocation
