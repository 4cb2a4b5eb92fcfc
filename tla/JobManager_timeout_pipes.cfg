\* A timeout, and a process the script started that does not end.
SPECIFICATION HangingChildSpec
CONSTANTS
  j1 = j1
  j2 = j2
  Jobs <- OneJob
  PurgeJobs = {}
  MaxParallel = 1
  DiskErrors = FALSE
  MaxDeaths = 0
PROPERTY
  TimeoutBoundsInvocation
