\* Two readers, two jobs side by side and the cron job, a directory that changes
\* twice.
SPECIFICATION FairSpec
CONSTANTS
  h1 = h1
  h2 = h2
  k1 = k1
  k2 = k2
  c1 = c1
  c2 = c2
  Handlers <- TwoHandlers
  Jobs <- TwoJobs
  Certs <- OneCert
  MaxVersion = 2
INVARIANTS
  ScanShowsFinishedJobs
  StaleOnlyByOverlap
PROPERTIES
  StaleListsRunOut
  ServedEventually
