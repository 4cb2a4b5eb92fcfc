\* Two updates from pages and one from the command line, a release published on the way.
SPECIFICATION Spec
CONSTANTS
  r1 = r1
  r2 = r2
  c1 = c1
  c2 = c2
  Cli = cli
  Requests <- TwoRequests
  Checks <- TwoChecks
  MaxTag = 3
  MaxApplies = 2
INVARIANTS
  TypeOK
  ExecutableIsWhole
  PageSeesUpdate
  CachedCheckIsTrue
PROPERTIES
  OlderOnlyByOverlap
  InstalledRuns
