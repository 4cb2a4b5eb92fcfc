\* Requests of every kind, issued, scanned and issued again while providers come and go;
\* and configurations and homes of every kind, from init to the purge of a certificate.
SPECIFICATION Spec
CONSTANTS
  x = x
  api = api
  bad = bad
  Names <- AllNames
  WellFormed <- GoodNames
  Files <- AllFiles
  Answers <- SomeAnswers
  Requests <- AllRequests
  Providers <- SomeProviders
  Dotted <- SomeDotted
  Bare <- SomeBare
  DirNames <- SomeDirs
  Lifetime = 5
  MaxTime = 7
CONSTRAINT
  Scope
INVARIANTS
  StartGate
  StatusIsRight
  PurgeChecksAgree
PROPERTIES
  ReissueKeepsRequest
CHECK_DEADLOCK FALSE
