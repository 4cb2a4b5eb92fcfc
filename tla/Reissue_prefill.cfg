\* Requests the wizard cannot express come back as others.
SPECIFICATION Spec
CONSTANTS
  x = x
  api = api
  bad = bad
  Names <- AllNames
  WellFormed <- GoodNames
  Files <- KeyFiles
  Answers <- SomeAnswers
  Requests <- SomeRequests
  Providers <- SomeProviders
  Dotted <- SomeDotted
  Bare <- SomeBare
  DirNames <- SomeDirs
  Lifetime = 1
  MaxTime = 1
CHECK_DEADLOCK FALSE
INVARIANTS
  ReissueIsOriginal
