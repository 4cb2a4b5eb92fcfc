\* Two requests that may overlap, on a home with an RSA and an EC certificate of one name,
\* while the server may stop; and, with the cron job, on homes with certificates of
\* another name than their directory, in a directory that may not be purged, and for no
\* domain.  A server that gets no more requests is idle.
SPECIFICATION Spec
CONSTANTS
  n1 = n1
  n2 = n2
  n3 = n3
  n4 = n4
  r1 = r1
  Dirs <- EveryDir
  CN <- LeafNames
  Place <- InOrder
  Refused <- NoDomains
  Within <- NotDots
  Homes <- EveryHome
  Readers = {r1}
  MaxRequests = 2
  MaxSerial = 3
  MaxCron = 1
  MaxDeaths = 1
CONSTRAINT
  Scope
CHECK_DEADLOCK FALSE
INVARIANTS
  NothingLostToFailure
  OwnResultSurvives
  NewerLostByOverlapOnly
  ReplacedGoes
