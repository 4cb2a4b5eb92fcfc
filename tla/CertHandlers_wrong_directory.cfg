\* A name with an RSA and an EC certificate: the operator means the second.
SPECIFICATION Spec
CONSTANTS
  n1 = n1
  n2 = n2
  n3 = n3
  n4 = n4
  r1 = r1
  Dirs <- PlainDirs
  CN <- LeafNames
  Place <- InOrder
  Refused <- NoDomains
  Within <- NotDots
  Homes <- PlainHome
  Readers = {r1}
  MaxRequests = 1
  MaxSerial = 2
  MaxCron = 0
  MaxDeaths = 0
CHECK_DEADLOCK FALSE
INVARIANT
  RemovedIsMeant
