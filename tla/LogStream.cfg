\* Two readers, a channel of two lines, three lines of output.
SPECIFICATION FairSpec
CONSTANTS
  r1 = r1
  r2 = r2
  Readers <- TwoReaders
  ChanCap = 2
  MaxLines = 3
INVARIANTS
  ChannelsInMapAreOpen
  StreamInOrder
  EndMeansComplete
  FallbackIsComplete
  CloseReachesReaders
PROPERTIES
  StreamsEnd
  JobEnds
