\* Three clients, one group of two servers (the first serves two clients).
CONSTANTS
  NC = 3
  NG = 1
  ServerOf <- TwoAndOne
  NH = 3
  NStreams = 2
  NF = 2
  FramesPerFile <- TwoFramesThenOne
  MaxOutputs = 3
  Eager = 1
  Poll = FALSE
  NS = 2
  LocalEager = 1
  ReadyStreams = {1}
  SyncNamed = {TRUE, FALSE}
SPECIFICATION QuiltSpec
INVARIANTS
  TypeOK
  HandlesLocked
  BufferFits
  TrainedBeforeWritten
  CollectivesMatch
  LocalCollectivesMatch
  NeverAborts
  BatchOfOneCall
  NothingLost
PROPERTIES
  FilesAsPromised
  ClientSpec
