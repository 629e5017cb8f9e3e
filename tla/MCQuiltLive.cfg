\* Two clients and two groups of two servers, which are polled for an idle one.
CONSTANTS
  NC = 2
  NG = 2
  ServerOf <- OneEach
  NH = 2
  NStreams = 1
  NF = 1
  FramesPerFile <- TwoFrames
  MaxOutputs = 3
  Eager = 0
  Poll = TRUE
  NS = 2
  LocalEager = 0
  ReadyStreams = {1}
  SyncNamed = {FALSE}
SPECIFICATION AsyncSpec
PROPERTIES
  EveryRunEnds
  SyncedIsWritten
\* Over is the only state the system may stop in; EveryRunEnds says it gets there.
CHECK_DEADLOCK FALSE
