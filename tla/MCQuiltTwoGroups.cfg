\* Two clients and two groups of two servers: files alternate between groups,
\* or go to the group the monitor found idle.
CONSTANTS
  NC = 2
  NG = 2
  ServerOf <- OneEach
  NH = 3
  NStreams = 2
  NF = 1
  FramesPerFile <- TwoFramesThenOne
  MaxOutputs = 3
  Eager = 0
  Poll = TRUE
  NS = 2
  LocalEager = 0
  ReadyStreams = {1}
  SyncNamed = {FALSE}
SPECIFICATION GroupsSpec
INVARIANTS
  TablesAgree
  IdleGroupServesNoFile
PROPERTIES
  FilesAsPromised
