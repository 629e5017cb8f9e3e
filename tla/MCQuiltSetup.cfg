\* setup_quilt_servers on every mesh of up to 12 tasks.
CONSTANTS
  MaxTasks = 12
  MaxPerGroup = 4
  MaxGroups = 3
SPECIFICATION SetupSpec
INVARIANTS
  OneServerAndLast
  GroupsCoverClients
  LocalIsTheGroup
  MonitorServedByFirst
  OneMasterPerServer
CHECK_DEADLOCK FALSE
