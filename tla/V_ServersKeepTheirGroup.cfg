\* A statement of the source's comments that setup_quilt_servers does not keep.
CONSTANTS
  MaxTasks = 12
  MaxPerGroup = 4
  MaxGroups = 3
SPECIFICATION SetupSpec
INVARIANT ServersKeepTheirGroup
CHECK_DEADLOCK FALSE
