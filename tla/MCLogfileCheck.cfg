CONSTANTS
  PAGE_SIZE = 4096
  NtfsDefaultLogPageSize = 4096
  NtfsMaxLogFileSize = 16384
  NtfsMinLogRecordPages = 1
  DataSizes = {8192, 16384}
  ClientSlots = {0}
  Faults = {"alloc", "read", "map", "vnode", "write"}
CONSTANT Positions <- MCPositions
CONSTANT Pages <- ScanPages
CONSTANT Disks <- WellFormedDisks
SPECIFICATION Spec
INVARIANT LogfileTypeOK
INVARIANT BuffersOwned
INVARIANT CheckReleasesResources
INVARIANT EmptyFlagSound
PROPERTY NoDirtyVolumeReportedClean
PROPERTY NewestPageHandedOut
PROPERTY CheckTerminates
PROPERTY ContractSpec
