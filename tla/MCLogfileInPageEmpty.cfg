CONSTANTS
  PAGE_SIZE = 4096
  NtfsDefaultLogPageSize = 4096
  NtfsMaxLogFileSize = 16384
  NtfsMinLogRecordPages = 1
  DataSizes = {8192, 16384}
  ClientSlots = {0}
  Faults = {"alloc", "read", "map", "vnode", "write"}
CONSTANT Positions <- MCPositions
CONSTANT Pages <- ScanPages
CONSTANT Disks <- AnyDisks
SPECIFICATION Spec
PROPERTY NoDirtyVolumeReportedClean
