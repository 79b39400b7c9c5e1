CONSTANTS
  PAGE_SIZE = 4096
  Positions = {0, 4096}
  Faults = {"alloc", "read"}
INIT LoadInit
NEXT LoadStep
CHECK_DEADLOCK FALSE
CONSTANT Pages <- HeaderPages
CONSTANT ClientSlots = {0}
INVARIANT UsaCountMatchesPageSize
