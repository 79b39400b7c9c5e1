CONSTANTS
  PAGE_SIZE = 4096
  Positions = {0}
  Faults = {"alloc", "read"}
INIT LoadInit
NEXT LoadStep
CHECK_DEADLOCK FALSE
CONSTANT Pages <- ClientPages
CONSTANT ClientSlots = {0, 1, 2}
INVARIANT SpecFreshBudgetPerList
