CONSTANTS
  Capacity <- MC_Capacity
  Prios <- MC_Prios
  Ptrs = {a, b}
  NULL = NULL
SPECIFICATION Spec
INVARIANT TypeOK HwmInBounds ListsWellFormed
PROPERTY ImplementsElstQueue
