CONSTANTS
  Programs <- UnrollPrograms
  ModesOf <- AllModes
  Limits <- SomeLimits
  Cells <- SomeCells
SPECIFICATION Spec
INVARIANTS Executable InStep Finite
CHECK_DEADLOCK FALSE
