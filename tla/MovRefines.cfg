CONSTANTS
  Val <- WideValues
  Types <- SomeTypes
  ValuesOf <- TypeValues
  BlockTypes <- References
  SigOf <- Signature
  Storages = {0}
  Programs <- SupportedPrograms
  Bit = "bit"
  VecPc = "vecpc"
  Xor <- XorBits
  Add <- XorBits
  Halting <- HaltingPrograms
SPECIFICATION FairSpec
INVARIANTS TypeOK OneActive
PROPERTIES InactiveInert Refines Halts
CHECK_DEADLOCK FALSE
