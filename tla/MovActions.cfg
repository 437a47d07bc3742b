CONSTANTS
  Val <- Values
  Types <- SomeTypes
  ValuesOf <- TypeValues
  BlockTypes <- References
  SigOf <- Signature
  Storages = {0}
  Programs <- ActingPrograms
  Bit = "bit"
  VecPc = "vecpc"
  Xor <- XorBits
  Add <- XorBits
  Halting = {}
SPECIFICATION FairSpec
PROPERTY InactiveInert
CHECK_DEADLOCK FALSE
