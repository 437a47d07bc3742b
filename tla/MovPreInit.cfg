CONSTANTS
  Val <- Values
  Types <- SomeTypes
  ValuesOf <- TypeValues
  BlockTypes <- References
  SigOf <- Signature
  Storages = {0}
  Programs <- PreInitPrograms
  Bit = "bit"
  VecPc = "vecpc"
  Xor <- XorBits
  Add <- XorBits
  Halting = {}
SPECIFICATION FairSpec
PROPERTY Refines
CHECK_DEADLOCK FALSE
