CONSTANTS
  Val <- Values
  Types <- PrimeTypes
  ValuesOf <- TypeValues
  BlockTypes = {}
  SigOf <- Signature
  Storages = {0}
  Programs <- PrimePrograms
  Bit = "bit"
  VecPc = "vecpc"
  Xor <- XorBits
  Add <- AddMod3
  Halting = {}
SPECIFICATION FairSpec
PROPERTY Refines
CHECK_DEADLOCK FALSE
