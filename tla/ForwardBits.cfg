CONSTANTS
  Val <- Values
  Types <- SomeTypes
  ValuesOf <- TypeValues
  BlockTypes <- References
  SigOf <- Signature
  Storages = {0, 1}
  Programs <- KnownBitsPrograms
  WidthOf <- TypeWidth
  TypeRank <- Rank
  MaxStores = 2
SPECIFICATION Spec
PROPERTY Refines
CHECK_DEADLOCK FALSE
