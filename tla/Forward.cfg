CONSTANTS
  Val <- Values
  Types <- SomeTypes
  ValuesOf <- TypeValues
  BlockTypes <- References
  SigOf <- Signature
  Storages = {0, 1}
  Programs <- ForwardPrograms
  WidthOf <- TypeWidth
  TypeRank <- Rank
  MaxStores = 2
SPECIFICATION Spec
INVARIANT CacheTrue
PROPERTY Refines
CHECK_DEADLOCK FALSE
