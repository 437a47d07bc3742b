CONSTANTS
  Val <- Values
  Types <- SomeTypes
  ValuesOf <- TypeValues
  BlockTypes <- References
  SigOf <- Signature
  Storages = {0}
  Programs <- LayoutPrograms
SPECIFICATION Spec
INVARIANT LaidOut
PROPERTY Refines
CHECK_DEADLOCK FALSE
