CONSTANTS
  Val <- Values
  Types <- SomeTypes
  ValuesOf <- TypeValues
  BlockTypes = {}
  SigOf <- NoSignature
  Storages = {0}
  Programs <- EqualSums
  Limits <- CopiesOf
  Forms <- LoopForms
  Xor <- XorWords
  Slot <- SmallSlot
  Halting <- EndingLoops
SPECIFICATION Spec
PROPERTY Refines
CHECK_DEADLOCK FALSE
