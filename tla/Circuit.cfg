CONSTANTS
  Val <- Values
  Types <- SomeTypes
  ValuesOf <- TypeValues
  BlockTypes = {}
  SigOf <- NoSignature
  Storages = {0}
  Programs <- LoopPrograms
  Limits <- CopiesOf
  Forms <- LoopForms
  Xor <- XorWords
  Slot <- SmallSlot
  Halting <- EndingLoops
SPECIFICATION FairSpec
INVARIANT Delivers
PROPERTIES Refines Halts
CHECK_DEADLOCK FALSE
