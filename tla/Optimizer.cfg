CONSTANTS
  Blocks <- SomeBlocks
  RootsOf <- Named
  ReadOnly = {1}
  Image <- SomeImage
  Memories <- SomeMemories
  MaxBatch = 3
SPECIFICATION FairSpec
INVARIANTS SameMeaning RemapTrue
PROPERTY FoldIrStabilizes
CHECK_DEADLOCK FALSE
