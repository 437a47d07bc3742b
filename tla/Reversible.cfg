CONSTANTS
  Circuits <- SomeCircuits
  RCircuits <- Lookups
  Options <- Modes
  Memories <- SomeMemories
  Oracle <- SomeOracle
  Act <- SomeAct
SPECIFICATION Spec
INVARIANTS LiveWires ScratchRestored RoundTrip Embeds Undoes LedBack
CHECK_DEADLOCK FALSE
