CONSTANTS
  Circuits <- ActionCircuits
  RCircuits <- NoGates
  Options <- Plain
  Memories <- SomeMemories
  Oracle <- SomeOracle
  Act <- SomeAct
SPECIFICATION Spec
INVARIANTS StoresDirectly
CHECK_DEADLOCK FALSE
