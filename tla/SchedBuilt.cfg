CONSTANTS
    U64Max = 4
    epoch_size = 3
    worker_lane_count = 2
    max_epochs = 3
    max_iterations = 4
    max_dependencies = 1
    max_claims = 3
    max_sequence = 2
    Absent = Absent
    NoResult = NoResult
    Values <- MCValues
    Cells <- MCCells
    InitialBank <- MCInitialBank
    Step <- MCStep
    Programs <- MCPrograms
    HandBuilt <- MCHandBuilt
    IterationIds = {0, 1, 2, 3, 4}
    BlockOf <- MCBlockOf
    read_only = {2}
SPECIFICATION BuiltSpec
PROPERTY Refines
CHECK_DEADLOCK FALSE
