SPECIFICATION SinkSpec
CONSTANTS
    InMemory = TRUE
    OpenFaults = {}
    MayPanic = FALSE
    MaxBatch = 1
    MaxRows = 2
    MaxCalls = 3
INVARIANT InMemoryPersists
