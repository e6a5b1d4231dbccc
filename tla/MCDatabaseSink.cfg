SPECIFICATION FairSinkSpec
CONSTANTS
    InMemory = FALSE
    OpenFaults <- MCOpenFaults
    MayPanic = TRUE
    MaxBatch = 2
    MaxRows = 3
    MaxCalls = 4
INVARIANTS
    SinkTypeOK
    StoredInOrder
    AnswersTrue
    BatchesWhole
    JoinedIsQuiet
PROPERTIES
    CallsReturn
    DropEnds
