SPECIFICATION ConfigSpec
CONSTANTS
    Huge = 100000
    WordBits = 4
    LocalSources <- Deployments
    FileSources <- OneKey
    Overrides <- OneVariable
INVARIANTS
    RefusedEarly
    DelayIsExact
