SPECIFICATION Spec
CONSTANTS
    Newline = Newline
    Return = Return
    Invalid = Invalid
    Elements <- MCElements
    MacLength = 1
    ByteValues = 2
    MaxLine = 2
    MaxRead = 2
    MaxInput = 5
INVARIANT MalformedSkipped
