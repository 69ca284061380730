SPECIFICATION QuerySpec
CONSTANTS
    Byte <- Bytes
    Keys <- KeySeq
    Text <- Texts
    MaxItems = 2
    BaseQuery <- Queries
    Hex <- Escapes
    None = None
INVARIANTS
    ArgumentsArrive
PROPERTIES
    OperatorQueryStays
CHECK_DEADLOCK FALSE
