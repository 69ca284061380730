SPECIFICATION CallSpec
CONSTANTS
    Limit = 5
    ChunkSize = {1, 2, 3, 7}
    MaxTotal = 16
    Status = {200, 302, 429, 499, 500, 503}
    Expected = {200, 503}
    Seconds = {0, 1, 65, 66}
    MaxMs = 65535
    DefaultBackoff = 1000
    HttpDate = HttpDate
    None = None
INVARIANTS
    ReaderTypeOK
    NothingCutSilently
    PostNeverRetriedBlindly
    GuidanceAgrees
    DelayAsAsked
    TransportMeansIncomplete
    WholeJsonAccepted
PROPERTIES
    ProgressTellsTheBody
    EndsOnce
    PromiseKept
CHECK_DEADLOCK FALSE
