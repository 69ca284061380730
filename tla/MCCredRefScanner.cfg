SPECIFICATION ScannerSpec
CONSTANTS
    Plugin = {"oauth", "vault"}
    Target = {"api"}
    Form = {"bare", "bare_query", "bare_fragment", "braced_query"}
    MaxSegments = 3
INVARIANTS
    FindsWhatIsWritten
PROPERTIES
    TurnsAdvance
CHECK_DEADLOCK FALSE
