SPECIFICATION ScannerSpec
CONSTANTS
    Plugin = {"oauth"}
    Target = {"api"}
    Form = {"braced"}
    MaxSegments = 1
INVARIANTS
    BracedReferencesRoute
CHECK_DEADLOCK FALSE
