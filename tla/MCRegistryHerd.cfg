SPECIFICATION RegistrySpec
CONSTANTS
    Call = {c1, c2}
    Digest = {d1}
    Key = {k1}
    MaxEntries = 1
    IdleEviction = 0
    MaxTime = 0
    None = None
INVARIANTS
    NoParallelBuilds
