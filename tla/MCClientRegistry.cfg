SPECIFICATION RegistrySpec
CONSTANTS
    Call = {c1, c2, c3, c4}
    Digest = {d1, d2, d3}
    Key = {k1}
    MaxEntries = 2
    IdleEviction = 1
    MaxTime = 2
    None = None
SYMMETRY Symmetry
INVARIANTS
    TypeOK
    CapacityBound
    OwnDigest
    StampIsLastUse
PROPERTIES
    LruSparesRecent
    SweepTakesExactlyIdle
    CacheSpec
