SPECIFICATION RuntimeSpec
CONSTANTS
    Call = {c1}
    Caller = {alice}
    Pair = {p1}
    Ref = {p1}
    Routed = {p1}
    Url = {u1}
    BaseUrl = u1
    Secret = {s1}
    ProfileSecret = {s1}
    MaxEntries = 1
    IdleEviction = 0
    MaxTime = 0
    MaxVersion = 1
    None = None
INVARIANTS
    RevokedIsEvicted
