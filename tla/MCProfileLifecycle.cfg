SPECIFICATION FairLifecycleSpec
CONSTANTS
    Call = {c1}
    Gen = {g1, g2}
    Digest = {d1}
    IdleEviction = 1
    Interval = 1
    Late = 1
    MaxTime = 6
    MaxAnnounced = 1
    Plugin = Plugin
    None = None
INVARIANTS
    LifecycleTypeOK
    AnnouncementsReachClones
    IdleBound
PROPERTIES
    NoLeak
CHECK_DEADLOCK FALSE
