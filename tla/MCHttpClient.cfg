SPECIFICATION HttpSpec
CONSTANTS
    Call = {c1, c2}
    Host = {h1, h2}
    Addr = {pub, priv}
    Private = {priv}
    pub = pub
    priv = priv
    DnsAnswer <- Answers
    Profile <- Profiles
    Field <- Fields
    OperatorValue = {v1, v2}
    GatewayValue = {t1}
    GatewayHeaders <- Gateway
    MaxEntries = 1
    None = None
SYMMETRY Symmetry
INVARIANTS
    HttpTypeOK
    GuardHolds
    OwnHeaders
    Provenance
    KeyPrecedence
CHECK_DEADLOCK FALSE
