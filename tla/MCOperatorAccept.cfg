SPECIFICATION HttpSpec
CONSTANTS
    Call = {c1}
    Host = {h1}
    Addr = {pub, priv}
    Private = {priv}
    pub = pub
    priv = priv
    DnsAnswer <- Answers
    Profile <- Profiles
    Field <- Fields
    OperatorValue = {v1}
    GatewayValue = {t1}
    GatewayHeaders <- Gateway
    MaxEntries = 1
    None = None
INVARIANTS
    OperatorAcceptSent
CHECK_DEADLOCK FALSE
