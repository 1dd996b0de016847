CONSTANTS
    a1 = a1
    a2 = a2
    s1 = s1
    s2 = s2
    s3 = s3
    ExternalAddrs = {a1, a2}
    AdvertiseSettings = {TRUE, FALSE}
    OutboundConnections = 2
    SeedAddrs = {s1, s2, s3}
SPECIFICATION Spec
CHECK_DEADLOCK FALSE
INVARIANTS TypeOK AdvertiseAllOrNothing
PROPERTY StartReturns
