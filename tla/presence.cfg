SPECIFICATION PresenceSpec
CONSTANTS
    None = None
    s1 = s1  s2 = s2  s3 = s3
    d1 = d1  d2 = d2
    i1 = i1  i2 = i2
    Session = {s1, s2, s3}
    Connector = {d1, d2}
    Instance = {i1, i2}
    StaleWindow = 2
    MaxTime = 3
    MaxEpoch = 1
SYMMETRY Symmetric
CHECK_DEADLOCK FALSE
INVARIANTS
    PresenceTypeOK
    RevokedIsOffline
    RoutedByOwnRow
    ReapedAtHeartbeat
PROPERTIES
    ClosedForCause
    NoLifeAfterClose
