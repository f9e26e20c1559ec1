SPECIFICATION ConnectorSpec
CONSTANTS
    None = None
    c1 = c1  c2 = c2
    s1 = s1  s2 = s2
    i1 = i1  i2 = i2
    Session = {s1}
    Connector = {d1}
    Instance = {i1}
    Call = {c1, c2}
    Key = {k1}
    Intent = {look}
    Mutating = {}
    SignedId = {}
    Operator = {}
    MaxCrashes = 0
    StaleWindow = 1
    MaxTime = 1
    MaxEpoch = 1
SYMMETRY Symmetric
CHECK_DEADLOCK FALSE
PROPERTY ConflictMeansOtherIntent
