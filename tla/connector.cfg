SPECIFICATION ConnectorSpec
CONSTANTS
    None = None
    c1 = c1  c2 = c2
    s1 = s1  s2 = s2
    i1 = i1  i2 = i2
    Session = {s1, s2}
    Connector = {d1}
    Instance = {i1, i2}
    Call = {c1, c2}
    Key = {k1}
    Intent = {look}
    Mutating = {}
    SignedId = {}
    Operator = {o1}
    MaxCrashes = 1
    StaleWindow = 1
    MaxTime = 1
    MaxEpoch = 0
SYMMETRY Symmetric
CHECK_DEADLOCK FALSE
INVARIANT LedgerNamesProcess
PROPERTIES
    ImplementsCommands
    ImplementsPresence
    DispatchedToLiveDevice
