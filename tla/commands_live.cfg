SPECIFICATION FairSpec
CONSTANTS
    None = None
    c1 = c1  c2 = c2  c3 = c3
    k1 = k1  k2 = k2
    s1 = s1  s2 = s2
    Session = {s1, s2}
    Connector = {d1}
    Instance = {i1}
    Call = {c1, c2}
    Key = {k1, k2}
    Intent = {write}
    Mutating = {write}
    SignedId = {}
    Context = {x1}
    Operator = {o1}
    MaxCrashes = 1
CHECK_DEADLOCK FALSE
INVARIANT ReplyIsRecorded
PROPERTIES
    OutcomeIsFinal
    CallsReturn
    GuardIsReleased
