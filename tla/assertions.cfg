SPECIFICATION Spec
CONSTANTS
    None = None
    d1 = d1
    c1 = c1
    c2 = c2
    i1 = i1
    i2 = i2
    Device = {d1}
    Identity = {i1, i2}
    Key = {k1, k2}
    Call = {c1, c2}
    Caller <- MCCaller
    Target <- MCTarget
    Binding <- MCBinding
    SeenLimit = 1
    Ttl = 4
    MaxAge = 1
    Allowance = 1
    Skew = 1
    MaxTime = 6
    MaxKeysets = 2
    Drift <- MCDrift
    MaxFrames = 2
SYMMETRY Symmetric
CHECK_DEADLOCK FALSE
INVARIANTS
    AssertionsTypeOK
    ReplayIsRefused
    RevokedKeyFades
    PromptFrameIsTaken
