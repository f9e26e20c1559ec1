SPECIFICATION Spec
CONSTANTS
    None = None
    s1 = s1  s2 = s2
    t1 = t1  t2 = t2
    c1 = c1  c2 = c2
    k1 = k1  k2 = k2
    Session = {s1}
    Token = {t1}
    Connector = {c1}
    PublicKey = {k1}
    Profile = {"read_only", "typo"}
    Supported = {"read_only"}
    TokenLife = {1}
    ChallengeLife = 2
    HandshakeTimeout = 1
    MaxCrashes = 0
CHECK_DEADLOCK FALSE
INVARIANTS
    RefusalIsTold
