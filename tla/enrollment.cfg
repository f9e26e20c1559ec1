SPECIFICATION Spec
SYMMETRY Symmetric
CONSTANTS
    s1 = s1  s2 = s2
    t1 = t1  t2 = t2
    c1 = c1  c2 = c2
    k1 = k1  k2 = k2
    Session = {s1, s2}
    Token = {t1, t2}
    Connector = {c1, c2}
    PublicKey = {k1, k2}
    Profile = {"read_only", "typo"}
    Supported = {"read_only"}
    TokenLife = {1}
    ChallengeLife = 2
    HandshakeTimeout = 1
    MaxCrashes = 1
    None = None
CHECK_DEADLOCK FALSE
INVARIANTS
    EnrollmentTypeOK
    WastedTokenExplained
    ChallengeAnsweredOnce
    OfferedChallengeIsFresh
    GrantedAsIssued
PROPERTIES
    ImplementsPairing
