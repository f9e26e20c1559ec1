SPECIFICATION Spec
CONSTANTS
    None = None
    Torn = Torn
    MaxRuns = 3
    Validity = 4
    RenewBefore = 2
CHECK_DEADLOCK FALSE
INVARIANTS
    RenewalTypeOK
    PairOnDisk
    FailureRestores
    ServedLeafIsValid
PROPERTIES
    RenewedIsServed
    ImplementsRotation
