CONSTANTS
    MaxPathLen = 4
    UnsignedMod = 16
    MaxFailures = 2
SPECIFICATION Spec
INVARIANTS
    WaitOnlyAfterFailedCollect
