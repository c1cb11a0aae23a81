CONSTANTS
    MaxPathLen = 5
    UnsignedMod = 16
    MaxFailures = 2
SPECIFICATION Spec
INVARIANTS
    StrategyTypeOK
    NextActionRunnable
    DoneMeansGoal
    NeverIdle
    PlanInv
    IdleInv
