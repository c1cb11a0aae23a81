CONSTANTS
    MaxPathLen = 5
    UnsignedMod = 16
    MaxFailures = 2
SPECIFICATION FairSpec
PROPERTIES
    GameEnds
