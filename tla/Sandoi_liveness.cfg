CONSTANTS
    MaxFailures = 3
    MaxRounds = 3
SPECIFICATION FairSpec
\* The robot waits at the starter for ever when nobody pulls it again.
CHECK_DEADLOCK FALSE
PROPERTY
    RoundEndsOrTimer
