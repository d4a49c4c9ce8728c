CONSTANTS
    top = 4
    Reads = 3
SPECIFICATION FairSpec
CHECK_DEADLOCK FALSE
INVARIANTS TypeOK Countdown
PROPERTY Drained
