CONSTANTS
    Waiters = {w1}
    MaxTurns = 2
    BlockMidTurn = TRUE
SPECIFICATION FairSpec
CHECK_DEADLOCK TRUE
PROPERTY DrainedFires
