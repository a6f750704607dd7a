CONSTANTS
    Waiters = {w1}
    MaxTurns = 3
    BlockMidTurn = TRUE
SPECIFICATION FairSpec
CHECK_DEADLOCK TRUE
INVARIANTS TypeOK TimersMatchPhase
PROPERTIES StagesPlayOut InOrder DrainSpec TurnsPlayed DrainedUnlessCovered
