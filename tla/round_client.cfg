CONSTANTS
    TotalRounds = 2
    MaxActs = 1
    MaxClicks = 4
    MaxFailures = 1
    MaxDrops = 1
SPECIFICATION FairSpec
CHECK_DEADLOCK FALSE
INVARIANTS WaitsForAStep
PROPERTIES StallsOnlyOnFailure StepSettles
