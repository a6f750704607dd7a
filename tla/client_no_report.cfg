CONSTANTS
    TotalRounds = 1
    MaxActs = 1
    MaxClicks = 1
    MaxFailures = 0
    MaxDrops = 0
SPECIFICATION FairSpec
CHECK_DEADLOCK FALSE
PROPERTY ReportShown
