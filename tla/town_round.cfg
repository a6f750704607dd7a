CONSTANTS
    Agents <- MCAgents
    Profile <- MCProfile
    Length = 6
    Entry <- MCEntry
    Label <- MCLabel
    PlaceType <- MCPlaceType
    Acts <- MCActs
    Towns <- MCTowns
    TotalRounds = 2
    Plans <- MCPlans
    Answers <- MCAnswers
    MaxAnswers = 2
    MaxInjections = 1
    RecentLimit = 8
    HistoryLimit = 12
    PlotlineLimit = 10
SPECIFICATION Spec
INVARIANTS
    TypeOK
    FactionsAreOfActives
    DepartedAreGone
    CollapseNeedsShortage
    MeetingIsTold
PROPERTIES
    SuspicionFallsOnlyToARace
    FactionsShieldTheirOwn
    EventsAheadOfCursor
    PopulationSpec
CHECK_DEADLOCK FALSE
