CONSTANTS
    s1 = s1
    s2 = s2
    Sockets = {s1, s2}
    Ageing <- MCAgeing
    Rounds <- MCRounds
    MaxPhases = 2
    VoiceOf <- MCVoiceOf
    DefaultVoice = "plain"
    NarrationKey <- MCNarrationKey
    Keys <- MCKeys
    Requests <- MCRequests
    Attempts = 2
    MaxSpeech = 2
    MaxEntries = 2
    Disconnects = {"before_body", "mid_body"}
    None = None
SPECIFICATION StreamFairSpec
CHECK_DEADLOCK FALSE
INVARIANTS
    StreamTypeOK
    SingleFlight
    InflightHasOwner
    IndexNamesUtterance
    ReadyWasSpoken
PROPERTIES
    CacheKeepsRecent
    AudioMovesForward
    AnsweredUnlessUnread
    SpeechSettles
    NarrationSettles
