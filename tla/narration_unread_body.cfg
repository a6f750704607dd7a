CONSTANTS
    Requests = {r1, r2, r3}
    Keys = {k1, k2}
    MaxEntries = 1
    Disconnects = {"before_body", "mid_body"}
    None = None
SPECIFICATION FairSpec

CHECK_DEADLOCK FALSE
PROPERTY RequestsAnswered
