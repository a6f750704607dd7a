CONSTANTS
    Requests = {r1, r2}
    Experiments = {e1, e2}
    Ops = {"create", "start", "pause", "inject", "update_arc", "plan", "approve", "revise", "step", "start_step"}
    Concurrent = {"create", "start", "pause", "inject", "update_arc", "plan", "approve", "revise", "step", "start_step"}
    AutoApprove = {e2}
    TotalRounds = 1
    StrayRounds = {}
    None = None
SPECIFICATION FairSpec
CHECK_DEADLOCK FALSE
INVARIANTS LiveStateIsLocked OneRoundAtATime AnnouncementIsBacked
PROPERTIES StepSettles LockIsServed
