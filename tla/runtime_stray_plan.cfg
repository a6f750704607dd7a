CONSTANTS
    Requests = {r1, r2, r3, r4}
    Experiments = {e1}
    Ops = {"create", "start", "pause", "inject", "update_arc", "plan", "approve", "revise", "step", "start_step"}
    Concurrent = {"create", "revise", "step", "start_step"}
    AutoApprove = {}
    TotalRounds = 1
    StrayRounds = {2}
    None = None
SPECIFICATION Spec
SYMMETRY Symmetry
CHECK_DEADLOCK FALSE
INVARIANT ApprovalAdmitsStep
