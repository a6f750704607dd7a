CONSTANTS
    Requests = {r1, r2, r3}
    Experiments = {e1}
    Ops = {"approve", "revise"}
    Concurrent = {"create", "start", "pause", "inject", "update_arc", "plan", "approve", "revise", "step", "start_step"}
    AutoApprove = {}
    TotalRounds = 1
    StrayRounds = {}
    None = None
SPECIFICATION Spec
SYMMETRY Symmetry
CHECK_DEADLOCK FALSE
PROPERTY AppliedPlanNotRevised
