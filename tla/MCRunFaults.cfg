\* Two faults of any kind on one run, with a cancellation and a review.
CONSTANTS
    w1 = w1
    w2 = w2
    e1 = e1
    None = None
    Jobs <- TwoJobs
    Runs <- OneRun
    Workers <- BothWorkers
    Employees <- OneEmployee
    MaxAttempts = 2
    Cancellable <- OneRun
    Questionable <- OneRun
    Faults <- AllFaults
    MaxFaults = 2

SPECIFICATION FairSpec

INVARIANT
    OneExecutorPerJob
PROPERTIES
    FollowsTransitions
    DecisionStands
    NoneLeftBehind
