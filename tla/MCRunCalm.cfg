\* No fault: two runs, a cancellation and a review of the first.
CONSTANTS
    w1 = w1
    w2 = w2
    e1 = e1
    None = None
    Jobs <- ThreeJobs
    Runs <- TwoRuns
    Workers <- BothWorkers
    Employees <- OneEmployee
    MaxAttempts = 2
    Cancellable <- OneRun
    Questionable <- OneRun
    Faults <- NoFaults
    MaxFaults = 0

SPECIFICATION FairSpec

INVARIANTS
    OneExecutor
    ActiveRunHasJob
PROPERTIES
    ImplementsRuns
    RunsEnd
