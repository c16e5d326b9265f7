\* A run waits for a review that is over.
CONSTANTS
    w1 = w1
    w2 = w2
    e1 = e1
    None = None
    Jobs <- TwoJobs
    Runs <- OneRun
    Workers <- BothWorkers
    Employees <- OneEmployee
    MaxAttempts = 2
    Cancellable <- NoRuns
    Questionable <- OneRun
    Faults <- NoFaults
    MaxFaults = 0

SPECIFICATION Spec

INVARIANT
    ReviewIsPending
