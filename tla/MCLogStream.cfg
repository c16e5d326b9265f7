\* One attempt of each job and one fault of any kind, a cancellation and a review.
CONSTANTS
    None = None
    w1 = w1
    w2 = w2
    e1 = e1
    Runs <- OneRun
    Jobs <- TwoJobs
    Employees <- OneEmployee
    Workers <- BothWorkers
    Cancellable <- OneRun
    Questionable <- OneRun
    Faults <- AllFaults
    MaxFaults = 1
    MaxAttempts = 1
    Watched = 1
    Limit = 2
    MaxLines = 8
SYMMETRY Alike

SPECIFICATION LogSpec
INVARIANTS
    LogArrives
