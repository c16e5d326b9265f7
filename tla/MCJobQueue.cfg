CONSTANTS
    w1 = w1
    w2 = w2
    None = None
    Jobs <- MCJobs
    Workers <- MCWorkers
    Priorities <- MCPriorities
    MaxAttempts = 2
    LeaseSeconds = 2
    Backoff <- MCBackoff
    Jitter = 1

SPECIFICATION FairSpec

INVARIANTS
    AttemptBudget
    LeaseIsExclusive
    NoTwoHolders
PROPERTIES
    SettledStaysSettled
    JobsSettle
    ImplementsWorkQueue
