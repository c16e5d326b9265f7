CONSTANTS
    None = None
    Runs <- TwoRuns
    Invoices <- TwoInvoices
    Workflow <- EscalateMayFail
    MaxAttempts = 2
    Questionable <- OneInvoice
    Uploadable <- TheOther
    Cancellable <- TheOther
    MaxFaults = 1
SPECIFICATION Spec
INVARIANTS
    NothingForgotten
    ReadOnce
    NoFileMissed
    SucceededIsComplete
PROPERTIES
    WrittenAreAccepted
    ImplementsRuns
CHECK_DEADLOCK FALSE
