CONSTANTS
    None = None
    Runs <- TwoRuns
    Invoices <- OneInvoice
    Workflow <- InvoiceToExcel
    MaxAttempts = 2
    Questionable <- Nobody
    Uploadable <- Nobody
    Cancellable <- Nobody
    MaxFaults = 1
SPECIFICATION Spec
INVARIANT
    NoInvoiceLost
CHECK_DEADLOCK FALSE
