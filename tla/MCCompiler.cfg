CONSTANTS
    None = None
    Malformed = Malformed
    Callers = {1, 2}
    Threshold = 5
    ResetTicks = 2
    Disabled = {"render_pdf"}
    Drafts <- SomeDrafts
    MaxEmployees = 2
SPECIFICATION FairSpec
INVARIANTS
    OutcomeIsExplained
    SavedWorkflowsRun
PROPERTIES
    Recovers
