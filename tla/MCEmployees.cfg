CONSTANTS
    None = None
    Versions <- ThreeVersions
    Offered <- SomeSpecifications
    MaxRestarts = 1
SPECIFICATION Spec
INVARIANTS
    CurrentIsApproved
    EnabledIfActive
    OrderRespectsEdges
    ExecutedAsShown
PROPERTIES
    CurrentAdvances
    FiresWhatIsApproved
    JobsFollow
CHECK_DEADLOCK FALSE
