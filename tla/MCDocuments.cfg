CONSTANTS
    None = None
    Contents <- TwoFiles
    Uploads <- OneUpload
    Runs <- TwoRuns
    Numbers <- OneNumber
    Readings <- SomeReadings
    MaxExtractions = 3
    MaxPasses = 2
SPECIFICATION Spec
INVARIANTS
    OkIsVouchedFor
    DuplicatesAreSeen
CHECK_DEADLOCK FALSE
