CONSTANTS
    Cells <- SomeCells
    Empty = ""
    Strip <- StripOf
    Clean <- StripOf
    Fold <- FoldOf
    Numbered <- NumberedAs
    Pairs <- SomePairs
    KeyColumns <- SomeKeys
    Lines <- SomeLines
    MaxLines = 2
    Rates = {5, 10}
    Vats = {0, 3}
    Codes <- SomeCodes
    Amounts = {0, 2, 3, 4, 5, 6, 7, 12}
    None = None
    Others = {1}
    Executions = {2, 3}
    Paths <- SomePaths
    StepFiles <- OneFile
    MaxOutputs = 3
SPECIFICATION Spec
INVARIANTS
    CleanedIsComplete
    NothingListedIsEqual
    MisreadIsCaught
    ListedIsStored
CHECK_DEADLOCK FALSE
