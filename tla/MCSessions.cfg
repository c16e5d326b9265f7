CONSTANTS
    None = None
    Users = {ann, bob}
    FirstAdmin = ann
    Requests = {1, 2}
    MaxTokens = 3
    MaxPasswords = 1
    Changes <- SomeChanges
SPECIFICATION Spec
INVARIANTS
    SessionsAreCurrent
    ExchangedOnce
    SomebodyAdministers
