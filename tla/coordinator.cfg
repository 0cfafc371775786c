SPECIFICATION Spec
CONSTANTS
    Modules = 2
    Sessioned = {1}
    ScanSession = {1, 2}
    StartupData = {1}
    Documented = {1, 2}
    ShortIds = {1}
    Selections <- MCSelections
    Attempts = 2
    ReadAttempts = 1
    MaxReads = 1
INVARIANTS
    InductiveInvariant
    AnswersGoHome
    SessionsAccounted
PROPERTIES
    DisconnectCompletes
