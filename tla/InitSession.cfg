SPECIFICATION SessionSpec
CONSTANTS
    NumDevices = 2
    MaxMessages = 1
    MaxBatch = 1
    MaxTyped = 1
    MaxSessions = 2
    Kinds = {"name", "skip", "done", "init", "ignore", "unlabel"}
    CliKinds = {"name"}
INVARIANTS
    NobodyIsPassedOver
    UpdatesActOnce
PROPERTIES
    LabelsAreNotOverwritten
    ExpiredNamesNothing
    CliNamesWhatItBound
    UpdatesAreConfirmed
