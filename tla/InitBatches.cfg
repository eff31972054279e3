SPECIFICATION SessionSpec
CONSTANTS
    NumDevices = 2
    MaxMessages = 2
    MaxBatch = 2
    MaxTyped = 2
    MaxSessions = 1
    Kinds = {"name", "skip", "init"}
    CliKinds = {"name", "skip"}
PROPERTIES
    OnlyUnrememberedUpdatesAct
