SPECIFICATION Spec
CONSTANTS
    Devices = {1, 2}
    Stable = {2}
    MinDays = 2
    MaxPool = 1
    Retention = 1
    DayLength = 2
    Horizon = 5
    MaxCycles = 3
    MaxLabelings = 1
INVARIANTS
    CountsAreRecent
    FamiliarIsCurrent
    GearIsCurrent
