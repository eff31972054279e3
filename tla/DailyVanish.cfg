SPECIFICATION Spec
CONSTANTS
    DayLength = 2
    Hour = 1
    Horizon = 5
    MaxCycles = 2
    MaxStepsBack = 0
INVARIANT ObservationsAreReported
CHECK_DEADLOCK FALSE
