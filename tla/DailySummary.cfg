SPECIFICATION Spec
CONSTANTS
    DayLength = 3
    Hour = 1
    Horizon = 6
    MaxCycles = 2
    MaxStepsBack = 1
INVARIANTS
    OneDigestPerDay
    TransitionsAreReportedOnce
    OnlyTheCycleInFlightVanishes
PROPERTIES
    DigestIsSent
CHECK_DEADLOCK FALSE
