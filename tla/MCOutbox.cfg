SPECIFICATION Spec
CONSTANTS
    Base = 1
    Cap = 2
    MaxWait = 2
    MaxRows = 2
    AttemptCap = 2
INVARIANTS
    TypeOK
    OnlyRefusedAreFailed
    RepeatsAreExcused
PROPERTIES
    ImplementsDelivery
    Settles
