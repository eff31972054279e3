SPECIFICATION Spec
CONSTANTS
    Appearances <- Rotating
    MinScore = 11
    Window = 2
    MaxKeyCache = 3
    MaxAliases = 1
    MaxLegacy = 3
INVARIANTS
    NothingIsRefused
    MemoryAgreesWithTables
PROPERTIES
    OnlyPrunedKeysSplit
    SeedKeepsEveryDevice
