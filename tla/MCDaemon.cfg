SPECIFICATION Spec
CONSTANTS
    Processes = {"daemon", "init"}
    Scripts = {"first", "bad"}
    Broken = {"bad"}
    Released <- MCReleased
    MaxFiles = 2
    MaxDeploys = 1
    BootPlan <- MCBootPlan
    Statements = 2
    MaxFaults = 1
INVARIANTS
    SchemaIsRecorded
    StartsOnItsSchema
    WholeUnits
    NothingHalfDoneIsLeft
    CleanExit
PROPERTIES
    OnlyASurvivorLingers
    Heals
