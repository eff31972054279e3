SPECIFICATION Spec
CONSTANTS
    Processes = {"daemon"}
    Scripts = {"first", "bad"}
    Broken = {"bad"}
    Released <- MCReleased
    MaxFiles = 2
    MaxDeploys = 0
    BootPlan <- MCBootPlan
    Statements = 2
    MaxFaults = 1
PROPERTIES
    OneDownAllDown
CHECK_DEADLOCK FALSE
