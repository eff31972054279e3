SPECIFICATION Spec
CONSTANTS
    Keys = {k1, k2}
    Appear = 1
    Disappear = 1
    Cooldown = 0
    PruneAfter = 1
    HitCap = 1
    MaxKeyCache = 1
INVARIANTS
    ObservationsAreAttributed
    TrackerMatchesLog
PROPERTIES
    AlertsMatchArrivals
    SteadyDevicesAreRecorded
