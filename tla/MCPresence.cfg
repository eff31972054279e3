SPECIFICATION Spec
CONSTANTS
    d1 = d1
    d2 = d2
    Devices <- TwoDevices
    Appear = 2
    Disappear = 2
    Cooldown = 4
    PruneAfter = 3
    HitCap = 2
PROPERTIES
    ImplementsVisits
    SilentDevicesAreForgotten
    SteadyDevicesBecomePresent
