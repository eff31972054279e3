SPECIFICATION Spec
CONSTANTS
    Ids = {1, 2, 3}
    Levels <- FarAndAdjacent
    ApproachWindows = 2
    FadeAfter = 2
    MaxTracks = 2
    InsideMinDevices = 1
    SustainWindows = 2
    Excess <- CalmAndBusy
    CusumH = 2
    MaxCusum = 3
    ColdStart = 2
    MaxBackfill = 2
INVARIANTS
    SilencedMeansAlerted
    NothingStaleTrains
PROPERTIES
    OneAlertPerVisit
    EpisodeKeepsItsTier
