SPECIFICATION Spec
CONSTANTS
    Appearances <- Twins
    MinScore = 11
    Window = 2
    MaxKeyCache = 3
    MaxAliases = 1
    MaxLegacy = 0
INVARIANT
    TwinsStayDistinct
