SPECIFICATION QuarantineSpec
CONSTANTS
    Center = center
    Paths = {downloads}
    Removable = {}
    Watched = {downloads}
    Items = {i1, i2}
    Scanners = {protect, center}
    MaxIds = 2
    MaxCrashes = 1
    MaxFull = 0
    Racing = FALSE
INVARIANT RestoreAlwaysPossible
CHECK_DEADLOCK FALSE
