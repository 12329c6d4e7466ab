SPECIFICATION QuarantineSpec
CONSTANTS
    Center = center
    Paths = {downloads}
    Removable = {}
    Watched = {downloads}
    Items = {i1, i2}
    Scanners = {protect, center}
    MaxIds = 2
    MaxCrashes = 0
    MaxFull = 0
    Racing = TRUE
PROPERTY RestoreOverwritesNothing
CHECK_DEADLOCK FALSE
