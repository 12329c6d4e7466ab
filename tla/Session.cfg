SPECIFICATION SessionSpec
CONSTANTS
    Fixed = {downloads}
    Mounts = {usb}
    Files = {f1, f2}
    Undecodable = {}
    MaxStarts = 2
    MaxToggles = 2
    MaxVanish = 1
    MaxQueued = 2
    Batch = 2
    Center = center
    Paths = {downloads, usb}
    Removable = {usb}
    Watched = {downloads}
    Items = {i1, i2}
    Scanners = {protect, center}
    MaxIds = 4
    MaxCrashes = 1
    MaxFull = 1
    Racing = FALSE
    Installers = {}
    MaxNotes = 3
    MaxChanges = 0
    MaxFailures = 1
    MaxKeys = 3
    MaxLag = 3
INVARIANTS WatchTypeOK KernelAgrees AtMostOneCallback HeldIsListed ListComplete NothingUnseenHidden
PROPERTY CustodySpec
CHECK_DEADLOCK FALSE
