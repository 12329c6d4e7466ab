SPECIFICATION SteadySpec
CONSTANTS
    Fixed = {downloads}
    Mounts = {usb}
    Files = {f1, f2}
    Undecodable = {}
    MaxStarts = 2
    MaxToggles = 1
    MaxVanish = 0
    MaxQueued = 2
    Batch = 2
    Installers = {"i1", "i2"}
    MaxNotes = 0
    MaxChanges = 1
    MaxFailures = 1
    MaxKeys = 2
    MaxLag = 2
INVARIANTS DockRemembered
PROPERTIES PresentGetsWatched QueuedGetsScanned OffEndsReaders QuietWhenHidden MediaSettles
CHECK_DEADLOCK FALSE
