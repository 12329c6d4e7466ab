SPECIFICATION WatchFairSpec
CONSTANTS
    Fixed = {downloads}
    Mounts = {usb}
    Files = {}
    Undecodable = {}
    MaxStarts = 2
    MaxToggles = 2
    MaxVanish = 0
    MaxQueued = 2
    Batch = 2
PROPERTIES PresentGetsWatched
CHECK_DEADLOCK FALSE
