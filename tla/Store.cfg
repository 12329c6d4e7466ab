SPECIFICATION StoreSpec
CONSTANTS
    search = search
    updates = updates
    Tabs = {search, updates}
    Search = search
    MaxRequests = 5
    app = app
    lib = lib
    Files = {app, lib}
    Contents <- Samples
    Limit = 2
INVARIANTS OneRunning CleanMeansLookedAt GateHolds
PROPERTIES ShowsLatest AnswersLatest ScanEnds
CHECK_DEADLOCK FALSE
