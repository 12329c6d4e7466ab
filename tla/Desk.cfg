SPECIFICATION DeskSpec
CONSTANTS
    Passwords = {"p1", "p2"}
    Entries = {"e1", "e2", "e3"}
    MaxFaults = 1
    MaxCuts = 1
    Notebook = {"n1", "n2", "n3"}
    NoPath = "-"
    MaxEdits = 3
    MaxBadSaves = 1
    Clips = {"c1", "c2", "c3"}
    Blank = "-"
    MaxHistory = 2
    MaxCopies = 3
    Day = 2
    MaxTime = 5
    MaxAlarms = 2
    Spans = {1, 2}
    Archives = {"a1", "a2", "a3"}
    NoArchive = "-"
    MaxTrouble = 2
    Takers = {"timer", "hand"}
    Retention = 1
    MaxSeconds = 2
    MaxAi = 1
    MaxRefusals = 1
    Explorers = {"w1"}
    Lister = "dl"
    Folders = {"Downloads", "Home"}
    Download = "Downloads"
    FileNames = {1, 2}
    Documents = {"d1"}
    MaxMade = 1
    Processes = {"unknown"}
    Destinations = {"d1", "d2"}
    MaxAge = 1
    MaxEntries = 1
    Stale = 0
    MaxDays = 2
    MaxMishaps = 1
    MaxJobs = 1
    MaxNews = 1
    WindowIds = {"a", "b", "c"}
    Presses = {"p", "q"}
    MaxPresses = 2
    MaxFocuses = 0
    MaxToggles = 3
    MaxSlides = 3
    MaxChoices = 2
    MaxOthers = 3
    MaxProfiles = 3
    Tabs = {"t1", "t2"}
    Splits = {"s1"}
    Panes = {"p1", "p2", "p3"}
    NoWidget = "-"
    Launchers = {"steam"}
    MaxRefreshes = 2
    MaxMoves = 3
    CodingTitles = {"vim"}
    OtherTitles = {"paint"}
    MaxFocusChanges = 3
    MaxStops = 1
    Threads = {"typed", "voice"}
    NoThread = "-"
    ActionLimit = 2
    MaxRequests = 2
    MaxRecordings = 4
    OnScreen = {"w1", "w2"}
    NoWindow = "-"
    WindowTitles = {{"a"}, {"a", "b"}}
    Programs = {"k1", "k2"}
    MaxSwitches = 1
    Days = {"d1", "d2"}
    Events = {"x", "y"}
    MaxAdded = 2
    MaxOutages = 2
    Flagged = {"f", "g"}
    MaxScans = 2
    VoidWindows = {"v1", "v2"}
    Slugs = {"s1", "s2"}
    MaxStamps = 3
    Phrases = {"k", "l"}
    Letters = {"a", "b"}
    MaxSealings = 3
    MaxWrites = 2
    SystemFiles = {"sf", "sg"}
    LogLimit = 1
    MaxPasses = 2
    MaxTamper = 3
    MaxToolFailures = 2
INVARIANTS
    DeskTypesOK
    SavedSurvives
    ShownIsStored
    TextInItsNote
    ClockIsRight
    DataIsKept
    KnownWasAnnounced
    ChangesAreReported
    ControlsComeBack
    ShellShowsTruth
    AssistantObeys
PROPERTY CreateReplacesNothing
CHECK_DEADLOCK FALSE
