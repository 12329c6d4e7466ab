SPECIFICATION MailRepairSpec
CONSTANTS
    Accounts = {a1, a2}
    Uids = {1, 2}
    Big = {2}
    MaxOps = 2
    MaxChanges = 1
    service = service
    hand = hand
    sda1 = sda1
    sdb1 = sdb1
    Runs = {service, hand}
    Service = service
    Parts = {sda1, sdb1}
    Kinds <- ThreeKinds
    MaxFaults = 2
    MaxManual = 1
INVARIANTS ReaderShowsSelected FailedMeansNotSent MarkerMeansBootable LoadersOnEsp
PROPERTIES BusyEnds BootableCfgKept EventuallyRepaired
CHECK_DEADLOCK FALSE
