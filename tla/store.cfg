SPECIFICATION FairSpec
CONSTANTS
    Devices <- MCDevices
    Dir <- MCDir
    Jumped = {}
    NumWorkers = 2
    NumCleaners = 1
    Contents <- MCContents
    Limit = 1000
    FailedAge = 0
    Retention = 1
    MaxRuns = 2
    MaxClock = 2
    MaxCrashes = 1
INVARIANTS GoodBackupKept QuotaOvershoot
PROPERTIES RunRecorded LifeKept ExpiredGo
CHECK_DEADLOCK FALSE
