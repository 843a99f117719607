SPECIFICATION FairSpec
CONSTANTS
    Devices = {d1, d2}
    Excluded = {d2}
    Kinds = {"backup", "audit"}
    NumBatches = 2
    NumSchedulers = 2
    MaxDay = 2
    Sizes <- MCSizes
INVARIANTS OneBatch PassesBounded
PROPERTIES SchedulerWaits NoDayMissed DueIsServed
CHECK_DEADLOCK FALSE
