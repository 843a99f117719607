SPECIFICATION FairSpec
CONSTANTS
    Tasks = {t1, t2}
    First = 1
    Ceiling = 2
    SlotTTL = 2
    HardLimit = 3
    Patience = 1
    RedisFails = TRUE
INVARIANT OneSessionPerSlot
PROPERTIES WaitEnds LimitTakesHold LiveLockKept
