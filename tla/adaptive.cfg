SPECIFICATION AdaptFairSpec
CONSTANTS
    Adapters = {t1, t2}
    BaseSlots = 2
    Override = 0
    MaxBoost = 1
    FailStreak = 2
    SevereStreak = 1
    SuccessStreak = 2
    DropToOne = TRUE
    MaxTrouble = 5
PROPERTIES LimitImplemented Recovers
