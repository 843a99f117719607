SPECIFICATION FairSpec
CONSTANTS
    Direct = {d1}
    Jump = {}
    Vpn = {v1}
    Size <- OneEach
    Pollers = {p1}
    Operators = {"cancel"}
    OtherStops = FALSE
    MaxKills = 0
PROPERTY BatchEnds
CHECK_DEADLOCK FALSE
