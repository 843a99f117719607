SPECIFICATION Spec
CONSTANTS
    Direct = {}
    Jump = {}
    Vpn = {v1}
    Size <- VpnPairs
    Pollers = {p1}
    Operators = {"cancel", "stopall"}
    OtherStops = TRUE
    MaxKills = 0
INVARIANT CancelledNeverSuccess
CHECK_DEADLOCK FALSE
