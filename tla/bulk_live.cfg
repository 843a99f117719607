SPECIFICATION FairSpec
CONSTANTS
    Direct = {d1}
    Jump = {j1}
    Vpn = {v1}
    Size <- OneEach
    Pollers = {p1}
    Operators = {}
    OtherStops = FALSE
    MaxKills = 1
INVARIANTS PhaseOrder CompletedMeansEnded
PROPERTIES AllPhasesRun BatchEnds
CHECK_DEADLOCK FALSE
