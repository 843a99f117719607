SPECIFICATION Spec
CONSTANTS
    Neighbours = {n1}
    Cap = 3
    Limit = 2
    MaxEntries = 5
    MaxClears = 2
INVARIANTS EndIsShown SentOnce
PROPERTIES ForeignKept
CHECK_DEADLOCK FALSE
