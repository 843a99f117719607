SPECIFICATION BreakerFairSpec
CONSTANTS
    Callers = {t1, t2}
    Entries = {e1, e2}
    Kinds = {"ok", "timeout", "hiddenTimeout", "banner", "hiddenBanner",
             "login", "loginByName", "script", "scriptByName"}
    Window = 1
    OpenTTL = 1
    MinSamples = 2
    Threshold = 70
    MaxResets = 1
PROPERTIES OpensOnTransport ResetClean TriedAgain
