CONSTANTS
    c1 = c1
    c2 = c2
    auto = auto
    Commands = {c1, c2}
    AutoSearch = auto
    Given <- MCGiven
    MaxBusy = 2
    MaxItems <- MCMaxItems
    MaxMishaps = 1
    Failing = {"db"}

SPECIFICATION TasksSpec
INVARIANTS TasksTypeOK GuardHonoured AtMostOneMore NoTriggerLost
PROPERTIES BlockedSearchesRecover
