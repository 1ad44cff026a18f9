CONSTANTS
    s1 = s1
    s2 = s2
    Ids = {s1, s2}
    MaxSessions = 1
    Starters = 3
    Hardware = TRUE
    MaxRestarts = 2
    Faults = {"spawn", "fs", "db", "cut"}
SPECIFICATION FairSpec
INVARIANTS TypeOK ServedHasFiles ReleasedAll
PROPERTY AbandonedIsReleased
