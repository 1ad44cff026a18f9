CONSTANTS
    e1 = e1
    e2 = e2
    m = m
    s1 = s1
    Nothing = Nothing
    Rows <- MCRows
    Items = {e1, e2, m}
    Movies = {m}
    Listing <- MCListing
    Formats <- MCFormats
    ProfileOf <- MCProfileOf
    Original <- MCOriginal
    Strategy = "best_quality"
    Searchers = {s1}
    Faults = {"db"}
    MaxScore = 3

SPECIFICATION Spec
CHECK_DEADLOCK FALSE
INVARIANTS TypeOK ImportedNotGrabbedAgain FailedNotGrabbedAgain
PROPERTIES RankNeverFalls
