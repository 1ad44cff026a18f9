CONSTANTS
    r1 = r1
    r2 = r2
    Rows = {r1, r2}
    NoRow = NoRow
    Clients = {"embedded_usenet"}
    ItemStatuses = {"Queued", "Completed", "Failed"}
    PathStatuses = {"Completed"}
    StaleLimit = 2
    MaxAttempts = 2
    Faults = {"relist"}
SPECIFICATION Spec
SYMMETRY Symmetry
INVARIANTS TypeOK NothingLost
