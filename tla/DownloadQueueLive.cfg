CONSTANTS
    r1 = r1
    r2 = r2
    Rows = {r1, r2}
    NoRow = NoRow
    Clients = {"embedded_usenet"}
    ItemStatuses = {"Queued", "Completed"}
    PathStatuses = {"Completed"}
    StaleLimit = 2
    MaxAttempts = 2
    Faults = {}
SPECIFICATION FairSpec
PROPERTY CompletedSettles
