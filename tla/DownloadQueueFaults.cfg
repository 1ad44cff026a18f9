CONSTANTS
    r1 = r1
    r2 = r2
    Rows = {r1}
    NoRow = NoRow
    Clients = {"ext","embedded_usenet","embedded_torrent"}
    ItemStatuses = {"Queued", "Downloading", "Paused", "Completed","Failed", "Warning", "Seeding", "Extracting", "Verifying"}
    PathStatuses = {"Downloading","Completed","Seeding"}
    StaleLimit = 2
    MaxAttempts = 3
    Faults = {"crash", "db", "relist"}
SPECIFICATION Spec
INVARIANTS ImporterOwnsRow AttemptsBounded
PROPERTY LifecycleSpec
