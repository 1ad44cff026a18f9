CONSTANTS
    f1 = f1
    f2 = f2
    a = a
    b = b
    r1 = r1
    u1 = u1
    some = some
    sync = sync
    Feeds = {f1, f2}
    Items = {a, b}
    Rules = {r1}
    Sync = sync
    Checks = {u1}
    None = None
    Listings <- MCListings
    NoUrl = {}
    Settings <- MCSettings
    Asked = {a}
    NoFilter = NoFilter
    BadFilter = BadFilter
    Passes <- MCPasses
    RuleFeeds <- MCRuleFeeds
    Hits <- MCHits
    Kept = 1
    MaxRemoved = 1
    Faults = {"fetch", "db", "grab", "cut", "crash"}

SPECIFICATION Spec
INVARIANTS TypeOK HandedOnce NothingOverlooked
