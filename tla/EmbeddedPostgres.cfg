CONSTANTS
    serve = serve
    migrate = migrate
    Apps = {serve, migrate}
    Serve = serve
    None = None
    Majors = {"16", "17"}
    PG_MAJOR = "17"
    MaxTrouble = 3
    Faults = {"kill", "reboot", "reuse", "die", "slow", "fail"}
SPECIFICATION FairSpec
INVARIANTS TypeOK DataKept UrlIsUsable NoServerLeftBehind
PROPERTY ComesUp
CHECK_DEADLOCK FALSE
