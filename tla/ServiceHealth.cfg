CONSTANTS
    Indexers = {"idx"}
    Downloaders = {"dl"}
    Requests = {"q1"}
    Threshold = 2
    FailureCap = 2
    MaxMishaps = 2
    NoService = NoService
SPECIFICATION FairSpec
INVARIANTS TypeOK FailingIsDisabled OneClientEach
PROPERTIES DisabledAfterFailures Recovers
