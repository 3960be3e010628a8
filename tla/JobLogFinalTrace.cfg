\* One refresher, no failures: is the final trace complete?
CONSTANTS
    Refreshers = {r1}
    MaxTrace = 3
    NoETag = NoETag
    NoDeco = NoDeco
    FailingCalls = {}
    QuietFinish = FALSE
    ExternalStop = FALSE
SPECIFICATION Spec
INVARIANT FinalTraceComplete
CHECK_DEADLOCK FALSE
