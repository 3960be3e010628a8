\* Two refreshers for one job, every API call may throw, the job may end
\* quietly and the log may be closed: the safety properties that hold.
CONSTANTS
    Refreshers = {r1, r2}
    MaxTrace = 3
    NoETag = NoETag
    NoDeco = NoDeco
    FailingCalls = {"trace", "status"}
    QuietFinish = TRUE
    ExternalStop = TRUE
SPECIFICATION Spec
SYMMETRY RefresherSymmetry
INVARIANT TypeOK
 
CHECK_DEADLOCK FALSE
