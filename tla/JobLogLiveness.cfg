\* One refresher of an open log, transient getJobTrace failures, the job
\* writes a last line as it finishes.
CONSTANTS
    Refreshers = {r1}
    MaxTrace = 5
    NoETag = NoETag
    NoDeco = NoDeco
    FailingCalls = {"trace"}
    QuietFinish = FALSE
    ExternalStop = FALSE
SPECIFICATION FairSpec
PROPERTY CacheRefinesLogCache
CHECK_DEADLOCK FALSE
