\* One refresher of an open log, no failing calls; the runner may write its
\* last line before the job's status changes, so the job may finish without
\* writing more output.
CONSTANTS
    Refreshers = {r1}
    MaxTrace = 3
    NoETag = NoETag
    NoDeco = NoDeco
    FailingCalls = {}
    QuietFinish = TRUE
    ExternalStop = FALSE
SPECIFICATION FairSpec
PROPERTY FinishedJobLogFinalised
CHECK_DEADLOCK FALSE
