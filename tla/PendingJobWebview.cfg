\* Two refreshes in flight, one branch switch, a job that starts while its
\* webview is open, shown, hidden or closed.
CONSTANTS
    Branches = {b1, b2}
    Tasks = {t1, t2}
    MaxSwitches = 1
    NoBranch = NoBranch
    NoJob = NoJob
    NoPanel = NoPanel
    JobBranch <- MCJobBranch
SPECIFICATION PJFairSpec
INVARIANT PJTypeOK
 
PROPERTY WebviewFollowsJob
