--------------------------- MODULE PendingJobWebview ---------------------------
(***************************************************************************)
(* PendingJobWebviewController (src/ci/pending_job_webview_controller.ts)  *)
(* composed with CurrentBranchRefresher.  The user opens a pending job of  *)
(* the sidebar in a webview ("waiting for the job to start"); the          *)
(* controller listens to onStateChanged, and once a refreshed state shows  *)
(* the job with a trace it replaces the webview with the job log (or, if   *)
(* the panel is hidden, records the job and does so when it is shown).     *)
(*                                                                         *)
(* onStateChanged fires synchronously inside refresh(), and refresh(state) *)
(* runs synchronously up to its only await (openAndShowTextDocument), so   *)
(* the webview's reaction is part of the step that stores latestState.    *)
(* One job is followed; its status is "pending" (no trace yet) or          *)
(* "running" (hasTraceAvailable).  It belongs to the pipeline of           *)
(* JobBranch: a state of another branch, or one whose getJobs call threw   *)
(* (getJobs catches and returns []), does not list it.  A refresh's        *)
(* getJobs call answers with the status the job had at some moment of the *)
(* fetch.                                                                  *)
(***************************************************************************)
EXTENDS CurrentBranchRefresher

CONSTANTS
    NoJob,     \* the state is invalid or does not list the job
    NoPanel,   \* this.#panel is undefined
    JobBranch  \* the branch whose pipeline holds the job

ASSUME JobBranch \in Branches

VARIABLES
    job,          \* the job's status on the GitLab server
    seenJob,      \* per task: the job's status when its fetch began
    stateJob,     \* the job's status in latestState (NoJob when not listed)
    panel,        \* NoPanel or [status (of panel.jobItemModel.job), visible]
    opening       \* replaceWebviewWithTraceview awaiting openAndShowTextDocument:
                  \* "none", "live" (its panel is open) or "stale" (closed meanwhile)

pjVars == <<job, seenJob, stateJob, panel, opening>>
allVars == <<vars, pjVars>>

Statuses == {"pending", "running"}

\* hasTraceAvailable(job)
HasTrace(s) == s = "running"

PJInit ==
    /\ Init
    /\ job = "pending"
    /\ seenJob = [t \in Tasks |-> "pending"]
    /\ stateJob = NoJob
    /\ panel = NoPanel
    /\ opening = "none"

\* faulty variant: a hidden panel is not given the started job
RefreshPanelHiddenIgnored(s) ==
    IF s = NoJob \/ panel = NoPanel \/ panel.status = s
      THEN UNCHANGED <<panel, opening>>
    ELSE IF HasTrace(s)
      THEN IF ~panel.visible THEN UNCHANGED <<panel, opening>>
                             ELSE opening' = "live" /\ UNCHANGED panel
    ELSE panel' = [panel EXCEPT !.status = s] /\ UNCHANGED opening

\* refresh(state) up to its await: nothing for an invalid state, no panel or
\* an unchanged status; a job with a trace replaces a visible panel
\* (replaceWebviewWithTraceview) or is recorded in a hidden one; otherwise
\* createOrUpdateWebview re-renders the panel for the new status.
RefreshPanel(s) ==
    IF s = NoJob \/ panel = NoPanel \/ panel.status = s
      THEN UNCHANGED <<panel, opening>>
    ELSE IF HasTrace(s)
      THEN IF ~panel.visible THEN panel' = [panel EXCEPT !.status = s] /\ UNCHANGED opening
                             ELSE opening' = "live" /\ UNCHANGED panel
    ELSE panel' = [panel EXCEPT !.status = s] /\ UNCHANGED opening

\* getState's API calls begin while the job has its current status
ReadBranchPJ(t) ==
    /\ ReadBranch(t)
    /\ seenJob' = [seenJob EXCEPT ![t] = job]
    /\ UNCHANGED <<job, stateJob, panel, opening>>

\* refresh stores a BranchState and fires onStateChanged; the jobs of the
\* state are those of the pipeline of the branch the refresh read
FetchSucceedsPJ(t) ==
    /\ FetchSucceeds(t)
    /\ \E s \in IF readBranch[t] = JobBranch THEN {seenJob[t], job} ELSE {NoJob} :
          /\ stateJob' = s
          /\ RefreshPanel(s)
    /\ UNCHANGED <<job, seenJob>>

\* getJobsForPipeline or getExternalStatusForCommit throws: getJobs logs
\* and returns [], and refresh stores a BranchState without jobs, in which
\* refresh(state) finds no job of the panel
JobsFailPJ(t) ==
    /\ FetchSucceeds(t)
    /\ stateJob' = NoJob
    /\ UNCHANGED <<job, seenJob, panel, opening>>

\* refresh stores an InvalidState: refresh(state) returns at once
FetchFailsPJ(t) ==
    /\ FetchFails(t)
    /\ stateJob' = NoJob
    /\ UNCHANGED <<job, seenJob, panel, opening>>

\* the WAIT_FOR_PENDING_JOB command of the job's tree item:
\* createOrUpdateWebview(item, this.#panel), then panel.reveal()
WaitForPendingJob ==
    /\ stateJob = "pending"
    /\ panel' = [status |-> "pending", visible |-> TRUE]
    /\ UNCHANGED <<vars, job, seenJob, stateJob, opening>>

\* onDidChangeViewState when the panel is shown: a job with a trace is
\* replaced by its log
PanelShown ==
    /\ panel # NoPanel /\ ~panel.visible
    /\ panel' = [panel EXCEPT !.visible = TRUE]
    /\ opening' = IF HasTrace(panel.status) THEN "live" ELSE opening
    /\ UNCHANGED <<vars, job, seenJob, stateJob>>

\* onDidChangeViewState when the panel is hidden: nothing happens
PanelHidden ==
    /\ panel # NoPanel /\ panel.visible
    /\ panel' = [panel EXCEPT !.visible = FALSE]
    /\ UNCHANGED <<vars, job, seenJob, stateJob, opening>>

\* the user closes the panel: onDidDispose clears this.#panel
PanelClosed ==
    /\ panel # NoPanel
    /\ panel' = NoPanel
    /\ opening' = IF opening = "live" THEN "stale" ELSE opening
    /\ UNCHANGED <<vars, job, seenJob, stateJob>>

\* openAndShowTextDocument resolves; existingPanel.dispose()
TraceOpened ==
    /\ opening # "none"
    /\ panel' = IF opening = "live" THEN NoPanel ELSE panel
    /\ opening' = "none"
    /\ UNCHANGED <<vars, job, seenJob, stateJob>>

\* openAndShowTextDocument rejects: dispose() is skipped, and the error
\* reaches the catch of the onStateChanged listener (log.error); the panel
\* keeps the old job, so a later state retries
TraceOpenFails ==
    /\ opening # "none"
    /\ opening' = "none"
    /\ UNCHANGED <<vars, job, seenJob, stateJob, panel>>

\* a runner picks the job up
JobStarts ==
    /\ job = "pending"
    /\ job' = "running"
    /\ UNCHANGED <<vars, seenJob, stateJob, panel, opening>>

\* the refresher's steps that fire no onStateChanged
RefresherStep ==
    \/ \E t \in Tasks :
         \/ IntervalTick(t) \/ BranchTrackerTick(t) \/ FocusGainedStale(t)
         \/ ExternalRefresh(t)
    \/ FocusGainedRecent \/ FocusLost \/ TimePasses
    \/ \E b \in Branches : SwitchBranch(b)

PJNext ==
    \/ RefresherStep /\ UNCHANGED pjVars
    \/ \E t \in Tasks :
         ReadBranchPJ(t) \/ FetchSucceedsPJ(t) \/ JobsFailPJ(t) \/ FetchFailsPJ(t)
    \/ WaitForPendingJob \/ PanelShown \/ PanelHidden \/ PanelClosed
    \/ TraceOpened \/ TraceOpenFails \/ JobStarts

PJSpec == PJInit /\ [][PJNext]_allVars

\* CurrentBranchRefresher's fairness, for the composed steps; the open
\* document call settles, and does not fail forever.  The user and the
\* runner carry no fairness.
PJFairness ==
    /\ WF_allVars(\E t \in Tasks : IntervalTick(t) /\ UNCHANGED pjVars)
    /\ WF_allVars(\E t \in Tasks : BranchTrackerTick(t) /\ UNCHANGED pjVars)
    /\ \A t \in Tasks : WF_allVars(ReadBranchPJ(t))
    /\ \A t \in Tasks : WF_allVars(FetchSucceedsPJ(t) \/ JobsFailPJ(t) \/ FetchFailsPJ(t))
    /\ \A t \in Tasks : SF_allVars(FetchSucceedsPJ(t))
    /\ WF_allVars(TraceOpened \/ TraceOpenFails)
    /\ SF_allVars(TraceOpened)

PJFairSpec == PJSpec /\ PJFairness

-----------------------------------------------------------------------------
(* Properties                                                              *)

PJTypeOK ==
    /\ TypeOK
    /\ job \in Statuses /\ seenJob \in [Tasks -> Statuses]
    /\ stateJob \in Statuses \cup {NoJob}
    /\ panel \in {NoPanel} \cup [status : Statuses, visible : BOOLEAN]
    /\ opening \in {"none", "live", "stale"}

\* Once the job has started, a webview waiting for it eventually learns so
\* (it is replaced by the log, or records the started job for when it is
\* shown) or is closed, provided the window stays focused so that the
\* interval refresh keeps running, and HEAD stays on the job's branch: the
\* refresher only fetches HEAD's pipeline, so a webview of a branch the
\* user has left is never updated.
WebviewFollowsJob ==
    <>[](focused /\ head = JobBranch) =>
        [](job = "running" /\ panel # NoPanel =>
             <>(panel = NoPanel \/ panel.status = "running"))

=============================================================================
