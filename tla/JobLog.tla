------------------------------- MODULE JobLog -------------------------------
(***************************************************************************)
(* Live job-log synchronisation of one CI job (src/ci/job_log_refresher.ts, *)
(* the log cache of src/ci/job_log_cache, and the memoised decorations of  *)
(* AnsiDecorationProvider.provideDecorations).                              *)
(*                                                                         *)
(* Data abstraction: the GitLab trace of a job only ever grows, so a trace *)
(* is identified by its length in chunks (0..MaxTrace), and the ETag the   *)
(* server hands out for a trace is that same length.  Derived render data  *)
(* is abstracted to the trace and the running flag it was computed from.   *)
(*                                                                         *)
(* Each JobLogRefresher is a small state machine:                          *)
(*   "unstarted" --Start--> "pending" --Tick--> "fetching" --> "checking"  *)
(* where "pending" means a setTimeout is armed, "fetching" means the tick  *)
(* awaits getJobTrace and "checking" means it awaits getSingleJob.  "done" *)
(* means no timer is armed and no tick is in flight.  disposed[r] is the   *)
(* #isDisposed field: it can become TRUE while a tick is in flight.        *)
(***************************************************************************)
EXTENDS Naturals, FiniteSets

CONSTANTS
    Refreshers,     \* JobLogRefresher instances that may be created for the job
    MaxTrace,       \* bound on the number of trace chunks the job writes
    NoETag,         \* the null eTag of a final cache item
    NoDeco,         \* absence of memoised decorations
    FailingCalls,   \* subset of {"trace", "status"}: API calls that may throw
    QuietFinish,    \* TRUE: the job may finish without writing more output
    ExternalStop    \* TRUE: jobLogCache.stopRefreshing may dispose a refresher

ASSUME MaxTrace \in Nat \ {0}
ASSUME FailingCalls \subseteq {"trace", "status"}
ASSUME QuietFinish \in BOOLEAN /\ ExternalStop \in BOOLEAN

VARIABLES
    serverTrace,        \* length of the job's trace on the GitLab server
    jobStatus,          \* "running" or "finished" on the server
    cache,              \* the jobLogCache item of the job
    pc,                 \* refresher control state (see above)
    disposed,           \* #isDisposed
    shouldRefreshStatus,\* #shouldRefreshStatus
    oldTrace,           \* tick-local: rawTrace read at the start of the tick
    sentETag,           \* tick-local: eTag passed to getJobTrace
    branchRefreshes     \* per refresher: its calls of currentBranchRefresher.refresh(false)

vars == <<serverTrace, jobStatus, cache, pc, disposed, shouldRefreshStatus,
          oldTrace, sentETag, branchRefreshes>>

TraceLen == 0..MaxTrace

Deco == [trace : TraceLen, running : BOOLEAN]

CacheItem == [rawTrace : TraceLen, eTag : TraceLen \cup {NoETag},
              repositoryRoot : BOOLEAN, decorations : Deco \cup {NoDeco}]

-----------------------------------------------------------------------------
(* jobLogCache (job_log_cache.ts is not part of src/: modelled from the    *)
(* spec, section 4.3).  The item is a record; repositoryRoot is whether the *)
(* item carries a repository root.                                          *)

\* set(id, rawTrace): final trace, no eTag, no root, no derived data
CacheSet(trace) ==
    [rawTrace |-> trace, eTag |-> NoETag, repositoryRoot |-> FALSE,
     decorations |-> NoDeco]

\* setForRunning(root, id, rawTrace, eTag): live trace, derived data cleared
CacheSetForRunning(trace, tag) ==
    [rawTrace |-> trace, eTag |-> tag, repositoryRoot |-> TRUE,
     decorations |-> NoDeco]

\* addDecorations(id, sections, decorations, filtered)
CacheAddDecorations(d) == [cache EXCEPT !.decorations = d]

-----------------------------------------------------------------------------
(* The GitLab server: the job writes output while running, then finishes. *)

JobAppend ==
    /\ jobStatus = "running"
    /\ serverTrace < MaxTrace
    /\ serverTrace' = serverTrace + 1
    /\ UNCHANGED <<jobStatus, cache, pc, disposed, shouldRefreshStatus,
                   oldTrace, sentETag, branchRefreshes>>

\* The runner usually writes a last line ("Job succeeded") as the job ends.
JobFinish ==
    /\ jobStatus = "running"
    /\ jobStatus' = "finished"
    /\ \/ /\ serverTrace < MaxTrace
          /\ serverTrace' = serverTrace + 1
       \/ /\ QuietFinish
          /\ UNCHANGED serverTrace
    /\ UNCHANGED <<cache, pc, disposed, shouldRefreshStatus,
                   oldTrace, sentETag, branchRefreshes>>

-----------------------------------------------------------------------------
(* JobLogRefresher                                                         *)

Init ==
    /\ serverTrace = 0
    /\ jobStatus = "running"
    \* the content provider opened the log of a running job
    /\ cache = [rawTrace |-> 0, eTag |-> 0, repositoryRoot |-> TRUE,
                 decorations |-> NoDeco]
    /\ pc = [r \in Refreshers |-> "unstarted"]
    /\ disposed = [r \in Refreshers |-> FALSE]
    /\ shouldRefreshStatus = [r \in Refreshers |-> TRUE]
    /\ oldTrace = [r \in Refreshers |-> 0]
    /\ sentETag = [r \in Refreshers |-> 0]
    /\ branchRefreshes = [r \in Refreshers |-> 0]

\* jobLogCache.startRefreshing(id): new JobLogRefresher(id) arms a 10 ms timer.
\* Nothing stops a second refresher being created for the same job.
Start(r) ==
    /\ pc[r] = "unstarted"
    /\ cache.repositoryRoot
    /\ pc' = [pc EXCEPT ![r] = "pending"]
    /\ UNCHANGED <<serverTrace, jobStatus, cache, disposed, shouldRefreshStatus,
                   oldTrace, sentETag, branchRefreshes>>

\* The finally block: re-arm the 3 s timer unless disposed meanwhile.
Reschedule(r) == IF disposed[r] THEN "done" ELSE "pending"

\* faulty variant: the `return` after this.dispose() is missing
TickNoReturn(r) ==
    /\ pc[r] = "pending"
    /\ disposed' = [disposed EXCEPT ![r] = ~cache.repositoryRoot]
    /\ pc' = [pc EXCEPT ![r] = "fetching"]
    /\ oldTrace' = [oldTrace EXCEPT ![r] = cache.rawTrace]
    /\ sentETag' = [sentETag EXCEPT ![r] = cache.eTag]
    /\ UNCHANGED <<serverTrace, jobStatus, cache, shouldRefreshStatus,
                   branchRefreshes>>

\* #onTimer up to the await of getJobTrace.  The early `isDisposed` return
\* cannot fire: dispose() clears the armed timer.
Tick(r) ==
    /\ pc[r] = "pending"
    /\ IF ~cache.repositoryRoot
          THEN /\ disposed' = [disposed EXCEPT ![r] = TRUE]
               /\ pc' = [pc EXCEPT ![r] = "done"]
               /\ UNCHANGED <<oldTrace, sentETag>>
          ELSE /\ pc' = [pc EXCEPT ![r] = "fetching"]
               /\ oldTrace' = [oldTrace EXCEPT ![r] = cache.rawTrace]
               /\ sentETag' = [sentETag EXCEPT ![r] = cache.eTag]
               /\ UNCHANGED disposed
    /\ UNCHANGED <<serverTrace, jobStatus, cache, shouldRefreshStatus,
                   branchRefreshes>>

TraceResponse(r) ==
    /\ pc[r] = "fetching"
    /\ IF serverTrace # sentETag[r]
          THEN /\ shouldRefreshStatus' = [shouldRefreshStatus EXCEPT ![r] = TRUE]
               /\ cache' = CacheSetForRunning(serverTrace, serverTrace)
               /\ pc' = [pc EXCEPT ![r] = Reschedule(r)]
          ELSE IF shouldRefreshStatus[r]
          THEN /\ shouldRefreshStatus' = [shouldRefreshStatus EXCEPT ![r] = FALSE]
               /\ pc' = [pc EXCEPT ![r] = "checking"]
               /\ UNCHANGED cache
          ELSE /\ pc' = [pc EXCEPT ![r] = Reschedule(r)]
               /\ UNCHANGED <<cache, shouldRefreshStatus>>
    /\ UNCHANGED <<serverTrace, jobStatus, disposed, oldTrace, sentETag,
                   branchRefreshes>>

\* getProjectOrFail or getJobTrace throws: straight to the finally block.
TraceFailure(r) ==
    /\ "trace" \in FailingCalls
    /\ pc[r] = "fetching"
    /\ pc' = [pc EXCEPT ![r] = Reschedule(r)]
    /\ UNCHANGED <<serverTrace, jobStatus, cache, disposed, shouldRefreshStatus,
                   oldTrace, sentETag, branchRefreshes>>

\* faulty variant: the job status is not tested before demoting
StatusResponseIgnoresStatus(r) ==
    /\ pc[r] = "checking"
    /\ branchRefreshes' = [branchRefreshes EXCEPT ![r] = @ + 1]
    /\ cache' = CacheSet(oldTrace[r])
    /\ pc' = [pc EXCEPT ![r] = Reschedule(r)]
    /\ UNCHANGED <<serverTrace, jobStatus, disposed, shouldRefreshStatus,
                   oldTrace, sentETag>>

\* getSingleJob answers; a job that is no longer running is demoted to a
\* final cache item holding the trace read at the start of the tick.
StatusResponse(r) ==
    /\ pc[r] = "checking"
    /\ IF jobStatus # "running"
          THEN /\ branchRefreshes' = [branchRefreshes EXCEPT ![r] = @ + 1]
               /\ cache' = CacheSet(oldTrace[r])
          ELSE UNCHANGED <<branchRefreshes, cache>>
    /\ pc' = [pc EXCEPT ![r] = Reschedule(r)]
    /\ UNCHANGED <<serverTrace, jobStatus, disposed, shouldRefreshStatus,
                   oldTrace, sentETag>>

\* getSingleJob throws; #shouldRefreshStatus stays FALSE.
StatusFailure(r) ==
    /\ "status" \in FailingCalls
    /\ pc[r] = "checking"
    /\ pc' = [pc EXCEPT ![r] = Reschedule(r)]
    /\ UNCHANGED <<serverTrace, jobStatus, cache, disposed, shouldRefreshStatus,
                   oldTrace, sentETag, branchRefreshes>>

\* dispose() from jobLogCache.stopRefreshing: clears an armed timer; a tick
\* in flight runs on and only skips the re-arm.
Dispose(r) ==
    /\ ExternalStop
    /\ pc[r] \notin {"unstarted", "done"}
    /\ ~disposed[r]
    /\ disposed' = [disposed EXCEPT ![r] = TRUE]
    /\ pc' = [pc EXCEPT ![r] = IF @ = "pending" THEN "done" ELSE @]
    /\ UNCHANGED <<serverTrace, jobStatus, cache, shouldRefreshStatus,
                   oldTrace, sentETag, branchRefreshes>>

-----------------------------------------------------------------------------
(* AnsiDecorationProvider.provideDecorations for the job's document.  The  *)
(* awaited provideDecorationsForPrettifiedAnsi is an async function with   *)
(* no await of its own: it computes everything when it is called, and the  *)
(* await at line 91 only waits for microtasks.  A refresher writes the     *)
(* cache in the continuation of a network answer, which is a later task of *)
(* the event loop, so it cannot run between reading the item and           *)
(* addDecorations: one atomic step (spec section 5: the only suspension     *)
(* points are the network calls of a tick).                                *)

ProvideDecorations ==
    /\ cache.decorations = NoDeco
    /\ cache' = CacheAddDecorations([trace |-> cache.rawTrace,
                                     running |-> cache.eTag # NoETag])
    /\ UNCHANGED <<serverTrace, jobStatus, pc, disposed, shouldRefreshStatus,
                   oldTrace, sentETag, branchRefreshes>>

-----------------------------------------------------------------------------

Next ==
    \/ JobAppend
    \/ JobFinish
    \/ ProvideDecorations
    \/ \E r \in Refreshers :
        \/ Start(r)
        \/ Tick(r)
        \/ TraceResponse(r)
        \/ TraceFailure(r)
        \/ StatusResponse(r)
        \/ StatusFailure(r)
        \/ Dispose(r)

Spec == Init /\ [][Next]_vars

\* Timers fire and the content provider starts the refresher of an open log;
\* the GitLab API answers eventually (it may throw, but not forever).
Fairness ==
    \A r \in Refreshers :
        /\ WF_vars(Start(r))
        /\ WF_vars(Tick(r))
        /\ SF_vars(TraceResponse(r))
        /\ SF_vars(StatusResponse(r))

FairSpec == Spec /\ Fairness

-----------------------------------------------------------------------------
(* Properties                                                              *)

TypeOK ==
    /\ serverTrace \in TraceLen
    /\ jobStatus \in {"running", "finished"}
    /\ cache \in CacheItem
    /\ pc \in [Refreshers -> {"unstarted", "pending", "fetching", "checking", "done"}]
    /\ disposed \in [Refreshers -> BOOLEAN]
    /\ shouldRefreshStatus \in [Refreshers -> BOOLEAN]
    /\ oldTrace \in [Refreshers -> TraceLen]
    /\ sentETag \in [Refreshers -> TraceLen]
    /\ branchRefreshes \in [Refreshers -> Nat]

FinalTraceComplete ==
    cache.eTag = NoETag => cache.rawTrace = serverTrace

\* Once the job has finished, the refresher eventually notices and the cache
\* item becomes final (the running indicator goes away).
FinishedJobLogFinalised ==
    jobStatus = "finished" ~> cache.eTag = NoETag


\* The cache item refines the log-cache promise of JobLogCacheSpec: the
\* cached trace of a live item never shrinks and never runs ahead of the
\* server, the item turns final only for a finished job and then never
\* changes, and a finished job's item eventually turns final.  It takes
\* the refresher's tick, its two awaits and a concurrent job finish to
\* break (checked with one refresher per job).
LogCache == INSTANCE JobLogCacheSpec
    WITH trace <- serverTrace, status <- jobStatus,
         log <- cache.rawTrace, live <- cache.eTag # NoETag

CacheRefinesLogCache == LogCache!AbsSpec

=============================================================================
