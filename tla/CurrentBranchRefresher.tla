------------------------ MODULE CurrentBranchRefresher ------------------------
(***************************************************************************)
(* CurrentBranchRefresher (src/current_branch_refresher.ts): the state of  *)
(* the sidebar's "current branch" tree (pipeline, MR, closing issues).     *)
(*                                                                         *)
(* refresh() is started by the 30 s interval timer (only while the window  *)
(* is focused), by the 1 s branch-tracking timer when HEAD's branch        *)
(* changes, by the window regaining focus more than 30 s after the last    *)
(* refresh, and by callers outside the class (the refresh-sidebar command, *)
(* extension start-up, a job log whose job finished).  Each refresh runs   *)
(* as its own async task: it reads the tracking branch of the repository   *)
(* at its first await, fetches pipeline, MR, jobs and issues over the      *)
(* network, and then, synchronously, stores the state in latestState and   *)
(* fires onStateChanged (CurrentBranchDataProvider shows it).  Nothing     *)
(* orders the tasks: a refresh that started earlier can finish later.      *)
(*                                                                         *)
(* The data a refresh fetches is abstracted to the branch it is for (the  *)
(* userInitiated flag it carries into the state is left out).  Each       *)
(* in-flight refresh occupies one of the Tasks; when every task is busy no *)
(* further refresh starts (the bound on concurrent refreshes).             *)
(***************************************************************************)
EXTENDS Naturals, FiniteSets

CONSTANTS
    Branches,      \* branch names HEAD can be on
    Tasks,         \* ids for concurrently running refresh() calls
    MaxSwitches,   \* bound on the user's branch switches
    NoBranch       \* previousBranchName before the first tracked branch

VARIABLES
    head,                \* the branch checked out in the repository
    switches,            \* branch switches so far
    focused,             \* vscode.window.state.focused
    recent,              \* lastRefresh is less than 30 s ago
    previousBranchName,
    latestState,         \* TreeState: [type, branch]
    pc,                  \* per task: "idle", "branch" (awaiting the branch
                         \* name) or "fetch" (awaiting the GitLab API)
    readBranch,          \* per task: the branch it read
    startedBefore,       \* history: pairs <<t, u>>, t in flight when u started
    overtaken            \* history: a refresh started later already finished

vars == <<head, switches, focused, recent, previousBranchName, latestState,
          pc, readBranch, startedBefore, overtaken>>

INVALID_STATE == [type |-> "invalid", branch |-> NoBranch]

Init ==
    /\ head \in Branches
    /\ switches = 0
    /\ focused \in BOOLEAN
    /\ recent = FALSE                  \* lastRefresh = now - 1 minute
    /\ previousBranchName = NoBranch   \* ''
    /\ latestState = INVALID_STATE
    /\ pc = [t \in Tasks |-> "idle"]
    /\ readBranch = [t \in Tasks |-> NoBranch]
    /\ startedBefore = {}
    /\ overtaken = [t \in Tasks |-> FALSE]

\* refresh() up to its first await, in task t
StartRefresh(t) ==
    /\ pc[t] = "idle"
    /\ pc' = [pc EXCEPT ![t] = "branch"]
    /\ startedBefore' = startedBefore \cup {<<u, t>> : u \in {v \in Tasks : pc[v] # "idle"}}
    /\ overtaken' = [overtaken EXCEPT ![t] = FALSE]
    /\ UNCHANGED readBranch

IntervalTick(t) ==
    /\ focused
    /\ StartRefresh(t)
    /\ UNCHANGED <<head, switches, focused, recent, previousBranchName, latestState>>

\* the branchTrackingTimer callback, when HEAD's branch changed
BranchTrackerTick(t) ==
    /\ head # previousBranchName
    /\ previousBranchName' = head
    /\ StartRefresh(t)
    /\ UNCHANGED <<head, switches, focused, recent, latestState>>

\* onDidChangeWindowState: focused, and the last refresh is older than 30 s
FocusGainedStale(t) ==
    /\ ~focused
    /\ ~recent
    /\ focused' = TRUE
    /\ StartRefresh(t)
    /\ UNCHANGED <<head, switches, recent, previousBranchName, latestState>>

\* onDidChangeWindowState: focused within 30 s of the last refresh
FocusGainedRecent ==
    /\ ~focused
    /\ recent
    /\ focused' = TRUE
    /\ UNCHANGED <<head, switches, recent, previousBranchName, latestState,
                   pc, readBranch, startedBefore, overtaken>>

\* the window loses focus (no handler runs)
FocusLost ==
    /\ focused
    /\ focused' = FALSE
    /\ UNCHANGED <<head, switches, recent, previousBranchName, latestState,
                   pc, readBranch, startedBefore, overtaken>>

\* 30 s pass since lastRefresh
TimePasses ==
    /\ recent
    /\ recent' = FALSE
    /\ UNCHANGED <<head, switches, focused, previousBranchName, latestState,
                   pc, readBranch, startedBefore, overtaken>>

\* refresh() called from outside: the refresh-sidebar command, start-up and
\* JobLogRefresher when a job finished
ExternalRefresh(t) ==
    /\ StartRefresh(t)
    /\ UNCHANGED <<head, switches, focused, recent, previousBranchName, latestState>>

\* the user checks out another branch
SwitchBranch(b) ==
    /\ switches < MaxSwitches
    /\ b # head
    /\ head' = b
    /\ switches' = switches + 1
    /\ UNCHANGED <<focused, recent, previousBranchName, latestState,
                   pc, readBranch, startedBefore, overtaken>>

\* faulty variant: the branch the tracking timer saw last is used
ReadBranchTracked(t) ==
    /\ pc[t] = "branch"
    /\ pc' = [pc EXCEPT ![t] = "fetch"]
    /\ readBranch' = [readBranch EXCEPT ![t] = previousBranchName]
    /\ UNCHANGED <<head, switches, focused, recent, previousBranchName, latestState,
                   startedBefore, overtaken>>

\* getPipelineAndMrForHead: await getTrackingBranchName(rawRepository)
ReadBranch(t) ==
    /\ pc[t] = "branch"
    /\ pc' = [pc EXCEPT ![t] = "fetch"]
    /\ readBranch' = [readBranch EXCEPT ![t] = head]
    /\ UNCHANGED <<head, switches, focused, recent, previousBranchName, latestState,
                   startedBefore, overtaken>>

\* the history variables when task t finishes: every refresh that was in
\* flight when t started is now overtaken
Finish(t) ==
    /\ pc' = [pc EXCEPT ![t] = "idle"]
    /\ overtaken' = [u \in Tasks |-> IF <<u, t>> \in startedBefore THEN TRUE
                                     ELSE overtaken[u]]
    /\ startedBefore' = {p \in startedBefore : t \notin {p[1], p[2]}}
    /\ recent' = TRUE

\* getState returns a BranchState; refresh stores it in latestState, fires
\* onStateChanged and sets lastRefresh
FetchSucceeds(t) ==
    /\ pc[t] = "fetch"
    /\ latestState' = [type |-> "branch", branch |-> readBranch[t]]
    /\ Finish(t)
    /\ UNCHANGED <<head, switches, focused, previousBranchName, readBranch>>

\* a GitLab API call throws: getState returns { type: 'invalid', error }
FetchFails(t) ==
    /\ pc[t] = "fetch"
    /\ latestState' = INVALID_STATE
    /\ Finish(t)
    /\ UNCHANGED <<head, switches, focused, previousBranchName, readBranch>>

Next ==
    \/ \E t \in Tasks :
         \/ IntervalTick(t)
         \/ BranchTrackerTick(t)
         \/ FocusGainedStale(t)
         \/ ExternalRefresh(t)
         \/ ReadBranch(t)
         \/ FetchSucceeds(t)
         \/ FetchFails(t)
    \/ FocusGainedRecent
    \/ FocusLost
    \/ TimePasses
    \/ \E b \in Branches : SwitchBranch(b)

Spec == Init /\ [][Next]_vars

\* The timers fire whenever their callback can run; a started refresh reads
\* the branch and its API calls eventually answer, and the API does not
\* fail forever.  The user's actions (focus, switches, commands) carry no
\* fairness.
Fairness ==
    /\ WF_vars(\E t \in Tasks : IntervalTick(t))
    /\ WF_vars(\E t \in Tasks : BranchTrackerTick(t))
    /\ \A t \in Tasks : WF_vars(ReadBranch(t))
    /\ \A t \in Tasks : WF_vars(FetchSucceeds(t) \/ FetchFails(t))
    /\ \A t \in Tasks : SF_vars(FetchSucceeds(t))

FairSpec == Spec /\ Fairness

-----------------------------------------------------------------------------
(* Properties                                                              *)

TypeOK ==
    /\ head \in Branches
    /\ switches \in 0..MaxSwitches
    /\ focused \in BOOLEAN /\ recent \in BOOLEAN
    /\ previousBranchName \in Branches \cup {NoBranch}
    /\ latestState \in {INVALID_STATE} \cup
                       [type : {"branch"}, branch : Branches]
    /\ pc \in [Tasks -> {"idle", "branch", "fetch"}]
    /\ readBranch \in [Tasks -> Branches \cup {NoBranch}]
    /\ startedBefore \subseteq Tasks \X Tasks
    /\ overtaken \in [Tasks -> BOOLEAN]

\* refresh(): the tree never goes back to an older refresh's result.  A
\* refresh that finishes after one started later has already stored its
\* state leaves latestState alone.
NoStaleOverwrite ==
    [][\A t \in Tasks :
         (pc[t] = "fetch" /\ pc'[t] = "idle" /\ overtaken[t])
            => latestState' = latestState]_vars

\* the tree shows a state of the branch checked out
ShowsHeadBranch == latestState.type = "branch" /\ latestState.branch = head

=============================================================================
