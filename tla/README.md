# TLA+ models of the GitLab VS Code extension

This directory holds TLA+ models of the stateful and concurrent parts of
`src/gitlab-vscode-extension-main/gitlab-vscode-extension-main/src`. It also
holds the TLC configurations that check the models. Paths below are relative
to that `src/` directory.

## The system and how its parts interact

The extension's CI view has two flows that run alongside each other.

**The job log flow:**

- `ci/job_log_refresher.ts` polls a running job.
  - Each `#onTimer` tick asks `getJobTrace` with the cached eTag.
  - After a tick with no new output, it asks `getSingleJob` once for the job status.
  - It writes the log cache: `setForRunning`, or `set` once the job has finished.
  - When the job finishes, it calls `currentBranchRefresher.refresh(false)`.
- `ci/ansi_decoration_provider.ts` turns a cached raw trace into a rendered log.
  - `provideDecorations` memoises its result in the cache item.
  - `provideDecorationsForPrettifiedAnsi` does the rendering: sections, decoration ranges, filtered text and the running marker.
  - It runs one `ci/ansi.ts` `Parser` over the lines. The parser carries its SGR style from line to line.
- The cache, the folding provider and the content provider are not under `src/`. The spec describes them.

**The current branch flow:**

- `current_branch_refresher.ts` refreshes the sidebar state of HEAD's branch: pipeline, MR and closing issues.
- A refresh can start in four ways:
  - the 30 s interval, while the window is focused;
  - the 1 s branch tracker, when the branch changes;
  - the window regaining focus more than 30 s after the last refresh;
  - an outside caller: the refresh command, start-up, or a job log whose job finished.
- Every refresh is its own async task. Nothing orders the tasks.
- `tree_view/current_branch_data_provider.ts` and `ci/pending_job_webview_controller.ts` consume its `onStateChanged` events.
- The pending-job webview waits for a job to start. When a refreshed state shows the job with a trace, the webview is replaced by the job log.

**Accounts.** `accounts/account_service.ts` keeps the accounts' public part in `globalState` and all tokens as one JSON object in the OS keychain. Its async calls are not serialised, and another VS Code window shares the keychain.

**Code suggestions.** `registerGitLabCodeCompletion` in `extension.ts` registers a `completion/gitlab_code_completion_provider.ts` provider at activation. It registers a new one or disposes the last one it registered whenever a `gitlab.aiAssistedCodeSuggestions` setting changes. VS Code asks every registered provider for inline completions. Each provider debounces with its own 500 ms timer, and the timer's callback sends the text before the cursor to the suggestions server.

JavaScript is single-threaded, so the model treats every piece of a handler between two `await`s as one atomic step.

## Modules

### `JobLog` (with `MCJobLog`): the job log flow

The flow models job_log_refresher.ts, the cache and the `provideDecorations` memoisation.

**Data.**

- The server's trace only grows. The model abstracts it to its length `0..MaxTrace`.
- An eTag is the length of the trace it was issued for.
- The decorations are abstracted to the record of the trace and running flag they were computed from.

**Refreshers.** A refresher is a state machine:

- `unstarted`, then `pending` (a timer is armed);
- `fetching` (awaiting getJobTrace), then `checking` (awaiting getSingleJob);
- `done`.

**Actions, and what each stands for in the code.**

| Action | Code |
|---|---|
| `Start` | the constructor |
| `Tick` | the start of `#onTimer`, up to the first await |
| `TraceResponse` / `TraceFailure` | the getJobTrace await and the code after it, including `finally` |
| `StatusResponse` / `StatusFailure` | the getSingleJob await |
| `Dispose` | `dispose` |
| `ProvideDecorations` | the provider, as one step (see below) |
| `JobAppend`, `JobFinish` | the GitLab server (environment) |

**`ProvideDecorations` is atomic.** The provider awaits `provideDecorationsForPrettifiedAnsi`, which has no await of its own. That await only yields to microtasks, and a refresher writes the cache in the continuation of a network answer, which is a later task. So no cache write can fall between reading the item and `addDecorations`. The spec's section 5 also names the network calls as the only suspension points.

**History variable.** `branchRefreshes[r]` counts the `currentBranchRefresher.refresh(false)` calls of refresher `r`.

**Spec-modelled cache operations.** `CacheSet`, `CacheSetForRunning` and `CacheAddDecorations` come from the spec. The cache's code is not under src/.

**Refinement.** `JobLogCacheSpec` is the abstract promise of the cache to its readers. Its variables are the server's trace and status, the cached log and whether the item is live. Its steps are:

- `Write` and `Finish`: the job writes output and finishes;
- `Sync`: a live item moves its log forward, never past the server's trace;
- `Finalise`: a live item of a finished job turns final; a final item never changes again.

It is weakly fair on `Finalise`. `JobLog` maps `trace <- serverTrace`, `status <- jobStatus`, `log <- cache.rawTrace` and `live <- cache.eTag # NoETag`. `CacheRefinesLogCache` is the abstract spec checked as a PROPERTY. `ProvideDecorations` and the refresher steps that do not write the cache are stuttering steps.

**Constants.**

- `FailingCalls` says which API calls may throw.
- `QuietFinish` lets the job finish without writing more output. The liveness and refinement run sets it to FALSE. With it TRUE, the log can stay "running" forever (the `joblog_stuck_running` finding).
- `ExternalStop` lets a log be closed while a tick is in flight.

### `AnsiSgr`: pure operators of `ci/ansi.ts`

- **`#parseLine`** is the RECURSIVE `Scan`, one loop iteration per call.
- **`indexOf`** returns `Math.min()` of nothing, which is `Infinity`.
  - `Infinity` is a large integer constant.
  - `NaN` is a model value produced by `JsSub`.
- **`#applyCodes`** is the RECURSIVE `ApplyFrom`, covering every code.
  - Attribute codes go through the `AttrOn`/`AttrOff` tables.
  - Codes 38 and 48 go through `ExtendedColor`.
- **`#convert8BitColor`** is `Convert8BitColor`.
- **Colours** are the code's packed integers, built with `Bitwise`.
- **Attribute flags** are a set of names.
- **A span** is a record of style, offset, length and an escape flag. The escape flag stands for `AttributeFlags.EscapeSequence`.

### `AnsiParser` (with `MCAnsiParser`): one Parser instance

- `AppendLine` models `appendLine`.
- `#finalStyle` carries the style across calls.
- The lines are sequences of one-character strings, with `ESC` as a model value.

### `LogTransform` (with `MCLogTransform`): `provideDecorationsForPrettifiedAnsi`

**The loop body.** `RenderLine` is one iteration of the `for` loop. Within it:

- `CrIndex` is `lastIndexOf('\r', length - 2)`.
- `UpdateSections` is the `crIndex !== -1` block. It handles the start marker, then the end marker.
- `JsSubstring` is `substring`, which swaps its arguments when the first is larger.
- `LineStep` is the `spans.forEach` callback.
- It adds the newline rule.

**`Render`** splits the trace and folds `RenderLine` over the lines. It then adds the running marker (`RunningLine`).

**Data.** A section marker `section_start:<time>:<key>` is one character of the trace. `Directives` maps that character to its kind, time and key.

**Document lines.** `DocumentLines` splits the filtered text the way VS Code's text model does: at CR LF, at a lone CR and at a lone LF. The decoration ranges are checked against those lines.

**The call.** The function keeps nothing between calls, so the state machine makes one call, `ProvideDecorationsForPrettifiedAnsi`, from the initial state. The enumerated traces stand for all of its inputs.

### `CurrentBranchRefresher` (with `MCCurrentBranchRefresher`)

**Tasks.** Each in-flight `refresh()` holds one of the `Tasks`. It moves through three steps:

1. `StartRefresh` is the synchronous start of the refresh.
2. `ReadBranch` is the `getTrackingBranchName` await. It reads `head`.
3. `FetchSucceeds` or `FetchFails` is `getState` resolving. It assigns `latestState`, fires the event and sets `lastRefresh` (`Finish`).

**`userInitiated`** only selects the MR item cache of the tree; it is left out.

**Triggers.** `IntervalTick`, `BranchTrackerTick`, `FocusGainedStale`/`FocusGainedRecent` and `ExternalRefresh` are the four ways a refresh starts.

**Environment.** `FocusLost`, `TimePasses` (the 30 s window passing) and `SwitchBranch` are the environment.

**History variables.** `startedBefore` and `overtaken` record which refreshes a later one has overtaken.

### `PendingJobWebview` (with `MCPendingJobWebview`): composition with `CurrentBranchRefresher`

The module EXTENDS `CurrentBranchRefresher` and follows one job, whose status is `pending` or `running`. The job belongs to the pipeline of the branch `JobBranch`. A state fetched for another branch does not list it, and neither does a state whose `getJobs` threw (its catch returns `[]`).

- `onStateChanged` fires synchronously inside `refresh()`. `refresh(state)` of the controller runs synchronously up to its await. So the webview's reaction is conjoined to `ReadBranch`, `FetchSucceeds` and `FetchFails` (`ReadBranchPJ`, `FetchSucceedsPJ`, `JobsFailPJ`, `FetchFailsPJ`). `JobsFailPJ` is a successful fetch whose `getJobs` failed: the state carries no job, and the controller does nothing. The other refresher steps leave the webview alone.
- A fetch answers with the job's status either at its start (`seenJob`) or at its end.
- `RefreshPanel` is `refresh(state)` up to its await: a job with a trace is replaced in a visible panel, or recorded in a hidden one.
- `WaitForPendingJob`, `PanelShown`, `PanelHidden` and `PanelClosed` are the command and the panel's handlers.
- `TraceOpened` is `openAndShowTextDocument` resolving: the captured panel is disposed if it is still open.
- `TraceOpenFails` is `openAndShowTextDocument` rejecting. The rejection reaches the `.catch` of `refresh(state)`, the panel stays, and a later state opens the log again.
- `JobStarts` is the runner (environment).

### `AccountService` (with `MCAccountService`)

- Every in-flight call holds one of the `Tasks`. It moves through its awaits in the order `Steps` gives:
  - `addAccount`: getSecrets, store, globalState update;
  - `removeAccount`: globalState update, getSecrets, store;
  - `updateAccountSecret`: getSecrets, store;
  - `reloadCache`: getSecrets.
- `globalState` is a VS Code Memento. `get` returns the stored object itself, and `update` replaces the in-memory value at once, before the returned promise resolves.
- The call actions (`AddAccount`, `RemoveAccount`, `UpdateAccountSecret`, `ReloadCache`) run the code up to the first await.
  - `AddAccount` captures the accountMap. `shared[t]` says that it is still the stored object.
  - `RemoveAccount` deletes in place and updates `globalState` with no await between. It writes at the call, and the delete also reaches the maps that add tasks share. `GlobalStateUpdateResolves` is its await.
- `GetSecretsResolves` is `reloadCache`'s getSecrets resolving, with `#validateSecretIsUpToDate` and the secrets object that `#storeSecret` or `#removeToken` builds.
- `SecretsStoreResolves` is the keychain write. `GlobalStateUpdate` is `addAccount`'s write of `{...accountMap, [id]}`.
- `OtherWindowStores` is another VS Code instance changing a token.
- `intended` and `intendedAccounts` are history variables: the token each account was last given, and the accounts added and not removed.

### `CodeCompletion`: suggestions registration and the provider

- `Register(l)` and `Dispose` are the `register` and `dispose` closures of `registerGitLabCodeCompletion`. Providers are numbered in creation order, and `subscription` is the last one registered.
- `Init` is the start-up branch, and `ChangeEnabled` and `ChangeManualTrigger` are the two paths of the `onDidChangeConfiguration` handler.
  - Changing `enabled` matches `affectsConfiguration(MODE)` and registers or disposes.
  - Changing `manualTrigger` only matches `CONFIG`. The code then disposes and registers a new provider without reading `enabled`.
- `ProvideInlineCompletionItems(r, automatic)` is VS Code calling every live provider.
  - Each provider clears its pending timer. The promise of the cleared call is `"lost"`, because nothing resolves it again.
  - It arms a new timer when the trigger is automatic or its captured `manualTrigger` is set. Otherwise the returned promise is lost too.
- `TimerFires(p)` is the timer callback. Its request either settles at once (empty prompt) or is sent. A disposed provider's timer still fires.
- `CompletionSettles` is `createCompletion` answering or throwing.
- `askedDisabled` and `sent` are history variables: the requests made while the setting was off, and the requests whose prompt was sent.

## Runs

| run | cfg | expect | what it shows |
|---|---|---|---|
| joblog_safety | JobLogSafety.cfg | pass | With two refreshers, failing calls, quiet finishes and closes: each refresher calls `currentBranchRefresher.refresh(false)` at most once, even when the other refresher's late answer makes a final log live again. |
| joblog_liveness | JobLogLiveness.cfg | pass | With one refresher and transient trace failures, the cache implements `JobLogCacheSpec`: the cached trace only grows, the item turns final only for a finished job and then stays, and a finished job's log is eventually final. |
| joblog_final_trace | JobLogFinalTrace.cfg | violation | Output written between the `unchanged` answer and `getSingleJob` is lost; the older trace is frozen as final. |
| joblog_stuck_running | JobLogStuckRunning.cfg | violation | With one refresher and no failing call: output arrives, the status check answers `running`, the job then finishes without new output, and the log is polled as running forever. |
| ansi_parser | AnsiParser.cfg | pass | On three well-formed lines, with the style carried between them, the spans of each line are contiguous and cover it exactly. |
| ansi_unterminated | AnsiUnterminated.cfg | violation | An unterminated `ESC[1` gives spans of length Infinity, then NaN. |
| log_transform | LogTransform.cfg | pass | For all traces of up to five pieces with no line that is a lone CR, the decoration ranges tile the lines VS Code shows for the filtered text. |
| log_blank_cr | LogTransformBlankCR.cfg | violation | A raw line `"\r"`, the blank line of a CR LF log, puts a lone CR into the filtered text. `lastIndexOf('\r', -1)` finds index 0, and `substring(1, 0)` swaps to `"\r"`. VS Code breaks the line there, so every later decoration is one line off. |
| cbr_stale | CurrentBranchStale.cfg | violation | An earlier refresh that finishes late overwrites newer state. |
| account_lost_update | AccountLostUpdate.cfg | violation | Two `#storeSecret` calls (from `addAccount` or `updateAccountSecret`) in flight both build their secrets from the same `this.secrets`, and the later keychain store drops the other's token. |
| completion_disabled | CodeCompletionDisabled.cfg | violation | With suggestions disabled, changing `manualTrigger` registers a provider anyway, and the next keystroke sends the editor's text to the server. |
| pending_webview | PendingJobWebview.cfg | pass | The refresher composed with the webview: a focused window keeps coming back to HEAD's branch; a waiting webview eventually follows the started job while HEAD stays on the job's branch, also when `getJobs` fails on some fetches or the log document fails to open. |

Every property of a passing run has a mutant in `PROJECT.json`: a plausible bug in a mapped definition that TLC shows the property catches.

## Bounds, and why they are enough

- **JobLog.** `MaxTrace = 3` gives a trace that can grow twice after the first fetch, which is enough for a new-output tick, an unchanged tick and a finish. The liveness and refinement run uses `MaxTrace = 5`, so that several new-output ticks come before the finish. Two refreshers is the smallest case of the duplicate-refresher interleaving.
- **AnsiParser.** Three lines from nine pieces carry the style across two line boundaries. The pieces are:
  - plain text;
  - reset, bold, faint and code 21;
  - erase-in-line, a compound sequence, a bright colour and an 8-bit colour.
- **LogTransform.**
  - Traces are every sequence of up to five pieces: text, CR, LF, a start marker line, an end marker line, and bold.
  - A marker piece is `marker CR ESC[0K`, as the GitLab runner writes it.
  - These cover sections that are open, closed and on the same line, CR overwrites, and empty last lines.
- **CurrentBranchRefresher.**
  - Two branches, two concurrent tasks and up to two switches are enough for a refresh to be overtaken after a switch.
  - The stale run uses symmetry over the tasks. The composed run has liveness properties and uses no symmetry.
  - The composed run has one switch: two overlapping refreshes, a job that starts during a fetch and a panel that is shown, hidden and closed already make 309,792 states.
- **JobLog refinement.** The refinement is checked with one refresher per job. With two refreshers the cached trace goes backwards: a late `setForRunning` or `set` writes an older trace. The spec leaves duplicate refreshers as an open question, so this is a hazard, not a checked property.
- **CodeCompletion.** Two requests and three providers. This lets a provider be registered at start-up or by a setting change, be disposed, and be re-registered. It also lets one request be cleared by the next. The violation is four steps long.
- **LogTransform blank lines.** The passing run leaves out traces with a line that is a lone CR. The `log_blank_cr` run shows why.
- **AccountService.** Two token values let a token change, and two accounts and two tasks are enough for the lost update. The run uses symmetry over the tasks.

## Fairness

- **JobLog.**
  - The timers fire, so `Start` and `Tick` get weak fairness.
  - The API answers eventually, though it may throw: `TraceResponse` and `StatusResponse` get strong fairness. A call that can throw forever would make liveness meaningless.
- **CurrentBranchRefresher.**
  - The interval and branch-tracker timers and `ReadBranch` get weak fairness, as does the completion of a fetch.
  - `FetchSucceeds` gets strong fairness: the API does not fail forever.
  - The user's actions (focus, branch switches, commands) carry no fairness.
  - The liveness property assumes the window eventually stays focused. The interval callback does nothing otherwise (line 116).
- **PendingJobWebview.** The composed run keeps the refresher's fairness. `openAndShowTextDocument` settles: `TraceOpened \/ TraceOpenFails` is weakly fair. A rejection depends on the document, not on the attempt, so `TraceOpened` is strongly fair: it does not fail on every retry. The user (panel shown, hidden, closed) and the runner carry no fairness.
- **JobLogCacheSpec.** `Finalise` is weakly fair. This is the promise that a finished job's log eventually turns final.

## Not modelled

- **Liveness of the completion provider.** `CodeCompletion` models the promises that never resolve (`"lost"`), but no run checks that every request settles. The one run slot the module got is spent on the disabled-setting finding, which sends user text where the user asked for none. It is recorded as a hazard.
- **Malformed parameter strings in `AnsiParser`.** A parameter string the parser does not accept skips to the next `K` or `m`. TLC showed that `ESC[?25l` before `ESC[32m` turns the valid colour sequence into text. That violation run was given up to make room for `completion_disabled`. It is recorded as a hazard.
- **`gitlab/check_version.ts`.** Two concurrent checks can both warn, and a "Do not show again" record can be lost. There is no run slot for these. They are recorded as hazards.
- **The rest of `activate` in `extension.ts`:** it registers commands and providers once, with no concurrent state. Deactivation is not modelled.
- **The webview's buttons (retry, cancel, execute via `onDidReceiveMessage`) and its HTML:** single API calls and presentation.
- **The environment-variable account and the pure lookups of `AccountService`:** no concurrent state.
- **A passing `AccountService` run.** Another window is modelled only as changing existing tokens. Its `addAccount` reaches this window's `globalState` before `reloadCache` brings the token, and `getAllAccounts` then drops that account. Modelling this needs the Memento's cross-window sync, which is outside the code. It is recorded as a hazard.
- **`current_branch_data_provider.ts`:** it stores the last state that `onStateChanged` fired, which `latestState` already stands for. A composed module was built and then removed:
  - Its one property, that the tree shows the MR of the rendered state, was close to a restatement of the code. Item identity and `userInitiated` were abstracted away.
  - Its run took about four minutes.
  - The MR item cache (reused when the refresh is not user-initiated and the MR id is unchanged) needs `item_model`/`mr_item_model`, which are not in the repository.
- **The webview of a branch the user left.** `WebviewFollowsJob` assumes that HEAD stays on the job's branch. Without that premise TLC shows the webview waiting forever: the user switches branch, and the job starts. The refresher only fetches HEAD's pipeline, so this is how the code is built. It is recorded as a hazard.
- **Sections in `LogTransform`.** Two section behaviours are recorded as hazards. There is no run slot for them.
  - The spec (sections 4.2 and 8) says a section ends at its end marker. A second end marker for a closed section moves its `endLine` again.
  -  For start and end markers on one line, TLC showed `endLine < startLine`.
- **URIs, save/open commands and review content providers:** pure conversions and single-shot I/O.
- **Tree items:** presentation.
- **`resolveDecoration`/`convertColor`:** they only build VS Code decoration types.
- **Tags and detached HEAD in `getPipelineAndMrForHead`:** abstracted to a branch.

## What remains

1. **Run budget.** All 12 runs are used. A new question must replace or merge an existing run. The candidates are completion liveness (a `CodeCompletion` passing run) and the version check.
2. **Composition of `JobLog` with `CurrentBranchRefresher`.** `branchRefreshes` would drive `ExternalRefresh`, so that a finished job's log is shown to bring the tree up to date.
3. **`AccountService`.** Add another window's `addAccount`/`removeAccount`, and the orphaned token left when `#removeToken` throws after `globalState` was updated.
