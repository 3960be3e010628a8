---------------------------- MODULE CodeCompletion ----------------------------
(***************************************************************************)
(* AI code suggestions: registerGitLabCodeCompletion (src/extension.ts)    *)
(* and GitLabCodeCompletionProvider (src/completion/                       *)
(* gitlab_code_completion_provider.ts).                                    *)
(*                                                                         *)
(* At activation, and on every change of the gitlab.aiAssistedCode-       *)
(* Suggestions settings, the extension registers a new provider or         *)
(* disposes the one it registered last (the closure variable              *)
(* `subscription`).  Each provider captures manualTrigger when it is       *)
(* constructed and has its own debounce timer.  VS Code asks every         *)
(* registered provider for inline completions; a provider clears its       *)
(* pending timer and arms a new one, whose callback calls getCompletions,  *)
(* which sends the text before the cursor to the suggestions server.       *)
(*                                                                         *)
(* Providers are numbered in creation order (at most MaxProviders); a      *)
(* request is one call of provideInlineCompletionItems, and a prompt is    *)
(* abstracted to whether it is empty.                                      *)
(***************************************************************************)
EXTENDS Naturals, FiniteSets

CONSTANTS
    Requests,       \* inline completion requests VS Code may make
    MaxProviders,   \* bound on the providers the extension constructs
    NoProvider,     \* subscription is undefined
    NoCall          \* debouncedCall holds no armed timer

ASSUME MaxProviders \in Nat \ {0}

VARIABLES
    enabled,        \* the effective setting ...aiAssistedCodeSuggestions.enabled
    manualTrigger,  \* the effective setting ...aiAssistedCodeSuggestions.manualTrigger
    created,        \* providers constructed so far
    live,           \* providers registered and not disposed
    subscription,   \* the provider registered last (NoProvider before any)
    captured,       \* per provider: this.manualTrigger
    debouncedCall,  \* per provider: the request whose timer is armed, or NoCall
    promise,        \* per provider and request: "none", "waiting" (timer armed),
                    \* "lost" (nothing will ever resolve it), "fetching", "settled"
    askedDisabled,  \* history: requests VS Code made while the setting was off
    sent            \* history: requests whose prompt went to the server

vars == <<enabled, manualTrigger, created, live, subscription, captured,
          debouncedCall, promise, askedDisabled, sent>>

Providers == 1..MaxProviders

PromiseStates == {"none", "waiting", "lost", "fetching", "settled"}

\* register(): a new GitLabCodeCompletionProvider(configuration) is
\* registered and becomes the subscription; l is what stays registered
Register(l) ==
    /\ created < MaxProviders
    /\ created' = created + 1
    /\ live' = l \cup {created + 1}
    /\ subscription' = created + 1
    /\ captured' = [captured EXCEPT ![created + 1] = manualTrigger']

\* dispose(): subscription?.dispose()
Dispose ==
    /\ live' = live \ {subscription}
    /\ UNCHANGED <<created, subscription, captured>>

Init ==
    /\ enabled \in BOOLEAN
    /\ manualTrigger \in BOOLEAN
    /\ created = IF enabled THEN 1 ELSE 0
    /\ live = IF enabled THEN {1} ELSE {}
    /\ subscription = IF enabled THEN 1 ELSE NoProvider
    /\ captured = [p \in Providers |-> manualTrigger]
    /\ debouncedCall = [p \in Providers |-> NoCall]
    /\ promise = [p \in Providers |-> [r \in Requests |-> "none"]]
    /\ askedDisabled = {}
    /\ sent = {}

\* the user flips ...enabled: affectsConfiguration(MODE) holds; a disabled
\* setting disposes, an enabled one registers
ChangeEnabled ==
    /\ enabled' = ~enabled
    /\ UNCHANGED <<manualTrigger, debouncedCall, promise, askedDisabled, sent>>
    /\ IF enabled' THEN Register(live) ELSE Dispose

\* the user flips ...manualTrigger: only affectsConfiguration(CONFIG)
\* holds, and the code disposes and registers whatever enabled says
ChangeManualTrigger ==
    /\ manualTrigger' = ~manualTrigger
    /\ Register(live \ {subscription})
    /\ UNCHANGED <<enabled, debouncedCall, promise, askedDisabled, sent>>

\* VS Code calls provideInlineCompletionItems(document, position, context)
\* of every registered provider for a new request r.  Each clears its
\* timer (the promise it belongs to is never resolved) and arms a new one
\* for an automatic trigger or when manualTrigger is set; otherwise the
\* returned promise is never resolved either.
ProvideInlineCompletionItems(r, automatic) ==
    /\ \A p \in Providers : promise[p][r] = "none"
    /\ live # {}
    /\ LET arms(p) == automatic \/ captured[p]
       IN  /\ promise' = [p \in Providers |->
                 IF p \notin live THEN promise[p]
                 ELSE [q \in Requests |->
                         IF q = r THEN (IF arms(p) THEN "waiting" ELSE "lost")
                         ELSE IF q = debouncedCall[p] THEN "lost"
                         ELSE promise[p][q]]]
           /\ debouncedCall' = [p \in Providers |->
                 IF p \notin live THEN debouncedCall[p]
                 ELSE IF arms(p) THEN r ELSE NoCall]
    /\ askedDisabled' = IF enabled THEN askedDisabled ELSE askedDisabled \cup {r}
    /\ UNCHANGED <<enabled, manualTrigger, created, live, subscription, captured, sent>>

\* the 500 ms timer of provider p fires: resolve(this.getCompletions(...)).
\* An empty prompt returns [] at once; otherwise the prompt is sent.
\* A disposed provider's timer still fires.
TimerFires(p) ==
    /\ debouncedCall[p] # NoCall
    /\ LET r == debouncedCall[p]
       IN  \/ /\ promise' = [promise EXCEPT ![p][r] = "settled"]
              /\ UNCHANGED sent
           \/ /\ promise' = [promise EXCEPT ![p][r] = "fetching"]
              /\ sent' = sent \cup {r}
    /\ debouncedCall' = [debouncedCall EXCEPT ![p] = NoCall]
    /\ UNCHANGED <<enabled, manualTrigger, created, live, subscription, captured,
                   askedDisabled>>

\* createCompletion answers or throws; either way the promise settles
CompletionSettles(p, r) ==
    /\ promise[p][r] = "fetching"
    /\ promise' = [promise EXCEPT ![p][r] = "settled"]
    /\ UNCHANGED <<enabled, manualTrigger, created, live, subscription, captured,
                   debouncedCall, askedDisabled, sent>>

Next ==
    \/ ChangeEnabled
    \/ ChangeManualTrigger
    \/ \E r \in Requests, automatic \in BOOLEAN :
         ProvideInlineCompletionItems(r, automatic)
    \/ \E p \in Providers : TimerFires(p)
    \/ \E p \in Providers, r \in Requests : CompletionSettles(p, r)

Spec == Init /\ [][Next]_vars

-----------------------------------------------------------------------------
(* Properties                                                              *)

\* With ...aiAssistedCodeSuggestions.enabled off, no text of the editor is
\* sent to the suggestions server: every request whose prompt was sent was
\* made while the setting was on.
NoSuggestionsWhileDisabled == sent \cap askedDisabled = {}

=============================================================================
