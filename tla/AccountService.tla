---------------------------- MODULE AccountService ----------------------------
(***************************************************************************)
(* AccountService (src/accounts/account_service.ts): the accounts of one   *)
(* VS Code window.  An account's public part lives in globalState under    *)
(* 'glAccounts'; the tokens of all accounts live as one JSON object in the *)
(* OS keychain under 'gitlab-tokens'; this.secrets caches that object.     *)
(*                                                                         *)
(* Every public operation is an async call, and nothing serialises them:   *)
(* each in-flight call occupies one of the Tasks and moves through the     *)
(* awaits its code makes, in the order Steps gives.  Between two awaits a  *)
(* call runs atomically (one JavaScript thread).  The keychain write and   *)
(* the code after its await are one step.                                  *)
(*                                                                         *)
(* globalState is a Memento: get returns the stored object itself, and    *)
(* update replaces the stored value at once (its promise only covers the   *)
(* write to disk).  addAccount spreads the accountMap it read at its call  *)
(* into a new object; removeAccount deletes from the stored object in place *)
(* and hands that same object to update, so a call that still holds it     *)
(* sees the delete.                                                        *)
(*                                                                         *)
(* Another VS Code instance, or the OS synchronising keychains, may change *)
(* the token of an account that has one (the case #validateSecretIsUpToDate *)
(* guards against).                                                        *)
(***************************************************************************)
EXTENDS Naturals, Sequences

CONSTANTS
    Accounts,     \* account ids
    Secrets,      \* token values
    Tasks,        \* ids for concurrently running calls
    None,         \* secrets[id] is undefined
    NoValue,      \* nothing stored under 'gitlab-tokens' yet
    OtherWindow   \* TRUE: another instance may change a token meanwhile

ASSUME OtherWindow \in BOOLEAN

VARIABLES
    globalState,       \* the ids in accountMap (globalState 'glAccounts')
    keychain,          \* the 'gitlab-tokens' entry: NoValue or id -> token
    secrets,           \* this.secrets
    op, acct, sec,     \* per task: the call, its account id and its secret
    pc,                \* per task: 0 when idle, else the index into Steps[op]
    oldTok,            \* per task: oldSecrets[accountId] of its reloadCache
    pending,           \* per task: the secrets object it hands to store()
    map,               \* per task: the accountMap addAccount read at its call
    shared,            \* per task: that accountMap is still the stored object
    intended,          \* history: the token each account was last given
    intendedAccounts   \* history: the accounts added and not removed

vars == <<globalState, keychain, secrets, op, acct, sec, pc, oldTok, pending,
          map, shared, intended, intendedAccounts>>

\* getSecrets: JSON.parse of the stored string, {} when nothing is stored
GetSecrets(k) == IF k = NoValue THEN [a \in Accounts |-> None] ELSE k

\* the awaits of each call, in code order: globalState.update ("state"),
\* getSecrets in reloadCache ("reload"), secrets.store ("store")
Steps ==
    [add |-> <<"reload", "store", "state">>, remove |-> <<"state", "reload", "store">>,
     update |-> <<"reload", "store">>, reload |-> <<"reload">>]

Init ==
    /\ globalState \in SUBSET Accounts
    /\ keychain \in {NoValue} \cup [Accounts -> Secrets \cup {None}]
    /\ \A a \in globalState : GetSecrets(keychain)[a] # None
    /\ secrets = GetSecrets(keychain)
    /\ op = [t \in Tasks |-> "reload"]
    /\ acct = [t \in Tasks |-> CHOOSE a \in Accounts : TRUE]
    /\ sec = [t \in Tasks |-> None]
    /\ pc = [t \in Tasks |-> 0]
    /\ oldTok = [t \in Tasks |-> None]
    /\ pending = [t \in Tasks |-> secrets]
    /\ map = [t \in Tasks |-> {}]
    /\ shared = [t \in Tasks |-> FALSE]
    /\ intended = secrets
    /\ intendedAccounts = globalState

\* the task moves past its current await; a call whose next await is
\* getSecrets first reads oldSecrets = this.secrets (only a globalState
\* update, which leaves this.secrets alone, precedes one)
Advance(t) ==
    IF pc[t] = Len(Steps[op[t]])
      THEN /\ pc' = [pc EXCEPT ![t] = 0]
           /\ UNCHANGED oldTok
      ELSE /\ pc' = [pc EXCEPT ![t] = @ + 1]
           /\ oldTok' = IF Steps[op[t]][pc[t] + 1] = "reload"
                          THEN [oldTok EXCEPT ![t] = secrets[acct[t]]] ELSE oldTok

\* a call of o(a, s) up to its first await
Call(t, o, a, s) ==
    /\ pc[t] = 0
    /\ op' = [op EXCEPT ![t] = o]
    /\ acct' = [acct EXCEPT ![t] = a]
    /\ sec' = [sec EXCEPT ![t] = s]
    /\ pc' = [pc EXCEPT ![t] = 1]
    /\ oldTok' = IF Steps[o][1] = "reload" THEN [oldTok EXCEPT ![t] = secrets[a]]
                                          ELSE oldTok
    /\ UNCHANGED <<keychain, secrets, pending, intended>>

\* addAccount: reads accountMap; an id already in it throws before any await
AddAccount(t, a, s) ==
    /\ a \notin globalState
    /\ Call(t, "add", a, s)
    /\ map' = [map EXCEPT ![t] = globalState]
    /\ shared' = [shared EXCEPT ![t] = TRUE]
    /\ UNCHANGED <<globalState, intendedAccounts>>

\* removeAccount: delete accountMap[accountId] on the stored object, which
\* every addAccount still holding it sees, then globalState.update stores
\* that object at once; the call then awaits the update's promise
RemoveAccount(t, a) ==
    /\ Call(t, "remove", a, None)
    /\ globalState' = globalState \ {a}
    /\ map' = [u \in Tasks |-> IF shared[u] THEN map[u] \ {a} ELSE map[u]]
    /\ intendedAccounts' = intendedAccounts \ {a}
    /\ UNCHANGED shared

UpdateAccountSecret(t, a, s) ==
    Call(t, "update", a, s) /\ UNCHANGED <<globalState, map, shared, intendedAccounts>>

\* reloadCache called on its own (getUpToDateRemovableAccounts)
ReloadCache(t, a) ==
    Call(t, "reload", a, None) /\ UNCHANGED <<globalState, map, shared, intendedAccounts>>

\* addAccount, after its token is stored: globalState.update with a new
\* object, {...accountMap, [id]: account}, built from the map read at the
\* call; no call holds the stored object any more
GlobalStateUpdate(t) ==
    /\ pc[t] # 0 /\ Steps[op[t]][pc[t]] = "state" /\ op[t] = "add"
    /\ globalState' = map[t] \cup {acct[t]}
    /\ shared' = [u \in Tasks |-> FALSE]
    /\ intendedAccounts' = intendedAccounts \cup {acct[t]}
    /\ Advance(t)
    /\ UNCHANGED <<keychain, secrets, op, acct, sec, pending, map, intended>>

\* removeAccount: the promise of globalState.update resolves
GlobalStateUpdateResolves(t) ==
    /\ pc[t] # 0 /\ Steps[op[t]][pc[t]] = "state" /\ op[t] = "remove"
    /\ Advance(t)
    /\ UNCHANGED <<globalState, keychain, secrets, op, acct, sec, pending, map,
                   shared, intended, intendedAccounts>>

\* getSecrets resolves in reloadCache: this.secrets = newSecrets.  In
\* #validateSecretIsUpToDate a changed token of the account throws, and the
\* call ends.  Otherwise #storeSecret builds {...this.secrets, [id]: secret}
\* and #removeToken deletes this.secrets[id] in place; either then calls
\* secrets.store with the result.
GetSecretsResolves(t) ==
    /\ pc[t] # 0 /\ Steps[op[t]][pc[t]] = "reload"
    /\ LET new == GetSecrets(keychain)
           a == acct[t]
           valid == op[t] = "reload" \/ oldTok[t] = new[a]
           stored == IF op[t] = "remove" THEN [new EXCEPT ![a] = None]
                                         ELSE [new EXCEPT ![a] = sec[t]]
       IN  /\ secrets' = IF valid /\ op[t] = "remove" THEN stored ELSE new
           /\ pending' = [pending EXCEPT ![t] = stored]
           /\ IF valid THEN Advance(t)
                       ELSE pc' = [pc EXCEPT ![t] = 0] /\ UNCHANGED oldTok
    /\ UNCHANGED <<globalState, keychain, op, acct, sec, map, shared, intended,
                   intendedAccounts>>

\* await secrets.store(SECRETS_KEY, JSON.stringify(...)); #storeSecret then
\* assigns this.secrets = secrets
SecretsStoreResolves(t) ==
    /\ pc[t] # 0 /\ Steps[op[t]][pc[t]] = "store"
    /\ keychain' = pending[t]
    /\ secrets' = IF op[t] = "remove" THEN secrets ELSE pending[t]
    /\ intended' = [intended EXCEPT ![acct[t]] = pending[t][acct[t]]]
    /\ Advance(t)
    /\ UNCHANGED <<globalState, op, acct, sec, pending, map, shared, intendedAccounts>>

\* another instance changes the token of an account that has one
OtherWindowStores(a, s) ==
    /\ OtherWindow
    /\ GetSecrets(keychain)[a] \notin {None, s}
    /\ keychain' = [GetSecrets(keychain) EXCEPT ![a] = s]
    /\ intended' = [intended EXCEPT ![a] = s]
    /\ UNCHANGED <<globalState, secrets, op, acct, sec, pc, oldTok, pending, map,
                   shared, intendedAccounts>>

Next ==
    \/ \E t \in Tasks :
         \/ \E a \in Accounts :
              \/ RemoveAccount(t, a)
              \/ ReloadCache(t, a)
              \/ \E s \in Secrets : AddAccount(t, a, s) \/ UpdateAccountSecret(t, a, s)
         \/ GlobalStateUpdate(t)
         \/ GlobalStateUpdateResolves(t)
         \/ GetSecretsResolves(t)
         \/ SecretsStoreResolves(t)
    \/ \E a \in Accounts, s \in Secrets : OtherWindowStores(a, s)

Spec == Init /\ [][Next]_vars

-----------------------------------------------------------------------------
(* Properties                                                              *)

\* #storeSecret and addAccount: no write of this window undoes another
\* one.  The keychain holds for every account the token it was last given,
\* and globalState lists exactly the accounts added and not removed.  Two
\* calls in flight each build their write from this.secrets or the
\* accountMap as they read it, so it takes two tasks and the order of their
\* awaits to break.
NoLostUpdate ==
    /\ GetSecrets(keychain) = intended
    /\ globalState = intendedAccounts

=============================================================================
