# github-token-manager in TLA+

github-token-manager is a Kubernetes operator. For every `Token` and
`ClusterToken` object it mints a GitHub App installation token and keeps it in
a `Secret`, which it rotates before the token expires. `App` objects describe
the GitHub Apps that sign the requests. This directory holds TLA+ models of
the operator, TLC configurations that check them on small instances, and
proofs checked by TLAPS.

1. [Inventory](#inventory)
2. [What makes the behaviour hard](#what-makes-the-behaviour-hard)
3. [Modules](#modules)
4. [How the models correspond to the code](#how-the-models-correspond-to-the-code)
5. [Runs, bounds and results](#runs-bounds-and-results)
6. [Fairness and environment assumptions](#fairness-and-environment-assumptions)
7. [Where the code departs from its documentation](#where-the-code-departs-from-its-documentation)
8. [Proofs](#proofs)
9. [What is not modelled](#what-is-not-modelled)
10. [Plan](#plan)

## Inventory

| Component | State it keeps | Operations | Interacts with |
|---|---|---|---|
| Token / ClusterToken controller: `internal/tokenmanager/token_secret.go`, `internal/controller/reconcile_token.go`, `token_controller.go`, `clustertoken_controller.go` | the `tokenSecret` value of a running reconciliation; `Token.status` (managed Secret, expiry, Ready); the managed `Secret` | `Reconcile`, `CreateSecret`, `UpdateSecret`, `DeleteSecret`, `UpdateTokenStatus`, `NewInstallationToken`; map functions and predicates | API server (writes), informer caches (reads), GitHub, App controller through the registry and `App.status` |
| App controller: `internal/controller/app_controller.go`, `appconfig.go` | `App.status` (Ready, KeyValid, observedGeneration) | `Reconcile`, `resolveAppConfig`, `writeAppStatus`, `mapSecretToApps`, `secretReferencedByApp` | registry, API server, Secrets holding keys |
| App lookup: `internal/controller/appresolver.go`, `api/v1/appref.go`, the field indexes of `cmd/manager/main.go` | the indexes of the informer caches | `resolveApp`, `GetAppRef`, `mapAppToTokens`, `mapAppToClusterTokens` | registry, `App.status` |
| Client registry: `internal/ghapp/registry.go`, `config.go` | startup client, one cached client and version per App, a `sync.RWMutex` | `Startup`, `ForApp`, `Lookup`, `Invalidate` | App controller (writer), token workers (readers) |
| Metrics: `internal/metrics` | instruments, the set of active tokens (`sync.Map`) | `EnsureTokenActive`, `RemoveTokenActive`, `Record*` | both controllers |
| API types: `api/v1` | none | getters, `ManagedSecret.MatchesSpec`, `UpdateManagedSecret`, permissions conversion | all |
| Entry point: `cmd/manager/main.go` | manager, caches, field indexes | wiring, leader election | all |

What makes each of them correct:

* *Token controller.* It overwrites only Secrets its Token owns. It leaves no
  Secret behind that the Token no longer names. Status and Secret, written by
  separate calls, agree where it matters (Ready, expiry, name, kind). A Token
  that exists is served in the end, by a reconciliation that then rests; a
  Token that is gone leaves nothing. Credentials are replaced before they
  expire, and when they cannot be, the metrics say so.
* *App controller.* The client it keeps for an App is the one the App's spec
  and key call for; none outlives its App or key; the Ready condition says
  whether there is one; a failure is retried and the controller comes to rest.
* *App lookup.* A Token mints with the client of the App it refers to, as the
  App is now, and every event of that App reaches it, whatever its reference
  leaves to defaults and however often it is edited.
* *Registry.* Its methods, which release the lock between looking and building,
  behave as if each took effect at one moment; no caller is locked out.
* *Metrics.* The gauge counts the Tokens there are; the exported expiry is
  that of the credentials in the Secret; credentials do not run out without
  an error that is counted.

## What makes the behaviour hard

* Reads come from informer caches that lag behind the API server, separately
  for Tokens, Secrets and Apps; writes carry a resourceVersion and are refused
  when the copy was old, except `Delete`, which carries none.
* One reconciliation is a sequence of calls (up to nine), any of which can
  fail, or succeed with its response lost, with edits, deletions, other workers
  and restarts in between. `UpdateTokenStatus` replaces the owner it works on
  in the middle.
* The token controller does not watch Secrets, and update events pass only
  when the generation changed: every wake-up the code relies on has to come
  from an error, a delay or an event that passes. An object that is deleted and
  created anew has the generation of its predecessor, and after a broken watch
  both changes may arrive as one update. An interval of zero is no delay at all.
* Delays come from four places (refresh interval, retry interval, App retry,
  rate limiter) and have to meet one deadline, the expiry; the timers are lost
  with the process.
* The two controllers share the registry and `App.status` without a common
  transaction; the registry lives in memory, the status survives a restart.
* The registry builds clients under its write lock, with a factory that may
  call a KMS and may fail.

`PROJECT.json` lists the hazards one by one, each at its line and with the
properties that cover it.

## Modules

| Module | What it is |
|---|---|
| `SecretLease` | what the holders of a Secret name may rely on: leases that are taken, renewed and ended |
| `TokenSecret` | the token controller with the API server, the caches and the workqueue |
| `MCTokenSecret` | instances of `TokenSecret` for TLC |
| `TokenSecretProofs` | TLAPS: type correctness, `OverwriteOnlyOwned` |
| `TokenLeaseProofs` | TLAPS: `TokenSecret` implements `SecretLease` |
| `TokenReadyProofs` | TLAPS: `ReadyIsTrueAtRest`, and lemmas on the views that server, cache and worker have of a Token |
| `TokenQuietProofs` | TLAPS: `NoStraySecret`, `KindMatches`, `StatusNeverOverstates` under `Quiet` |
| `TokenRefresh` | one Token in time: validity, intervals, delays, restarts and metrics |
| `MCTokenRefresh` | an instance of `TokenRefresh` for TLC, a tick being ten minutes |
| `TokenRefreshProofs` | TLAPS: type correctness and the three invariants of `TokenRefresh` |
| `AppRefs` | references to Apps: how they resolve, the field indexes, the map functions |
| `AppController` | the App controller, the registry, and the App lookups of the Tokens |
| `MCAppController` | instances of `AppController` for TLC |
| `AppControllerProofs` | TLAPS: type correctness, `NoClientWithoutKey`, `ClientIsCurrent`, `NoEventMissed` |
| `AppStatusProofs` | TLAPS: `StatusAgrees` |
| `ClientCache` | what the registry promises: a cache whose calls are atomic |
| `Registry` | the registry as written, at the grain of its RWMutex |
| `MCRegistry` | an instance of `Registry` for TLC |
| `RegistryProofs` | TLAPS: type correctness, `Registry` implements `ClientCache` |

The modules fit together by abstraction. `Registry` justifies that
`AppController` treats `ForApp`, `Lookup` and `Invalidate` as single steps.
`AppController` in turn is where the outcome of `resolveApp` comes from, which
`TokenSecret` leaves open (`Start` or `StartAppUnavailable`), while
`AppController` reduces the reconciliation of a Token to the lookup and the
client it mints with. `TokenRefresh` looks at the reconciliation of `TokenSecret`
on the scale of the delays between two of them, where one takes no time.

Definitions marked `Mutant:` in the modules are variants of the definition
that follows, with a mistake that could have been made in the code. They are
used in no specification; `PROJECT.json` names for each property a variant
under which TLC finds it violated.

## How the models correspond to the code

### TokenSecret

A key of the workqueue is an element of `Tokens`. Token and ClusterToken share
one generic reconciler (`reconcileTokenLike`) and one worker (`tokenSecret`);
they differ in the namespace of the Secret, which is part of the element of
`Keys` a spec names, so a ClusterToken is one more element of `Tokens`.

| Variable | In the code |
|---|---|
| `tokens`, `secrets` | the objects in the API server; `managed`, `expires`, `ready` are `status.managedSecret`, `status.installationAccessToken` and the Ready condition with its reason |
| `tokenCache`, `secretCache` | the informer caches behind the manager's client; every `Get` of the worker reads them |
| `queue`, `timers` | the workqueue, and keys returned with `RequeueAfter` |
| `worker[t]` | the `tokenSecret` value: `owner`, the `secret` it read, the token it minted (its expiry), the condition it is about to write, the attempt of `retry.RetryOnConflict` |
| `active` | the `sync.Map` behind the gauge `tokens.active` |

Each client call of the worker is one action, so that every other actor can
act between any two:

| Action | Code |
|---|---|
| `StartGone`, `Start`, `StartAppUnavailable`, `WriteAppFailure` | `reconcileTokenLike`: cached `Get`, `resolveApp`, the condition it writes when there is no client |
| `LookupManaged`, `DeleteSecret` | `Reconcile` on a mismatch of spec and status: `DeleteSecret` |
| `GetSecret` | `Reconcile`: cached `Get` of the Secret, ownership check |
| `Mint`, `MintFails` | `NewInstallationToken` and the classification of its errors |
| `CreateSecret`, `UpdateSecret` | the calls of the same name |
| `RefreshOwner`, `WriteStatus`, `StatusUnchanged`, `StatusConflict` | `UpdateTokenStatus` and its retries, followed by what its three callers do next |
| `CallRefused` | NotFound, AlreadyExists and Conflict |
| `CallFails`, `ResponseLost`, `Restart` | faults |
| `SyncToken`, `SyncSecret`, `TimerFires`, `AppEvent` | informers with `GenerationChangedPredicate`, delays, `mapAppToTokens` |
| `CreateToken`, `EditToken`, `DeleteToken`, `Meddle`, `CollectGarbage`, `Tick` | users, other clients, Kubernetes' garbage collector, the clock |

Abstractions that deserve a word:

* *resourceVersion.* An update is accepted exactly when the server still holds
  the object the worker read. The models compare the objects instead of a
  counter. If an object changed and changed back, the worker would have read
  the same object a moment later, so no new outcome is accepted.
* *Caches* jump to the server's present object. Skipping intermediate objects
  is what watches do after a reconnect, and a worker cannot tell.
* *Recreations.* `Passes` is `GenerationChangedPredicate`: it compares
  generations and nothing else. A watch that is up delivers the deletion and the
  creation of an object one by one, and both pass; since the cache jumps, the
  model takes the two steps in one and enqueues the key. When the watch was
  broken (`Relists`), the list that follows may report the two as one update, in
  which the predicate sees equal generations: the event is dropped. `SyncToken`
  has both outcomes, and so has `SyncApp` of `AppController`.
* *Intervals* of the spec are above zero or not (`refreshes`, `retries`); what
  `RequeueAfter` does with one that is not is to set no timer. Their length does
  not matter here, see the next point.
* *AppFailures* are the conditions, reason and message, with which `resolveApp` can
  fail. The code decides only whether the one it has is there already. `token_live`
  has one of them; the theorems hold for any set.
* *Time* has ticks for the expiry only. Delays are ordered against nothing: a
  timer may fire at any moment after it was set, whatever its length.
* *The workqueue* is a set: it deduplicates keys, and a key that is being
  worked on is handed out again only afterwards, as controller-runtime does.
  Rate limiting is a delay and therefore not visible.

### SecretLease

The abstract specification knows one function, from the names of Secrets to
leases: holder (the owner reference, with the UID of the Token), type, labels
and expiry. A lease is taken when the name is free, renewed by nobody but for
its expiry, which does not move backwards, and ended. `TokenSecret!Leased` is the
refinement mapping: a Secret without its data, of which the expiry stands for
the credentials. `CreateApplies` and `Meddle` take a lease, `UpdateApplies` renews one,
`DeleteApplies`, `Meddle` and `CollectGarbage` end one, `Tick` is `Pass`, and every
other step stutters.

### TokenRefresh

| Variable | In the code |
|---|---|
| `spec` | `spec.refreshInterval`, `spec.retryInterval` |
| `secret`, `left` | whether the Secret of the name exists and is controlled by the Token, and how long its credentials remain valid |
| `pc`, `due` | the running `Reconcile`; the delay after which the workqueue hands out the key (zero for now, `Nil` for not at all) |
| `gauge`, `alarm` | `token.expiry.timestamp`; whether `token.reconcile.errors` or `config.errors` has risen since the last refresh counted as a success |
| `uncounted` | clock of a property: the longest backoff after an error that `Reconcile` returned without counting it |
| `failing`, `meddled` | stopwatches of the properties: since the last failure or downtime, since somebody else touched the Secret |

Each way out of `Reconcile` is an action, with the delay and the metrics it has
in the code: a refresh interval after a success, the retry interval after a
transient error, `appRefRetryInterval` when there is no client, the rate
limiter after any other error. Most failures are counted (`Fails` with a
`Record...`); those that are not, `FailsUncounted`, are the failed `Get` of the Token or its
Secret (`ReadFails`) and the failed status write for a Secret that is another's (an
alternative of `NotOwned`). An interval of zero is `RequeueAfter: 0`, which
controller-runtime takes for no requeue; the workqueue keeps one entry per key,
with the earliest of the times asked for. `Crash` loses queue and metrics, `Boot`
lists all Tokens.

### AppRefs

The resolution of a reference (`GetAppRef` of both kinds, the default for the
namespace in `resolveApp`) and the way back, from an App to the Tokens its events
are for (the index functions of `main.go`, `mapAppToTokens`,
`mapAppToClusterTokens`), are separate code in the program and separate operators
here. Neither names nor namespaces contain a slash, so the index value
`namespace/name` is a pair.

### AppController

| Variable | In the code |
|---|---|
| `apps`, `keySecrets` | API server: Apps with status, Secrets with private keys |
| `appCache`, `keyCache` | informer caches; `appCache` serves both controllers |
| `queue`, `timers`, `worker` | the App controller's workqueue, `appRetryInterval`, the running `Reconcile` |
| `registry` | `Registry.clients`; a client is the configuration it was built from, with the version it is cached under |
| `refs`, `refCache` | `spec.appRef` of each Token in the API server and in the caches, with the field indexes over it |
| `tokens`, `tokenQueue`, `tokenTimers` | of each Token, whether it is between `resolveApp`'s read of the App and its `Lookup` of a client, for which App, what came of it, and the client it last minted with |

| Action | Code |
|---|---|
| `StartGone`, `Start` | `Reconcile`: cached `Get`; `Invalidate` when the App is gone |
| `ResolveConfig`, `KeyReadFails` | `resolveAppConfig`: which Secret, whether it has a usable key, configuration and version; or an error of the `Get` itself, after which the client goes even if its version would do |
| `KeepsClient`, `BuildsClient`, `BuildFails` | `Registry.ForApp` |
| `DropClient` | `Invalidate` on an error |
| `WriteStatus`, `StatusUnchanged`, `StatusConflict` | `writeAppStatus`: only when something differs, no retry; then `appRetryInterval` after a failure and nothing after a success |
| `SyncApp` | the watches of all controllers on Apps: generation predicate, `mapAppToTokens` and `mapAppToClusterTokens` |
| `EditRef`, `SyncRef` | an edit of `spec.appRef`, and the watch on Tokens that delivers it |
| `SyncKey` | the watch on Secrets: `secretReferencedByApp`, `mapSecretToApps` |
| `UseStartup`, `ResolveApp`, `Lookup` | `resolveApp` on behalf of a Token: without a reference, the read of the App, and the look into the registry |
| `CallFails`, `ResponseLost`, `Restart`, `UserStep` | faults and users |

The refresh interval of a Token is above zero (`Refreshing`) or not: `TokenIdles` sets a
timer after a success only if it is, and after `Unavailable` always, as the delay
is the constant `appRefRetryInterval` there.

`WithStatus` sets the conditions and `observedGeneration` as `writeAppStatus`
does, including that `KeyValid` exists only where `spec.validateKey` asks for it.

### Registry and ClientCache

`Startup` and `ForApp` are one operation, `Obtain`: `Startup` is the case of
the key `StartupKey`, which has a configuration or not (`startupCfg`), and of a
version that is always the same. Both look under the read lock, let go, take
the write lock, look again and build. `Lookup` is the first look only,
`Invalidate` takes the write lock and deletes.

The `RWMutex` is modelled as Go documents it: a writer announces itself
(`Lock`), which blocks new readers, and goes on when the present readers have
left (`Recheck`, `Delete`); its `Unlock` admits the readers that wait. A call
takes effect in `Read`, `Recheck`, `Build`, `BuildFails` or `Delete`; those are
the steps that match the steps of `ClientCache`, and all the others stutter.
The refinement mapping is the identity on `clients`, `built` and `call`.

## Runs, bounds and results

| Run | Specification | What it shows |
|---|---|---|
| `token_contention` | `Safety` | Two Tokens want one Secret and are deleted and created anew, with a fault and a watch that stays up: `TypeOK`, and `ReadyIsTrueAtRest` (a Token at rest that reports Ready owns its Secret). |
| `token_quiet` | `Safety`, `Quiet` | Renames and changes of kind that do not race a reconciliation, with a clock, App events, a fault and Secrets deleted or replaced by hand: `NoStraySecret`, `KindMatches`, `StatusNeverOverstates` (the expiry in the status never exceeds that of the Secret), `OverwriteOnlyOwned` (an existing Secret is only overwritten by its owner), `ImplementsLease` (`TokenSecret` implements `SecretLease`). |
| `token_live` | `Live` | Racing renames and changes of kind, intervals of zero, outages and a fault under fair scheduling: `EventuallyServed` (for a Token whose retry interval is above zero), `ComesToRest`, `NoLeakAfterDeletion`. |
| `token_handover` | `HandOverSpec` | `HandOver`: who waits for a Secret another Token holds gets it once the other is deleted, without a watch on Secrets and with intervals of zero. |
| `token_rename_race` | `Safety` | Violation of `SettledOwnsOneSecret`. |
| `token_gauge` | `Safety` | Violation of `GaugeCountsExisting`. |
| `app_core` | `Safety` | An App that moves between a KMS and a Secret that comes, goes and rotates, with a fault, a lost response or a restart: `TypeOK`, `NoClientWithoutKey`, `ClientIsCurrent`. |
| `app_live` | `PopulatedLive` | Rotations, failing builds, a fault and a ClusterToken whose `appRef` is edited, under fair scheduling: `StatusAgrees`, `NoEventMissed` (a Token whose reference comes to resolve to something else is enqueued), `EventuallyMintsWithCurrent`, `ComesToRest`. |
| `app_recreated` | `Safety` | Violation of `ClientIsCurrent` when `Orderly` is off. |
| `app_stale_token` | `Safety` | Violation of `TokenFollowsApp`, by a Token with a refresh interval of zero. |
| `registry` | `FairSpec` | Three callers, with and without a startup configuration, factories that fail: `TypeOK`, `Linearizable` (`Registry` implements `ClientCache`), `EveryCallReturns`. |
| `refresh` | `Live` | One Token on a clock, with intervals of 0, 5, 30 and 70 minutes edited at any time, failures of every call, counted or not, restarts, and Secrets deleted or replaced by hand: `TypeOK`, `FreshUnlessFailing`, `NoSilentExpiry`, `GaugeIsHonest`, `Recovers`. |

Every bound is a constant and its guard is in the action it limits.

* *Tokens, Keys, Apps, KeySecrets.* Objects interact through a Secret name or
  an App only, so one or two of each bring out every interaction: two Tokens
  on one Secret, one Token on two names, one App with one key. The controllers
  run with `MaxConcurrentReconciles` of 5, 5 and 3, which does not limit so few
  keys; the models let all keys run at once.
* *MaxTries* is 2 or 1 where the code has five attempts. What matters is that
  an attempt can follow another with a different outcome, and that they can run
  out; more attempts lengthen the behaviours without a new kind of outcome.
* *MaxGeneration* (1, or 2 where edits matter), *MaxIncarnation* and
  *MaxRevision*: enough for an edit to overtake a reconciliation, for an object
  that is deleted and created anew, and for a key that is written twice.
* *MaxFaults* is 1: one failed call, lost response or restart anywhere in a
  behaviour. `Outages` is not counted: Apps and mints may fail at any time and
  any number of times. Nor is `Relists`, see below.
* *MaxMeddles* is 1: a Secret deleted or put in place by hand, or an event of
  an App. *MaxTime* is 1, so that two tokens minted at different moments
  expire at different times.
* *References*: the ClusterToken of `app_live` starts without one and is then
  pointed to the App, with its namespace left out; *MaxRefEdits* is 1. That
  is the case in which the two codes for the default meet; `IndexAgrees` and
  `EventsReachTokens` are proved for all others. *Refreshing* holds that ClusterToken
  in `app_live`, and is empty in `app_stale_token`. *StartupClient* is `Nil` in the
  runs: the startup client never changes, and `Registry` covers how it is built.
* *Contents* of key Secrets include one that is no key in `app_core`; in
  `app_live` a rotation writes a second good key, and a failing build stands for
  a bad one.
* *Intervals* in `refresh` are a whole number of ticks of ten minutes, rounded
  up: one that acts like zero, one tick (5m), three (30m) and seven, which is
  above the validity of six. *Horizon* is 7, more than the longest interval or
  delay that a property compares a stopwatch with. Nothing else in
  `TokenRefresh` is bounded: clocks count down, so that the state space is
  finite although time goes on for ever.
* *MaxBuilds* is 3: a client, its successor and a client under the other key.
  Three callers are the worker of a Token, of a ClusterToken and of an App.
* `token_handover` starts from `HeldInit`, where one Token holds the Secret,
  has been reconciled and has its refresh timer, and the other was just
  created; `app_live` starts from `PopulatedInit`, where an App and its key
  exist before the operator does. Both are states of a cluster in use, and they
  save the steps that lead there.

Deadlock is not checked in the runs of `TokenSecret` and `AppController`,
where users may stop and a settled operator has nothing to do; it is in the runs
of `Registry`, whose callers never stop for good, and of `TokenRefresh`, where
time goes on.

## Fairness and environment assumptions

Weak fairness of worker steps, informers, timers and the garbage collector
says that goroutines run on, watches deliver and delays end, which Kubernetes
and controller-runtime provide. Strong fairness is used for three steps that
others can disable again and again:

* `Start` and `Mint` (`TokenSecret`), `BuildsClient` (`AppController`): Apps,
  GitHub and key services may fail any number of times, but not on every
  attempt for ever. No token controller can serve a Token otherwise.
* `Lock` (`Registry`): Go hands a `sync.Mutex` to the longest waiter after a
  millisecond (its starvation mode).

That a factory returns is assumed, and nothing in the code bounds it.
`MaxFaults` bounds the other faults, so that they end by themselves. Users have
no fairness, nor has the `Tick` of `TokenSecret`. In `TokenRefresh` the steps of
`Reconcile`, `Tick` and `Boot` are weakly fair: workers run, time passes, and
Kubernetes restarts an operator that died. Nothing there is strongly fair;
`Recovers` takes the end of failures as its premise instead.

Some liveness properties hold under a condition that they state themselves:

* *Retries that do not run out for ever* (`RetriesExhausted`). If the cache
  lags behind for as long as five attempts of `RetryOnConflict` take, the
  reconciliation ends with an error after its Secret was written, mints again,
  and may meet the same cache.
* *Secrets nobody else holds for ever* (`Blocked`).
* *A retry interval above zero* (in `EventuallyServed`): with zero, a mint that fails
  transiently is not repeated. *A refresh interval above zero* (`Refreshing`, in
  `EventuallyMintsWithCurrent`): with zero, a Token that was early for a change of its
  App keeps what it minted. The API server accepts both.
* *The others are deleted* (`LeftAlone`, in `HandOver`). A Token that is renamed instead
  may keep the Secret for ever, see `token_rename_race`.
* *Timers that find the key at rest* (in `ComesToRest`): the shortest delay is
  30 seconds.
* *Sane intervals* (`Sane`, in `TokenRefresh`): a refresh interval above zero and
  below the validity, a retry interval above zero. The API server accepts others.
* *No uncounted error within the last backoff* (`uncounted`, in `NoSilentExpiry`):
  without it the property is false, see the next section.
* *Time since the last failure or tampering* (`failing`, `meddled`): no operator
  can replace credentials while GitHub refuses, and this one learns of a Secret
  that is gone only at the next refresh.

`TokenRefresh` assumes that a tick, and so every delay that is not zero, is
longer than a reconciliation: the key is not due again before `Reconcile` has
returned, and credentials do not run out within one.

Three restrictions of the environment are part of a specification:

* `Quiet` (`token_quiet`): users edit a settled Token, and the edit reaches
  the cache before the next worker starts. Without it the first three properties
  of the run fail, see below; `OverwriteOnlyOwned` and
  `ImplementsLease` need no such restriction and are proved without.
* `Orderly` (`app_core`, `app_live`): an App is recreated only after the
  controller has dealt with its deletion, and a retry's delay is longer than a
  reconciliation and the lag of the cache. The first half is needed for
  `ClientIsCurrent` (run `app_recreated`), the second for `StatusAgrees` and
  `ComesToRest`. `NoClientWithoutKey` and `NoEventMissed` need the first half or a watch
  that stays up, and are proved under either (`Orderly \/ ~ Relists`). An orderly
  recreation leaves a broken watch nothing to merge.
* `~ Relists`: no broken watch merges a deletion and a creation into one update. Without
  it `ReadyIsTrueAtRest`, `EventuallyServed` and `HandOver` fail for a Token that is
  recreated, see the next section; `token_contention` is the run that recreates Tokens.
  Everything else in `TokenSecret` that is proved is proved with `Relists` on as well
  as off. No run has it on: the departures of `app_recreated` and `app_stale_token` are
  seen to need no broken watch, and in the other runs no Token is recreated, and no
  App but in an orderly way.

## Where the code departs from its documentation

Four runs exhibit a departure; `PROJECT.json` quotes the lines.

* `token_rename_race`: `UpdateTokenStatus` re-reads the Token and records the
  managed Secret from the spec of *that* read (`token_secret.go:345`). After a
  rename between the write of the Secret and the write of the status, the
  status names a Secret that was never written, the next reconciliation
  creates it, and the old one stays, no longer refreshed, while the Token exists.
* `token_gauge`: nothing calls `RemoveTokenActive` when a Token is deleted.
* `app_recreated`: the version of an App does not contain its UID, and a new
  App starts at generation 1 again. If the deletion is not reconciled in
  between, the new App turns Ready with the client of the old one.
* `app_stale_token`: `resolveApp` accepts Ready=True without comparing
  `observedGeneration`. The event of an edited App enqueues App and Tokens
  together; a Token that is first mints with the old client and is not enqueued
  again when the client is replaced, and with a refresh interval of zero never.

Others were met while modelling. They are visible in the models, as follows,
but have no run of their own:

* Without `Quiet`, a change of `basicAuth` during an update leaves a Secret
  whose type and data are of different kinds (`KindMatches` fails), and two
  renames, there and back, each during a reconciliation, leave a status that
  promises more than the Secret holds (`StatusNeverOverstates` fails).
* A change of `spec.secret.labels` never reaches a Secret that exists
  (`token_secret.go:261`): `UpdateApplies` replaces the data alone, and
  `OverwriteOnlyOwned` states that the labels stay.
* A mint that fails leaves Ready=True and the old expiry in the status
  (`token_secret.go:173`): `MintFails` writes nothing. What tells of the failure
  is a counter, which is what `NoSilentExpiry` is about.
* `GenerationChangedPredicate` does not compare UIDs (`token_controller.go:80`). A
  Token deleted and recreated while the watch is broken may never be reconciled,
  until something else enqueues it; a worker of its predecessor that is still
  running re-reads it and writes Ready=True onto it, with the name of a Secret that
  goes with the predecessor. With `Relists` on, TLC finds `ReadyIsTrueAtRest` violated so in the instance of
  `token_contention`, and `HandOver` in one of `token_handover` with one recreation.
* Not every error is counted. A failed `Get` of the Token (`reconcile_token.go:57`) or of its
  Secret (`token_secret.go:121`) is returned without `RecordReconcileError`: repeated,
  it lets the credentials run out while `token.reconcile.errors`, the "Total number of
  token-reconcile errors" (`recorder.go:99`), stands still. `ReadFails` has it, and
  `NoSilentExpiry` excludes it by its premise `uncounted = 0`, without which TLC finds
  it violated. So are a failed deletion of the old Secret (`token_secret.go:107`), which
  takes a rename and is therefore not in `TokenRefresh`, and a failed status write for a
  Secret held by another (`:158`), an alternative of `NotOwned`.
* A transient mint failure with `retryInterval: 0` returns `RequeueAfter: 0`
  (`token_secret.go:134,178`), which is no requeue: the Token is not tried again until
  an event or a restart. `RequeueAfter` has it, and `EventuallyServed` excludes it.
* An App deleted and recreated while its watch is broken is not reconciled either;
  its old client stays (`app_controller.go:206`). `SyncApp` has it; the
  theorems `ClientsAreDropped` and `EventsReachTokens` exclude it by their hypothesis.
* `kubernetes.secret.operations` is the "Total number of Kubernetes Secret
  operations performed by the operator" (`recorder.go:113`), but a Secret that was
  written is counted only if the status could be written too
  (`token_secret.go:144,187`), and a mint that fails counts as a failed operation.
* `DeleteSecret` deletes by name, without a UID or resourceVersion, after a
  check on a cached copy (`token_secret.go:303`): a Secret of the same name that
  has another owner by then is deleted too. `OverwriteOnlyOwned` is about
  overwriting and does not exclude it.
* With `LostResponses` in `app_live`, an App's status write that took effect
  and reported an error is followed by a reconciliation whose comparison with a
  stale cache can skip the write that would correct it (`app_controller.go:149`):
  `StatusAgrees` fails until the next retry or event.
* An App that becomes Ready does not enqueue its Tokens: the change is one of
  the status, which `GenerationChangedPredicate` drops (`token_controller.go:84`).
  They are served by their own retry after 30 seconds, which is what
  `EventuallyMintsWithCurrent` shows, not at once as `README.md:237` has it.
* `refreshInterval` is documented with "maximum: 1h" (`token_types.go:49`), and
  `README.md` promises that tokens "refresh automatically before expiration", but
  nothing enforces the maximum: above one hour the Secret holds expired
  credentials until the refresh. At one hour exactly the refresh comes when they
  run out. At zero there is no refresh at all. `refresh` has intervals of both
  kinds; `FreshUnlessFailing` excludes them by `Sane`.

## Proofs

The theorems hold for all values of the constants that satisfy the named
assumptions of the modules (types of the constants; `Nil` differs from every
object).

*TokenSecretProofs.* The inductive invariant is `TypeOK` together with
`WorkersGood`: a worker past its start has an owner, one in `DeleteSecret` has
a status that names a Secret, and one that is minting or updating has in hand
a Secret whose owner reference is that of its Token. The third part is
what `OverwriteOnlyOwned` rests on: the server accepts an update only if it
holds the Secret the worker has in hand, so that the Secret overwritten is the
one that was checked, no matter how long ago. `TypeOK` alone would not
be inductive: without an owner in hand there would be no spec to read.

*TokenLeaseProofs* extends these. Most steps stutter or take or end a lease. The
one that needs an invariant is `UpdateApplies`: a renewal must not shorten a lease.
`LInv` adds that no Secret, cached Secret or worker holds an expiry beyond `now +
TokenValidity`, and that a worker which has minted holds one no earlier than that
of the Secret in its hand. That is enough, because the server accepts only an
update of the very Secret that is in hand; with `UpdateAnyVersion`, an update
without a resourceVersion, it fails.

*TokenReadyProofs* is about `ReadyIsTrueAtRest`. A status that is written late must
not promise what has changed since, although three copies of a Token are in use
and the worker replaces its own in the middle. `RInv` adds to the invariant of
`TokenSecretProofs`, for each Token:

* `Lineage`: the views of a Token (server, cache, worker) that agree in UID and
  generation agree in spec, and the server has the newest generation of its UID.
* `Attends`: a worker whose key does not wait in the queue works on the version
  the cache has. The events that pass the predicate keep this true.
* `Backed`: a worker that is about to write Ready, and whose key does not wait,
  has seen to it that its Token owns the Secret of the spec in hand.
* `Truthful`: `ReadyIsTrueAtRest`, but already when the cache has the version of
  the server and not yet its status. The stronger form is needed because the
  arrival of a status is an event that the predicate drops.
* `Available`: with no outages, no worker is about to report one.

Two theorems follow, both for a watch that stays up (`~ Relists`), without which
`Attends` fails: a recreated Token has the generation of its predecessor.
`ReadyTokensOwnTheirSecret` admits edits, but assumes of a
behaviour that whoever deletes a Secret owns it (`[][DeletesOwn]_vars`). The
code does not ensure that: `DeleteSecret` checks the owner in the cache and
deletes by name (`token_secret.go:303`), so that the worker of a Token which has
been deleted meanwhile can delete the Secret that another Token has just created,
and that one stays Ready until its next refresh, if it has one.
`UneditedTokensOwnTheirSecret` needs no such premise: where Tokens come and go
but are not edited, status and spec never part, no worker ever has
a Secret to delete (`UInv`), and `DeletesOwn` follows. That covers the
run `token_contention`, for any number of Tokens and Secrets. Both leave out
outages, after which Ready=True may stay behind (see above: `MintFails` writes
nothing), and other clients that delete Secrets, which nothing watches.

*TokenQuietProofs* extends these, for the properties that need `Quiet`, with any
outages, faults, restarts and tampering. `QInv` consists of `KindMatches`,
`Lineage` and

* `Steady`: while a worker runs, all views of one UID are of one version. This is
  what `Quiet` provides, and with it the worker's change of its owner halfway
  (`RefreshOwner`) does no harm.
* `Ladder`: UIDs become known to server, cache and worker in this order, and a
  Secret is of an incarnation that the worker in hand has reached: a Token
  created anew does not own what its predecessor had.
* `Kept`: a Secret of a Token is the one its spec asks for, in name and kind
  (`InPlace`), or else the one its status names, and then the cache has it too
  (`LeftOver`), so that `DeleteSecret` will find it; once a worker is past its
  deletions, only the first. The part about the cache is what a lagging
  informer could break: a worker that took such a Secret for gone would go on
  without deleting it.
* `Honest`: an expiry in a status is not beyond that of the Secret, nor is one that
  a worker is about to write, nor will it be after the next write of the Secret.

*TokenRefreshProofs.* The inductive invariant relates what is due to what is left.
`Ahead` says that the next reconciliation comes before the credentials run out
and within one refresh interval. `InTime`: at rest, either `Ahead` holds, or the
next reconciliation comes within one delay of the last failure, or within one
interval of the last tampering; the sum of what is due and the stopwatch is what
a tick leaves unchanged. `InTimeOrLoud` is the like for when no error is counted.
It has three reasons for a
next reconciliation to be near: `Ahead`, tampering, or an uncounted error, whose backoff is
behind `due` (`due <= uncounted`). `Phases` ties `due` to the places of `Reconcile`: a key taken from the queue is due
again only for an event, which is due now, so that no earlier promise survives
that would spoil the new one. `GaugeInTime` says that the exported expiry is that
of the Secret but between the two writes, or after a counted error.

*AppControllerProofs*, in three layers.

* `Sound` is `TypeOK` and the shape of a worker's state at each place.
* `IInv` adds, for each App, `Lineage` (within one incarnation, generations tell
  the specs apart and the cache is never ahead of the server) and `Attentive`.
  The latter is the heart of `NoClientWithoutKey`: unless the App is in the
  queue, its reconciliation works on the spec the cache has, one about to build
  a client has a key in the cache, and no client is kept that the caches do not
  justify. An App at rest with synchronous caches then has no such client. All that
  rests on `Announced`: recreations are either orderly or reported as such. It
  is the hypothesis of `ClientsAreDropped` and `EventsReachTokens`; type correctness
  does not need it.
* `OInv` is for `ClientIsCurrent`, under `Orderly`. `Chain` orders what
  the server, the cache, the worker and the registry know of an App, so that
  equal generations mean equal specs. `KeysTold` says that a resourceVersion of
  a key Secret stands for one key wherever it occurs, in the server, the cache,
  a worker or a cached client. `Matched` ties versions to configurations, and
  says that an App whose client differs from what the caches call for is
  queued or being worked on. It is here that the proof fails without `Orderly`:
  a recreated App has the generations of its predecessor.

`IndexAgrees` shows that mapping an App to Tokens and resolving the reference of
a Token are inverse to each other, which is the first half of `NoEventMissed`. The
second half is the predicate on the watch: an event that does not pass leaves
generation and UID as they were (by `Announced`), and by `Lineage` then also the spec.

TLC checked `OInv` as an invariant of the instance of `app_core`, and `IInv` of
the same instance with `Orderly` off and no broken watches, before either was proved.

*AppStatusProofs* is about `StatusAgrees`. `writeAppStatus` leaves the status alone
when the copy in hand shows it already, and that copy may lag behind; nothing
would then repair a status that is wrong on the server. `SInv` adds to `Sound`

* `Decided`: the reason in hand says what became of the client in the registry.
* `Told`: unless a retry is pending, a copy in the cache or in hand shows success
  only if the server does. A failure that is written leaves a retry behind, which
  by `Orderly` fires only once the cache has caught up.
* `Agrees`: `StatusAgrees` without its assumption that the caches are in sync.

Without `Orderly`, or with a status write that takes effect although it reports an
error (`LostResponses`), `Told` fails and so does the property: TLC finds a
failure on the server that a lagging copy hides from a reconciliation which has
succeeded since. `PopulatedInit`, where `app_live` starts, is reachable
from `Init` by one `CreateApp` and one `PutKey`, so that the theorem covers it.

*RegistryProofs.* The invariant `IInv` relates the place of a caller to its call
(a call that has no outcome yet has its request pending; one at `build` is an
`Obtain` that misses the cache *and holds the write lock*, so that nobody else
changes the entry before `Build`), and says that `StartupKey` is never cached
without a configuration. With it, each step of `Registry` is a step of
`ClientCache` or a stutter, which `Simulates` shows action by action, and
`Implements` concludes `Spec => Linearizable`.

TLC checked the later invariants in the same way: `QInv` on one Token with two names
and both kinds and by simulation with two Tokens; `RInv`
on one Token with renames under `DeletesOwn` as an action constraint,
`UInv` on the instance of `token_contention`; `SInv`
on that of `app_core` without lost responses and on a larger one of `app_live`,
without its liveness.

Only model-checked are the liveness properties: fairness and ENABLED are beyond
the prover. Every invariant and every action property of a passing run is proved.

## What is not modelled

* Permissions and repositories (`api/v1/permissions.go`): copied field by field.
* Names, scheme registration, generated deep copies.
* `config.go` reading files and the environment, and the table of providers:
  `startupCfg` and `Identities` stand for the outcome.
* The metrics of durations, GitHub calls, refreshes that failed and Secret
  operations, which only record, and the exporter.
* Flags, certificates, probes and leader election of `cmd/manager/main.go`: the
  models have one active manager. The index of Apps by key is represented by the
  set it selects (`SecretToApps`).
* Helm charts and manifests.

## Plan

Done, in this order:

1. `TokenSecret` with its runs and the proof of `OverwriteOnlyOwned`: the
   longest sequence of calls and the one that writes credentials.
2. `AppController` with the proofs of `NoClientWithoutKey` and `ClientIsCurrent`.
3. `ClientCache` and `Registry`, with refinement checked and proved.
4. `TokenRefresh`, with its three invariants proved.
5. `AppRefs` in `AppController`, with `NoEventMissed` proved.
6. `SecretLease`, with the refinement checked and proved.
7. Proofs of `KindMatches`, `NoStraySecret` and `StatusNeverOverstates` under
   `Quiet`, and of `ReadyIsTrueAtRest`.
8. A proof of `StatusAgrees` under `Orderly` and without lost responses.

To come:

9. `ActiveGauge`: `EnsureTokenActive` and `RemoveTokenActive` on the `sync.Map`
   with concurrent workers. Each is one atomic operation on the map followed by
   one on the counter; worth a model only once deletions call the second.

New modules share runs with the present ones where a question fits into an
existing instance, so that all of them together stay quick enough to be run on
every change.
