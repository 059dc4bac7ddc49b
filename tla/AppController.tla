---------------------------- MODULE AppController ----------------------------
(***************************************************************************)
(* The App controller, which keeps one GitHub client per App in the        *)
(* registry, and the Tokens that look their client up there.  The two      *)
(* sides share App.status, read through a cache that lags, and the         *)
(* registry, which lives in memory and is empty after a restart.           *)
(*                                                                         *)
(* A client is represented by the configuration it was built from.  The    *)
(* registry's lock makes each of its methods one step (see Registry); the  *)
(* reconciliation of a Token is cut down to what concerns its App: the     *)
(* lookup, and the client it mints with (see TokenSecret for the rest).    *)
(* Optimistic concurrency is modelled as in TokenSecret.                   *)
(***************************************************************************)
EXTENDS AppRefs, Integers, FiniteSets

CONSTANTS
    Apps,         \* namespaced names of Apps
    References,   \* what spec.appRef may be, Nil if it is left out
    StartupClient,  \* what the startup configuration gives, Nil if there is none
    KeySecrets,   \* namespaced names of Secrets holding private keys
    Identities,   \* appID, installationID and, for a KMS, its key reference
    Pems,         \* private keys
    Manifests,    \* the specs users give Apps
    Contents,     \* what users put into key Secrets: a key, or Nil for no usable one
    Refreshing,   \* the Tokens whose refresh interval is above zero
    MaxGeneration,  \* bound: edits of one App
    MaxRefEdits,    \* bound: changes of references
    MaxRevision,    \* bound: Apps created, Secrets written
    MaxFaults,      \* bound: failed calls, lost responses, restarts
    LostResponses,  \* bound: a status write may take effect and report an error
    Relists,      \* bound: the watch can break, see SyncApp
    Orderly         \* bound: recreations and retries wait, see below

(* keyRef is set exactly when the provider is "secret".                    *)
Spec == [id : Identities, keyRef : KeySecrets \cup {Nil}, validateKey : BOOLEAN]

ASSUME AppsAssumption == Apps \subseteq AppKey
ASSUME ReferencesAssumption ==
    /\ References \subseteq AppReference \cup {Nil}
    /\ \A t \in Tokens, ref \in References : AppKeyOf(t, ref) \in Apps \cup {Nil}
ASSUME ManifestsAssumption == Manifests \subseteq Spec /\ Contents \subseteq Pems \cup {Nil}
ASSUME RefreshingAssumption == Refreshing \subseteq Tokens
ASSUME NumbersAssumption ==
    /\ MaxGeneration \in Nat /\ MaxRefEdits \in Nat
    /\ MaxRevision \in Nat /\ MaxFaults \in Nat
    /\ LostResponses \in BOOLEAN /\ Relists \in BOOLEAN /\ Orderly \in BOOLEAN

(* What a condition says: nothing yet, True (Reconciled) or False and why. *)
Reasons == {"None", "Reconciled", "SecretNotFound", "InvalidKey", "SetupFailed"}

AppObject == [uid : Nat, generation : Nat, spec : Spec,
              ready : Reasons, keyValid : Reasons, observed : Nat]
KeySecret == [rv : Nat, pem : Pems \cup {Nil}]
OperatorConfig == [id : Identities, pem : Pems \cup {Nil}, validateKey : BOOLEAN]
Version == [generation : Nat, rv : Nat]
CachedClient == [client : OperatorConfig, version : Version]

ASSUME NilAssumption ==
    Nil \notin AppObject \cup KeySecret \cup OperatorConfig \cup CachedClient
               \cup Pems \cup KeySecrets \cup Apps
ASSUME StartupAssumption == StartupClient \in OperatorConfig \cup {Nil}

VARIABLES
    apps,         \* API server: App objects with spec and status
    keySecrets,   \* API server: Secrets holding keys
    appCache,     \* informer cache of apps, shared by the controllers
    keyCache,     \* informer cache of keySecrets
    queue,        \* Apps waiting in the workqueue
    timers,       \* Apps with appRetryInterval pending
    worker,       \* the reconciliation of each App and where it stands
    registry,     \* Registry.clients, without the startup client
    refs,         \* API server: spec.appRef of each Token
    refCache,     \* the same in the informer caches, with its indexes
    tokens,       \* the reconciliation of each Token and what came of the last
    tokenQueue,   \* Tokens waiting in the workqueues
    tokenTimers,  \* Tokens with a refresh or a retry pending
    revision, refEdits, faults

server == <<apps, keySecrets, revision>>
appSide == <<server, appCache, keyCache, queue, timers, worker, registry>>
tokenSide == <<refs, refEdits, refCache, tokens, tokenQueue, tokenTimers>>
vars == <<appSide, tokenSide, faults>>

Worker == [pc : {"idle", "resolve", "forApp", "invalidate", "status"},
           app : AppObject \cup {Nil}, config : OperatorConfig \cup {Nil},
           version : Version, reason : Reasons]
IdleWorker == [pc |-> "idle", app |-> Nil, config |-> Nil,
               version |-> [generation |-> 0, rv |-> 0], reason |-> "None"]

(* app: what resolveApp has found; client: what the Token's Secret was     *)
(* last minted with.                                                       *)
Token == [pc : {"idle", "lookup"}, app : Apps \cup {Nil},
          ready : BOOLEAN, client : OperatorConfig \cup {Nil}]
NewToken == [pc |-> "idle", app |-> Nil, ready |-> FALSE, client |-> Nil]

TypeOK ==
    /\ apps \in [Apps -> AppObject \cup {Nil}] /\ appCache \in [Apps -> AppObject \cup {Nil}]
    /\ keySecrets \in [KeySecrets -> KeySecret \cup {Nil}]
    /\ keyCache \in [KeySecrets -> KeySecret \cup {Nil}]
    /\ queue \subseteq Apps /\ timers \subseteq Apps
    /\ worker \in [Apps -> Worker]
    /\ registry \in [Apps -> CachedClient \cup {Nil}]
    /\ refs \in [Tokens -> References] /\ refCache \in [Tokens -> References]
    /\ tokens \in [Tokens -> Token]
    /\ tokenQueue \subseteq Tokens /\ tokenTimers \subseteq Tokens
    /\ revision \in Nat /\ refEdits \in Nat /\ faults \in Nat

----------------------------------------------------------------------------
(* resolveAppConfig: the Secret an App refers to, whether it yields a      *)
(* configuration, which one, and the version that stands for it.           *)

KeyOf(app, secrets) == IF app.spec.keyRef = Nil THEN Nil ELSE secrets[app.spec.keyRef]

ResolveReason(app, secrets) ==
    CASE app.spec.keyRef = Nil -> "Reconciled"
      [] app.spec.keyRef # Nil /\ KeyOf(app, secrets) = Nil -> "SecretNotFound"
      [] OTHER -> IF KeyOf(app, secrets).pem = Nil THEN "InvalidKey" ELSE "Reconciled"

\* Mutant: the spec itself is passed on, its key reference unresolved.
WholeSpec(app, secrets) == app.spec

ConfigOf(app, secrets) ==
    [id |-> app.spec.id, validateKey |-> app.spec.validateKey,
     pem |-> IF app.spec.keyRef = Nil THEN Nil ELSE KeyOf(app, secrets).pem]

\* Mutant: the version of a Secret-backed App leaves the Secret out.
GenerationOnly(app, secrets) == [generation |-> app.generation, rv |-> 0]

VersionOf(app, secrets) ==
    [generation |-> app.generation,
     rv |-> IF app.spec.keyRef = Nil THEN 0 ELSE KeyOf(app, secrets).rv]

(* writeAppStatus: the object with its conditions and observedGeneration.  *)
WithStatus(app, reason) ==
    [app EXCEPT !.ready = reason, !.observed = app.generation,
                !.keyValid = IF app.spec.validateKey THEN reason ELSE "None"]

----------------------------------------------------------------------------
Init ==
    /\ apps = [a \in Apps |-> Nil] /\ appCache = apps
    /\ keySecrets = [s \in KeySecrets |-> Nil] /\ keyCache = keySecrets
    /\ queue = {} /\ timers = {}
    /\ worker = [a \in Apps |-> IdleWorker]
    /\ registry = [a \in Apps |-> Nil]
    /\ refs \in [Tokens -> References] /\ refCache = refs
    /\ tokens = [t \in Tokens |-> NewToken]
    /\ tokenQueue = Tokens /\ tokenTimers = {}
    /\ revision = 0 /\ refEdits = 0 /\ faults = 0

(* In an orderly environment an App is recreated only after the controller *)
(* has dealt with its deletion, and the delay of a retry is longer than a  *)
(* reconciliation and the lag of the cache.                                *)
DeletionDone(a) == appCache[a] = Nil /\ registry[a] = Nil /\ worker[a].pc = "idle"
DelayOver(a) == appCache[a] = apps[a] /\ worker[a].pc = "idle"

(* Users.                                                                  *)
Revise == revision < MaxRevision /\ revision' = revision + 1

CreateApp(a, spec) ==
    /\ apps[a] = Nil /\ Revise /\ (Orderly => DeletionDone(a))
    /\ apps' = [apps EXCEPT ![a] =
         [uid |-> revision + 1, generation |-> 1, spec |-> spec,
          ready |-> "None", keyValid |-> "None", observed |-> 0]]
    /\ UNCHANGED keySecrets

EditApp(a, spec) ==
    /\ apps[a] # Nil /\ apps[a].spec # spec /\ apps[a].generation < MaxGeneration
    /\ apps' = [apps EXCEPT ![a].spec = spec, ![a].generation = @ + 1]
    /\ UNCHANGED <<keySecrets, revision>>

DeleteApp(a) ==
    /\ apps[a] # Nil
    /\ apps' = [apps EXCEPT ![a] = Nil] /\ UNCHANGED <<keySecrets, revision>>

(* A key Secret is created, rotated or otherwise written, or deleted.      *)
PutKey(s, pem) ==
    /\ Revise
    /\ keySecrets' = [keySecrets EXCEPT ![s] = [rv |-> revision + 1, pem |-> pem]]
    /\ UNCHANGED apps

DeleteKey(s) ==
    /\ keySecrets[s] # Nil
    /\ keySecrets' = [keySecrets EXCEPT ![s] = Nil] /\ UNCHANGED <<apps, revision>>

(* A Token is pointed to another App, or to the startup configuration.     *)
EditRef(t, ref) ==
    /\ refEdits < MaxRefEdits /\ refEdits' = refEdits + 1
    /\ refs[t] # ref /\ refs' = [refs EXCEPT ![t] = ref]
    /\ UNCHANGED <<appSide, refCache, tokens, tokenQueue, tokenTimers, faults>>

UserStep ==
    /\ \/ \E a \in Apps : \/ DeleteApp(a)
                         \/ \E spec \in Manifests : CreateApp(a, spec) \/ EditApp(a, spec)
       \/ \E s \in KeySecrets : DeleteKey(s) \/ \E pem \in Contents : PutKey(s, pem)
    /\ UNCHANGED <<appCache, keyCache, queue, timers, worker, registry, tokenSide, faults>>

----------------------------------------------------------------------------
(* Informers: every change reaches the cache, and the queues if it passes  *)
(* the predicates.                                                         *)

(* GenerationChangedPredicate.                                             *)
Passes(old, new) == old = Nil \/ new = Nil \/ old.generation # new.generation

Recreated(old, new) == old # Nil /\ new # Nil /\ old.uid # new.uid

TokensOf(a) == mapAppToTokens(a, refCache) \cup mapAppToClusterTokens(a, refCache)

(* As in TokenSecret: a deletion and a creation pass one by one, while the *)
(* list after a broken watch reports them as one update, which need not.   *)
SyncApp(a) ==
    LET old == appCache[a]
        new == apps[a]
    IN  /\ old # new /\ appCache' = [appCache EXCEPT ![a] = new]
        /\ \E relisted \in {FALSE, Relists} :
             IF Passes(old, new) \/ (Recreated(old, new) /\ ~ relisted)
             THEN queue' = queue \cup {a} /\ tokenQueue' = tokenQueue \cup TokensOf(a)
             ELSE UNCHANGED <<queue, tokenQueue>>
        /\ UNCHANGED <<server, keyCache, timers, worker, registry, faults>>
        /\ UNCHANGED <<refs, refEdits, refCache, tokens, tokenTimers>>

(* The watch on Tokens; the edit of a spec is a new generation.            *)
SyncRef(t) ==
    /\ refCache[t] # refs[t]
    /\ refCache' = [refCache EXCEPT ![t] = refs[t]] /\ tokenQueue' = tokenQueue \cup {t}
    /\ UNCHANGED <<appSide, refs, refEdits, tokens, tokenTimers, faults>>

\* Mutant: the Secret watch is missing.
Nobody(s) == {}

(* secretReferencedByApp and mapSecretToApps, from the cache of Apps.      *)
SecretToApps(s) == {a \in Apps : appCache[a] # Nil /\ appCache[a].spec.keyRef = s}

SyncKey(s) ==
    /\ keyCache[s] # keySecrets[s]
    /\ keyCache' = [keyCache EXCEPT ![s] = keySecrets[s]]
    /\ queue' = queue \cup SecretToApps(s)
    /\ UNCHANGED <<server, appCache, timers, worker, registry, tokenSide, faults>>

TimerFires(a) ==
    /\ a \in timers /\ (Orderly => DelayOver(a))
    /\ timers' = timers \ {a} /\ queue' = queue \cup {a}
    /\ UNCHANGED <<server, appCache, keyCache, worker, registry, tokenSide, faults>>

TokenTimerFires(t) ==
    /\ t \in tokenTimers
    /\ tokenTimers' = tokenTimers \ {t} /\ tokenQueue' = tokenQueue \cup {t}
    /\ UNCHANGED <<appSide, refs, refEdits, refCache, tokens, faults>>

----------------------------------------------------------------------------
(* AppReconciler.Reconcile.                                                *)

Elsewhere == <<appCache, keyCache, keySecrets, revision, tokenSide>>

Goto(a, w) == worker' = [worker EXCEPT ![a] = w]
Take(a) == a \in queue /\ worker[a].pc = "idle" /\ queue' = queue \ {a}

\* Mutant: the client of a deleted App stays.
KeepClient(a) == UNCHANGED registry

Invalidate(a) == registry' = [registry EXCEPT ![a] = Nil]

StartGone(a) ==
    /\ Take(a) /\ appCache[a] = Nil
    /\ Invalidate(a)
    /\ UNCHANGED <<apps, timers, worker, faults, Elsewhere>>

Start(a) ==
    /\ Take(a) /\ appCache[a] # Nil
    /\ Goto(a, [IdleWorker EXCEPT !.pc = "resolve", !.app = appCache[a]])
    /\ UNCHANGED <<apps, timers, registry, faults, Elsewhere>>

(* The cached Get of the key Secret.                                       *)
ResolveConfig(a) ==
    LET w == worker[a]
        reason == ResolveReason(w.app, keyCache)
    IN  /\ w.pc = "resolve"
        /\ Goto(a, IF reason = "Reconciled"
                   THEN [w EXCEPT !.pc = "forApp", !.reason = reason,
                                  !.config = ConfigOf(w.app, keyCache),
                                  !.version = VersionOf(w.app, keyCache)]
                   ELSE [w EXCEPT !.pc = "invalidate", !.reason = reason])
        /\ UNCHANGED <<apps, queue, timers, registry, faults, Elsewhere>>

(* Registry.ForApp: a client of this version is kept, any other rebuilt.   *)
Hit(a) == registry[a] # Nil /\ registry[a].version = worker[a].version

KeepsClient(a) ==
    /\ worker[a].pc = "forApp" /\ Hit(a)
    /\ Goto(a, [worker[a] EXCEPT !.pc = "status"])
    /\ UNCHANGED <<apps, queue, timers, registry, faults, Elsewhere>>

BuildsClient(a) ==
    LET w == worker[a] IN
    /\ w.pc = "forApp" /\ ~ Hit(a)
    /\ registry' = [registry EXCEPT ![a] = [client |-> w.config, version |-> w.version]]
    /\ Goto(a, [w EXCEPT !.pc = "status"])
    /\ UNCHANGED <<apps, queue, timers, faults, Elsewhere>>

(* The factory fails: a KMS or key file out of order.                      *)
BuildFails(a) ==
    /\ worker[a].pc = "forApp" /\ ~ Hit(a)
    /\ Goto(a, [worker[a] EXCEPT !.pc = "invalidate", !.reason = "SetupFailed"])
    /\ UNCHANGED <<apps, queue, timers, registry, faults, Elsewhere>>

DropClient(a) ==
    /\ worker[a].pc = "invalidate" /\ Invalidate(a)
    /\ Goto(a, [worker[a] EXCEPT !.pc = "status"])
    /\ UNCHANGED <<apps, queue, timers, faults, Elsewhere>>

Error(a) ==
    /\ Goto(a, IdleWorker) /\ queue' = queue \cup {a} /\ UNCHANGED timers

\* Mutants: a failure is not retried, or at once.
NoRetry(a) == Goto(a, IdleWorker) /\ UNCHANGED <<queue, timers>>
RetryAtOnce(a) == IF worker[a].reason = "Reconciled" THEN NoRetry(a) ELSE Error(a)

(* appRetryInterval after a failure, nothing after a success.              *)
Done(a) ==
    /\ Goto(a, IdleWorker) /\ UNCHANGED queue
    /\ timers' = IF worker[a].reason = "Reconciled" THEN timers ELSE timers \cup {a}

Status(a) == WithStatus(worker[a].app, worker[a].reason)

StatusApplies(a) ==
    /\ worker[a].pc = "status" /\ Status(a) # worker[a].app
    /\ apps[a] = worker[a].app
    /\ apps' = [apps EXCEPT ![a] = Status(a)]

WriteStatus(a) ==
    /\ StatusApplies(a) /\ Done(a)
    /\ UNCHANGED <<registry, faults, Elsewhere>>

StatusUnchanged(a) ==
    /\ worker[a].pc = "status" /\ Status(a) = worker[a].app /\ Done(a)
    /\ UNCHANGED <<apps, registry, faults, Elsewhere>>

(* Conflict, or NotFound: no retry here, the key returns to the queue.     *)
StatusConflict(a) ==
    /\ worker[a].pc = "status" /\ Status(a) # worker[a].app
    /\ apps[a] # worker[a].app /\ Error(a)
    /\ UNCHANGED <<apps, registry, faults, Elsewhere>>

----------------------------------------------------------------------------
(* Faults.                                                                 *)
Fault == faults < MaxFaults /\ faults' = faults + 1

(* A Get that fails while the Secret may exist: the client goes all the    *)
(* same, also one of the right version.                                    *)
KeyReadFails(a) ==
    /\ Fault /\ worker[a].pc = "resolve" /\ worker[a].app.spec.keyRef # Nil
    /\ Goto(a, [worker[a] EXCEPT !.pc = "invalidate", !.reason = "SetupFailed"])
    /\ UNCHANGED <<apps, queue, timers, registry, Elsewhere>>

CallFails(a) ==
    /\ Fault /\ worker[a].pc = "status" /\ Status(a) # worker[a].app /\ Error(a)
    /\ UNCHANGED <<apps, registry, Elsewhere>>

ResponseLost(a) ==
    /\ LostResponses /\ Fault /\ StatusApplies(a) /\ Error(a)
    /\ UNCHANGED <<registry, Elsewhere>>

(* The registry goes with the process, App.status stays.                   *)
Restart ==
    /\ Fault
    /\ appCache' = apps /\ keyCache' = keySecrets
    /\ queue' = {a \in Apps : apps[a] # Nil} /\ timers' = {}
    /\ worker' = [a \in Apps |-> IdleWorker]
    /\ registry' = [a \in Apps |-> Nil]
    /\ refCache' = refs
    /\ tokens' = [t \in Tokens |-> [tokens[t] EXCEPT !.pc = "idle", !.app = Nil]]
    /\ tokenQueue' = Tokens /\ tokenTimers' = {}
    /\ UNCHANGED <<server, refs, refEdits>>

----------------------------------------------------------------------------
(* resolveApp on behalf of a Token, and what follows.                      *)

TokenElsewhere == <<appSide, refs, refEdits, refCache, faults>>

(* RequeueAfter zero is no requeue.                                        *)
TokenIdles(t, outcome, requeued) ==
    /\ tokens' = [tokens EXCEPT ![t] = outcome]
    /\ tokenTimers' = IF requeued THEN tokenTimers \cup {t} ELSE tokenTimers

(* The Ready condition turns False; the Secret keeps what it has.          *)
Unavailable(t) == TokenIdles(t, [NewToken EXCEPT !.client = tokens[t].client], TRUE)

(* The Token mints with the client it is given, Nil if there is none.      *)
Use(t, client) ==
    IF client = Nil THEN Unavailable(t)
    ELSE TokenIdles(t, [NewToken EXCEPT !.ready = TRUE, !.client = client],
                    t \in Refreshing)

TakeToken(t) ==
    t \in tokenQueue /\ tokens[t].pc = "idle" /\ tokenQueue' = tokenQueue \ {t}

(* Registry.Startup, which may have no configuration or fail to build.     *)
UseStartup(t) ==
    /\ TakeToken(t) /\ AppKeyOf(t, refCache[t]) = Nil
    /\ \E client \in {StartupClient, Nil} : Use(t, client)
    /\ UNCHANGED TokenElsewhere

AppUsable(a) == appCache[a] # Nil /\ appCache[a].ready = "Reconciled"

ResolveApp(t) ==
    LET a == AppKeyOf(t, refCache[t]) IN
    /\ TakeToken(t) /\ a # Nil
    /\ IF AppUsable(a)
       THEN /\ tokens' = [tokens EXCEPT ![t].pc = "lookup", ![t].app = a]
            /\ UNCHANGED tokenTimers
       ELSE Unavailable(t)
    /\ UNCHANGED TokenElsewhere

(* Registry.Lookup.                                                        *)
Lookup(t) ==
    LET cached == registry[tokens[t].app] IN
    /\ tokens[t].pc = "lookup"
    /\ Use(t, IF cached = Nil THEN Nil ELSE cached.client)
    /\ UNCHANGED <<tokenQueue, TokenElsewhere>>

----------------------------------------------------------------------------
AppStep(a) ==
    \/ StartGone(a) \/ Start(a) \/ ResolveConfig(a)
    \/ KeepsClient(a) \/ BuildsClient(a) \/ BuildFails(a) \/ DropClient(a)
    \/ WriteStatus(a) \/ StatusUnchanged(a) \/ StatusConflict(a)

TokenStep(t) == UseStartup(t) \/ ResolveApp(t) \/ Lookup(t)

Next ==
    \/ UserStep
    \/ \E a \in Apps : \/ SyncApp(a) \/ TimerFires(a) \/ AppStep(a)
                       \/ KeyReadFails(a) \/ CallFails(a) \/ ResponseLost(a)
    \/ \E s \in KeySecrets : SyncKey(s)
    \/ \E t \in Tokens : \/ SyncRef(t) \/ TokenTimerFires(t) \/ TokenStep(t)
                         \/ \E ref \in References : EditRef(t, ref)
    \/ Restart

Safety == Init /\ [][Next]_vars

(* Reconciliations keep running, informers catch up and delays run out; a  *)
(* factory that fails may succeed the next time.                           *)
Fairness ==
    /\ \A a \in Apps : /\ WF_vars(AppStep(a)) /\ SF_vars(BuildsClient(a))
                       /\ WF_vars(SyncApp(a)) /\ WF_vars(TimerFires(a))
    /\ \A s \in KeySecrets : WF_vars(SyncKey(s))
    /\ \A t \in Tokens : /\ WF_vars(TokenStep(t)) /\ WF_vars(TokenTimerFires(t))
                         /\ WF_vars(SyncRef(t))

Live == Safety /\ Fairness

----------------------------------------------------------------------------
(* App a is not being reconciled nor about to be, and caches are in sync.  *)
AtRest(a) ==
    /\ worker[a].pc = "idle" /\ a \notin queue
    /\ appCache[a] = apps[a] /\ keyCache = keySecrets

Resolvable(a) == apps[a] # Nil /\ ResolveReason(apps[a], keySecrets) = "Reconciled"

(* No client outlives its App or its key: a reconciliation that overlaps   *)
(* the deletion of either, and builds a client all the same, is followed   *)
(* by one that drops it.  (Not if a watch breaks while an App is replaced  *)
(* by one whose key is not there.)                                         *)
NoClientWithoutKey ==
    \A a \in Apps : AtRest(a) /\ ~ Resolvable(a) => registry[a] = Nil

(* The client kept for an App at rest is the one its spec and its Secret   *)
(* call for: no edit, rotation or change of keyRef is missed, in whatever  *)
(* order the two watches deliver them.                                     *)
ClientIsCurrent ==
    \A a \in Apps : AtRest(a) /\ Resolvable(a) /\ registry[a] # Nil =>
        registry[a].client = ConfigOf(apps[a], keySecrets)

(* An App at rest for good, without a retry pending, shows Ready exactly   *)
(* when the registry has its client, although the status is compared with  *)
(* a cached copy and left alone when it seems right already.               *)
StatusAgrees ==
    \A a \in Apps : AtRest(a) /\ apps[a] # Nil /\ a \notin timers =>
        (apps[a].ready = "Reconciled" <=> registry[a] # Nil)

(* The App that Token t is to use.                                         *)
AppOf(t) == AppKeyOf(t, refs[t])

(* After a step Token t resolves to another App, or to one with another    *)
(* spec.                                                                   *)
Identity(app) == IF app = Nil THEN Nil ELSE [uid |-> app.uid, spec |-> app.spec]
ResolvesAnew(t) ==
    LET a == AppKeyOf(t, refCache[t])
    IN  \/ AppKeyOf(t, refCache'[t]) # a
        \/ a # Nil /\ Identity(appCache[a]) # Identity(appCache'[a])

(* No event is lost on a Token: after a step that makes its reference      *)
(* resolve anew, it is in the workqueue.  The index that finds the Tokens  *)
(* of an App agrees with the lookup that finds the App of a Token, on      *)
(* whatever references the Tokens come to have.  (Not if a watch breaks    *)
(* while an App is replaced by one of the same generation.)                *)
NoEventMissed ==
    [][\A t \in Tokens : ResolvesAnew(t) => t \in tokenQueue']_<<refCache, appCache>>

(* A Token that goes on to refer to an App with a working key in the end   *)
(* mints with the client this App calls for now, and goes on doing so,     *)
(* whatever it referred to before.  With a refresh interval of zero it     *)
(* would not: a rotation of the key, for one, enqueues the App alone.      *)
EventuallyMintsWithCurrent ==
    \A t \in Refreshing, a \in Apps :
        <>[](AppOf(t) = a /\ Resolvable(a)) =>
            <>[](/\ Resolvable(a) /\ tokens[t].ready
                 /\ tokens[t].client = ConfigOf(apps[a], keySecrets))

(* Reconciliations of an App come to rest until the next timer or event.   *)
ComesToRest == \A a \in Apps : []<>(worker[a].pc = "idle" /\ a \notin queue)

(* "Tokens automatically re-reconcile once [...] its spec is corrected":   *)
(* with everything at rest, a Token whose last lookup succeeded has been   *)
(* minted by the client its App calls for.                                 *)
TokenFollowsApp ==
    \A t \in Tokens :
        LET a == AppOf(t) IN
        (/\ a # Nil /\ tokens[t].pc = "idle" /\ t \notin tokenQueue /\ tokens[t].ready
         /\ AtRest(a) /\ Resolvable(a) /\ registry[a] # Nil)
        => tokens[t].client.id = apps[a].spec.id
=============================================================================
