---------------------------- MODULE TokenSecret ----------------------------
(***************************************************************************)
(* The Token / ClusterToken controller: reconcileTokenLike and the         *)
(* tokenSecret worker it hands over to, between the API server, the        *)
(* informer caches the worker reads from, and the workqueue that runs it.  *)
(*                                                                         *)
(* One key of the workqueue is one element of Tokens; a worker never runs  *)
(* twice for a key at the same time, workers of different keys interleave. *)
(* Every client call of the worker is one step, so that other actors act   *)
(* between any two of them.                                                *)
(*                                                                         *)
(* resourceVersion: an Update carries the object the worker read and is    *)
(* refused unless the server still holds that object.  The model compares  *)
(* the objects themselves: an object that changed and changed back is the  *)
(* object the worker would hold had it read a moment later.                *)
(***************************************************************************)
EXTENDS Integers, FiniteSets

CONSTANTS
    Tokens,         \* namespaced names of Tokens and ClusterTokens
    Keys,           \* namespaced names of Secrets
    Labels,         \* values of spec.secret.labels
    Manifests,      \* Manifests[t]: the specs users give Token t
    AppFailures,    \* Ready conditions, reason and message, resolveApp fails with
    Nil,            \* no such object
    TokenValidity,  \* lifetime of an installation token, in ticks
    MaxTries,       \* attempts of retry.DefaultRetry
    MaxGeneration,  \* bound: edits of one object
    MaxIncarnation, \* bound: objects ever created
    MaxFaults,      \* bound: failed calls, lost responses, restarts
    MaxMeddles,     \* bound: Secrets others create or delete, App changes
    MaxTime,        \* bound: ticks of the clock
    Outages,        \* bound: Apps can be unavailable, mints can fail
    Relists,        \* bound: the watch can break, see SyncToken
    Quiet           \* bound: edits do not race a reconciliation, see below

(* refreshes, retries: the interval is above zero.                         *)
Spec == [key : Keys, basic : BOOLEAN, labels : Labels,
         refreshes : BOOLEAN, retries : BOOLEAN]

ASSUME ManifestsAssumption == Manifests \in [Tokens -> SUBSET Spec]
ASSUME NumbersAssumption ==
    /\ TokenValidity \in Nat \ {0} /\ MaxTries \in Nat \ {0}
    /\ MaxGeneration \in Nat /\ MaxIncarnation \in Nat /\ MaxFaults \in Nat
    /\ MaxMeddles \in Nat /\ MaxTime \in Nat
    /\ Outages \in BOOLEAN /\ Relists \in BOOLEAN /\ Quiet \in BOOLEAN

(* Secret identity recorded in the status; metav1 owner reference.         *)
ManagedSecret == [key : Keys, basic : BOOLEAN]
OwnerRef == [token : Tokens, uid : Nat]

(* Reason of the Ready condition: True for Created and Updated only.       *)
Outcomes == {"None", "Created", "Updated", "Reconciling", "Failed"}
Reasons == Outcomes \cup AppFailures
ReadyTrue == {"Created", "Updated"}

ASSUME ReasonsAssumption == AppFailures \cap Outcomes = {}

TokenObject == [uid : Nat, generation : Nat, spec : Spec,
                managed : ManagedSecret \cup {Nil}, expires : Nat, ready : Reasons]

(* type: Secret.Type, immutable; basic: the shape of Data.                 *)
SecretObject == [owner : OwnerRef \cup {Nil}, type : BOOLEAN, basic : BOOLEAN,
                 labels : Labels, expires : Nat]

ASSUME NilAssumption ==
    Nil \notin TokenObject \cup SecretObject \cup ManagedSecret \cup OwnerRef

VARIABLES
    tokens,       \* API server: Token objects with spec and status
    secrets,      \* API server: Secrets
    tokenCache,   \* informer cache of tokens
    secretCache,  \* informer cache of secrets
    queue,        \* keys waiting in the workqueue
    timers,       \* keys with a RequeueAfter pending
    worker,       \* the tokenSecret value of each key and where it stands
    active,       \* keys the tokens.active gauge counts
    now, incarnation, faults, meddles

vars == <<tokens, secrets, tokenCache, secretCache, queue, timers, worker,
          active, now, incarnation, faults, meddles>>

PCs == {"idle", "appFailure", "lookup", "delete", "get", "mint", "create",
        "update", "refresh", "write"}
Worker == [pc : PCs, owner : TokenObject \cup {Nil}, secret : SecretObject \cup {Nil},
           expires : Nat, cond : Reasons, tries : Nat]
IdleWorker == [pc |-> "idle", owner |-> Nil, secret |-> Nil, expires |-> 0,
               cond |-> "None", tries |-> 0]

TypeOK ==
    /\ tokens \in [Tokens -> TokenObject \cup {Nil}]
    /\ secrets \in [Keys -> SecretObject \cup {Nil}]
    /\ tokenCache \in [Tokens -> TokenObject \cup {Nil}]
    /\ secretCache \in [Keys -> SecretObject \cup {Nil}]
    /\ queue \subseteq Tokens /\ timers \subseteq Tokens /\ active \subseteq Tokens
    /\ worker \in [Tokens -> Worker]
    /\ now \in Nat /\ incarnation \in Nat /\ faults \in Nat /\ meddles \in Nat

----------------------------------------------------------------------------
(* Helpers of the API types.                                               *)

Ref(t, obj) == [token |-> t, uid |-> obj.uid]

IsControlledBy(s, t, obj) == s # Nil /\ s.owner = Ref(t, obj)

\* Mutants: the comparison ignores the name, or the kind.
MatchesKind(obj) == obj.managed # Nil /\ obj.managed.basic = obj.spec.basic
MatchesName(obj) == obj.managed # Nil /\ obj.managed.key = obj.spec.key

MatchesSpec(obj) ==
    obj.managed = [key |-> obj.spec.key, basic |-> obj.spec.basic]

\* Mutant: the status records the whole spec.
WholeSpec(obj) == obj.spec

SpecOf(obj) == [key |-> obj.spec.key, basic |-> obj.spec.basic]

(* The mutation UpdateTokenStatus makes to the owner it has just read:     *)
(* the managed Secret comes from the spec of that read.                    *)
Mutated(obj, cond, expires) ==
    IF cond \in ReadyTrue
    THEN [obj EXCEPT !.ready = cond, !.expires = expires, !.managed = SpecOf(obj)]
    ELSE [obj EXCEPT !.ready = cond]

(* SetStatusTimestamps always counts as a change, a condition only when    *)
(* it differs.                                                             *)
StatusChanged(obj, cond) == cond \in ReadyTrue \/ obj.ready # cond

\* Mutant: no SetControllerReference.
NewOrphan(t, obj, expires) ==
    [owner |-> Nil, type |-> obj.spec.basic, basic |-> obj.spec.basic,
     labels |-> obj.spec.labels, expires |-> expires]

NewSecret(t, obj, expires) ==
    [owner |-> Ref(t, obj), type |-> obj.spec.basic, basic |-> obj.spec.basic,
     labels |-> obj.spec.labels, expires |-> expires]

(* The Secret at k belongs to the present incarnation of t.                *)
Owned(t, k) == tokens[t] # Nil /\ IsControlledBy(secrets[k], t, tokens[t])

----------------------------------------------------------------------------
Init ==
    /\ tokens = [t \in Tokens |-> Nil] /\ secrets = [k \in Keys |-> Nil]
    /\ tokenCache = tokens /\ secretCache = secrets
    /\ queue = {} /\ timers = {} /\ active = {}
    /\ worker = [t \in Tokens |-> IdleWorker]
    /\ now = 0 /\ incarnation = 0 /\ faults = 0 /\ meddles = 0

(* Nothing of t is in flight, its caches are up to date and its status     *)
(* agrees with its spec.                                                   *)
Settled(t) ==
    /\ tokens[t] # Nil
    /\ worker[t] = IdleWorker /\ t \notin queue
    /\ tokenCache[t] = tokens[t] /\ secretCache = secrets
    /\ MatchesSpec(tokens[t]) /\ Owned(t, tokens[t].spec.key)

(* In a quiet environment users edit a settled Token, and the edit reaches *)
(* the cache before the next worker starts.                                *)
EditSeen(t) ==
    (tokens[t] # Nil /\ tokenCache[t].uid = tokens[t].uid) =>
        tokenCache[t].generation = tokens[t].generation

(* Users and the cluster.                                                  *)
CreateToken(t, spec) ==
    /\ tokens[t] = Nil /\ incarnation < MaxIncarnation
    /\ incarnation' = incarnation + 1
    /\ tokens' = [tokens EXCEPT ![t] =
                    [uid |-> incarnation + 1, generation |-> 1, spec |-> spec,
                     managed |-> Nil, expires |-> 0, ready |-> "None"]]
    /\ UNCHANGED <<secrets, tokenCache, secretCache, queue, timers, worker,
                   active, now, faults, meddles>>

EditToken(t, spec) ==
    /\ tokens[t] # Nil /\ tokens[t].spec # spec /\ (Quiet => Settled(t))
    /\ tokens[t].generation < MaxGeneration
    /\ tokens' = [tokens EXCEPT ![t].spec = spec, ![t].generation = @ + 1]
    /\ UNCHANGED <<secrets, tokenCache, secretCache, queue, timers, worker,
                   active, now, incarnation, faults, meddles>>

DeleteToken(t) ==
    /\ tokens[t] # Nil
    /\ tokens' = [tokens EXCEPT ![t] = Nil]
    /\ UNCHANGED <<secrets, tokenCache, secretCache, queue, timers, worker,
                   active, now, incarnation, faults, meddles>>

(* Somebody else creates or deletes a Secret.                              *)
Meddle(k, labels) ==
    /\ meddles < MaxMeddles /\ meddles' = meddles + 1
    /\ secrets' = [secrets EXCEPT ![k] =
                     IF @ # Nil THEN Nil
                     ELSE [owner |-> Nil, type |-> FALSE, basic |-> FALSE,
                           labels |-> labels, expires |-> 0]]
    /\ UNCHANGED <<tokens, tokenCache, secretCache, queue, timers, worker,
                   active, now, incarnation, faults>>

(* The garbage collector deletes dependents of objects that are gone.      *)
CollectGarbage(k) ==
    /\ secrets[k] # Nil /\ secrets[k].owner # Nil
    /\ ~ Owned(secrets[k].owner.token, k)
    /\ secrets' = [secrets EXCEPT ![k] = Nil]
    /\ UNCHANGED <<tokens, tokenCache, secretCache, queue, timers, worker,
                   active, now, incarnation, faults, meddles>>

Tick ==
    /\ now < MaxTime /\ now' = now + 1
    /\ UNCHANGED <<tokens, secrets, tokenCache, secretCache, queue, timers,
                   worker, active, incarnation, faults, meddles>>

----------------------------------------------------------------------------
(* Informers and the workqueue.                                            *)

(* GenerationChangedPredicate: creations and deletions pass, updates only  *)
(* when the generation differs, so that status writes do not re-enqueue.   *)
Passes(old, new) == old = Nil \/ new = Nil \/ old.generation # new.generation

Recreated(old, new) == old # Nil /\ new # Nil /\ old.uid # new.uid

(* When an object was deleted and created anew, the watch delivers the     *)
(* deletion and the creation, which pass.  The list after a watch broke    *)
(* makes a single update of them, which need not.                          *)
SyncToken(t) ==
    LET old == tokenCache[t]
        new == tokens[t]
    IN  /\ old # new /\ tokenCache' = [tokenCache EXCEPT ![t] = new]
        /\ \E relisted \in {FALSE, Relists} :
             queue' = IF Passes(old, new) \/ (Recreated(old, new) /\ ~ relisted)
                      THEN queue \cup {t} ELSE queue
        /\ UNCHANGED <<tokens, secrets, secretCache, timers, worker, active,
                       now, incarnation, faults, meddles>>

(* The controller does not watch Secrets: their cache only serves Get.     *)
SyncSecret(k) ==
    /\ secretCache[k] # secrets[k]
    /\ secretCache' = [secretCache EXCEPT ![k] = secrets[k]]
    /\ UNCHANGED <<tokens, secrets, tokenCache, queue, timers, worker, active,
                   now, incarnation, faults, meddles>>

TimerFires(t) ==
    /\ t \in timers
    /\ timers' = timers \ {t} /\ queue' = queue \cup {t}
    /\ UNCHANGED <<tokens, secrets, tokenCache, secretCache, worker, active,
                   now, incarnation, faults, meddles>>

(* A change of the App t refers to: mapAppToTokens lists from the cache.   *)
AppEvent(t) ==
    /\ tokenCache[t] # Nil /\ t \notin queue
    /\ meddles < MaxMeddles /\ meddles' = meddles + 1
    /\ queue' = queue \cup {t}
    /\ UNCHANGED <<tokens, secrets, tokenCache, secretCache, timers, worker,
                   active, now, incarnation, faults>>

(* How a reconciliation ends: with an error, the key returns to the queue  *)
(* (rate-limited); with a delay, it gets a timer; with neither, nothing.   *)
Goto(t, w) == worker' = [worker EXCEPT ![t] = w] /\ UNCHANGED <<queue, timers>>

\* Mutant: the error is swallowed.
Swallow(t) == Goto(t, IdleWorker)

Error(t) ==
    /\ worker' = [worker EXCEPT ![t] = IdleWorker]
    /\ queue' = queue \cup {t} /\ UNCHANGED timers

\* Mutant: Requeue instead of RequeueAfter.
RequeueNow(t, positive) == Error(t)

(* Result{RequeueAfter: d}: d = 0 is no requeue at all.                    *)
RequeueAfter(t, positive) ==
    /\ worker' = [worker EXCEPT ![t] = IdleWorker]
    /\ timers' = IF positive THEN timers \cup {t} ELSE timers
    /\ UNCHANGED queue

----------------------------------------------------------------------------
(* reconcileTokenLike up to tokenSecret.Reconcile.                         *)

Environment == <<tokenCache, secretCache, now, incarnation, meddles>>

Take(t) == t \in queue /\ worker[t].pc = "idle" /\ queue' = queue \ {t}

StartGone(t) ==
    /\ Take(t) /\ tokenCache[t] = Nil
    /\ UNCHANGED <<tokens, secrets, timers, worker, active, faults, Environment>>

(* resolveApp fails; the condition is written unless it is there already.  *)
StartAppUnavailable(t) ==
    /\ Outages /\ Take(t) /\ tokenCache[t] # Nil /\ (Quiet => EditSeen(t))
    /\ \E failure \in AppFailures :
         IF StatusChanged(tokenCache[t], failure)
         THEN /\ worker' = [worker EXCEPT ![t] =
                   [IdleWorker EXCEPT !.pc = "appFailure", !.owner = tokenCache[t],
                                      !.cond = failure]]
              /\ UNCHANGED timers
         ELSE timers' = timers \cup {t} /\ UNCHANGED worker
    /\ UNCHANGED <<tokens, secrets, active, faults, Environment>>

Start(t) ==
    LET owner == tokenCache[t]
        stale == owner.managed # Nil /\ ~ MatchesSpec(owner)
    IN  /\ Take(t) /\ owner # Nil /\ (Quiet => EditSeen(t))
        /\ worker' = [worker EXCEPT ![t] =
             [IdleWorker EXCEPT !.pc = IF stale THEN "lookup" ELSE "get",
                                !.owner = owner]]
        /\ UNCHANGED <<tokens, secrets, timers, active, faults, Environment>>

----------------------------------------------------------------------------
(* The effects of the calls on the API server, when it accepts them.       *)

DeleteApplies(t) ==
    LET k == worker[t].owner.managed.key IN
    /\ worker[t].pc = "delete" /\ secrets[k] # Nil
    /\ secrets' = [secrets EXCEPT ![k] = Nil] /\ UNCHANGED tokens

CreateApplies(t) ==
    LET w == worker[t]
        k == w.owner.spec.key
    IN  /\ w.pc = "create" /\ secrets[k] = Nil
        /\ secrets' = [secrets EXCEPT ![k] = NewSecret(t, w.owner, w.expires)]
        /\ UNCHANGED tokens

\* Mutants: an Update without a resourceVersion; the new installation token
\* does not reach the Secret.
UpdateAnyVersion(t) ==
    LET w == worker[t]
        k == w.owner.spec.key
    IN  /\ w.pc = "update" /\ secrets[k] # Nil
        /\ secrets' = [secrets EXCEPT ![k] =
             [w.secret EXCEPT !.basic = w.owner.spec.basic, !.expires = w.expires]]
        /\ UNCHANGED tokens

UpdateKeepsData(t) ==
    LET w == worker[t]
        k == w.owner.spec.key
    IN  /\ w.pc = "update" /\ secrets[k] = w.secret
        /\ UNCHANGED <<secrets, tokens>>

(* UpdateSecret replaces Data alone: type, labels and owner stay.          *)
UpdateApplies(t) ==
    LET w == worker[t]
        k == w.owner.spec.key
    IN  /\ w.pc = "update" /\ secrets[k] = w.secret
        /\ secrets' = [secrets EXCEPT ![k] =
             [w.secret EXCEPT !.basic = w.owner.spec.basic, !.expires = w.expires]]
        /\ UNCHANGED tokens

StatusApplies(t) ==
    LET w == worker[t] IN
    /\ w.pc = "write" /\ tokens[t] = w.owner /\ StatusChanged(w.owner, w.cond)
    /\ tokens' = [tokens EXCEPT ![t] = Mutated(w.owner, w.cond, w.expires)]
    /\ UNCHANGED secrets

AppFailureApplies(t) ==
    /\ worker[t].pc = "appFailure" /\ tokens[t] = worker[t].owner
    /\ tokens' = [tokens EXCEPT ![t].ready = worker[t].cond]
    /\ UNCHANGED secrets

ApiCall == {"delete", "create", "update", "write", "appFailure"}

(* The server refuses the call: NotFound, AlreadyExists or Conflict.       *)
Refused(t) ==
    LET w == worker[t] IN
    \/ w.pc = "delete" /\ secrets[w.owner.managed.key] = Nil
    \/ w.pc = "create" /\ secrets[w.owner.spec.key] # Nil
    \/ w.pc = "update" /\ secrets[w.owner.spec.key] # w.secret
    \/ w.pc = "appFailure" /\ tokens[t] # w.owner

----------------------------------------------------------------------------
(* Steps of the worker.                                                    *)

(* Marks of the tokens.active gauge; to mark or unmark twice does nothing. *)
EnsureTokenActive(t) == active' = active \cup {t}
RemoveTokenActive(t) == active' = active \ {t}

(* The status write of reconcileTokenLike: no retry, then 30 seconds.      *)
WriteAppFailure(t) ==
    /\ AppFailureApplies(t) /\ RequeueAfter(t, TRUE)
    /\ UNCHANGED <<active, faults, Environment>>

(* DeleteSecret: the cached Get and the ownership check.                   *)
LookupManaged(t) ==
    LET w == worker[t]
        s == secretCache[w.owner.managed.key]
    IN  /\ w.pc = "lookup"
        /\ Goto(t, IF IsControlledBy(s, t, w.owner)
                   THEN [w EXCEPT !.pc = "delete"] ELSE [w EXCEPT !.pc = "get"])
        /\ UNCHANGED <<tokens, secrets, active, faults, Environment>>

DeleteSecret(t) ==
    /\ DeleteApplies(t)
    /\ RemoveTokenActive(t)
    /\ Goto(t, [worker[t] EXCEPT !.pc = "refresh", !.cond = "Reconciling"])
    /\ UNCHANGED <<faults, Environment>>

\* Mutants: a Secret of the name is updated whoever controls it; the owner is
\* known by its name alone.
GetUnchecked(t) ==
    LET w == worker[t] IN
    /\ w.pc = "get"
    /\ Goto(t, [w EXCEPT !.pc = "mint", !.secret = secretCache[w.owner.spec.key],
                         !.cond = "None", !.tries = 0])
    /\ UNCHANGED <<tokens, secrets, active, faults, Environment>>

GetByOwnerName(t) ==
    LET w == worker[t]
        s == secretCache[w.owner.spec.key]
    IN  /\ w.pc = "get"
        /\ Goto(t, IF s = Nil \/ (s.owner # Nil /\ s.owner.token = t)
                   THEN [w EXCEPT !.pc = "mint", !.secret = s,
                                  !.cond = "None", !.tries = 0]
                   ELSE [w EXCEPT !.pc = "refresh", !.cond = "Failed", !.tries = 0])
        /\ UNCHANGED <<tokens, secrets, active, faults, Environment>>

(* Reconcile: the cached Get of the desired Secret decides the path.       *)
GetSecret(t) ==
    LET w == worker[t]
        s == secretCache[w.owner.spec.key]
    IN  /\ w.pc = "get"
        /\ Goto(t, IF s = Nil \/ IsControlledBy(s, t, w.owner)
                   THEN [w EXCEPT !.pc = "mint", !.secret = s,
                                  !.cond = "None", !.tries = 0]
                   ELSE [w EXCEPT !.pc = "refresh", !.cond = "Failed", !.tries = 0])
        /\ UNCHANGED <<tokens, secrets, active, faults, Environment>>

Mint(t) ==
    LET w == worker[t] IN
    /\ w.pc = "mint"
    /\ Goto(t, [w EXCEPT !.pc = IF w.secret = Nil THEN "create" ELSE "update",
                         !.expires = now + TokenValidity])
    /\ UNCHANGED <<tokens, secrets, active, faults, Environment>>

(* Transient: RetryInterval; fatal: an error.  Neither writes a status.    *)
MintFails(t) ==
    /\ Outages /\ worker[t].pc = "mint"
    /\ (RequeueAfter(t, worker[t].owner.spec.retries) \/ Error(t))
    /\ UNCHANGED <<tokens, secrets, active, faults, Environment>>

CreateSecret(t) ==
    /\ CreateApplies(t)
    /\ Goto(t, [worker[t] EXCEPT !.pc = "refresh", !.cond = "Created"])
    /\ UNCHANGED <<active, faults, Environment>>

UpdateSecret(t) ==
    /\ UpdateApplies(t)
    /\ Goto(t, [worker[t] EXCEPT !.pc = "refresh", !.cond = "Updated", !.secret = Nil])
    /\ UNCHANGED <<active, faults, Environment>>

CallRefused(t) ==
    /\ Refused(t) /\ Error(t)
    /\ UNCHANGED <<tokens, secrets, active, faults, Environment>>

(* UpdateTokenStatus: the cached Get replaces the owner, spec included.    *)
RefreshOwner(t) ==
    /\ worker[t].pc = "refresh"
    /\ IF tokenCache[t] = Nil THEN Error(t)
       ELSE Goto(t, [worker[t] EXCEPT !.pc = "write", !.owner = tokenCache[t]])
    /\ UNCHANGED <<tokens, secrets, active, faults, Environment>>

\* Mutant: the ownership mismatch is not an error.
StatusDoneQuietly(t) ==
    LET w == worker[t] IN
    \/ /\ w.cond = "Reconciling"
       /\ Goto(t, [w EXCEPT !.pc = "get", !.owner = Mutated(@, w.cond, w.expires)])
       /\ UNCHANGED active
    \/ /\ w.cond = "Failed" /\ Goto(t, IdleWorker) /\ UNCHANGED active
    \/ /\ w.cond \in ReadyTrue /\ RequeueAfter(t, w.owner.spec.refreshes)
       /\ EnsureTokenActive(t)

(* What follows UpdateTokenStatus, in Reconcile.                           *)
StatusDone(t) ==
    LET w == worker[t] IN
    \/ /\ w.cond = "Reconciling"
       /\ Goto(t, [w EXCEPT !.pc = "get", !.owner = Mutated(@, w.cond, w.expires)])
       /\ UNCHANGED active
    \/ /\ w.cond = "Failed" /\ Error(t) /\ UNCHANGED active
    \/ /\ w.cond \in ReadyTrue /\ RequeueAfter(t, w.owner.spec.refreshes)
       /\ EnsureTokenActive(t)

WriteStatus(t) ==
    /\ StatusApplies(t) /\ StatusDone(t)
    /\ UNCHANGED <<faults, Environment>>

StatusUnchanged(t) ==
    /\ worker[t].pc = "write" /\ ~ StatusChanged(worker[t].owner, worker[t].cond)
    /\ StatusDone(t)
    /\ UNCHANGED <<tokens, secrets, faults, Environment>>

(* RetryOnConflict starts over from the cached Get; NotFound ends it.      *)
StatusConflict(t) ==
    LET w == worker[t] IN
    /\ w.pc = "write" /\ StatusChanged(w.owner, w.cond) /\ tokens[t] # w.owner
    /\ IF tokens[t] # Nil /\ w.tries + 1 < MaxTries
       THEN Goto(t, [w EXCEPT !.pc = "refresh", !.tries = @ + 1])
       ELSE Error(t)
    /\ UNCHANGED <<tokens, secrets, active, faults, Environment>>

----------------------------------------------------------------------------
(* Faults.  A call fails without effect, or takes effect and its response  *)
(* is lost: either way the worker sees an error.                           *)
Fault == faults < MaxFaults /\ faults' = faults + 1

CallFails(t) ==
    /\ Fault /\ worker[t].pc \in ApiCall /\ Error(t)
    /\ UNCHANGED <<tokens, secrets, active, Environment>>

ResponseLost(t) ==
    /\ Fault
    /\ \/ DeleteApplies(t) \/ CreateApplies(t) \/ UpdateApplies(t)
       \/ StatusApplies(t) \/ AppFailureApplies(t)
    /\ Error(t)
    /\ UNCHANGED <<active, Environment>>

(* The process dies; its successor lists every object into new caches and  *)
(* enqueues all of them.                                                   *)
Restart ==
    /\ Fault
    /\ worker' = [t \in Tokens |-> IdleWorker]
    /\ tokenCache' = tokens /\ secretCache' = secrets
    /\ queue' = {t \in Tokens : tokens[t] # Nil}
    /\ timers' = {} /\ active' = {}
    /\ UNCHANGED <<tokens, secrets, now, incarnation, meddles>>

----------------------------------------------------------------------------
WorkerStep(t) ==
    \/ StartGone(t) \/ Start(t) \/ StartAppUnavailable(t) \/ WriteAppFailure(t)
    \/ LookupManaged(t) \/ DeleteSecret(t) \/ GetSecret(t)
    \/ Mint(t) \/ MintFails(t) \/ CreateSecret(t) \/ UpdateSecret(t) \/ CallRefused(t)
    \/ RefreshOwner(t) \/ WriteStatus(t) \/ StatusUnchanged(t) \/ StatusConflict(t)

ClusterStep ==
    \/ \E t \in Tokens : \/ \E spec \in Manifests[t] : CreateToken(t, spec) \/ EditToken(t, spec)
                         \/ DeleteToken(t)
    \/ \E k \in Keys : CollectGarbage(k) \/ \E l \in Labels : Meddle(k, l)
    \/ Tick

Next ==
    \/ ClusterStep
    \/ \E t \in Tokens : WorkerStep(t) \/ CallFails(t) \/ ResponseLost(t)
    \/ \E t \in Tokens : SyncToken(t) \/ TimerFires(t) \/ AppEvent(t)
    \/ \E k \in Keys : SyncSecret(k)
    \/ Restart

Safety == Init /\ [][Next]_vars

(* Workers keep running, informers catch up, delays run out and garbage is *)
(* collected.  GitHub answers again and again, and the App resolves again  *)
(* and again, though either may fail any number of times.                  *)
WeakFairness ==
    /\ \A t \in Tokens : /\ WF_vars(WorkerStep(t)) /\ WF_vars(SyncToken(t))
                         /\ WF_vars(TimerFires(t))
    /\ \A k \in Keys : WF_vars(SyncSecret(k)) /\ WF_vars(CollectGarbage(k))
Fairness == WeakFairness /\ \A t \in Tokens : SF_vars(Start(t)) /\ SF_vars(Mint(t))

Live == Safety /\ Fairness

----------------------------------------------------------------------------
(* An existing Secret changes only when the Token that owns it, in its     *)
(* current incarnation as the server knows it, rotates the credentials;    *)
(* the owner, the type and the labels stay.  UpdateSecret works on a copy  *)
(* checked long before, while Secrets are deleted and taken over.          *)
OverwriteOnlyOwned ==
    [][\A k \in Keys :
         (secrets[k] # Nil /\ secrets'[k] # Nil /\ secrets'[k] # secrets[k]) =>
           \E t \in Tokens :
             /\ worker[t].pc = "update" /\ worker[t].owner.spec.key = k
             /\ secrets[k].owner = Ref(t, worker[t].owner)
             /\ secrets'[k] = [secrets[k] EXCEPT !.basic = secrets'[k].basic,
                                                 !.expires = secrets'[k].expires]]_vars

(* The Secrets as leases of their names, by the incarnations of Tokens.    *)
Leased == [k \in Keys |->
             IF secrets[k] = Nil THEN Nil
             ELSE [holder |-> secrets[k].owner, type |-> secrets[k].type,
                   labels |-> secrets[k].labels, expires |-> secrets[k].expires]]

Lease == INSTANCE SecretLease
    WITH lease <- Leased, time <- now, Holders <- OwnerRef, Validity <- TokenValidity

ASSUME LeaseNil == Nil \notin Lease!Lease

(* Whatever the interleaving, a Secret changes hands only by ceasing to    *)
(* exist, a renewal never shortens what its readers hold, and a worker     *)
(* that minted for a Secret of the past cannot write it into another's.    *)
ImplementsLease == Lease!LeaseSpec

(* A Token owns no Secret that neither its spec nor its status names, so   *)
(* that DeleteSecret can find whatever a rename leaves behind.             *)
NoStraySecret ==
    \A t \in Tokens, k \in Keys : Owned(t, k) =>
        k \in {tokens[t].spec.key, IF tokens[t].managed = Nil
                                   THEN tokens[t].spec.key ELSE tokens[t].managed.key}

(* The type CreateSecret gave a Secret and the shape of the data the last  *)
(* UpdateSecret left in it are of one kind, username and password or token.*)
KindMatches ==
    \A k \in Keys : (secrets[k] # Nil /\ secrets[k].owner # Nil) =>
        secrets[k].type = secrets[k].basic

(* status.installationAccessToken never promises more than the credentials *)
(* in the Secret hold, although the two are written by separate calls.     *)
StatusNeverOverstates ==
    \A t \in Tokens : tokens[t] # Nil /\ tokens[t].managed # Nil =>
        LET k == tokens[t].managed.key IN
        Owned(t, k) => tokens[t].expires <= secrets[k].expires

----------------------------------------------------------------------------
Served(t) ==
    /\ Owned(t, tokens[t].spec.key) /\ MatchesSpec(tokens[t])
    /\ secrets[tokens[t].spec.key].basic = tokens[t].spec.basic

(* The Secret t asks for belongs to somebody else.                         *)
Blocked(t) == LET k == tokens[t].spec.key IN
    /\ tokens[t] # Nil /\ secrets[k] # Nil /\ ~ Owned(t, k)

Quiescent(t) == worker[t].pc = "idle" /\ t \notin queue

(* The cache lags behind for as long as all the attempts of a status write *)
(* take: the reconciliation fails and the status does not name the Secret. *)
RetriesExhausted(t) == StatusConflict(t) /\ worker'[t].pc = "idle"

(* A Token at rest that reports Ready owns the Secret its status names:    *)
(* also when it was deleted and created anew while a worker was about to   *)
(* write the status, or has long waited for the Secret of another.  It     *)
(* takes mints that succeed, Secrets that nobody deletes by name, and a    *)
(* watch that reports the new Token as new (~ Relists).                    *)
ReadyIsTrueAtRest ==
    \A t \in Tokens :
        ( /\ tokens[t] # Nil /\ tokenCache[t] = tokens[t] /\ Quiescent(t)
          /\ tokens[t].ready \in ReadyTrue ) => Owned(t, tokens[t].managed.key)

(* A Token that stays, and whose Secret nobody else holds for ever, in the *)
(* end owns a Secret of the name and with the data its spec asks for, and  *)
(* keeps it: through races, restarts, lost responses and failing mints.    *)
(* Its retry interval must be above zero, or a mint that fails transiently *)
(* is never repeated, and status writes must not exhaust their retries for *)
(* ever; its refresh interval may be zero.  A Token that was recreated     *)
(* while the watch was broken waits for its next event (hence ~ Relists).  *)
EventuallyServed ==
    \A t \in Tokens :
        (/\ <>[](tokens[t] # Nil /\ tokens[t].spec.retries /\ ~ Blocked(t))
         /\ <>[][~ RetriesExhausted(t)]_vars)
        => <>[]Served(t)

(* The controller does not spin: unless mints or status writes fail again  *)
(* and again or the Secret is held by another, each key always comes to    *)
(* rest until its next timer or event, stale caches and conflicts included.*)
(* A delay is longer than a reconciliation, so timers find the key at rest.*)
ComesToRest ==
    \A t \in Tokens :
        (/\ <>[](~ Blocked(t))
         /\ <>[][ /\ ~ MintFails(t) /\ ~ RetriesExhausted(t)
                  /\ TimerFires(t) => Quiescent(t) ]_vars)
        => []<>Quiescent(t)

(* When all Tokens are gone, so are their Secrets: also one whose worker   *)
(* created it after the deletion of its Token.                             *)
NoLeakAfterDeletion ==
    (<>[](\A t \in Tokens : tokens[t] = Nil) /\ [](meddles = 0))
    => <>[](\A k \in Keys : secrets[k] = Nil)

(* t is the only Token left, and its Secret is not a foreign one.          *)
LeftAlone(t) ==
    /\ tokens[t] # Nil /\ \A u \in Tokens \ {t} : tokens[u] = Nil
    /\ LET s == secrets[tokens[t].spec.key] IN s # Nil => s.owner # Nil

(* Tokens that contend for a name: when the others have been deleted, the  *)
(* one that is left gets the Secret, woken by its own errors alone.  (For  *)
(* a Token recreated under a broken watch, as for EventuallyServed.)       *)
HandOver ==
    \A t \in Tokens :
        (<>[]LeftAlone(t) /\ <>[][~ RetriesExhausted(t)]_vars) => <>[]Served(t)

----------------------------------------------------------------------------
(* What the documentation and the messages of the code promise, and the    *)
(* code does not keep.                                                     *)

(* "Name for the Secret managed by this Token": a settled Token owns the   *)
(* Secret of that name and no other.                                       *)
SettledOwnsOneSecret ==
    \A t \in Tokens : Settled(t) =>
        \A k \in Keys : Owned(t, k) => k = tokens[t].spec.key

(* tokens.active is the "Number of currently active tokens": a Token that  *)
(* is gone, and known to be gone, is not counted.                          *)
GaugeCountsExisting ==
    \A t \in active : ~ (tokens[t] = Nil /\ tokenCache[t] = Nil /\ Quiescent(t))
=============================================================================
