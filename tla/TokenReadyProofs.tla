-------------------------- MODULE TokenReadyProofs --------------------------
(***************************************************************************)
(* Proof that a Token at rest which reports Ready owns its Secret, for any *)
(* Tokens, Keys, manifests and bounds; and what this and TokenQuietProofs  *)
(* need to know of the views that server, cache and worker have of a Token.*)
(***************************************************************************)
EXTENDS TokenSecretProofs

(* What a view of a Token says of it whatever its status.                  *)
Id(obj) == [uid |-> obj.uid, generation |-> obj.generation, spec |-> obj.spec]
Views(t) == {Id(obj) : obj \in {tokens[t], tokenCache[t], worker[t].owner} \ {Nil}}

SameVersion(v, w) == v.uid = w.uid /\ v.generation = w.generation

(* A uid is never used again, and generations tell the specs of one        *)
(* incarnation apart, the server having the last of them.                  *)
Lineage(t) ==
    /\ \A v \in Views(t) : v.uid <= incarnation
    /\ tokens[t] # Nil =>
         \A v \in Views(t) : v.uid = tokens[t].uid => v.generation <= tokens[t].generation
    /\ \A v, w \in Views(t) : SameVersion(v, w) => v = w

----------------------------------------------------------------------------
(* Status writes.                                                          *)
Revised(old, new) == \E cond \in Reasons, e \in Nat : new = Mutated(old, cond, e)

LEMMA RevisedKeeps ==
    ASSUME NEW obj \in TokenObject, NEW new, Revised(obj, new)
    PROVE  /\ new \in TokenObject /\ new # Nil /\ Id(new) = Id(obj)
           /\ new.managed \in {obj.managed, SpecOf(obj)}
<1>1. PICK cond \in Reasons, e \in Nat : new = Mutated(obj, cond, e)
  BY DEF Revised
<1>2. new \in TokenObject
  BY <1>1, MutatedType
<1>3. new # Nil
  BY <1>2, NilAssumption
<1>4. CASE cond \in ReadyTrue
  <2>1. new = [obj EXCEPT !.ready = cond, !.expires = e, !.managed = SpecOf(obj)]
    BY <1>1, <1>4 DEF Mutated
  <2> QED BY <1>2, <1>3, <2>1 DEF Id, TokenObject
<1>5. CASE cond \notin ReadyTrue
  <2>1. new = [obj EXCEPT !.ready = cond]
    BY <1>1, <1>5 DEF Mutated
  <2> QED BY <1>2, <1>3, <2>1 DEF Id, TokenObject
<1> QED BY <1>4, <1>5

LEMMA StatusRevises ==
    ASSUME IInv, NEW t \in Tokens, StatusApplies(t) \/ AppFailureApplies(t)
    PROVE  /\ tokens[t] = worker[t].owner /\ tokens[t] \in TokenObject
           /\ Revised(tokens[t], tokens'[t])
           /\ \A u \in Tokens : u # t => tokens'[u] = tokens[u]
<1> DEFINE w == worker[t]
<1>1. tokens \in [Tokens -> TokenObject \cup {Nil}] /\ w \in Worker /\ Good(t, w)
  BY DEF IInv, TypeOK, WorkersGood
<1>2. CASE StatusApplies(t)
  <2>1. tokens[t] = w.owner /\ w.owner \in TokenObject /\ w.cond \in Reasons /\ w.expires \in Nat
    BY <1>1, <1>2 DEF StatusApplies, Good, Worker
  <2>2. tokens' = [tokens EXCEPT ![t] = Mutated(w.owner, w.cond, w.expires)]
    BY <1>2 DEF StatusApplies
  <2>3. tokens'[t] = Mutated(w.owner, w.cond, w.expires)
    BY <1>1, <2>2
  <2> QED BY <1>1, <2>1, <2>2, <2>3 DEF Revised
<1>3. CASE AppFailureApplies(t)
  <2>1. tokens[t] = w.owner /\ w.owner \in TokenObject
    BY <1>1, <1>3 DEF AppFailureApplies, Good
  <2>2. tokens' = [tokens EXCEPT ![t] = [tokens[t] EXCEPT !.ready = w.cond]]
    BY <1>3 DEF AppFailureApplies
  <2>3. w.cond \in Reasons /\ w.cond \notin ReadyTrue
    BY <1>1, <1>3, ReasonsAssumption DEF AppFailureApplies, Good, Reasons, Outcomes, ReadyTrue
  <2>4. tokens'[t] = Mutated(tokens[t], w.cond, 0)
    BY <1>1, <2>2, <2>3 DEF Mutated
  <2> QED BY <1>1, <2>1, <2>2, <2>3, <2>4 DEF Revised
<1> QED BY <1>2, <1>3

----------------------------------------------------------------------------
(* What a step of the worker of t, faults included, does to the views.     *)
Acts(t) == WorkerStep(t) \/ CallFails(t) \/ ResponseLost(t)

LEMMA ActsApart ==
    ASSUME IInv, NEW t \in Tokens, Acts(t)
    PROVE  /\ UNCHANGED <<tokenCache, secretCache, incarnation, now, meddles>>
           /\ UNCHANGED tokens \/ StatusApplies(t) \/ AppFailureApplies(t)
           /\ \A u \in Tokens : u # t => /\ worker'[u] = worker[u] /\ tokens'[u] = tokens[u]
                                         /\ u \in queue' <=> u \in queue
<1>1. UNCHANGED <<tokenCache, secretCache, incarnation, now, meddles>>
  BY DEF Acts, WorkerStep, StartGone, Start, StartAppUnavailable, WriteAppFailure,
     LookupManaged, DeleteSecret, GetSecret, Mint, MintFails, CreateSecret, UpdateSecret,
     CallRefused, RefreshOwner, WriteStatus, StatusUnchanged, StatusConflict,
     CallFails, ResponseLost, Environment
<1>2. UNCHANGED tokens \/ StatusApplies(t) \/ AppFailureApplies(t)
  BY DEF Acts, WorkerStep, StartGone, Start, StartAppUnavailable, WriteAppFailure,
     LookupManaged, DeleteSecret, GetSecret, Mint, MintFails, CreateSecret, UpdateSecret,
     CallRefused, RefreshOwner, WriteStatus, StatusUnchanged, StatusConflict,
     CallFails, ResponseLost, DeleteApplies, CreateApplies, UpdateApplies
<1>3. worker \in [Tokens -> Worker]
  BY DEF IInv, TypeOK
<1>4. ASSUME NEW u \in Tokens, u # t
      PROVE  worker'[u] = worker[u] /\ (u \in queue' <=> u \in queue)
  BY <1>3, <1>4 DEF Acts, WorkerStep, StartGone, Start, StartAppUnavailable, WriteAppFailure,
     LookupManaged, DeleteSecret, GetSecret, Mint, MintFails, CreateSecret, UpdateSecret,
     CallRefused, RefreshOwner, WriteStatus, StatusUnchanged, StatusConflict, StatusDone,
     CallFails, ResponseLost, Take, Goto, Error, RequeueAfter
<1> QED BY <1>1, <1>2, <1>4, StatusRevises

LEMMA OwnerInHand ==
    ASSUME IInv, NEW t \in Tokens, Acts(t)
    PROVE  \/ worker'[t].owner \in {Nil, worker[t].owner, tokenCache[t]}
           \/ worker[t].pc = "write" /\ Revised(worker[t].owner, worker'[t].owner)
<1> DEFINE w == worker[t]
<1>1. worker \in [Tokens -> Worker] /\ w \in Worker
  BY DEF IInv, TypeOK
<1>2. CASE worker'[t] = w \/ Error(t) \/ Requeued(t)
  BY <1>1, <1>2 DEF Error, Requeued, IdleWorker
<1>3. CASE \/ StartGone(t) \/ WriteAppFailure(t) \/ MintFails(t) \/ CallRefused(t)
           \/ CallFails(t) \/ ResponseLost(t)
  BY <1>2, <1>3 DEF StartGone, WriteAppFailure, MintFails, CallRefused, CallFails, ResponseLost,
                    RequeueAfter, Requeued
<1>4. CASE Start(t) \/ StartAppUnavailable(t)
  BY <1>1, <1>4 DEF Start, StartAppUnavailable, IdleWorker
<1>5. CASE LookupManaged(t) \/ DeleteSecret(t) \/ GetSecret(t)
  <2>1. PICK r : Goto(t, r) /\ r.owner = w.owner
    <3> DEFINE s == secretCache[w.owner.spec.key]
               found == [w EXCEPT !.pc = "mint", !.secret = s, !.cond = "None", !.tries = 0]
               foreign == [w EXCEPT !.pc = "refresh", !.cond = "Failed", !.tries = 0]
    <3>1. CASE GetSecret(t)
      <4>1. Goto(t, found) \/ Goto(t, foreign)
        BY <3>1 DEF GetSecret
      <4>2. found.owner = w.owner /\ foreign.owner = w.owner
        BY <1>1 DEF Worker
      <4> QED BY <4>1, <4>2
    <3>2. CASE LookupManaged(t)
      <4>1. Goto(t, [w EXCEPT !.pc = "delete"]) \/ Goto(t, [w EXCEPT !.pc = "get"])
        BY <3>2 DEF LookupManaged
      <4> QED BY <1>1, <4>1 DEF Worker
    <3>3. CASE DeleteSecret(t)
      <4> DEFINE d == [w EXCEPT !.pc = "refresh", !.cond = "Reconciling"]
      <4>1. Goto(t, d)
        BY <3>3 DEF DeleteSecret
      <4>2. d.owner = w.owner
        BY <1>1 DEF Worker
      <4> QED BY <4>1, <4>2
    <3> QED BY <1>5, <3>1, <3>2, <3>3
  <2> QED BY <1>1, <2>1 DEF Goto
<1>6. CASE Mint(t) \/ CreateSecret(t) \/ UpdateSecret(t)
  BY <1>1, <1>6 DEF Mint, CreateSecret, UpdateSecret, Goto, Worker
<1>7. CASE RefreshOwner(t) \/ StatusConflict(t)
  BY <1>1, <1>2, <1>7 DEF RefreshOwner, StatusConflict, Goto, Worker
<1>8. CASE WriteStatus(t) \/ StatusUnchanged(t)
  <2> DEFINE m == Mutated(w.owner, w.cond, w.expires)
  <2>1. \/ Error(t) \/ Requeued(t)
        \/ worker' = [worker EXCEPT ![t] = [w EXCEPT !.pc = "get", !.owner = m]]
    BY <1>8 DEF WriteStatus, StatusUnchanged, StatusDone, Goto, RequeueAfter, Requeued
  <2>2. w.pc = "write" /\ w.cond \in Reasons /\ w.expires \in Nat
    BY <1>1, <1>8 DEF WriteStatus, StatusApplies, StatusUnchanged, Worker
  <2>3. Revised(w.owner, m)
    BY <2>2 DEF Revised
  <2> HIDE DEF m
  <2> QED BY <1>1, <1>2, <2>1, <2>2, <2>3 DEF Worker
<1> QED BY <1>3, <1>4, <1>5, <1>6, <1>7, <1>8 DEF Acts, WorkerStep

----------------------------------------------------------------------------
(* Steps after which no version of t is known that was not known before.   *)
NoNews(t) ==
    /\ incarnation' \in Nat /\ incarnation' >= incarnation
    /\ tokens'[t] # Nil => tokens[t] # Nil /\ Id(tokens'[t]) = Id(tokens[t])
    /\ tokenCache'[t] # Nil => Id(tokenCache'[t]) \in Views(t)
    /\ worker'[t].owner # Nil => Id(worker'[t].owner) \in Views(t)

LEMMA InView ==
    ASSUME NEW t \in Tokens
    PROVE  /\ tokens[t] # Nil => Id(tokens[t]) \in Views(t)
           /\ tokenCache[t] # Nil => Id(tokenCache[t]) \in Views(t)
           /\ worker[t].owner # Nil => Id(worker[t].owner) \in Views(t)
<1>1. \A obj \in {tokens[t], tokenCache[t], worker[t].owner} \ {Nil} : Id(obj) \in Views(t)
  BY DEF Views
<1> QED BY <1>1

LEMMA NoNewViews ==
    ASSUME NEW t \in Tokens, NoNews(t)
    PROVE  Views(t)' \subseteq Views(t)
<1>1. tokens[t] # Nil => Id(tokens[t]) \in Views(t)
  BY InView
<1>2. Views(t)' = {Id(obj) : obj \in {tokens'[t], tokenCache'[t], worker'[t].owner} \ {Nil}}
  BY DEF Views
<1>3. ASSUME NEW obj \in {tokens'[t], tokenCache'[t], worker'[t].owner}, obj # Nil
      PROVE  Id(obj) \in Views(t)
  <2>1. CASE obj = tokens'[t]
    BY <1>1, <1>3, <2>1 DEF NoNews
  <2>2. CASE obj = tokenCache'[t]
    BY <1>3, <2>2 DEF NoNews
  <2>3. CASE obj = worker'[t].owner
    BY <1>3, <2>3 DEF NoNews
  <2> QED BY <1>3, <2>1, <2>2, <2>3
<1> QED BY <1>2, <1>3

LEMMA ViewType ==
    ASSUME IInv, NEW t \in Tokens, NEW v \in Views(t)
    PROVE  v.uid \in Nat /\ v.generation \in Nat
<1>1. PICK obj \in {tokens[t], tokenCache[t], worker[t].owner} \ {Nil} : v = Id(obj)
  BY DEF Views
<1>2. obj \in TokenObject
  BY DEF IInv, TypeOK, Worker
<1> QED BY <1>1, <1>2 DEF Id, TokenObject

LEMMA NoNewsKeepsLineage ==
    ASSUME IInv, NEW t \in Tokens, Lineage(t), NoNews(t)
    PROVE  Lineage(t)'
<1>1. Views(t)' \subseteq Views(t)
  BY NoNewViews
<1>2. ASSUME NEW v \in Views(t)'
      PROVE  v.uid <= incarnation'
  <2>1. v.uid \in Nat /\ v.uid <= incarnation /\ incarnation \in Nat
    BY <1>1, ViewType DEF Lineage, IInv, TypeOK
  <2> QED BY <2>1 DEF NoNews
<1>3. ASSUME tokens'[t] # Nil
      PROVE  /\ tokens[t] # Nil /\ tokens'[t].uid = tokens[t].uid
             /\ tokens'[t].generation = tokens[t].generation
  BY <1>3 DEF NoNews, Id
<1> QED BY <1>1, <1>2, <1>3 DEF Lineage, SameVersion

LEMMA ActsNoNews ==
    ASSUME IInv, NEW t \in Tokens, Acts(t), NEW u \in Tokens
    PROVE  NoNews(u)
<1>1. /\ UNCHANGED <<tokenCache, incarnation>>
      /\ u # t => worker'[u] = worker[u] /\ tokens'[u] = tokens[u]
  BY ActsApart
<1>2. tokens'[u] # Nil => tokens[u] # Nil /\ Id(tokens'[u]) = Id(tokens[u])
  <2>1. CASE StatusApplies(t) \/ AppFailureApplies(t)
    <3>1. tokens[t] \in TokenObject /\ Revised(tokens[t], tokens'[t])
      BY <2>1, StatusRevises
    <3>2. Id(tokens'[t]) = Id(tokens[t]) /\ tokens[t] # Nil
      BY <3>1, RevisedKeeps, NilAssumption
    <3> QED BY <1>1, <3>2
  <2> QED BY <2>1, ActsApart
<1>3. worker'[u].owner # Nil => Id(worker'[u].owner) \in Views(u)
  <2>1. CASE u # t
    BY <1>1, <2>1, InView
  <2>2. CASE worker'[t].owner \in {Nil, worker[t].owner, tokenCache[t]} /\ u = t
    BY <2>2, InView
  <2>3. CASE worker[t].pc = "write" /\ Revised(worker[t].owner, worker'[t].owner) /\ u = t
    <3>1. worker[t].owner \in TokenObject
      BY <2>3 DEF IInv, WorkersGood, Good
    <3>2. Id(worker'[t].owner) = Id(worker[t].owner) /\ worker[t].owner # Nil
      BY <2>3, <3>1, RevisedKeeps, NilAssumption
    <3> QED BY <2>3, <3>2, InView
  <2> QED BY <2>1, <2>2, <2>3, OwnerInHand
<1>4. incarnation' \in Nat /\ incarnation' >= incarnation
  BY <1>1 DEF IInv, TypeOK
<1> QED BY <1>1, <1>2, <1>3, <1>4, InView DEF NoNews

----------------------------------------------------------------------------
(* The steps that make a new version of t.                                 *)
LEMMA CreateLineage ==
    ASSUME IInv, NEW t \in Tokens, NEW spec \in Manifests[t], CreateToken(t, spec), Lineage(t)
    PROVE  /\ Lineage(t)' /\ tokens'[t].uid = incarnation + 1
           /\ \A v \in Views(t) : v.uid < tokens'[t].uid
           /\ \A v \in Views(t)' : v = Id(tokens'[t]) \/ v \in Views(t)
<1> DEFINE new == Id(tokens'[t])
<1>1. /\ incarnation \in Nat /\ incarnation' = incarnation + 1
      /\ tokens[t] = Nil /\ tokens'[t].uid = incarnation + 1 /\ tokens'[t].generation = 1
      /\ UNCHANGED <<tokenCache, worker>>
  BY DEF IInv, TypeOK, CreateToken
<1>2. \A v \in Views(t)' : v = new \/ v \in Views(t)
  BY <1>1 DEF Views
<1>3. \A v \in Views(t) : v.uid \in Nat /\ v.uid < incarnation + 1
  BY <1>1, ViewType DEF Lineage
<1>4. new.uid = incarnation + 1 /\ new.generation = 1
  BY <1>1 DEF Id
<1> HIDE DEF new
<1>5. Lineage(t)'
  <2>1. \A v \in Views(t)' : v.uid <= incarnation'
    BY <1>1, <1>2, <1>3, <1>4
  <2>2. \A v \in Views(t)' : v.uid = tokens'[t].uid => v.generation <= tokens'[t].generation
    BY <1>1, <1>2, <1>3, <1>4
  <2>3. \A v, w \in Views(t)' : SameVersion(v, w) => v = w
    BY <1>1, <1>2, <1>3, <1>4 DEF Lineage, SameVersion
  <2> QED BY <2>1, <2>2, <2>3 DEF Lineage
<1> QED BY <1>1, <1>2, <1>3, <1>5 DEF new

LEMMA EditLineage ==
    ASSUME IInv, NEW t \in Tokens, NEW spec \in Manifests[t], EditToken(t, spec), Lineage(t)
    PROVE  Lineage(t)'
<1> DEFINE new == Id(tokens'[t])
<1>1. /\ tokens[t] # Nil /\ tokens[t] \in TokenObject
      /\ tokens'[t] = [tokens[t] EXCEPT !.spec = spec, !.generation = tokens[t].generation + 1]
      /\ UNCHANGED <<tokenCache, worker, incarnation>>
  BY DEF IInv, TypeOK, EditToken
<1>2. \A v \in Views(t)' : v = new \/ v \in Views(t)
  BY <1>1 DEF Views
<1>3. /\ tokens'[t].uid = tokens[t].uid /\ new.uid = tokens[t].uid
      /\ tokens'[t].generation = tokens[t].generation + 1
      /\ new.generation = tokens[t].generation + 1 /\ tokens[t].generation \in Nat
  BY <1>1 DEF Id, TokenObject
<1>4. \A v \in Views(t) : /\ v.generation \in Nat /\ v.uid <= incarnation
                          /\ v.uid = tokens[t].uid => v.generation <= tokens[t].generation
  BY <1>1, ViewType DEF Lineage
<1>5. Id(tokens[t]) \in Views(t) /\ Id(tokens[t]).uid = tokens[t].uid
  BY <1>1, InView DEF Id
<1> HIDE DEF new
<1>6. \A v \in Views(t)' : v.uid <= incarnation'
  BY <1>1, <1>2, <1>3, <1>4, <1>5
<1>7. \A v \in Views(t)' : v.uid = tokens'[t].uid => v.generation <= tokens'[t].generation
  BY <1>2, <1>3, <1>4
<1>8. \A v, w \in Views(t)' : SameVersion(v, w) => v = w
  BY <1>2, <1>3, <1>4 DEF Lineage, SameVersion
<1> QED BY <1>6, <1>7, <1>8 DEF Lineage

LEMMA OthersNoNews ==
    ASSUME IInv, NEW u \in Tokens,
           \/ \E t \in Tokens, spec \in Spec : t # u /\ (CreateToken(t, spec) \/ EditToken(t, spec))
           \/ \E t \in Tokens : \/ DeleteToken(t) \/ SyncToken(t) \/ TimerFires(t) \/ AppEvent(t)
           \/ \E k \in Keys : CollectGarbage(k) \/ SyncSecret(k) \/ \E l \in Labels : Meddle(k, l)
           \/ Tick \/ Restart
    PROVE  NoNews(u)
<1>1. /\ tokens \in [Tokens -> TokenObject \cup {Nil}] /\ incarnation \in Nat
      /\ tokenCache \in [Tokens -> TokenObject \cup {Nil}]
  BY DEF IInv, TypeOK
<1> DEFINE Held == /\ incarnation' \in Nat /\ incarnation' >= incarnation
                   /\ tokens'[u] \in {tokens[u], Nil}
                   /\ tokenCache'[u] \in {tokens[u], tokenCache[u]}
                   /\ worker'[u] \in {worker[u], IdleWorker}
<1>2. Held
  <2>1. ASSUME NEW t \in Tokens, NEW spec \in Spec, t # u, CreateToken(t, spec) \/ EditToken(t, spec)
        PROVE  Held
    BY <1>1, <2>1 DEF CreateToken, EditToken
  <2>2. ASSUME NEW t \in Tokens, DeleteToken(t) \/ SyncToken(t) \/ TimerFires(t) \/ AppEvent(t)
        PROVE  Held
    BY <1>1, <2>2 DEF DeleteToken, SyncToken, TimerFires, AppEvent
  <2>3. ASSUME NEW k \in Keys, \/ CollectGarbage(k) \/ SyncSecret(k)
                               \/ \E l \in Labels : Meddle(k, l)
        PROVE  Held
    BY <1>1, <2>3 DEF CollectGarbage, SyncSecret, Meddle
  <2>4. CASE Tick \/ Restart
    BY <1>1, <2>4 DEF Tick, Restart
  <2> QED BY <2>1, <2>2, <2>3, <2>4
<1> QED BY <1>2, InView DEF NoNews, IdleWorker

LEMMA LineageKept ==
    ASSUME IInv, NEW u \in Tokens, Lineage(u), [Next]_vars
    PROVE  Lineage(u)'
<1>1. ASSUME NoNews(u) PROVE Lineage(u)'
  BY <1>1, NoNewsKeepsLineage
<1>2. CASE UNCHANGED vars
  <2>1. NoNews(u)
    BY <1>2, InView DEF vars, NoNews, IInv, TypeOK
  <2> QED BY <1>1, <2>1
<1>3. ASSUME NEW t \in Tokens, NEW spec \in Manifests[t], CreateToken(t, spec) \/ EditToken(t, spec)
      PROVE  Lineage(u)'
  <2>1. spec \in Spec
    BY ManifestsAssumption
  <2>2. CASE u = t
    BY <1>3, <2>2, CreateLineage, EditLineage
  <2>3. CASE u # t
    BY <1>1, <1>3, <2>1, <2>3, OthersNoNews
  <2> QED BY <2>2, <2>3
<1>4. CASE \E t \in Tokens : WorkerStep(t) \/ CallFails(t) \/ ResponseLost(t)
  BY <1>1, <1>4, ActsNoNews DEF Acts
<1> QED BY <1>1, <1>2, <1>3, <1>4, OthersNoNews DEF Next, ClusterStep

----------------------------------------------------------------------------
(* Steps in which the worker of t deletes a Secret.                        *)
Deletes(t) == DeleteSecret(t) \/ (ResponseLost(t) /\ DeleteApplies(t))

(* A worker never deletes by name a Secret that is not its own any more,   *)
(* or not yet: DeleteSecret checks the owner in the cache, and the server  *)
(* checks nothing.                                                         *)
DeletesOwn ==
    \A t \in Tokens :
        Deletes(t) => IsControlledBy(secrets[worker[t].owner.managed.key], t, worker[t].owner)

(* A worker whose key does not wait works on what the cache has.           *)
Attends(t) ==
    worker[t].pc # "idle" /\ t \notin queue =>
        tokenCache[t] # Nil /\ SameVersion(tokenCache[t], worker[t].owner)

(* A worker about to report Ready has seen to the Secret.                  *)
Backed(t) ==
    LET w == worker[t] IN
    ( /\ w.pc \in {"refresh", "write"} /\ w.cond \in ReadyTrue /\ t \notin queue
      /\ tokens[t] # Nil /\ tokens[t].uid = w.owner.uid ) => Owned(t, w.owner.spec.key)

(* ReadyIsTrueAtRest, also while a status write is on its way to the cache.*)
Truthful(t) ==
    ( /\ Quiescent(t) /\ tokens[t] # Nil /\ tokenCache[t] # Nil
      /\ SameVersion(tokenCache[t], tokens[t]) /\ tokens[t].ready \in ReadyTrue )
    => tokens[t].managed # Nil /\ Owned(t, tokens[t].managed.key)

Available(t) == worker[t].pc # "appFailure"

Ready(t) == Attends(t) /\ Backed(t) /\ Truthful(t) /\ Available(t)

RInv == IInv /\ \A t \in Tokens : Lineage(t) /\ Ready(t)

----------------------------------------------------------------------------
(* Which steps change Secrets, and whose.                                  *)
LEMMA SecretSteps ==
    ASSUME Next, secrets' # secrets
    PROVE  \/ \E k \in Keys : CollectGarbage(k) \/ \E l \in Labels : Meddle(k, l)
           \/ \E t \in Tokens : Acts(t) /\ (Deletes(t) \/ CreateApplies(t) \/ UpdateApplies(t))
<1>1. CASE ClusterStep
  BY <1>1 DEF ClusterStep, CreateToken, EditToken, DeleteToken, Tick
<1>2. ASSUME NEW t \in Tokens, WorkerStep(t)
      PROVE  Deletes(t) \/ CreateApplies(t) \/ UpdateApplies(t)
  BY <1>2 DEF WorkerStep, StartGone, Start, StartAppUnavailable, WriteAppFailure,
     LookupManaged, Deletes, GetSecret, Mint, MintFails, CreateSecret, UpdateSecret,
     CallRefused, RefreshOwner, WriteStatus, StatusUnchanged, StatusConflict,
     AppFailureApplies, StatusApplies
<1>3. ASSUME NEW t \in Tokens, CallFails(t) \/ ResponseLost(t)
      PROVE  Deletes(t) \/ CreateApplies(t) \/ UpdateApplies(t)
  <2>1. DeleteApplies(t) \/ CreateApplies(t) \/ UpdateApplies(t)
    BY <1>3 DEF CallFails, ResponseLost, AppFailureApplies, StatusApplies
  <2>2. CASE ResponseLost(t)
    BY <2>1, <2>2 DEF Deletes
  <2>3. CASE CallFails(t)
    BY <2>3 DEF CallFails
  <2> QED BY <1>3, <2>2, <2>3
<1>4. ASSUME NEW t \in Tokens, SyncToken(t) \/ TimerFires(t) \/ AppEvent(t)
      PROVE  FALSE
  BY <1>4 DEF SyncToken, TimerFires, AppEvent
<1>5. ASSUME NEW k \in Keys, SyncSecret(k)
      PROVE  FALSE
  BY <1>5 DEF SyncSecret
<1>6. CASE Restart
  BY <1>6 DEF Restart
<1> QED BY <1>1, <1>2, <1>3, <1>4, <1>5, <1>6 DEF Next, Acts

(* What an update changes of a Secret.                                     *)
LEMMA UpdateKeepsOwner ==
    ASSUME IInv, NEW t \in Tokens, UpdateApplies(t), NEW k \in Keys
    PROVE  \/ secrets'[k] = secrets[k]
           \/ /\ k = worker[t].owner.spec.key /\ secrets[k] \in SecretObject
              /\ secrets[k].owner = Ref(t, worker[t].owner)
              /\ secrets'[k] = [secrets[k] EXCEPT !.basic = worker[t].owner.spec.basic,
                                                  !.expires = worker[t].expires]
              /\ secrets'[k].owner = secrets[k].owner /\ secrets'[k] # Nil
<1> DEFINE w == worker[t]
           new == [w.secret EXCEPT !.basic = w.owner.spec.basic, !.expires = w.expires]
<1>1. /\ secrets \in [Keys -> SecretObject \cup {Nil}] /\ w \in Worker /\ Good(t, w)
  BY DEF IInv, TypeOK, WorkersGood
<1>2. /\ w.pc = "update" /\ secrets[w.owner.spec.key] = w.secret
      /\ secrets' = [secrets EXCEPT ![w.owner.spec.key] = new]
  BY DEF UpdateApplies
<1>3. /\ w.secret \in SecretObject /\ w.secret.owner = Ref(t, w.owner)
      /\ w.owner \in TokenObject /\ w.expires \in Nat
  BY <1>1, <1>2 DEF Good, Worker
<1>4. new \in SecretObject /\ new.owner = w.secret.owner
  BY <1>3 DEF SecretObject, TokenObject, Spec
<1>5. new # Nil
  BY <1>4, NilAssumption
<1> HIDE DEF new
<1>6. CASE k # w.owner.spec.key
  BY <1>1, <1>2, <1>6
<1>7. CASE k = w.owner.spec.key
  <2>1. secrets'[k] = new /\ secrets[k] = w.secret
    BY <1>1, <1>2, <1>7
  <2> QED BY <1>3, <1>4, <1>5, <1>7, <2>1 DEF new
<1> QED BY <1>6, <1>7

(* The Secret of a Token that stays, and whose own worker does not delete  *)
(* it, stays.                                                              *)
LEMMA OwnedKept ==
    ASSUME IInv, Next, DeletesOwn, MaxMeddles = 0, NEW t \in Tokens, NEW k \in Keys,
           Owned(t, k), ~ Deletes(t), tokens'[t] # Nil, tokens'[t].uid = tokens[t].uid
    PROVE  Owned(t, k)'
<1>1. /\ secrets \in [Keys -> SecretObject \cup {Nil}] /\ meddles \in Nat
      /\ tokens[t] # Nil /\ secrets[k] # Nil
      /\ secrets[k].owner = Ref(t, tokens[t]) /\ secrets[k].owner.token = t
  BY DEF IInv, TypeOK, Owned, IsControlledBy, Ref
<1>2. SUFFICES secrets'[k] # Nil /\ secrets'[k].owner = secrets[k].owner
  BY <1>1 DEF Owned, IsControlledBy, Ref
<1>3. ASSUME NEW j \in Keys, CollectGarbage(j)
      PROVE  secrets'[k] = secrets[k]
  BY <1>1, <1>3 DEF CollectGarbage
<1>4. ASSUME NEW j \in Keys, NEW l \in Labels, Meddle(j, l)
      PROVE  FALSE
  BY <1>1, <1>4 DEF Meddle
<1>5. ASSUME NEW u \in Tokens, Deletes(u)
      PROVE  secrets'[k] = secrets[k]
  <2>1. /\ u # t /\ DeleteApplies(u)
        /\ IsControlledBy(secrets[worker[u].owner.managed.key], u, worker[u].owner)
    BY <1>5 DEF Deletes, DeleteSecret, DeletesOwn
  <2>2. worker[u].owner.managed.key # k
    BY <1>1, <2>1 DEF IsControlledBy, Ref
  <2> QED BY <1>1, <2>1, <2>2 DEF DeleteApplies
<1>6. ASSUME NEW u \in Tokens, CreateApplies(u)
      PROVE  secrets'[k] = secrets[k]
  BY <1>1, <1>6 DEF CreateApplies
<1>7. ASSUME NEW u \in Tokens, UpdateApplies(u)
      PROVE  secrets'[k] # Nil /\ secrets'[k].owner = secrets[k].owner
  BY <1>1, <1>7, UpdateKeepsOwner
<1> QED BY <1>1, <1>3, <1>4, <1>5, <1>6, <1>7, SecretSteps

----------------------------------------------------------------------------
(* The ways a step of the worker of t leaves Ready(t) true.                *)
LEMMA ErrorReady ==
    ASSUME IInv, NEW t \in Tokens, Error(t)
    PROVE  Ready(t)'
<1>1. worker'[t].pc = "idle" /\ t \in queue'
  BY DEF Error, IdleWorker, IInv, TypeOK
<1> QED BY <1>1 DEF Ready, Attends, Backed, Truthful, Quiescent, Available

LEMMA GotoReady ==
    ASSUME IInv, NEW t \in Tokens, NEW w, Goto(t, w), w.pc \notin {"idle", "appFailure"},
           UNCHANGED tokenCache,
           t \notin queue => tokenCache[t] # Nil /\ SameVersion(tokenCache[t], w.owner),
           w.pc \in {"refresh", "write"} /\ w.cond \in ReadyTrue => Backed(t)'
    PROVE  Ready(t)'
<1>1. worker'[t] = w /\ queue' = queue
  BY DEF Goto, IInv, TypeOK
<1> QED BY <1>1 DEF Ready, Attends, Backed, Truthful, Quiescent, Available

(* Between two steps of a reconciliation.                                  *)
LEMMA MidwayReady ==
    ASSUME RInv, NEW t \in Tokens,
           \/ LookupManaged(t) \/ DeleteSecret(t) \/ GetSecret(t) \/ Mint(t)
    PROVE  Ready(t)'
<1> DEFINE w == worker[t]
<1>1. /\ IInv /\ Attends(t) /\ w \in Worker
  BY DEF RInv, Ready, IInv, TypeOK
<1>2. UNCHANGED tokenCache /\ w.pc # "idle"
  BY DEF LookupManaged, DeleteSecret, DeleteApplies, GetSecret, Mint, Environment
<1>3. ASSUME NEW r, Goto(t, r), r.owner = w.owner, r.pc \notin {"idle", "appFailure"},
             r.pc \in {"refresh", "write"} => r.cond \notin ReadyTrue
      PROVE  Ready(t)'
  BY <1>1, <1>2, <1>3, GotoReady DEF Attends
<1>4. CASE LookupManaged(t)
  <2>1. Goto(t, [w EXCEPT !.pc = "delete"]) \/ Goto(t, [w EXCEPT !.pc = "get"])
    BY <1>4 DEF LookupManaged
  <2>2. ASSUME NEW p \in {"delete", "get"}, Goto(t, [w EXCEPT !.pc = p])
        PROVE  Ready(t)'
    <3> DEFINE r == [w EXCEPT !.pc = p]
    <3>1. r.owner = w.owner /\ r.pc = p
      BY <1>1 DEF Worker
    <3> QED BY <1>3, <2>2, <3>1
  <2> QED BY <2>1, <2>2
<1>5. CASE DeleteSecret(t)
  <2> DEFINE r == [w EXCEPT !.pc = "refresh", !.cond = "Reconciling"]
  <2>1. Goto(t, r)
    BY <1>5 DEF DeleteSecret
  <2>2. r.owner = w.owner /\ r.pc = "refresh" /\ r.cond \notin ReadyTrue
    BY <1>1 DEF Worker, ReadyTrue
  <2> QED BY <1>3, <2>1, <2>2
<1>6. CASE GetSecret(t)
  <2> DEFINE s == secretCache[w.owner.spec.key]
             found == [w EXCEPT !.pc = "mint", !.secret = s, !.cond = "None", !.tries = 0]
             foreign == [w EXCEPT !.pc = "refresh", !.cond = "Failed", !.tries = 0]
  <2>1. Goto(t, found) \/ Goto(t, foreign)
    BY <1>6 DEF GetSecret
  <2>2. /\ found.owner = w.owner /\ found.pc = "mint"
        /\ foreign.owner = w.owner /\ foreign.pc = "refresh" /\ foreign.cond \notin ReadyTrue
    BY <1>1 DEF Worker, ReadyTrue
  <2> HIDE DEF found, foreign
  <2> QED BY <1>3, <2>1, <2>2
<1>7. CASE Mint(t)
  <2> DEFINE r == [w EXCEPT !.pc = IF w.secret = Nil THEN "create" ELSE "update",
                            !.expires = now + TokenValidity]
  <2>1. Goto(t, r)
    BY <1>7 DEF Mint
  <2>2. r.owner = w.owner /\ r.pc \in {"create", "update"}
    BY <1>1 DEF Worker
  <2> QED BY <1>3, <2>1, <2>2
<1> QED BY <1>4, <1>5, <1>6, <1>7

(* The Secret is written.                                                  *)
LEMMA SecretReady ==
    ASSUME RInv, NEW t \in Tokens, CreateSecret(t) \/ UpdateSecret(t)
    PROVE  Ready(t)'
<1> DEFINE w == worker[t]
           k == w.owner.spec.key
<1>1. /\ IInv /\ Attends(t) /\ w \in Worker /\ Good(t, w)
      /\ secrets \in [Keys -> SecretObject \cup {Nil}]
  BY DEF RInv, Ready, IInv, TypeOK, WorkersGood
<1>2. /\ UNCHANGED <<tokens, tokenCache>> /\ w.pc \in {"create", "update"}
      /\ CreateApplies(t) \/ UpdateApplies(t)
  BY DEF CreateSecret, CreateApplies, UpdateSecret, UpdateApplies, Environment
<1>3. w.owner \in TokenObject /\ k \in Keys /\ w.expires \in Nat
  BY <1>1, <1>2 DEF Good, TokenObject, Spec, Worker
<1>4. PICK r : /\ Goto(t, r) /\ r.owner = w.owner /\ r.pc = "refresh"
  <2> DEFINE c == [w EXCEPT !.pc = "refresh", !.cond = "Created"]
             u == [w EXCEPT !.pc = "refresh", !.cond = "Updated", !.secret = Nil]
  <2>1. Goto(t, c) \/ Goto(t, u)
    BY DEF CreateSecret, UpdateSecret
  <2>2. c.owner = w.owner /\ c.pc = "refresh" /\ u.owner = w.owner /\ u.pc = "refresh"
    BY <1>1 DEF Worker
  <2> QED BY <2>1, <2>2
<1>5. secrets'[k] # Nil /\ secrets'[k].owner = Ref(t, w.owner)
  <2>1. CASE CreateApplies(t)
    <3>1. secrets'[k] = NewSecret(t, w.owner, w.expires)
      BY <1>1, <1>3, <2>1 DEF CreateApplies
    <3>2. NewSecret(t, w.owner, w.expires) \in SecretObject
      BY <1>3 DEF NewSecret, SecretObject, Ref, OwnerRef, TokenObject, Spec
    <3> QED BY <3>1, <3>2, NilAssumption DEF NewSecret
  <2>2. CASE UpdateApplies(t)
    <3>1. w.secret # Nil /\ w.secret.owner = Ref(t, w.owner) /\ secrets[k] = w.secret
      BY <1>1, <2>2 DEF UpdateApplies, Good
    <3> QED BY <1>1, <1>3, <2>2, <3>1, UpdateKeepsOwner
  <2> QED BY <1>2, <2>1, <2>2
<1>6. Backed(t)'
  <2>1. worker'[t] = r
    BY <1>1, <1>4 DEF Goto, IInv, TypeOK
  <2> QED BY <1>2, <1>4, <1>5, <2>1 DEF Backed, Owned, IsControlledBy, Ref
<1> QED BY <1>1, <1>2, <1>4, <1>6, GotoReady DEF Attends

(* The status is written.                                                  *)
LEMMA RefreshReady ==
    ASSUME RInv, NEW t \in Tokens, RefreshOwner(t)
    PROVE  Ready(t)'
<1> DEFINE w == worker[t]
           r == [w EXCEPT !.pc = "write", !.owner = tokenCache[t]]
<1>1. /\ IInv /\ Lineage(t) /\ Attends(t) /\ Backed(t) /\ w \in Worker /\ Good(t, w)
  BY DEF RInv, Ready, IInv, TypeOK, WorkersGood
<1>2. w.pc = "refresh" /\ w.owner # Nil /\ UNCHANGED <<tokens, secrets, tokenCache>>
  BY <1>1, NilAssumption DEF RefreshOwner, Environment, Good
<1>3. CASE tokenCache[t] = Nil
  BY <1>1, <1>3, ErrorReady DEF RefreshOwner
<1>4. CASE tokenCache[t] # Nil
  <2>1. /\ Goto(t, r) /\ r.owner = tokenCache[t] /\ r.pc = "write" /\ r.cond = w.cond
    BY <1>1, <1>4 DEF RefreshOwner, Worker
  <2>2. worker'[t] = r /\ queue' = queue
    BY <1>1, <2>1 DEF Goto, IInv, TypeOK
  <2> HIDE DEF r
  <2>3. Backed(t)'
    <3> SUFFICES ASSUME w.cond \in ReadyTrue, t \notin queue, tokens[t] # Nil,
                        tokens[t].uid = tokenCache[t].uid
                 PROVE  Owned(t, tokenCache[t].spec.key)'
      BY <1>2, <2>1, <2>2 DEF Backed
    <3>1. SameVersion(tokenCache[t], w.owner)
      BY <1>1, <1>2 DEF Attends
    <3>2. Id(tokenCache[t]) = Id(w.owner)
      <4>1. SameVersion(Id(tokenCache[t]), Id(w.owner))
        BY <3>1 DEF SameVersion, Id
      <4> QED BY <1>1, <1>2, <1>4, <4>1, InView DEF Lineage
    <3>3. tokenCache[t].uid = w.owner.uid /\ tokenCache[t].spec = w.owner.spec
      BY <3>2 DEF Id
    <3>4. Owned(t, w.owner.spec.key)
      BY <1>1, <1>2, <3>3 DEF Backed
    <3> QED BY <1>2, <3>3, <3>4 DEF Owned, IsControlledBy
  <2>4. SameVersion(tokenCache[t], r.owner)
    BY <2>1 DEF SameVersion
  <2> QED BY <1>1, <1>2, <1>4, <2>1, <2>3, <2>4, GotoReady
<1> QED BY <1>3, <1>4

LEMMA StatusReady ==
    ASSUME RInv, NEW t \in Tokens, WriteStatus(t) \/ StatusUnchanged(t)
    PROVE  Ready(t)'
<1> DEFINE w == worker[t]
           m == Mutated(w.owner, w.cond, w.expires)
<1>1. /\ IInv /\ Attends(t) /\ Backed(t) /\ w \in Worker /\ Good(t, w)
      /\ w.pc = "write" /\ w.owner \in TokenObject /\ w.cond \in Reasons /\ w.expires \in Nat
  BY DEF RInv, Ready, IInv, TypeOK, WorkersGood, Worker, Good,
         WriteStatus, StatusApplies, StatusUnchanged
<1>2. UNCHANGED <<secrets, tokenCache>>
  BY DEF WriteStatus, StatusApplies, StatusUnchanged, Environment
<1>3. /\ m.uid = w.owner.uid /\ m.generation = w.owner.generation
      /\ w.cond \in ReadyTrue => m.managed # Nil /\ m.managed.key = w.owner.spec.key
  <2>1. SpecOf(w.owner) # Nil
    BY <1>1, NilAssumption DEF SpecOf, TokenObject, Spec, ManagedSecret
  <2> QED BY <1>1, <2>1 DEF Mutated, TokenObject, SpecOf
<1>4. CASE w.cond = "Reconciling"
  <2> DEFINE g == [w EXCEPT !.pc = "get", !.owner = Mutated(w.owner, w.cond, w.expires)]
  <2>1. Goto(t, g)
    BY <1>4 DEF WriteStatus, StatusUnchanged, StatusDone, ReadyTrue
  <2>2. g.pc = "get" /\ g.owner = m
    <3> HIDE DEF m
    <3>1. g = [w EXCEPT !.pc = "get", !.owner = m]
      BY DEF m
    <3> HIDE DEF g
    <3> QED BY <1>1, <3>1 DEF Worker
  <2> HIDE DEF g, m
  <2>3. t \notin queue => tokenCache[t] # Nil /\ SameVersion(tokenCache[t], g.owner)
    BY <1>1, <1>3, <2>2 DEF Attends, SameVersion
  <2> QED BY <1>1, <1>2, <2>1, <2>2, <2>3, GotoReady
<1>5. CASE w.cond = "Failed"
  <2>1. Error(t)
    BY <1>5 DEF WriteStatus, StatusUnchanged, StatusDone, ReadyTrue
  <2> QED BY <1>1, <2>1, ErrorReady
<1>6. CASE w.cond \in ReadyTrue
  <2>1. StatusApplies(t) /\ Requeued(t)
    BY <1>6 DEF WriteStatus, StatusUnchanged, StatusChanged, StatusDone, ReadyTrue,
                RequeueAfter, Requeued
  <2>2. worker'[t].pc = "idle" /\ queue' = queue
    BY <1>1, <2>1 DEF Requeued, IdleWorker, IInv, TypeOK
  <2>3. tokens[t] = w.owner /\ tokens[t] # Nil /\ tokens'[t] = m
    BY <1>1, <2>1, NilAssumption DEF StatusApplies, IInv, TypeOK
  <2> HIDE DEF m
  <2>4. t \notin queue /\ tokens'[t] # Nil =>
          tokens'[t].managed # Nil /\ Owned(t, tokens[t].managed.key)'
    <3> SUFFICES ASSUME t \notin queue, tokens'[t] # Nil
                 PROVE  tokens'[t].managed # Nil /\ Owned(t, tokens[t].managed.key)'
      OBVIOUS
    <3>1. Owned(t, w.owner.spec.key)
      BY <1>1, <1>6, <2>3 DEF Backed
    <3> QED BY <1>2, <1>3, <1>6, <2>3, <3>1 DEF Owned, IsControlledBy, Ref
  <2> QED BY <2>2, <2>4 DEF Ready, Attends, Backed, Truthful, Quiescent, Available
<1> QED BY <1>4, <1>5, <1>6 DEF WriteStatus, StatusUnchanged, StatusDone

LEMMA ConflictReady ==
    ASSUME RInv, NEW t \in Tokens, StatusConflict(t)
    PROVE  Ready(t)'
<1> DEFINE w == worker[t]
           r == [w EXCEPT !.pc = "refresh", !.tries = w.tries + 1]
<1>1. IInv /\ Attends(t) /\ Backed(t) /\ w \in Worker
  BY DEF RInv, Ready, IInv, TypeOK
<1>2. w.pc = "write" /\ UNCHANGED <<tokens, secrets, tokenCache>>
  BY DEF StatusConflict, Environment
<1>3. CASE Error(t)
  BY <1>1, <1>3, ErrorReady
<1>4. CASE Goto(t, r)
  <2>1. r.owner = w.owner /\ r.pc = "refresh" /\ r.cond = w.cond
    BY <1>1 DEF Worker
  <2>2. worker'[t] = r /\ queue' = queue
    BY <1>1, <1>4 DEF Goto, IInv, TypeOK
  <2> HIDE DEF r
  <2>3. Backed(t)'
    BY <1>1, <1>2, <2>1, <2>2 DEF Backed, Owned
  <2> QED BY <1>1, <1>2, <1>4, <2>1, <2>3, GotoReady DEF Attends
<1> QED BY <1>3, <1>4 DEF StatusConflict

(* A reconciliation starts, or ends early.                                 *)
LEMMA StartReady ==
    ASSUME RInv, NEW t \in Tokens, StartGone(t) \/ Start(t)
    PROVE  Ready(t)'
<1>1. /\ worker \in [Tokens -> Worker] /\ worker[t].pc = "idle" /\ UNCHANGED tokenCache
  BY DEF RInv, IInv, TypeOK, StartGone, Start, Take, Environment
<1>2. CASE StartGone(t)
  BY <1>1, <1>2 DEF StartGone, Ready, Attends, Backed, Truthful, Available
<1>3. CASE Start(t)
  <2>1. /\ tokenCache[t] # Nil /\ worker'[t].owner = tokenCache[t]
        /\ worker'[t].pc \in {"lookup", "get"}
    BY <1>1, <1>3 DEF Start, IdleWorker
  <2> QED BY <1>1, <2>1 DEF Ready, Attends, SameVersion, Backed, Truthful, Quiescent, Available
<1> QED BY <1>2, <1>3

LEMMA OwnReady ==
    ASSUME RInv, NEW t \in Tokens, Acts(t), ~ Outages
    PROVE  Ready(t)'
<1>1. IInv /\ Available(t)
  BY DEF RInv, Ready
<1>2. CASE CallRefused(t) \/ CallFails(t) \/ ResponseLost(t)
  BY <1>1, <1>2, ErrorReady DEF CallRefused, CallFails, ResponseLost
<1>3. ~ StartAppUnavailable(t) /\ ~ MintFails(t) /\ ~ WriteAppFailure(t)
  BY <1>1 DEF StartAppUnavailable, MintFails, WriteAppFailure, AppFailureApplies, Available
<1> QED BY <1>2, <1>3, StartReady, MidwayReady, SecretReady, RefreshReady, StatusReady,
           ConflictReady DEF Acts, WorkerStep

----------------------------------------------------------------------------
(* Steps of anybody but the worker of u.                                   *)
LEMMA AwayReady ==
    ASSUME RInv, Next, DeletesOwn, MaxMeddles = 0, NEW u \in Tokens,
           worker'[u] = worker[u], tokenCache'[u] = tokenCache[u],
           u \in queue => u \in queue', tokens'[u] \in {tokens[u], Nil}
    PROVE  Ready(u)'
<1>1. IInv /\ Attends(u) /\ Backed(u) /\ Truthful(u) /\ Available(u)
  BY DEF RInv, Ready
<1>2. ~ Deletes(u)
  <2>1. worker \in [Tokens -> Worker]
    BY <1>1 DEF IInv, TypeOK
  <2>2. ASSUME Deletes(u) PROVE worker[u].pc = "delete" /\ worker'[u].pc # "delete"
    <3>1. worker[u].pc = "delete"
      BY <2>2 DEF Deletes, DeleteSecret, DeleteApplies
    <3>2. CASE DeleteSecret(u)
      <4> DEFINE r == [worker[u] EXCEPT !.pc = "refresh", !.cond = "Reconciling"]
      <4>1. r.pc = "refresh"
        BY <2>1 DEF Worker
      <4>2. worker'[u] = r
        BY <2>1, <3>2 DEF DeleteSecret, Goto
      <4> QED BY <3>1, <4>1, <4>2
    <3>3. CASE Error(u)
      BY <2>1, <3>1, <3>3 DEF Error, IdleWorker
    <3> QED BY <2>2, <3>2, <3>3 DEF Deletes, ResponseLost
  <2> QED BY <2>2
<1>3. ASSUME NEW k \in Keys, Owned(u, k), tokens'[u] # Nil
      PROVE  Owned(u, k)'
  <2>1. tokens'[u].uid = tokens[u].uid
    BY <1>3
  <2> QED BY <1>1, <1>2, <1>3, <2>1, OwnedKept
<1>4. Backed(u)'
  <2> SUFFICES ASSUME worker[u].pc \in {"refresh", "write"}, worker[u].cond \in ReadyTrue,
                      u \notin queue', tokens'[u] # Nil, tokens'[u].uid = worker[u].owner.uid
               PROVE  Owned(u, worker[u].owner.spec.key)'
    BY DEF Backed
  <2>1. worker[u].owner.spec.key \in Keys
    BY <1>1 DEF IInv, WorkersGood, Good, TokenObject, Spec
  <2>2. Owned(u, worker[u].owner.spec.key)
    BY <1>1 DEF Backed
  <2> QED BY <1>3, <2>1, <2>2
<1>5. Truthful(u)'
  <2> SUFFICES ASSUME Quiescent(u)', tokens'[u] # Nil, tokenCache[u] # Nil,
                      SameVersion(tokenCache[u], tokens[u]), tokens[u].ready \in ReadyTrue
               PROVE  tokens'[u].managed # Nil /\ Owned(u, tokens[u].managed.key)'
    BY DEF Truthful
  <2>1. tokens[u] # Nil /\ tokens'[u] = tokens[u] /\ Quiescent(u)
    BY DEF Quiescent
  <2>2. tokens[u].managed # Nil /\ Owned(u, tokens[u].managed.key)
    BY <1>1, <2>1 DEF Truthful
  <2>3. tokens[u].managed.key \in Keys
    BY <1>1, <2>1, <2>2 DEF IInv, TypeOK, TokenObject, ManagedSecret
  <2> QED BY <1>3, <2>1, <2>2, <2>3
<1> QED BY <1>1, <1>4, <1>5 DEF Ready, Attends, Available

(* Steps of users and of the informer on u itself, and a restart.          *)
LEMMA CreateReady ==
    ASSUME RInv, NEW u \in Tokens, NEW spec \in Manifests[u], CreateToken(u, spec)
    PROVE  Ready(u)'
<1>1. /\ IInv /\ Lineage(u) /\ Attends(u) /\ Available(u)
      /\ UNCHANGED <<worker, queue, tokenCache>>
  BY DEF RInv, Ready, CreateToken
<1>2. \A v \in Views(u) : v.uid < tokens'[u].uid
  BY <1>1, CreateLineage
<1>3. \A obj \in {tokenCache[u], worker[u].owner} : obj # Nil => obj.uid # tokens'[u].uid
  <2>1. \A obj \in {tokenCache[u], worker[u].owner} :
          obj # Nil => Id(obj) \in Views(u) /\ Id(obj).uid = obj.uid
    BY InView DEF Id
  <2>2. \A v \in Views(u) : v.uid # tokens'[u].uid
    BY <1>1, <1>2, ViewType
  <2> QED BY <2>1, <2>2
<1>4. Backed(u)'
  <2>1. worker[u].pc # "idle" => worker[u].owner # Nil
    BY <1>1, NilAssumption DEF IInv, WorkersGood, Good
  <2> QED BY <1>1, <1>3, <2>1 DEF Backed
<1>5. Truthful(u)'
  BY <1>1, <1>3 DEF Truthful, SameVersion
<1> QED BY <1>1, <1>4, <1>5 DEF Ready, Attends, Available

LEMMA EditReady ==
    ASSUME RInv, NEW u \in Tokens, NEW spec \in Manifests[u], EditToken(u, spec)
    PROVE  Ready(u)'
<1>1. /\ IInv /\ Lineage(u) /\ Attends(u) /\ Backed(u) /\ Available(u)
      /\ UNCHANGED <<worker, queue, tokenCache, secrets>>
      /\ tokens[u] # Nil /\ tokens[u] \in TokenObject
      /\ tokens'[u] = [tokens[u] EXCEPT !.spec = spec, !.generation = tokens[u].generation + 1]
  BY DEF RInv, Ready, EditToken, IInv, TypeOK
<1>2. tokens'[u].uid = tokens[u].uid /\ tokens'[u].generation = tokens[u].generation + 1
  BY <1>1 DEF TokenObject
<1>3. Backed(u)'
  BY <1>1, <1>2 DEF Backed, Owned, IsControlledBy, Ref
<1>4. Truthful(u)'
  <2>1. ASSUME tokenCache[u] # Nil, SameVersion(tokenCache[u], tokens'[u])
        PROVE  FALSE
    <3>1. /\ Id(tokenCache[u]) \in Views(u) /\ Id(tokenCache[u]).uid = tokens[u].uid
          /\ Id(tokenCache[u]).generation = tokens[u].generation + 1
      BY <1>2, <2>1, InView DEF Id, SameVersion
    <3>2. Id(tokenCache[u]).generation <= tokens[u].generation
      BY <1>1, <3>1 DEF Lineage
    <3> QED BY <1>1, <3>1, <3>2 DEF TokenObject
  <2> QED BY <1>1, <2>1 DEF Truthful, SameVersion
<1> QED BY <1>1, <1>3, <1>4 DEF Ready, Attends, Available

LEMMA SyncReady ==
    ASSUME RInv, ~ Relists, NEW u \in Tokens, SyncToken(u)
    PROVE  Ready(u)'
<1>1. /\ IInv /\ Attends(u) /\ Backed(u) /\ Truthful(u) /\ Available(u)
      /\ UNCHANGED <<worker, tokens, secrets>> /\ tokenCache'[u] = tokens[u]
  BY DEF RInv, Ready, SyncToken, IInv, TypeOK
<1> DEFINE new == Passes(tokenCache[u], tokens[u]) \/ Recreated(tokenCache[u], tokens[u])
<1>2. queue' = IF new THEN queue \cup {u} ELSE queue
  <2>1. PICK relisted \in {FALSE, Relists} :
          queue' = IF \/ Passes(tokenCache[u], tokens[u])
                      \/ Recreated(tokenCache[u], tokens[u]) /\ ~ relisted
                   THEN queue \cup {u} ELSE queue
    BY DEF SyncToken
  <2>2. ~ relisted
    OBVIOUS
  <2> QED BY <2>1, <2>2
<1>3. CASE new
  BY <1>1, <1>3, <1>2 DEF Ready, Attends, Backed, Truthful, Quiescent, Available
<1>4. CASE ~ new
  <2>1. /\ UNCHANGED queue /\ tokenCache[u] # Nil /\ tokens[u] # Nil
        /\ SameVersion(tokenCache[u], tokens[u])
    BY <1>4, <1>2 DEF Passes, Recreated, SameVersion
  <2>2. Attends(u)'
    BY <1>1, <2>1 DEF Attends, SameVersion
  <2>3. Backed(u)'
    BY <1>1, <2>1 DEF Backed, Owned
  <2>4. Truthful(u)'
    BY <1>1, <2>1 DEF Truthful, Quiescent, Owned
  <2> QED BY <1>1, <2>2, <2>3, <2>4 DEF Ready, Available
<1> QED BY <1>3, <1>4

LEMMA RestartReady ==
    ASSUME Restart, NEW u \in Tokens
    PROVE  Ready(u)'
BY DEF Restart, IdleWorker, Ready, Attends, Backed, Truthful, Quiescent, Available

LEMMA ReadyKept ==
    ASSUME RInv, [Next]_vars, [DeletesOwn]_vars, ~ Outages, ~ Relists, MaxMeddles = 0,
           NEW u \in Tokens
    PROVE  Ready(u)'
<1>1. CASE UNCHANGED vars
  BY <1>1 DEF vars, RInv, Ready, Attends, Backed, Truthful, Quiescent, Available, Owned
<1> SUFFICES ASSUME Next, ~ UNCHANGED vars
             PROVE  Ready(u)'
  BY <1>1
<1>2. IInv /\ DeletesOwn
  BY DEF RInv
<1>3. worker \in [Tokens -> Worker] /\ tokens \in [Tokens -> TokenObject \cup {Nil}]
      /\ tokenCache \in [Tokens -> TokenObject \cup {Nil}]
  BY <1>2 DEF IInv, TypeOK
<1>4. ASSUME NEW t \in Tokens, Acts(t)
      PROVE  Ready(u)'
  <2>1. CASE t = u
    BY <1>4, <2>1, OwnReady
  <2>2. CASE t # u
    <3>1. /\ UNCHANGED tokenCache /\ worker'[u] = worker[u] /\ tokens'[u] = tokens[u]
          /\ u \in queue' <=> u \in queue
      BY <1>2, <1>4, <2>2, ActsApart
    <3> QED BY <1>2, <3>1, AwayReady
  <2> QED BY <2>1, <2>2
<1>5. ASSUME NEW t \in Tokens, NEW spec \in Manifests[t], CreateToken(t, spec) \/ EditToken(t, spec)
      PROVE  Ready(u)'
  <2>1. CASE t = u
    BY <1>5, <2>1, CreateReady, EditReady
  <2>2. CASE t # u
    <3>1. UNCHANGED <<worker, tokenCache, queue>> /\ tokens'[u] = tokens[u]
      BY <1>3, <1>5, <2>2 DEF CreateToken, EditToken
    <3> QED BY <1>2, <3>1, AwayReady
  <2> QED BY <2>1, <2>2
<1>6. ASSUME NEW t \in Tokens, DeleteToken(t) \/ TimerFires(t) \/ AppEvent(t)
      PROVE  Ready(u)'
  <2>1. UNCHANGED <<worker, tokenCache>> /\ queue \subseteq queue' /\ tokens'[u] \in {tokens[u], Nil}
    BY <1>3, <1>6 DEF DeleteToken, TimerFires, AppEvent
  <2> QED BY <1>2, <2>1, AwayReady
<1>7. ASSUME NEW t \in Tokens, SyncToken(t)
      PROVE  Ready(u)'
  <2>1. CASE t = u
    BY <1>7, <2>1, SyncReady
  <2>2. CASE t # u
    <3>1. /\ UNCHANGED <<worker, tokens>> /\ queue \subseteq queue'
          /\ tokenCache'[u] = tokenCache[u]
      BY <1>3, <1>7, <2>2 DEF SyncToken
    <3> QED BY <1>2, <3>1, AwayReady
  <2> QED BY <2>1, <2>2
<1>8. ASSUME NEW k \in Keys, CollectGarbage(k) \/ SyncSecret(k) \/ \E l \in Labels : Meddle(k, l)
      PROVE  Ready(u)'
  <2>1. UNCHANGED <<worker, tokens, tokenCache, queue>>
    BY <1>8 DEF CollectGarbage, SyncSecret, Meddle
  <2> QED BY <1>2, <2>1, AwayReady
<1>9. CASE Tick
  <2>1. UNCHANGED <<worker, tokens, tokenCache, queue>>
    BY <1>9 DEF Tick
  <2> QED BY <1>2, <2>1, AwayReady
<1> QED BY <1>4, <1>5, <1>6, <1>7, <1>8, <1>9, RestartReady DEF Next, ClusterStep, Acts

----------------------------------------------------------------------------
LEMMA ReadyInitial == Init => RInv
<1> SUFFICES ASSUME Init PROVE RInv
  OBVIOUS
<1>1. IInv
  BY Initial
<1>2. ASSUME NEW t \in Tokens PROVE Lineage(t) /\ Ready(t)
  <2>1. tokens[t] = Nil /\ tokenCache[t] = Nil /\ worker[t] = IdleWorker
    BY DEF Init
  <2>2. Views(t) = {}
    BY <2>1 DEF Views, IdleWorker
  <2> QED BY <2>1, <2>2 DEF IdleWorker, Lineage, Ready, Attends, Backed, Truthful, Available
<1> QED BY <1>1, <1>2 DEF RInv

LEMMA ReadyInductive ==
    ASSUME ~ Outages, ~ Relists, MaxMeddles = 0
    PROVE  RInv /\ [Next]_vars /\ [DeletesOwn]_vars => RInv'
<1> SUFFICES ASSUME RInv, [Next]_vars, [DeletesOwn]_vars PROVE RInv'
  OBVIOUS
<1>1. IInv'
  BY Inductive DEF RInv
<1>2. ASSUME NEW t \in Tokens PROVE Lineage(t)' /\ Ready(t)'
  BY LineageKept, ReadyKept DEF RInv
<1> QED BY <1>1, <1>2 DEF RInv

LEMMA TruthfulIsTrue == RInv => ReadyIsTrueAtRest
BY DEF RInv, Ready, Truthful, SameVersion, ReadyIsTrueAtRest

(* Whatever users, stale caches, restarts and lost responses do, a Token   *)
(* at rest that reports Ready owns its Secret: unless somebody deletes the *)
(* Secret, a worker that deletes by name what is not its own any more      *)
(* included (DeleteSecret), a mint or the App is out, or a watch breaks    *)
(* and its list passes a new Token of the name for the old one.            *)
THEOREM ReadyTokensOwnTheirSecret ==
    ASSUME ~ Outages, ~ Relists, MaxMeddles = 0
    PROVE  Safety /\ [][DeletesOwn]_vars => []ReadyIsTrueAtRest
<1>1. RInv /\ [Next]_vars /\ [DeletesOwn]_vars => RInv'
  BY ReadyInductive
<1> QED BY <1>1, ReadyInitial, TruthfulIsTrue, PTL DEF Safety

----------------------------------------------------------------------------
(* Tokens whose spec nobody edits: no worker has a Secret to delete.       *)
Faithful(obj) == obj # Nil /\ obj.managed # Nil => MatchesSpec(obj)

Unedited(t) ==
    /\ tokens[t] # Nil => tokens[t].generation > 0
    /\ Faithful(tokens[t]) /\ Faithful(tokenCache[t]) /\ Faithful(worker[t].owner)
    /\ worker[t].pc \notin {"lookup", "delete"}

UInv == IInv /\ \A t \in Tokens : Unedited(t)

LEMMA RevisedFaithful ==
    ASSUME NEW obj \in TokenObject, NEW new, Revised(obj, new), Faithful(obj)
    PROVE  Faithful(new) /\ new.generation = obj.generation
<1>1. /\ new \in TokenObject /\ Id(new) = Id(obj)
      /\ new.managed \in {obj.managed, SpecOf(obj)} /\ obj # Nil
  BY RevisedKeeps, NilAssumption
<1>2. new.spec = obj.spec /\ new.generation = obj.generation
  BY <1>1 DEF Id
<1> QED BY <1>1, <1>2 DEF Faithful, MatchesSpec, SpecOf

LEMMA ActsUnedited ==
    ASSUME UInv, NEW t \in Tokens, Acts(t), NEW u \in Tokens
    PROVE  Unedited(u)'
<1> DEFINE w == worker[t]
<1>1. /\ IInv /\ Unedited(t) /\ Unedited(u)
      /\ worker \in [Tokens -> Worker] /\ w \in Worker /\ Good(t, w)
  BY DEF UInv, IInv, TypeOK, WorkersGood
<1>2. CASE u # t
  BY <1>1, <1>2, ActsApart DEF Unedited
<1>3. CASE u = t
  <2>1. Faithful(tokens'[t]) /\ (tokens'[t] # Nil => tokens'[t].generation > 0)
    <3>1. CASE UNCHANGED tokens
      BY <1>1, <3>1 DEF Unedited
    <3>2. CASE StatusApplies(t) \/ AppFailureApplies(t)
      <4>1. tokens[t] \in TokenObject /\ Revised(tokens[t], tokens'[t]) /\ tokens[t] # Nil
        BY <1>1, <3>2, StatusRevises, NilAssumption
      <4> QED BY <1>1, <4>1, RevisedFaithful DEF Unedited
    <3> QED BY <1>1, <3>1, <3>2, ActsApart
  <2>2. Faithful(worker'[t].owner)
    <3>1. CASE worker'[t].owner \in {Nil, w.owner, tokenCache[t]}
      BY <1>1, <3>1 DEF Unedited, Faithful
    <3>2. CASE w.pc = "write" /\ Revised(w.owner, worker'[t].owner)
      BY <1>1, <3>2, RevisedFaithful DEF Unedited, Good
    <3> QED BY <1>1, <3>1, <3>2, OwnerInHand
  <2>3. worker'[t].pc \notin {"lookup", "delete"}
    <3>1. CASE Start(t)
      <4>1. worker' = [worker EXCEPT ![t] = [IdleWorker EXCEPT !.pc = "get", !.owner = tokenCache[t]]]
        BY <1>1, <3>1 DEF Start, Unedited, Faithful
      <4> QED BY <1>1, <4>1 DEF IdleWorker
    <3>2. CASE StartAppUnavailable(t)
      BY <1>1, <3>2 DEF StartAppUnavailable, IdleWorker, Unedited
    <3>3. ~ LookupManaged(t) /\ ~ DeleteSecret(t)
      BY <1>1 DEF LookupManaged, DeleteSecret, DeleteApplies, Unedited
    <3>4. CASE Error(t) \/ Requeued(t) \/ UNCHANGED worker
      BY <1>1, <3>4 DEF Error, Requeued, IdleWorker, Unedited
    <3>5. CASE \/ GetSecret(t) \/ Mint(t) \/ CreateSecret(t) \/ UpdateSecret(t)
               \/ RefreshOwner(t) \/ WriteStatus(t) \/ StatusUnchanged(t) \/ StatusConflict(t)
      <4>1. ASSUME NEW r, Goto(t, r), r.pc \notin {"lookup", "delete"}
            PROVE  worker'[t].pc \notin {"lookup", "delete"}
        BY <1>1, <4>1 DEF Goto
      <4>2. CASE GetSecret(t)
        <5> DEFINE s == secretCache[w.owner.spec.key]
                   found == [w EXCEPT !.pc = "mint", !.secret = s, !.cond = "None", !.tries = 0]
                   foreign == [w EXCEPT !.pc = "refresh", !.cond = "Failed", !.tries = 0]
        <5>1. Goto(t, found) \/ Goto(t, foreign)
          BY <4>2 DEF GetSecret
        <5>2. found.pc = "mint" /\ foreign.pc = "refresh"
          BY <1>1 DEF Worker
        <5> HIDE DEF found, foreign
        <5> QED BY <4>1, <5>1, <5>2
      <4>3. CASE Mint(t)
        <5> DEFINE r == [w EXCEPT !.pc = IF w.secret = Nil THEN "create" ELSE "update",
                                  !.expires = now + TokenValidity]
        <5>1. Goto(t, r)
          BY <4>3 DEF Mint
        <5>2. r.pc \in {"create", "update"}
          BY <1>1 DEF Worker
        <5> QED BY <4>1, <5>1, <5>2
      <4>4. CASE CreateSecret(t) \/ UpdateSecret(t)
        <5> DEFINE c == [w EXCEPT !.pc = "refresh", !.cond = "Created"]
                   r == [w EXCEPT !.pc = "refresh", !.cond = "Updated", !.secret = Nil]
        <5>1. Goto(t, c) \/ Goto(t, r)
          BY <4>4 DEF CreateSecret, UpdateSecret
        <5>2. c.pc = "refresh" /\ r.pc = "refresh"
          BY <1>1 DEF Worker
        <5> QED BY <4>1, <5>1, <5>2
      <4>5. CASE RefreshOwner(t) \/ StatusConflict(t)
        <5> DEFINE a == [w EXCEPT !.pc = "write", !.owner = tokenCache[t]]
                   b == [w EXCEPT !.pc = "refresh", !.tries = w.tries + 1]
        <5>1. Goto(t, a) \/ Goto(t, b) \/ Error(t)
          BY <4>5 DEF RefreshOwner, StatusConflict
        <5>2. a.pc = "write" /\ b.pc = "refresh"
          BY <1>1 DEF Worker
        <5> QED BY <3>4, <4>1, <5>1, <5>2
      <4>6. CASE WriteStatus(t) \/ StatusUnchanged(t)
        <5> DEFINE m == Mutated(w.owner, w.cond, w.expires)
                   g == [w EXCEPT !.pc = "get", !.owner = Mutated(w.owner, w.cond, w.expires)]
        <5>1. Goto(t, g) \/ Error(t) \/ Requeued(t)
          BY <4>6 DEF WriteStatus, StatusUnchanged, StatusDone, RequeueAfter, Requeued
        <5>2. g.pc = "get"
          <6> HIDE DEF m
          <6>1. g = [w EXCEPT !.pc = "get", !.owner = m]
            BY DEF m
          <6> HIDE DEF g
          <6> QED BY <1>1, <6>1 DEF Worker
        <5> QED BY <3>4, <4>1, <5>1, <5>2
      <4> QED BY <3>5, <4>2, <4>3, <4>4, <4>5, <4>6
    <3> QED BY <3>1, <3>2, <3>3, <3>4, <3>5 DEF Acts, WorkerStep, StartGone, WriteAppFailure,
               MintFails, CallRefused, CallFails, ResponseLost, RequeueAfter, Requeued
  <2> QED BY <1>1, <1>3, <2>1, <2>2, <2>3, ActsApart DEF Unedited
<1> QED BY <1>2, <1>3

LEMMA UneditedInductive ==
    ASSUME MaxGeneration <= 1
    PROVE  UInv /\ [Next]_vars => UInv'
<1> SUFFICES ASSUME UInv, [Next]_vars PROVE UInv'
  OBVIOUS
<1>1. /\ IInv /\ IInv'
      /\ tokens \in [Tokens -> TokenObject \cup {Nil}]
      /\ tokenCache \in [Tokens -> TokenObject \cup {Nil}]
  BY Inductive DEF UInv, IInv, TypeOK
<1> SUFFICES ASSUME NEW u \in Tokens PROVE Unedited(u)'
  BY <1>1 DEF UInv
<1>2. Unedited(u)
  BY DEF UInv
<1>3. ASSUME NEW t \in Tokens, NEW spec \in Manifests[t], CreateToken(t, spec)
      PROVE  Unedited(u)'
  <2>1. CASE t = u
    <3>1. tokens'[u] = [uid |-> incarnation + 1, generation |-> 1, spec |-> spec,
                        managed |-> Nil, expires |-> 0, ready |-> "None"]
      BY <1>1, <1>3, <2>1 DEF CreateToken
    <3> QED BY <1>2, <1>3, <3>1 DEF CreateToken, Unedited, Faithful
  <2>2. CASE t # u
    BY <1>1, <1>2, <1>3, <2>2 DEF CreateToken, Unedited
  <2> QED BY <2>1, <2>2
<1>4. ASSUME NEW t \in Tokens, NEW spec \in Manifests[t], EditToken(t, spec)
      PROVE  FALSE
  <2>1. Unedited(t) /\ tokens[t] \in TokenObject /\ tokens[t] # Nil
    BY <1>1, <1>4 DEF UInv, EditToken
  <2>2. tokens[t].generation \in Nat /\ tokens[t].generation > 0
    BY <2>1 DEF Unedited, TokenObject
  <2> QED BY <1>4, <2>2, NumbersAssumption DEF EditToken
<1>5. ASSUME NEW t \in Tokens, DeleteToken(t) \/ TimerFires(t) \/ AppEvent(t) \/ SyncToken(t)
      PROVE  Unedited(u)'
  BY <1>1, <1>2, <1>5 DEF DeleteToken, TimerFires, AppEvent, SyncToken, Unedited, Faithful
<1>6. ASSUME NEW k \in Keys, CollectGarbage(k) \/ SyncSecret(k) \/ \E l \in Labels : Meddle(k, l)
      PROVE  Unedited(u)'
  BY <1>2, <1>6 DEF CollectGarbage, SyncSecret, Meddle, Unedited
<1>7. CASE Tick \/ UNCHANGED vars
  BY <1>2, <1>7 DEF Tick, vars, Unedited
<1>8. CASE Restart
  BY <1>2, <1>8 DEF Restart, IdleWorker, Unedited, Faithful
<1> QED BY <1>3, <1>4, <1>5, <1>6, <1>7, <1>8, ActsUnedited DEF Next, ClusterStep, Acts

LEMMA UneditedInitial == Init => UInv
<1> SUFFICES ASSUME Init PROVE UInv
  OBVIOUS
<1>1. IInv
  BY Initial
<1> QED BY <1>1 DEF Init, UInv, Unedited, Faithful, IdleWorker

LEMMA UneditedDeletesNothing == UInv /\ [Next]_vars => [DeletesOwn]_vars
BY DEF UInv, Unedited, DeletesOwn, Deletes, DeleteSecret, DeleteApplies

(* As long as nobody edits Tokens, deletes Secrets or breaks mints, and no *)
(* watch breaks, Tokens that contend for names, come, go and come back own *)
(* their Secret when at rest and Ready.                                    *)
THEOREM UneditedTokensOwnTheirSecret ==
    ASSUME ~ Outages, ~ Relists, MaxMeddles = 0, MaxGeneration <= 1
    PROVE  Safety => []ReadyIsTrueAtRest
<1>1. UInv /\ [Next]_vars => UInv'
  BY UneditedInductive
<1>2. Safety /\ [][DeletesOwn]_vars => []ReadyIsTrueAtRest
  BY ReadyTokensOwnTheirSecret
<1> QED BY <1>1, <1>2, UneditedInitial, UneditedDeletesNothing, PTL DEF Safety
=============================================================================
