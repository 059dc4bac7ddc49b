------------------------- MODULE TokenSecretProofs -------------------------
(***************************************************************************)
(* Proofs about TokenSecret, for any Tokens, Keys, manifests and bounds:   *)
(* type correctness, and that an existing Secret is overwritten only by    *)
(* the Token that owns it.                                                 *)
(***************************************************************************)
EXTENDS TokenSecret, TLAPS

(* What a worker has in hand depends on where it stands: the Secret it is  *)
(* about to update is one it has found to be controlled by its owner.      *)
Good(t, w) ==
    /\ w.pc # "idle" => w.owner \in TokenObject
    /\ w.pc \in {"lookup", "delete"} => w.owner.managed \in ManagedSecret
    /\ w.pc \in {"mint", "update"} /\ w.secret # Nil => w.secret.owner = Ref(t, w.owner)
    /\ w.pc = "update" => w.secret # Nil
    /\ w.pc = "appFailure" => w.cond \in AppFailures

WorkersGood == \A t \in Tokens : Good(t, worker[t])

IInv == TypeOK /\ WorkersGood

(* The clause of TypeOK and WorkersGood about the workers.                 *)
WorkersOK == worker \in [Tokens -> Worker] /\ WorkersGood

(* The end of a reconciliation without an error, with or without a delay.  *)
Requeued(t) ==
    /\ worker' = [worker EXCEPT ![t] = IdleWorker]
    /\ timers' \in {timers, timers \cup {t}} /\ UNCHANGED queue

(* What a reconciliation starts with whose App cannot be resolved.         *)
NoApp(t, failure) ==
    [IdleWorker EXCEPT !.pc = "appFailure", !.owner = tokenCache[t], !.cond = failure]

----------------------------------------------------------------------------
(* Putting a well-typed value in hand that suits its place in the code     *)
(* keeps all the workers well-typed and good.                              *)
LEMMA PutWorker ==
    ASSUME IInv, NEW t \in Tokens, NEW w \in Worker, Good(t, w),
           worker' = [worker EXCEPT ![t] = w]
    PROVE  WorkersOK'
<1>1. worker \in [Tokens -> Worker] /\ \A u \in Tokens : Good(u, worker[u])
  BY DEF IInv, TypeOK, WorkersGood
<1>2. worker' \in [Tokens -> Worker]
  BY <1>1
<1>3. \A u \in Tokens : Good(u, worker'[u])
  <2> TAKE u \in Tokens
  <2>1. CASE u = t
    BY <1>1, <2>1
  <2>2. CASE u # t
    <3>1. worker'[u] = worker[u]
      BY <1>1, <2>2
    <3> QED BY <3>1, <1>1
  <2> QED BY <2>1, <2>2
<1> QED BY <1>2, <1>3 DEF WorkersOK, WorkersGood

LEMMA KeepWorkers ==
    ASSUME IInv, UNCHANGED worker
    PROVE  WorkersOK'
BY DEF IInv, TypeOK, WorkersGood, WorkersOK

LEMMA IdleIsGood == IdleWorker \in Worker /\ \A t \in Tokens : Good(t, IdleWorker)
BY DEF IdleWorker, Worker, PCs, Reasons, Outcomes, Good

(* The ways a reconciliation ends are harmless.                            *)
LEMMA EndGood ==
    ASSUME IInv, NEW t \in Tokens, Error(t) \/ Requeued(t)
    PROVE  WorkersOK' /\ queue' \subseteq Tokens /\ timers' \subseteq Tokens
<1>1. worker' = [worker EXCEPT ![t] = IdleWorker]
  BY DEF Error, Requeued
<1>2. WorkersOK'
  BY <1>1, PutWorker, IdleIsGood
<1>3. queue' \subseteq Tokens /\ timers' \subseteq Tokens
  BY DEF Error, Requeued, IInv, TypeOK
<1> QED BY <1>2, <1>3

LEMMA GotoGood ==
    ASSUME IInv, NEW t \in Tokens, NEW w \in Worker, Good(t, w), Goto(t, w)
    PROVE  WorkersOK' /\ queue' \subseteq Tokens /\ timers' \subseteq Tokens
<1>1. WorkersOK'
  BY PutWorker DEF Goto
<1> QED BY <1>1 DEF Goto, IInv, TypeOK

----------------------------------------------------------------------------
(* The effects on the API server keep its objects well-typed.              *)
Stored == tokens \in [Tokens -> TokenObject \cup {Nil}]
          /\ secrets \in [Keys -> SecretObject \cup {Nil}]

LEMMA MutatedType ==
    ASSUME NEW obj \in TokenObject, NEW cond \in Reasons, NEW e \in Nat
    PROVE  Mutated(obj, cond, e) \in TokenObject
<1>1. SpecOf(obj) \in ManagedSecret
  BY DEF SpecOf, ManagedSecret, TokenObject, Spec
<1>2. CASE cond \in ReadyTrue
  BY <1>1, <1>2 DEF Mutated, TokenObject
<1>3. CASE cond \notin ReadyTrue
  BY <1>3 DEF Mutated, TokenObject
<1> QED BY <1>2, <1>3

LEMMA EffectsType ==
    ASSUME IInv, NEW t \in Tokens,
           \/ DeleteApplies(t) \/ CreateApplies(t) \/ UpdateApplies(t)
           \/ StatusApplies(t) \/ AppFailureApplies(t)
    PROVE  Stored'
<1> DEFINE w == worker[t]
<1>1. /\ Stored /\ w \in Worker /\ Good(t, w)
  BY DEF IInv, TypeOK, WorkersGood, Stored
<1>2. CASE DeleteApplies(t)
  BY <1>1, <1>2 DEF DeleteApplies, Stored
<1>3. CASE CreateApplies(t)
  <2>1. w.owner \in TokenObject /\ w.expires \in Nat
    BY <1>1, <1>3 DEF CreateApplies, Good, Worker
  <2>2. NewSecret(t, w.owner, w.expires) \in SecretObject
    BY <2>1 DEF NewSecret, SecretObject, Ref, OwnerRef, TokenObject, Spec
  <2> QED BY <1>1, <1>3, <2>2 DEF CreateApplies, Stored
<1>4. CASE UpdateApplies(t)
  <2>1. w.owner \in TokenObject /\ w.expires \in Nat /\ w.secret \in SecretObject
    BY <1>1, <1>4 DEF UpdateApplies, Good, Worker
  <2>2. [w.secret EXCEPT !.basic = w.owner.spec.basic, !.expires = w.expires] \in SecretObject
    BY <2>1 DEF SecretObject, TokenObject, Spec
  <2> QED BY <1>1, <1>4, <2>2 DEF UpdateApplies, Stored
<1>5. CASE StatusApplies(t)
  <2>1. w.owner \in TokenObject /\ w.expires \in Nat /\ w.cond \in Reasons
    BY <1>1, <1>5 DEF StatusApplies, Good, Worker
  <2>2. Mutated(w.owner, w.cond, w.expires) \in TokenObject
    BY <2>1, MutatedType
  <2> QED BY <1>1, <1>5, <2>2 DEF StatusApplies, Stored
<1>6. CASE AppFailureApplies(t)
  <2>1. w.owner \in TokenObject /\ tokens[t] = w.owner /\ w.cond \in Reasons
    BY <1>1, <1>6 DEF AppFailureApplies, Good, Worker
  <2>2. [tokens[t] EXCEPT !.ready = w.cond] \in TokenObject
    BY <2>1 DEF TokenObject
  <2>3. tokens' = [tokens EXCEPT ![t] = [tokens[t] EXCEPT !.ready = w.cond]]
    BY <1>6 DEF AppFailureApplies
  <2> QED BY <1>1, <1>6, <2>2, <2>3 DEF AppFailureApplies, Stored
<1> QED BY <1>2, <1>3, <1>4, <1>5, <1>6

----------------------------------------------------------------------------
(* The steps of a worker, and its failing calls.                           *)
Rest == /\ tokenCache \in [Tokens -> TokenObject \cup {Nil}]
        /\ secretCache \in [Keys -> SecretObject \cup {Nil}]
        /\ active \subseteq Tokens
        /\ now \in Nat /\ incarnation \in Nat /\ faults \in Nat /\ meddles \in Nat

Queues == queue \subseteq Tokens /\ timers \subseteq Tokens

LEMMA Assemble ==
    IInv <=> Stored /\ Rest /\ Queues /\ WorkersOK
BY DEF IInv, TypeOK, Stored, Rest, Queues, WorkersOK

LEMMA AssembleNext ==
    ASSUME Stored', Rest', Queues', WorkersOK'
    PROVE  IInv'
BY DEF IInv, TypeOK, Stored, Rest, Queues, WorkersOK

LEMMA StartSteps ==
    ASSUME IInv, NEW t \in Tokens,
           StartGone(t) \/ StartAppUnavailable(t) \/ Start(t)
    PROVE  IInv'
<1>1. Stored /\ Rest /\ Queues
  BY Assemble
<1>2. CASE StartGone(t)
  <2>1. WorkersOK'
    BY <1>2, KeepWorkers DEF StartGone
  <2> QED BY <1>1, <1>2, <2>1, AssembleNext DEF StartGone, Take, Environment, Stored, Rest, Queues
<1>3. CASE StartAppUnavailable(t)
  <2>1. tokenCache[t] \in TokenObject
    BY <1>1, <1>3 DEF Rest, StartAppUnavailable
  <2>2. WorkersOK'
    <3>1. CASE UNCHANGED worker
      BY <3>1, KeepWorkers
    <3>2. ASSUME NEW failure \in AppFailures,
                 worker' = [worker EXCEPT ![t] = NoApp(t, failure)]
          PROVE  WorkersOK'
      <4>1. NoApp(t, failure) \in Worker /\ Good(t, NoApp(t, failure))
        BY <2>1 DEF NoApp, IdleWorker, Worker, PCs, Reasons, Outcomes, Good
      <4> QED BY <3>2, <4>1, PutWorker
    <3> QED BY <1>3, <3>1, <3>2 DEF StartAppUnavailable, NoApp
  <2> QED BY <1>1, <1>3, <2>2, AssembleNext
          DEF StartAppUnavailable, Take, Environment, Stored, Rest, Queues
<1>4. CASE Start(t)
  <2> DEFINE owner == tokenCache[t]
             stale == owner.managed # Nil /\ ~ MatchesSpec(owner)
             w == [IdleWorker EXCEPT !.pc = IF stale THEN "lookup" ELSE "get",
                                     !.owner = owner]
  <2>1. owner \in TokenObject
    BY <1>1, <1>4 DEF Rest, Start
  <2>2. owner.managed \in ManagedSecret \cup {Nil}
    BY <2>1 DEF TokenObject
  <2>4. w \in Worker /\ Good(t, w)
    <3>1. CASE stale
      BY <2>1, <2>2, <3>1 DEF IdleWorker, Worker, PCs, Reasons, Outcomes, Good
    <3>2. CASE ~ stale
      BY <2>1, <3>2 DEF IdleWorker, Worker, PCs, Reasons, Outcomes, Good
    <3> QED BY <3>1, <3>2
  <2>5. WorkersOK'
    <3>1. worker' = [worker EXCEPT ![t] = w]
      BY <1>4 DEF Start
    <3> QED BY <3>1, <2>4, PutWorker
  <2> QED BY <1>1, <1>4, <2>5, AssembleNext DEF Start, Take, Environment, Stored, Rest, Queues
<1> QED BY <1>2, <1>3, <1>4

(* Steps of a worker that only read the caches or GitHub.                  *)
LEMMA ReadingSteps ==
    ASSUME IInv, NEW t \in Tokens,
           \/ LookupManaged(t) \/ GetSecret(t) \/ Mint(t) \/ MintFails(t)
           \/ CallRefused(t) \/ RefreshOwner(t) \/ StatusConflict(t)
    PROVE  IInv'
<1> DEFINE w == worker[t]
<1>1. Stored /\ Rest /\ Queues /\ w \in Worker /\ Good(t, w)
  BY Assemble DEF WorkersOK, WorkersGood
<1>2. UNCHANGED <<tokens, secrets, tokenCache, secretCache, active, now,
                  incarnation, faults, meddles>>
  BY DEF LookupManaged, GetSecret, Mint, MintFails, CallRefused, RefreshOwner,
         StatusConflict, Environment
<1>3. SUFFICES WorkersOK' /\ queue' \subseteq Tokens /\ timers' \subseteq Tokens
  BY <1>1, <1>2, AssembleNext DEF Stored, Rest, Queues
<1>4. CASE LookupManaged(t)
  <2>1. [w EXCEPT !.pc = "delete"] \in Worker /\ Good(t, [w EXCEPT !.pc = "delete"])
    BY <1>1, <1>4 DEF LookupManaged, Worker, PCs, Good
  <2>2. [w EXCEPT !.pc = "get"] \in Worker /\ Good(t, [w EXCEPT !.pc = "get"])
    BY <1>1, <1>4 DEF LookupManaged, Worker, PCs, Good
  <2>3. Goto(t, [w EXCEPT !.pc = "delete"]) \/ Goto(t, [w EXCEPT !.pc = "get"])
    BY <1>4 DEF LookupManaged
  <2> QED BY <2>1, <2>2, <2>3, GotoGood
<1>5. CASE GetSecret(t)
  <2> DEFINE s == secretCache[w.owner.spec.key]
             found == [w EXCEPT !.pc = "mint", !.secret = s, !.cond = "None", !.tries = 0]
             foreign == [w EXCEPT !.pc = "refresh", !.cond = "Failed", !.tries = 0]
  <2>1. w.pc = "get" /\ w.owner \in TokenObject /\ s \in SecretObject \cup {Nil}
    BY <1>1, <1>5 DEF GetSecret, Good, Rest, TokenObject, Spec
  <2>2. foreign \in Worker /\ Good(t, foreign)
    BY <1>1, <2>1 DEF Worker, PCs, Reasons, Outcomes, Good
  <2>3. s = Nil \/ IsControlledBy(s, t, w.owner) => found \in Worker /\ Good(t, found)
    BY <1>1, <2>1 DEF Worker, PCs, Reasons, Outcomes, Good, IsControlledBy
  <2>4. \/ Goto(t, foreign)
        \/ (s = Nil \/ IsControlledBy(s, t, w.owner)) /\ Goto(t, found)
    BY <1>5 DEF GetSecret
  <2> QED BY <2>2, <2>3, <2>4, GotoGood
<1>6. CASE Mint(t)
  <2> DEFINE m == [w EXCEPT !.pc = IF w.secret = Nil THEN "create" ELSE "update",
                            !.expires = now + TokenValidity]
  <2>1. now + TokenValidity \in Nat
    BY <1>1, NumbersAssumption DEF Rest
  <2>2. m \in Worker /\ Good(t, m)
    <3>1. CASE w.secret = Nil
      BY <1>1, <1>6, <2>1, <3>1 DEF Mint, Worker, PCs, Good
    <3>2. CASE w.secret # Nil
      BY <1>1, <1>6, <2>1, <3>2 DEF Mint, Worker, PCs, Good
    <3> QED BY <3>1, <3>2
  <2>3. Goto(t, m)
    BY <1>6 DEF Mint
  <2> QED BY <2>2, <2>3, GotoGood
<1>7. CASE MintFails(t) \/ CallRefused(t)
  BY <1>7, EndGood DEF MintFails, CallRefused, RequeueAfter, Requeued
<1>8. CASE RefreshOwner(t)
  <2>1. CASE tokenCache[t] = Nil
    BY <1>8, <2>1, EndGood DEF RefreshOwner
  <2>2. CASE tokenCache[t] # Nil
    <3> DEFINE r == [w EXCEPT !.pc = "write", !.owner = tokenCache[t]]
    <3>1. r \in Worker /\ Good(t, r)
      BY <1>1, <1>8, <2>2 DEF Rest, Worker, PCs, Good
    <3>2. Goto(t, r)
      BY <1>8, <2>2 DEF RefreshOwner
    <3> QED BY <3>1, <3>2, GotoGood
  <2> QED BY <2>1, <2>2
<1>9. CASE StatusConflict(t)
  <2> DEFINE r == [w EXCEPT !.pc = "refresh", !.tries = w.tries + 1]
  <2>1. r \in Worker /\ Good(t, r)
    <3>1. w.pc = "write" /\ w.tries + 1 \in Nat
      BY <1>1, <1>9 DEF StatusConflict, Worker
    <3> QED BY <1>1, <3>1 DEF Worker, PCs, Good
  <2>2. Goto(t, r) \/ Error(t)
    BY <1>9 DEF StatusConflict
  <2> QED BY <2>1, <2>2, GotoGood, EndGood
<1> QED BY <1>4, <1>5, <1>6, <1>7, <1>8, <1>9

(* Steps of a worker that write to the API server.                         *)
LEMMA WritingSteps ==
    ASSUME IInv, NEW t \in Tokens,
           \/ WriteAppFailure(t) \/ DeleteSecret(t) \/ CreateSecret(t)
           \/ UpdateSecret(t) \/ WriteStatus(t) \/ StatusUnchanged(t)
    PROVE  IInv'
<1> DEFINE w == worker[t]
<1>1. Stored /\ Rest /\ Queues /\ w \in Worker /\ Good(t, w)
  BY Assemble DEF WorkersOK, WorkersGood
<1>2. UNCHANGED <<tokenCache, secretCache, now, incarnation, faults, meddles>>
  BY DEF WriteAppFailure, DeleteSecret, CreateSecret, UpdateSecret, WriteStatus,
         StatusUnchanged, Environment
<1>3. Stored'
  <2>1. CASE StatusUnchanged(t)
    BY <1>1, <2>1 DEF StatusUnchanged, Stored
  <2> QED BY <2>1, EffectsType DEF WriteAppFailure, DeleteSecret, CreateSecret,
             UpdateSecret, WriteStatus
<1>4. SUFFICES /\ WorkersOK' /\ queue' \subseteq Tokens /\ timers' \subseteq Tokens
               /\ active' \subseteq Tokens
  BY <1>1, <1>2, <1>3, AssembleNext DEF Rest, Queues
<1>5. CASE WriteAppFailure(t)
  BY <1>1, <1>5, EndGood DEF WriteAppFailure, RequeueAfter, Requeued, Rest
<1>6. CASE DeleteSecret(t)
  <2> DEFINE d == [w EXCEPT !.pc = "refresh", !.cond = "Reconciling"]
  <2>1. d \in Worker /\ Good(t, d)
    BY <1>1, <1>6 DEF DeleteSecret, DeleteApplies, Worker, PCs, Reasons, Outcomes, Good
  <2>2. Goto(t, d) /\ active' \subseteq Tokens
    BY <1>1, <1>6 DEF DeleteSecret, RemoveTokenActive, Rest
  <2> QED BY <2>1, <2>2, GotoGood
<1>7. CASE CreateSecret(t)
  <2> DEFINE c == [w EXCEPT !.pc = "refresh", !.cond = "Created"]
  <2>1. c \in Worker /\ Good(t, c)
    BY <1>1, <1>7 DEF CreateSecret, CreateApplies, Worker, PCs, Reasons, Outcomes, Good
  <2>2. Goto(t, c) /\ active' \subseteq Tokens
    BY <1>1, <1>7 DEF CreateSecret, Rest
  <2> QED BY <2>1, <2>2, GotoGood
<1>8. CASE UpdateSecret(t)
  <2> DEFINE u == [w EXCEPT !.pc = "refresh", !.cond = "Updated", !.secret = Nil]
  <2>1. u \in Worker /\ Good(t, u)
    BY <1>1, <1>8 DEF UpdateSecret, UpdateApplies, Worker, PCs, Reasons, Outcomes, Good
  <2>2. Goto(t, u) /\ active' \subseteq Tokens
    BY <1>1, <1>8 DEF UpdateSecret, Rest
  <2> QED BY <2>1, <2>2, GotoGood
<1>9. CASE WriteStatus(t) \/ StatusUnchanged(t)
  <2> DEFINE m == Mutated(w.owner, w.cond, w.expires)
             g == [w EXCEPT !.pc = "get", !.owner = Mutated(w.owner, w.cond, w.expires)]
  <2>1. w.owner \in TokenObject /\ w.cond \in Reasons /\ w.expires \in Nat
    BY <1>1, <1>9 DEF WriteStatus, StatusApplies, StatusUnchanged, Good, Worker
  <2>2. m \in TokenObject
    BY <2>1, MutatedType
  <2>3. g \in Worker /\ Good(t, g)
    <3> HIDE DEF m
    <3>1. g = [w EXCEPT !.pc = "get", !.owner = m]
      BY DEF m
    <3>2. [w EXCEPT !.pc = "get", !.owner = m] \in Worker
          /\ Good(t, [w EXCEPT !.pc = "get", !.owner = m])
      BY <1>1, <2>2 DEF Worker, PCs, Good
    <3> QED BY <3>1, <3>2
  <2>4. \/ Goto(t, g) /\ UNCHANGED active
        \/ Error(t) /\ UNCHANGED active
        \/ Requeued(t) /\ EnsureTokenActive(t)
    BY <1>9 DEF WriteStatus, StatusUnchanged, StatusDone, RequeueAfter, Requeued
  <2>5. active' \subseteq Tokens
    BY <1>1, <2>4 DEF Rest, EnsureTokenActive
  <2> QED BY <2>3, <2>4, <2>5, GotoGood, EndGood
<1> QED BY <1>5, <1>6, <1>7, <1>8, <1>9

LEMMA FaultSteps ==
    ASSUME IInv, Restart \/ \E t \in Tokens : CallFails(t) \/ ResponseLost(t)
    PROVE  IInv'
<1>1. Stored /\ Rest /\ Queues
  BY Assemble
<1>2. ASSUME NEW t \in Tokens, CallFails(t)
      PROVE  IInv'
  BY <1>1, <1>2, EndGood, AssembleNext
     DEF CallFails, Fault, Environment, Stored, Rest, Queues
<1>3. ASSUME NEW t \in Tokens, ResponseLost(t)
      PROVE  IInv'
  <2>1. Stored'
    BY <1>3, EffectsType DEF ResponseLost
  <2> QED BY <1>1, <1>3, <2>1, EndGood, AssembleNext
          DEF ResponseLost, Fault, Environment, Rest, Queues
<1>4. CASE Restart
  <2>1. worker' \in [Tokens -> Worker] /\ \A u \in Tokens : Good(u, worker'[u])
    BY <1>4, IdleIsGood DEF Restart
  <2> QED BY <1>1, <1>4, <2>1, AssembleNext
          DEF Restart, Fault, Stored, Rest, Queues, WorkersOK, WorkersGood
<1> QED BY <1>2, <1>3, <1>4

----------------------------------------------------------------------------
(* Users, the cluster, the informers and the clock leave the workers alone.*)
LEMMA ClusterSteps ==
    ASSUME IInv, ClusterStep
    PROVE  IInv'
<1>1. Stored /\ Rest /\ Queues
  BY Assemble
<1>2. WorkersOK'
  BY KeepWorkers DEF ClusterStep, CreateToken, EditToken, DeleteToken, Meddle,
                     CollectGarbage, Tick
<1>3. ASSUME NEW t \in Tokens, NEW spec \in Manifests[t], CreateToken(t, spec)
      PROVE  IInv'
  <2> DEFINE new == [uid |-> incarnation + 1, generation |-> 1, spec |-> spec,
                     managed |-> Nil, expires |-> 0, ready |-> "None"]
  <2>1. new \in TokenObject
    <3>1. spec \in Spec /\ incarnation + 1 \in Nat
      BY <1>1, ManifestsAssumption DEF Rest
    <3> QED BY <3>1 DEF TokenObject, Reasons, Outcomes
  <2>2. tokens' = [tokens EXCEPT ![t] = new] /\ incarnation' \in Nat
    BY <1>1, <1>3 DEF CreateToken, Rest
  <2> QED BY <1>1, <1>2, <1>3, <2>1, <2>2, AssembleNext DEF CreateToken, Stored, Rest, Queues
<1>4. ASSUME NEW t \in Tokens, NEW spec \in Manifests[t], EditToken(t, spec)
      PROVE  IInv'
  <2> DEFINE new == [tokens[t] EXCEPT !.spec = spec, !.generation = tokens[t].generation + 1]
  <2>1. spec \in Spec /\ tokens[t] \in TokenObject
    BY <1>1, <1>4, ManifestsAssumption DEF EditToken, Stored
  <2>2. tokens[t].generation + 1 \in Nat
    BY <2>1 DEF TokenObject
  <2>3. new \in TokenObject
    BY <2>1, <2>2 DEF TokenObject
  <2>4. tokens' = [tokens EXCEPT ![t] = new]
    BY <1>1, <1>4 DEF EditToken, Stored
  <2> QED BY <1>1, <1>2, <1>4, <2>3, <2>4, AssembleNext DEF EditToken, Stored, Rest, Queues
<1>5. ASSUME NEW t \in Tokens, DeleteToken(t)
      PROVE  IInv'
  BY <1>1, <1>2, <1>5, AssembleNext DEF DeleteToken, Stored, Rest, Queues
<1>6. ASSUME NEW k \in Keys, NEW l \in Labels, Meddle(k, l)
      PROVE  IInv'
  <2> DEFINE foreign == [owner |-> Nil, type |-> FALSE, basic |-> FALSE,
                         labels |-> l, expires |-> 0]
  <2>1. foreign \in SecretObject
    BY DEF SecretObject
  <2>2. \/ secrets' = [secrets EXCEPT ![k] = Nil]
        \/ secrets' = [secrets EXCEPT ![k] = foreign]
    BY <1>6 DEF Meddle
  <2>3. meddles' \in Nat
    BY <1>1, <1>6 DEF Meddle, Rest
  <2> QED BY <1>1, <1>2, <1>6, <2>1, <2>2, <2>3, AssembleNext DEF Meddle, Stored, Rest, Queues
<1>7. ASSUME NEW k \in Keys, CollectGarbage(k)
      PROVE  IInv'
  BY <1>1, <1>2, <1>7, AssembleNext DEF CollectGarbage, Stored, Rest, Queues
<1>8. CASE Tick
  BY <1>1, <1>2, <1>8, AssembleNext DEF Tick, Stored, Rest, Queues
<1> QED BY <1>3, <1>4, <1>5, <1>6, <1>7, <1>8 DEF ClusterStep

LEMMA InformerSteps ==
    ASSUME IInv, \/ \E t \in Tokens : SyncToken(t) \/ TimerFires(t) \/ AppEvent(t)
                 \/ \E k \in Keys : SyncSecret(k)
    PROVE  IInv'
<1>1. Stored /\ Rest /\ Queues
  BY Assemble
<1>2. WorkersOK'
  BY KeepWorkers DEF SyncToken, TimerFires, AppEvent, SyncSecret
<1>3. ASSUME NEW t \in Tokens, SyncToken(t)
      PROVE  IInv'
  BY <1>1, <1>2, <1>3, AssembleNext DEF SyncToken, Stored, Rest, Queues
<1>4. ASSUME NEW t \in Tokens, TimerFires(t) \/ AppEvent(t)
      PROVE  IInv'
  BY <1>1, <1>2, <1>4, AssembleNext DEF TimerFires, AppEvent, Stored, Rest, Queues
<1>5. ASSUME NEW k \in Keys, SyncSecret(k)
      PROVE  IInv'
  BY <1>1, <1>2, <1>5, AssembleNext DEF SyncSecret, Stored, Rest, Queues
<1> QED BY <1>3, <1>4, <1>5

----------------------------------------------------------------------------
LEMMA Initial == Init => IInv
<1> SUFFICES ASSUME Init PROVE IInv
  OBVIOUS
<1>1. worker \in [Tokens -> Worker] /\ \A t \in Tokens : Good(t, worker[t])
  BY IdleIsGood DEF Init
<1> QED BY <1>1 DEF Init, IInv, TypeOK, WorkersGood

LEMMA Inductive == IInv /\ [Next]_vars => IInv'
<1> SUFFICES ASSUME IInv, [Next]_vars PROVE IInv'
  OBVIOUS
<1>1. CASE Next
  BY <1>1, StartSteps, ReadingSteps, WritingSteps, FaultSteps, ClusterSteps, InformerSteps
     DEF Next, WorkerStep
<1>2. CASE UNCHANGED vars
  BY <1>2 DEF vars, IInv, TypeOK, WorkersGood
<1> QED BY <1>1, <1>2

(* Every variable keeps its type: objects, caches, queues and workers.     *)
THEOREM TypeCorrect == Safety => []TypeOK
<1>1. IInv => TypeOK
  BY DEF IInv
<1> QED BY <1>1, Initial, Inductive, PTL DEF Safety

----------------------------------------------------------------------------
(* Which steps change Secrets at all.                                      *)
LEMMA SecretChanges ==
    ASSUME Next, secrets' # secrets
    PROVE  \/ \E k \in Keys : CollectGarbage(k) \/ \E l \in Labels : Meddle(k, l)
           \/ \E t \in Tokens : DeleteApplies(t) \/ CreateApplies(t) \/ UpdateApplies(t)
<1>1. CASE ClusterStep
  BY <1>1 DEF ClusterStep, CreateToken, EditToken, DeleteToken, Tick
<1>2. ASSUME NEW t \in Tokens, WorkerStep(t)
      PROVE  DeleteApplies(t) \/ CreateApplies(t) \/ UpdateApplies(t)
  BY <1>2 DEF WorkerStep, StartGone, Start, StartAppUnavailable, WriteAppFailure,
     LookupManaged, DeleteSecret, GetSecret, Mint, MintFails, CreateSecret, UpdateSecret,
     CallRefused, RefreshOwner, WriteStatus, StatusUnchanged, StatusConflict,
     AppFailureApplies, StatusApplies
<1>3. ASSUME NEW t \in Tokens, CallFails(t) \/ ResponseLost(t)
      PROVE  DeleteApplies(t) \/ CreateApplies(t) \/ UpdateApplies(t)
  BY <1>3 DEF CallFails, ResponseLost, AppFailureApplies, StatusApplies
<1>4. ASSUME NEW t \in Tokens, SyncToken(t) \/ TimerFires(t) \/ AppEvent(t)
      PROVE  FALSE
  BY <1>4 DEF SyncToken, TimerFires, AppEvent
<1>5. ASSUME NEW k \in Keys, SyncSecret(k)
      PROVE  FALSE
  BY <1>5 DEF SyncSecret
<1>6. CASE Restart
  BY <1>6 DEF Restart
<1> QED BY <1>1, <1>2, <1>3, <1>4, <1>5, <1>6 DEF Next

(* The action OverwriteOnlyOwned speaks of.                                *)
OwnersOverwrite ==
    \A k \in Keys :
      (secrets[k] # Nil /\ secrets'[k] # Nil /\ secrets'[k] # secrets[k]) =>
        \E t \in Tokens :
          /\ worker[t].pc = "update" /\ worker[t].owner.spec.key = k
          /\ secrets[k].owner = Ref(t, worker[t].owner)
          /\ secrets'[k] = [secrets[k] EXCEPT !.basic = secrets'[k].basic,
                                              !.expires = secrets'[k].expires]

LEMMA StepOverwrites ==
    ASSUME IInv, Next
    PROVE  OwnersOverwrite
<1> SUFFICES ASSUME NEW k \in Keys, secrets[k] # Nil, secrets'[k] # Nil,
                    secrets'[k] # secrets[k]
             PROVE  \E t \in Tokens :
                      /\ worker[t].pc = "update" /\ worker[t].owner.spec.key = k
                      /\ secrets[k].owner = Ref(t, worker[t].owner)
                      /\ secrets'[k] = [secrets[k] EXCEPT !.basic = secrets'[k].basic,
                                                          !.expires = secrets'[k].expires]
  BY DEF OwnersOverwrite
<1>1. secrets \in [Keys -> SecretObject \cup {Nil}]
  BY DEF IInv, TypeOK
<1>2. ASSUME NEW j \in Keys, CollectGarbage(j) \/ \E l \in Labels : Meddle(j, l)
      PROVE  FALSE
  BY <1>1, <1>2 DEF CollectGarbage, Meddle
<1>3. ASSUME NEW t \in Tokens, DeleteApplies(t) \/ CreateApplies(t)
      PROVE  FALSE
  BY <1>1, <1>3 DEF DeleteApplies, CreateApplies
<1>4. PICK t \in Tokens : UpdateApplies(t)
  BY <1>2, <1>3, SecretChanges
<1> DEFINE w == worker[t]
<1>5. /\ w.pc = "update" /\ secrets[w.owner.spec.key] = w.secret
      /\ secrets' = [secrets EXCEPT ![w.owner.spec.key] =
            [w.secret EXCEPT !.basic = w.owner.spec.basic, !.expires = w.expires]]
  BY <1>4 DEF UpdateApplies
<1>6. w.owner.spec.key = k
  BY <1>1, <1>5
<1>7. /\ secrets[k] = w.secret /\ w.secret \in SecretObject
      /\ secrets'[k] = [w.secret EXCEPT !.basic = w.owner.spec.basic, !.expires = w.expires]
  BY <1>1, <1>5, <1>6
<1>8. secrets[k].owner = Ref(t, w.owner)
  BY <1>5, <1>7 DEF IInv, WorkersGood, Good
<1>9. secrets'[k] = [secrets[k] EXCEPT !.basic = secrets'[k].basic,
                                      !.expires = secrets'[k].expires]
  BY <1>7 DEF SecretObject
<1> QED BY <1>5, <1>6, <1>8, <1>9

(* Whatever users, restarts, lost responses and stale caches do, a worker  *)
(* changes an existing Secret only when its Token, in the incarnation it   *)
(* has read, owns it, and leaves owner, type and labels as they are.       *)
THEOREM OverwritesAreOwned == Safety => OverwriteOnlyOwned
<1>1. IInv /\ [Next]_vars => [OwnersOverwrite]_vars
  BY StepOverwrites
<1> QED BY <1>1, Initial, Inductive, PTL DEF Safety, OverwriteOnlyOwned, OwnersOverwrite
=============================================================================
