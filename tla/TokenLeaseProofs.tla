-------------------------- MODULE TokenLeaseProofs --------------------------
(***************************************************************************)
(* Proof that TokenSecret implements SecretLease: the Secrets behave as    *)
(* leases of their names, for any Tokens, Keys, manifests and bounds.      *)
(***************************************************************************)
EXTENDS TokenSecretProofs

(* Nothing holds credentials that outlast what GitHub grants at time n,    *)
(* and those minted last as long as those they are about to replace.       *)
Bounded(s, n) == s # Nil => s.expires <= n + TokenValidity

Timely(w, n) ==
    /\ Bounded(w.secret, n)
    /\ w.pc \in {"create", "update"} => w.expires <= n + TokenValidity
    /\ w.pc = "update" => w.secret.expires <= w.expires

StoresTimely == \A k \in Keys : Bounded(secrets[k], now) /\ Bounded(secretCache[k], now)
WorkersTimely == \A t \in Tokens : Timely(worker[t], now)

LInv == IInv /\ StoresTimely /\ WorkersTimely

----------------------------------------------------------------------------
LEMMA PutTimely ==
    ASSUME LInv, NEW t \in Tokens, NEW w, Timely(w, now), UNCHANGED now,
           worker' = [worker EXCEPT ![t] = w]
    PROVE  WorkersTimely'
<1>1. worker \in [Tokens -> Worker]
  BY DEF LInv, IInv, TypeOK
<1> SUFFICES ASSUME NEW u \in Tokens PROVE Timely(worker'[u], now)
  BY DEF WorkersTimely
<1>2. CASE u = t
  BY <1>1, <1>2
<1>3. CASE u # t
  <2>1. worker'[u] = worker[u]
    BY <1>1, <1>3
  <2> QED BY <2>1 DEF LInv, WorkersTimely
<1> QED BY <1>2, <1>3

LEMMA IdleIsTimely == \A n \in Nat : Timely(IdleWorker, n)
BY DEF Timely, Bounded, IdleWorker

LEMMA EndTimely ==
    ASSUME LInv, NEW t \in Tokens, Error(t) \/ Requeued(t), UNCHANGED now
    PROVE  WorkersTimely'
<1>1. worker' = [worker EXCEPT ![t] = IdleWorker] /\ now \in Nat
  BY DEF Error, Requeued, LInv, IInv, TypeOK
<1> QED BY <1>1, IdleIsTimely, PutTimely

(* A step within a reconciliation that leaves Secret and expiry in hand.   *)
LEMMA GotoTimely ==
    ASSUME LInv, NEW t \in Tokens, NEW w, Goto(t, w), UNCHANGED now,
           w.pc \notin {"create", "update"}, w.secret \in {worker[t].secret, Nil}
    PROVE  WorkersTimely'
<1>1. Timely(w, now)
  BY DEF Timely, LInv, WorkersTimely, Bounded
<1> QED BY <1>1, PutTimely DEF Goto

LEMMA WorkerKnown ==
    ASSUME LInv, NEW t \in Tokens
    PROVE  worker[t] \in Worker /\ Good(t, worker[t]) /\ Timely(worker[t], now) /\ now \in Nat
BY DEF LInv, IInv, TypeOK, WorkersGood, WorkersTimely

----------------------------------------------------------------------------
(* The workers stay timely.                                                *)
LEMMA WorkerStepTimely ==
    ASSUME LInv, NEW t \in Tokens, WorkerStep(t) \/ CallFails(t) \/ ResponseLost(t)
    PROVE  WorkersTimely' /\ UNCHANGED <<now, secretCache>>
<1> DEFINE w == worker[t]
<1>1. UNCHANGED <<now, secretCache>>
  BY DEF WorkerStep, StartGone, Start, StartAppUnavailable, WriteAppFailure,
     LookupManaged, DeleteSecret, GetSecret, Mint, MintFails, CreateSecret, UpdateSecret,
     CallRefused, RefreshOwner, WriteStatus, StatusUnchanged, StatusConflict,
     CallFails, ResponseLost, Environment
<1>2. w \in Worker /\ Good(t, w) /\ Timely(w, now) /\ now \in Nat
  BY WorkerKnown
<1>3. CASE StartGone(t)
  BY <1>1, <1>3 DEF StartGone, LInv, WorkersTimely
<1>4. CASE StartAppUnavailable(t)
  <2>1. CASE UNCHANGED worker
    BY <1>1, <2>1 DEF LInv, WorkersTimely
  <2>2. ASSUME NEW failure \in AppFailures,
               worker' = [worker EXCEPT ![t] = NoApp(t, failure)]
        PROVE  WorkersTimely'
    <3>1. Timely(NoApp(t, failure), now)
      BY DEF NoApp, Timely, Bounded, IdleWorker
    <3> QED BY <1>1, <2>2, <3>1, PutTimely
  <2> QED BY <1>1, <1>4, <2>1, <2>2 DEF StartAppUnavailable, NoApp
<1>5. CASE Start(t)
  <2> DEFINE owner == tokenCache[t]
             stale == owner.managed # Nil /\ ~ MatchesSpec(owner)
             s == [IdleWorker EXCEPT !.pc = IF stale THEN "lookup" ELSE "get",
                                     !.owner = owner]
  <2>1. Timely(s, now)
    BY DEF Timely, Bounded, IdleWorker
  <2>2. worker' = [worker EXCEPT ![t] = s]
    BY <1>5 DEF Start
  <2> QED BY <1>1, <2>1, <2>2, PutTimely
<1>6. CASE LookupManaged(t)
  <2>1. Goto(t, [w EXCEPT !.pc = "delete"]) \/ Goto(t, [w EXCEPT !.pc = "get"])
    BY <1>6 DEF LookupManaged
  <2> QED BY <1>1, <1>2, <2>1, GotoTimely DEF Worker
<1>7. CASE DeleteSecret(t)
  BY <1>1, <1>2, <1>7, GotoTimely DEF DeleteSecret, Worker
<1>8. CASE GetSecret(t)
  <2> DEFINE s == secretCache[w.owner.spec.key]
             found == [w EXCEPT !.pc = "mint", !.secret = s, !.cond = "None", !.tries = 0]
             foreign == [w EXCEPT !.pc = "refresh", !.cond = "Failed", !.tries = 0]
  <2>1. Goto(t, found) \/ Goto(t, foreign)
    BY <1>8 DEF GetSecret
  <2>2. CASE Goto(t, foreign)
    BY <1>1, <1>2, <2>2, GotoTimely DEF Worker
  <2>3. CASE Goto(t, found)
    <3>1. w.owner.spec.key \in Keys
      BY <1>2, <1>8 DEF GetSecret, Good, TokenObject, Spec
    <3>2. Timely(found, now)
      BY <1>2, <3>1 DEF LInv, StoresTimely, Timely, Worker
    <3> QED BY <1>1, <2>3, <3>2, PutTimely DEF Goto
  <2> QED BY <2>1, <2>2, <2>3
<1>9. CASE Mint(t)
  <2> DEFINE m == [w EXCEPT !.pc = IF w.secret = Nil THEN "create" ELSE "update",
                            !.expires = now + TokenValidity]
  <2>1. /\ m.secret = w.secret /\ m.expires = now + TokenValidity
        /\ m.pc = IF w.secret = Nil THEN "create" ELSE "update"
    BY <1>2 DEF Worker
  <2>2. now + TokenValidity \in Nat
    BY <1>2, NumbersAssumption
  <2>3. Timely(m, now)
    BY <1>2, <2>1, <2>2 DEF Timely, Bounded
  <2>4. Goto(t, m)
    BY <1>9 DEF Mint
  <2> QED BY <1>1, <2>3, <2>4, PutTimely DEF Goto
<1>10. CASE CreateSecret(t) \/ UpdateSecret(t)
  <2>1. \/ Goto(t, [w EXCEPT !.pc = "refresh", !.cond = "Created"])
        \/ Goto(t, [w EXCEPT !.pc = "refresh", !.cond = "Updated", !.secret = Nil])
    BY <1>10 DEF CreateSecret, UpdateSecret
  <2> QED BY <1>1, <1>2, <2>1, GotoTimely DEF Worker
<1>11. CASE RefreshOwner(t)
  <2>1. Error(t) \/ Goto(t, [w EXCEPT !.pc = "write", !.owner = tokenCache[t]])
    BY <1>11 DEF RefreshOwner
  <2> QED BY <1>1, <1>2, <2>1, GotoTimely, EndTimely DEF Worker
<1>12. CASE WriteStatus(t) \/ StatusUnchanged(t)
  <2> DEFINE o == Mutated(w.owner, w.cond, w.expires)
  <2>1. Error(t) \/ Requeued(t) \/ Goto(t, [w EXCEPT !.pc = "get", !.owner = o])
    BY <1>12 DEF WriteStatus, StatusUnchanged, StatusDone, RequeueAfter, Requeued
  <2> HIDE DEF o
  <2> QED BY <1>1, <1>2, <2>1, GotoTimely, EndTimely DEF Worker
<1>13. CASE StatusConflict(t)
  <2>1. Error(t) \/ Goto(t, [w EXCEPT !.pc = "refresh", !.tries = w.tries + 1])
    BY <1>13 DEF StatusConflict
  <2> QED BY <1>1, <1>2, <2>1, GotoTimely, EndTimely DEF Worker
<1>14. CASE \/ WriteAppFailure(t) \/ MintFails(t) \/ CallRefused(t)
            \/ CallFails(t) \/ ResponseLost(t)
  BY <1>1, <1>14, EndTimely DEF WriteAppFailure, MintFails, CallRefused, CallFails,
                                ResponseLost, RequeueAfter, Requeued
<1> QED BY <1>1, <1>3, <1>4, <1>5, <1>6, <1>7, <1>8, <1>9, <1>10, <1>11, <1>12, <1>13, <1>14
        DEF WorkerStep

----------------------------------------------------------------------------
LEMMA TimeMoves ==
    ASSUME Next
    PROVE  Tick \/ UNCHANGED now
BY DEF Next, ClusterStep, CreateToken, EditToken, DeleteToken, Meddle, CollectGarbage,
   SyncToken, TimerFires, AppEvent, SyncSecret, Restart, WorkerStep, StartGone, Start,
   StartAppUnavailable, WriteAppFailure, LookupManaged, DeleteSecret, GetSecret, Mint,
   MintFails, CreateSecret, UpdateSecret, CallRefused, RefreshOwner, WriteStatus,
   StatusUnchanged, StatusConflict, CallFails, ResponseLost, Environment

(* What the steps that change Secrets store, and at which name.            *)
Stores(k, s) ==
    /\ secrets' = [secrets EXCEPT ![k] = s] /\ UNCHANGED now
    /\ \/ secrets[k] # Nil /\ s = Nil
       \/ secrets[k] = Nil /\ s \in SecretObject /\ s.expires <= now + TokenValidity
       \/ /\ secrets[k] # Nil /\ s \in SecretObject /\ s.expires <= now + TokenValidity
          /\ secrets[k].owner # Nil /\ secrets[k].expires <= s.expires
          /\ s.owner = secrets[k].owner /\ s.type = secrets[k].type
          /\ s.labels = secrets[k].labels

LEMMA ChangesStore ==
    ASSUME LInv, Next, secrets' # secrets
    PROVE  \E k \in Keys : \E s \in SecretObject \cup {Nil} : Stores(k, s)
<1>1. /\ secrets \in [Keys -> SecretObject \cup {Nil}] /\ now \in Nat
      /\ TokenValidity \in Nat
  BY NumbersAssumption DEF LInv, IInv, TypeOK
<1>2. UNCHANGED now
  BY TimeMoves DEF Tick
<1>3. ASSUME NEW k \in Keys, CollectGarbage(k)
      PROVE  Stores(k, Nil)
  BY <1>2, <1>3 DEF CollectGarbage, Stores
<1>4. ASSUME NEW k \in Keys, NEW l \in Labels, Meddle(k, l)
      PROVE  \E s \in SecretObject \cup {Nil} : Stores(k, s)
  <2> DEFINE f == [owner |-> Nil, type |-> FALSE, basic |-> FALSE, labels |-> l, expires |-> 0]
  <2>1. CASE secrets[k] # Nil
    BY <1>2, <1>4, <2>1 DEF Meddle, Stores
  <2>2. CASE secrets[k] = Nil
    <3>1. f \in SecretObject /\ f.expires <= now + TokenValidity
      BY <1>1 DEF SecretObject
    <3>2. secrets' = [secrets EXCEPT ![k] = f]
      BY <1>4, <2>2 DEF Meddle
    <3> QED BY <1>2, <2>2, <3>1, <3>2 DEF Stores
  <2> QED BY <2>1, <2>2
<1>5. ASSUME NEW t \in Tokens, DeleteApplies(t) \/ CreateApplies(t) \/ UpdateApplies(t)
      PROVE  \E k \in Keys : \E s \in SecretObject \cup {Nil} : Stores(k, s)
  <2> DEFINE w == worker[t]
  <2>1. w \in Worker /\ Good(t, w) /\ Timely(w, now)
    BY WorkerKnown
  <2>2. CASE DeleteApplies(t)
    <3>1. w.owner.managed.key \in Keys
      BY <2>1, <2>2 DEF DeleteApplies, Good, ManagedSecret
    <3> QED BY <1>2, <2>2, <3>1 DEF DeleteApplies, Stores
  <2>3. CASE CreateApplies(t)
    <3> DEFINE k == w.owner.spec.key
               s == NewSecret(t, w.owner, w.expires)
    <3>1. w.owner \in TokenObject /\ w.expires \in Nat /\ w.expires <= now + TokenValidity
      BY <2>1, <2>3 DEF CreateApplies, Good, Worker, Timely
    <3>2. s \in SecretObject /\ s.expires = w.expires
      BY <3>1 DEF NewSecret, SecretObject, Ref, OwnerRef, TokenObject, Spec
    <3>3. k \in Keys /\ secrets[k] = Nil /\ secrets' = [secrets EXCEPT ![k] = s]
      BY <2>3, <3>1 DEF CreateApplies, TokenObject, Spec
    <3> HIDE DEF s, k, w
    <3>4. Stores(k, s)
      BY <1>2, <3>1, <3>2, <3>3 DEF Stores
    <3> QED BY <3>2, <3>3, <3>4
  <2>4. CASE UpdateApplies(t)
    <3> DEFINE k == w.owner.spec.key
               s == [w.secret EXCEPT !.basic = w.owner.spec.basic, !.expires = w.expires]
    <3>1. /\ w.pc = "update" /\ secrets[k] = w.secret
          /\ secrets' = [secrets EXCEPT ![k] = s]
      BY <2>4 DEF UpdateApplies
    <3>2. w.owner \in TokenObject /\ k \in Keys /\ w.expires \in Nat
      BY <2>1, <3>1 DEF Good, Worker, TokenObject, Spec
    <3>3. /\ w.secret \in SecretObject /\ w.secret.owner = Ref(t, w.owner)
      BY <2>1, <3>1 DEF Good, Worker
    <3>4. w.secret.owner # Nil
      <4>1. Ref(t, w.owner) \in OwnerRef
        BY <3>2 DEF Ref, OwnerRef, TokenObject
      <4> QED BY <3>3, <4>1, NilAssumption
    <3>5. w.expires <= now + TokenValidity /\ w.secret.expires <= w.expires
      BY <2>1, <3>1 DEF Timely
    <3>6. /\ s \in SecretObject /\ s.expires = w.expires /\ s.owner = w.secret.owner
          /\ s.type = w.secret.type /\ s.labels = w.secret.labels
      BY <3>2, <3>3 DEF SecretObject, TokenObject, Spec
    <3>7. w.secret # Nil
      BY <2>1, <3>1 DEF Good
    <3> HIDE DEF s, k, w
    <3>8. s.expires <= now + TokenValidity /\ secrets[k].expires <= s.expires
      BY <3>1, <3>5, <3>6
    <3>9. /\ secrets[k].owner # Nil /\ s.owner = secrets[k].owner
          /\ s.type = secrets[k].type /\ s.labels = secrets[k].labels
      BY <3>1, <3>4, <3>6
    <3>10. Stores(k, s)
      BY <1>2, <3>1, <3>6, <3>7, <3>8, <3>9 DEF Stores
    <3> QED BY <3>2, <3>6, <3>10
  <2> QED BY <1>5, <2>2, <2>3, <2>4
<1> QED BY <1>3, <1>4, <1>5, SecretChanges

----------------------------------------------------------------------------
(* The bounds on what is stored and held are inductive.                    *)
LEMMA Later ==
    ASSUME NEW m \in Nat, NEW s \in SecretObject \cup {Nil}, Bounded(s, m)
    PROVE  Bounded(s, m + 1)
BY NumbersAssumption DEF Bounded, SecretObject

LEMMA StoresStayTimely ==
    ASSUME LInv, Next
    PROVE  StoresTimely'
<1>1. /\ secrets \in [Keys -> SecretObject \cup {Nil}]
      /\ secretCache \in [Keys -> SecretObject \cup {Nil}] /\ now \in Nat
  BY DEF LInv, IInv, TypeOK
<1>2. CASE Tick
  BY <1>1, <1>2, Later DEF Tick, LInv, StoresTimely
<1>3. CASE ~ Tick
  <2>1. UNCHANGED now
    BY <1>3, TimeMoves
  <2>2. \A k \in Keys : Bounded(secrets'[k], now)
    <3>1. CASE UNCHANGED secrets
      BY <3>1 DEF LInv, StoresTimely
    <3>2. CASE secrets' # secrets
      <4>1. PICK k \in Keys, s \in SecretObject \cup {Nil} : Stores(k, s)
        BY <3>2, ChangesStore
      <4>2. Bounded(s, now) /\ secrets' = [secrets EXCEPT ![k] = s]
        BY <4>1 DEF Stores, Bounded
      <4> QED BY <1>1, <4>2 DEF LInv, StoresTimely
    <3> QED BY <3>1, <3>2
  <2>3. \A k \in Keys : secretCache'[k] \in {secretCache[k], secrets[k]}
    BY <1>1 DEF Next, ClusterStep, CreateToken, EditToken, DeleteToken, Meddle, CollectGarbage,
       Tick, SyncToken, TimerFires, AppEvent, SyncSecret, Restart, WorkerStep, StartGone, Start,
       StartAppUnavailable, WriteAppFailure, LookupManaged, DeleteSecret, GetSecret, Mint,
       MintFails, CreateSecret, UpdateSecret, CallRefused, RefreshOwner, WriteStatus,
       StatusUnchanged, StatusConflict, CallFails, ResponseLost, Environment
  <2> QED BY <2>1, <2>2, <2>3 DEF LInv, StoresTimely
<1> QED BY <1>2, <1>3

LEMMA WorkersStayTimely ==
    ASSUME LInv, Next
    PROVE  WorkersTimely'
<1>1. worker \in [Tokens -> Worker] /\ now \in Nat
  BY DEF LInv, IInv, TypeOK
<1>2. ASSUME NEW t \in Tokens, WorkerStep(t) \/ CallFails(t) \/ ResponseLost(t)
      PROVE  WorkersTimely'
  BY <1>2, WorkerStepTimely
<1>3. CASE Restart
  BY <1>1, <1>3, IdleIsTimely DEF Restart, WorkersTimely
<1>4. CASE Tick
  <2> SUFFICES ASSUME NEW t \in Tokens PROVE Timely(worker[t], now + 1)
    BY <1>4 DEF Tick, WorkersTimely
  <2>1. worker[t] \in Worker /\ Timely(worker[t], now)
    BY WorkerKnown
  <2>2. Bounded(worker[t].secret, now + 1)
    BY <1>1, <2>1, Later DEF Worker, Timely
  <2>3. worker[t].expires \in Nat
    BY <2>1 DEF Worker
  <2> QED BY <1>1, <2>1, <2>2, <2>3, NumbersAssumption DEF Timely
<1>5. CASE UNCHANGED <<worker, now>>
  BY <1>5 DEF LInv, WorkersTimely
<1>6. CASE ClusterStep
  BY <1>4, <1>5, <1>6 DEF ClusterStep, CreateToken, EditToken, DeleteToken, Meddle, CollectGarbage
<1>7. CASE \/ \E t \in Tokens : SyncToken(t) \/ TimerFires(t) \/ AppEvent(t)
           \/ \E k \in Keys : SyncSecret(k)
  BY <1>5, <1>7 DEF SyncToken, TimerFires, AppEvent, SyncSecret
<1> QED BY <1>2, <1>3, <1>6, <1>7 DEF Next

LEMMA LInitial == Init => LInv
<1> SUFFICES ASSUME Init PROVE LInv
  OBVIOUS
<1>1. now = 0 /\ \A k \in Keys : secrets[k] = Nil /\ secretCache[k] = Nil
  BY DEF Init
<1>2. \A t \in Tokens : worker[t] = IdleWorker
  BY DEF Init
<1> QED BY <1>1, <1>2, Initial, IdleIsTimely DEF LInv, StoresTimely, WorkersTimely, Bounded

LEMMA LInductive == LInv /\ [Next]_vars => LInv'
<1> SUFFICES ASSUME LInv, [Next]_vars PROVE LInv'
  OBVIOUS
<1>1. IInv'
  BY Inductive DEF LInv
<1>2. CASE Next
  BY <1>1, <1>2, StoresStayTimely, WorkersStayTimely DEF LInv
<1>3. CASE UNCHANGED vars
  BY <1>1, <1>3 DEF LInv, vars, StoresTimely, WorkersTimely
<1> QED BY <1>2, <1>3

----------------------------------------------------------------------------
(* Every step is a step of the leases, or none.                            *)
LEMMA LeaseType ==
    ASSUME NEW s \in SecretObject
    PROVE  [holder |-> s.owner, type |-> s.type, labels |-> s.labels, expires |-> s.expires]
             \in Lease!Lease
BY DEF Lease!Lease, SecretObject

LEMMA StoreIsLease ==
    ASSUME LInv, NEW k \in Keys, NEW s \in SecretObject \cup {Nil}, Stores(k, s)
    PROVE  [Lease!Next]_(Lease!leaseVars)
<1> DEFINE Of(r) == IF r = Nil THEN Nil
                    ELSE [holder |-> r.owner, type |-> r.type,
                          labels |-> r.labels, expires |-> r.expires]
<1>1. secrets \in [Keys -> SecretObject \cup {Nil}] /\ secrets' = [secrets EXCEPT ![k] = s]
  BY DEF LInv, IInv, TypeOK, Stores
<1>2. Leased = [j \in Keys |-> Of(secrets[j])] /\ Leased' = [j \in Keys |-> Of(secrets'[j])]
  BY DEF Leased
<1>3. Leased[k] = Of(secrets[k]) /\ Leased'[k] = Of(s)
  BY <1>1, <1>2
<1>4. Leased' = [Leased EXCEPT ![k] = Leased'[k]]
  <2> HIDE DEF Of
  <2>1. \A j \in Keys : j # k => Leased'[j] = Leased[j]
    BY <1>1, <1>2
  <2>2. Leased = [j \in Keys |-> Leased[j]] /\ Leased' = [j \in Keys |-> Leased'[j]]
    BY <1>2
  <2> QED BY <2>1, <2>2
<1>5. \A r \in SecretObject : Of(r) # Nil /\ Of(r) \in Lease!Lease
                             /\ Of(r).expires = r.expires /\ Of(r).holder = r.owner
  <2> TAKE r \in SecretObject
  <2>1. r # Nil
    BY NilAssumption
  <2> QED BY <2>1, LeaseType, LeaseNil
<1>6. UNCHANGED now
  BY DEF Stores
<1>7. Lease!Take(k) \/ Lease!Renew(k) \/ Lease!End(k)
  <2>1. CASE secrets[k] # Nil /\ s = Nil
    <3>1. Leased[k] # Nil /\ Leased'[k] = Nil
      BY <1>1, <1>3, <1>5, <2>1
    <3> QED BY <3>1 DEF Lease!End
  <2>2. CASE secrets[k] = Nil /\ s \in SecretObject /\ s.expires <= now + TokenValidity
    <3>1. Leased[k] = Nil
      BY <1>3, <2>2
    <3>2. Leased'[k] \in Lease!Lease /\ Leased'[k].expires = s.expires
      <4> HIDE DEF Of
      <4> QED BY <1>3, <1>5, <2>2
    <3> QED BY <2>2, <3>1, <3>2 DEF Lease!Take, Lease!Granted
  <2>3. CASE /\ secrets[k] # Nil /\ s \in SecretObject /\ s.expires <= now + TokenValidity
             /\ secrets[k].owner # Nil /\ secrets[k].expires <= s.expires
             /\ s.owner = secrets[k].owner /\ s.type = secrets[k].type
             /\ s.labels = secrets[k].labels
    <3> DEFINE r == secrets[k]
    <3>1. r \in SecretObject
      BY <1>1, <2>3
    <3>2. /\ Leased[k] # Nil /\ Leased'[k] \in Lease!Lease
          /\ Leased[k].holder = r.owner /\ Leased[k].expires = r.expires
          /\ Leased'[k].expires = s.expires
      <4> HIDE DEF Of
      <4> QED BY <1>3, <1>5, <2>3, <3>1
    <3>3. Leased'[k] = [Leased[k] EXCEPT !.expires = Leased'[k].expires]
      <4>1. r # Nil /\ s # Nil
        BY <2>3, NilAssumption
      <4> QED BY <1>3, <2>3, <4>1
    <3> QED BY <2>3, <3>2, <3>3 DEF Lease!Renew, Lease!Granted
  <2> QED BY <2>1, <2>2, <2>3 DEF Stores
<1> QED BY <1>4, <1>6, <1>7 DEF Lease!Next, Lease!Change, Lease!leaseVars

LEMMA StepIsLease ==
    ASSUME LInv, [Next]_vars
    PROVE  [Lease!Next]_(Lease!leaseVars)
<1>1. CASE secrets' # secrets
  <2>1. Next
    BY <1>1 DEF vars
  <2> QED BY <1>1, <2>1, ChangesStore, StoreIsLease
<1>2. CASE Tick
  BY <1>2 DEF Tick, Leased, Lease!Next, Lease!Pass
<1>3. CASE UNCHANGED <<secrets, now>>
  BY <1>3 DEF Leased, Lease!leaseVars
<1>4. UNCHANGED secrets => Tick \/ UNCHANGED now
  BY TimeMoves DEF vars
<1> QED BY <1>1, <1>2, <1>3, <1>4

(* The Token controller implements the leases: under every interleaving of *)
(* workers, stale cache, fault and restart, a Secret changes hands only by *)
(* ceasing to exist, and no renewal shortens what its readers hold.        *)
THEOREM SecretsAreLeases == Safety => ImplementsLease
<1>1. Init => Lease!Init
  BY DEF Init, Leased, Lease!Init
<1> QED BY <1>1, LInitial, LInductive, StepIsLease, PTL
        DEF Safety, ImplementsLease, Lease!LeaseSpec
=============================================================================
