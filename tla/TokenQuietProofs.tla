-------------------------- MODULE TokenQuietProofs --------------------------
(***************************************************************************)
(* Proofs of what holds when edits do not race a reconciliation, for any   *)
(* Tokens, Keys, manifests and bounds: a Token owns no Secret that neither *)
(* its spec nor its status names, the data of a Secret are of the kind of  *)
(* its type, and the status never promises more than the Secret holds.     *)
(***************************************************************************)
EXTENDS TokenReadyProofs

(* While a worker runs, views of one incarnation are of one version.       *)
Steady(t) ==
    worker[t].pc # "idle" => \A v, w \in Views(t) : v.uid = w.uid => v = w

(* Incarnations become known in their order: to the server, the cache and  *)
(* the worker, whose Secrets are of the incarnations it has read.          *)
Of(t, s) == s # Nil /\ s.owner # Nil /\ s.owner.token = t

Known(t, u) ==
    /\ u <= incarnation
    /\ worker[t].pc # "idle" => u <= worker[t].owner.uid
    /\ tokenCache[t] # Nil => u <= tokenCache[t].uid
    /\ tokens[t] # Nil /\ tokenCache[t] = Nil => u < tokens[t].uid

Ladder(t) ==
    /\ tokens[t] # Nil /\ tokenCache[t] # Nil => tokenCache[t].uid <= tokens[t].uid
    /\ worker[t].pc # "idle" /\ tokenCache[t] # Nil => worker[t].owner.uid <= tokenCache[t].uid
    /\ worker[t].pc # "idle" /\ tokens[t] # Nil /\ tokenCache[t] = Nil =>
         worker[t].owner.uid < tokens[t].uid
    /\ \A k \in Keys : Of(t, secrets[k]) => Known(t, secrets[k].owner.uid)

(* The Secrets of the incarnation obj of t are the one its spec asks for,  *)
(* or one its status names, which the worker will find in the cache.       *)
InPlace(obj, k, s) == k = obj.spec.key /\ s.type = obj.spec.basic
LeftOver(obj, k, s, seen) == obj.managed = [key |-> k, basic |-> s.type] /\ seen = s

Clean(t, obj, store) ==
    \A k \in Keys : IsControlledBy(store[k], t, obj) => InPlace(obj, k, store[k])
Tidy(t, obj, store, cache) ==
    \A k \in Keys : IsControlledBy(store[k], t, obj) =>
        InPlace(obj, k, store[k]) \/ LeftOver(obj, k, store[k], cache[k])

(* Until DeleteSecret has run, the worker may have a Secret to remove.     *)
Unswept == {"lookup", "delete"}
Swept == {"get", "mint", "create", "update", "refresh", "write"}

Kept(t) ==
    /\ tokens[t] # Nil => Tidy(t, tokens[t], secrets, secretCache)
    /\ tokenCache[t] # Nil => Tidy(t, tokenCache[t], secrets, secretCache)
    /\ worker[t].pc \in Unswept => Tidy(t, worker[t].owner, secrets, secretCache)
    /\ worker[t].pc \in Swept => Clean(t, worker[t].owner, secrets)

(* No expiry is later than what GitHub grants now; the status expires no   *)
(* later than the Secret, nor will it after the writes that are under way. *)
Lasts(t, obj, e, store) ==
    \A k \in Keys : IsControlledBy(store[k], t, obj) => e <= store[k].expires

Honest(t) ==
    LET w == worker[t] IN
    /\ w.expires <= now + TokenValidity
    /\ tokens[t] # Nil => /\ tokens[t].expires <= now + TokenValidity
                          /\ Lasts(t, tokens[t], tokens[t].expires, secrets)
                          /\ w.pc \in {"create", "update"} => tokens[t].expires <= w.expires
    /\ w.pc \in {"refresh", "write"} /\ w.cond \in ReadyTrue =>
         Lasts(t, w.owner, w.expires, secrets)

QInv ==
    /\ IInv /\ KindMatches
    /\ \A t \in Tokens : Lineage(t) /\ Steady(t) /\ Ladder(t) /\ Kept(t) /\ Honest(t)

----------------------------------------------------------------------------
(* What a step of the worker of t does to what it has in hand.             *)
Still == UNCHANGED <<tokens, secrets>>
Effects(t) == \/ DeleteApplies(t) \/ CreateApplies(t) \/ UpdateApplies(t)
              \/ StatusApplies(t) \/ AppFailureApplies(t)

Ends(t) == worker'[t].pc = "idle" /\ worker'[t].expires \in {0, worker[t].expires}

Starts(t) ==
    /\ worker[t].pc = "idle" /\ worker'[t].pc \in {"lookup", "get", "appFailure"}
    /\ tokenCache[t] # Nil /\ worker'[t].owner = tokenCache[t] /\ worker'[t].expires = 0
    /\ worker'[t].pc = "get" => tokenCache[t].managed = Nil \/ MatchesSpec(tokenCache[t])
    /\ (Quiet => EditSeen(t)) /\ Still

Advances(t) ==
    LET w == worker[t]
        v == worker'[t]
    IN
    \/ /\ v.owner = w.owner /\ v.expires = w.expires
       /\ \/ w.pc = "lookup" /\ v.pc = "delete" /\ Still
          \/ /\ w.pc = "lookup" /\ v.pc = "get" /\ Still
             /\ ~ IsControlledBy(secretCache[w.owner.managed.key], t, w.owner)
          \/ /\ w.pc = "delete" /\ v.pc = "refresh" /\ v.cond \notin ReadyTrue
             /\ DeleteApplies(t)
          \/ w.pc = "get" /\ v.pc = "mint" /\ Still
          \/ w.pc = "get" /\ v.pc = "refresh" /\ v.cond \notin ReadyTrue /\ Still
          \/ v.pc = "refresh" /\ (CreateApplies(t) \/ UpdateApplies(t))
          \/ w.pc = "write" /\ v.pc = "refresh" /\ v.cond = w.cond /\ Still
    \/ /\ w.pc = "mint" /\ v.pc \in {"create", "update"} /\ Still
       /\ v.owner = w.owner /\ v.expires = now + TokenValidity
    \/ /\ w.pc = "refresh" /\ v.pc = "write" /\ Still
       /\ tokenCache[t] # Nil /\ v.owner = tokenCache[t]
       /\ v.expires = w.expires /\ v.cond = w.cond
    \/ /\ w.pc = "write" /\ v.pc = "get" /\ (Still \/ StatusApplies(t))
       /\ Revised(w.owner, v.owner) /\ v.expires = w.expires

LEMMA ActsMove ==
    ASSUME IInv, NEW t \in Tokens, Acts(t)
    PROVE  /\ Still \/ Effects(t)
           /\ Ends(t) \/ Starts(t) \/ Advances(t)
<1> DEFINE w == worker[t]
<1>1. worker \in [Tokens -> Worker] /\ w \in Worker
  BY DEF IInv, TypeOK
<1>2. Still \/ Effects(t)
  BY DEF Still, Effects, Acts, WorkerStep, StartGone, Start, StartAppUnavailable,
     WriteAppFailure, LookupManaged, DeleteSecret, GetSecret, Mint, MintFails, CreateSecret,
     UpdateSecret, CallRefused, RefreshOwner, WriteStatus, StatusUnchanged, StatusConflict,
     CallFails, ResponseLost
<1>3. ASSUME Error(t) \/ Requeued(t) \/ (UNCHANGED worker /\ w.pc = "idle")
      PROVE  Ends(t)
  BY <1>1, <1>3 DEF Error, Requeued, IdleWorker, Ends
<1>4. ASSUME NEW r, Goto(t, r) PROVE worker'[t] = r
  BY <1>1, <1>4 DEF Goto
<1>5. CASE \/ StartGone(t) \/ WriteAppFailure(t) \/ MintFails(t) \/ CallRefused(t)
           \/ CallFails(t) \/ ResponseLost(t)
  BY <1>2, <1>3, <1>5 DEF StartGone, Take, WriteAppFailure, MintFails, CallRefused, CallFails,
                          ResponseLost, RequeueAfter, Requeued
<1>6. CASE StartAppUnavailable(t)
  <2>1. CASE UNCHANGED worker
    BY <1>2, <1>3, <1>6, <2>1 DEF StartAppUnavailable, Take
  <2>2. ASSUME NEW failure \in AppFailures,
               worker' = [worker EXCEPT ![t] = NoApp(t, failure)]
        PROVE  Starts(t)
    <3>1. worker'[t] = NoApp(t, failure)
      BY <1>1, <2>2
    <3> QED BY <1>1, <1>2, <1>6, <3>1
            DEF StartAppUnavailable, Take, NoApp, IdleWorker, Starts, Still
  <2> QED BY <1>2, <1>6, <2>1, <2>2 DEF StartAppUnavailable, NoApp
<1>7. CASE Start(t)
  <2> DEFINE stale == tokenCache[t].managed # Nil /\ ~ MatchesSpec(tokenCache[t])
             r == [IdleWorker EXCEPT !.pc = IF stale THEN "lookup" ELSE "get",
                                     !.owner = tokenCache[t]]
  <2>1. /\ worker' = [worker EXCEPT ![t] = r] /\ w.pc = "idle" /\ tokenCache[t] # Nil
        /\ (Quiet => EditSeen(t)) /\ Still
    BY <1>7 DEF Start, Take, Still
  <2>2. worker'[t] = r
    BY <1>1, <2>1
  <2>3. /\ r.pc \in {"lookup", "get"} /\ r.owner = tokenCache[t] /\ r.expires = 0
        /\ r.pc = "get" => ~ stale
    BY DEF IdleWorker
  <2> HIDE DEF r
  <2> QED BY <1>2, <2>1, <2>2, <2>3 DEF Starts
<1>8. CASE LookupManaged(t)
  <2> DEFINE d == [w EXCEPT !.pc = "delete"]
             g == [w EXCEPT !.pc = "get"]
  <2>1. /\ w.pc = "lookup" /\ Still
        /\ \/ Goto(t, d)
           \/ Goto(t, g) /\ ~ IsControlledBy(secretCache[w.owner.managed.key], t, w.owner)
    BY <1>8 DEF LookupManaged, Still
  <2>2. /\ d.pc = "delete" /\ d.owner = w.owner /\ d.expires = w.expires
        /\ g.pc = "get" /\ g.owner = w.owner /\ g.expires = w.expires
    BY <1>1 DEF Worker
  <2> HIDE DEF d, g
  <2> QED BY <1>2, <1>4, <2>1, <2>2 DEF Advances
<1>9. CASE DeleteSecret(t)
  <2> DEFINE r == [w EXCEPT !.pc = "refresh", !.cond = "Reconciling"]
  <2>1. DeleteApplies(t) /\ w.pc = "delete" /\ Goto(t, r)
    BY <1>9 DEF DeleteSecret, DeleteApplies
  <2>2. r.pc = "refresh" /\ r.owner = w.owner /\ r.expires = w.expires /\ r.cond \notin ReadyTrue
    BY <1>1 DEF Worker, ReadyTrue
  <2> HIDE DEF r
  <2> QED BY <1>2, <1>4, <2>1, <2>2 DEF Advances
<1>10. CASE GetSecret(t)
  <2> DEFINE s == secretCache[w.owner.spec.key]
             found == [w EXCEPT !.pc = "mint", !.secret = s, !.cond = "None", !.tries = 0]
             foreign == [w EXCEPT !.pc = "refresh", !.cond = "Failed", !.tries = 0]
  <2>1. w.pc = "get" /\ Still /\ (Goto(t, found) \/ Goto(t, foreign))
    BY <1>10 DEF GetSecret, Still
  <2>2. /\ found.pc = "mint" /\ found.owner = w.owner /\ found.expires = w.expires
        /\ foreign.pc = "refresh" /\ foreign.owner = w.owner /\ foreign.expires = w.expires
        /\ foreign.cond \notin ReadyTrue
    BY <1>1 DEF Worker, ReadyTrue
  <2> HIDE DEF found, foreign
  <2> QED BY <1>2, <1>4, <2>1, <2>2 DEF Advances
<1>11. CASE Mint(t)
  <2> DEFINE r == [w EXCEPT !.pc = IF w.secret = Nil THEN "create" ELSE "update",
                            !.expires = now + TokenValidity]
  <2>1. w.pc = "mint" /\ Still /\ Goto(t, r)
    BY <1>11 DEF Mint, Still
  <2>2. r.pc \in {"create", "update"} /\ r.owner = w.owner /\ r.expires = now + TokenValidity
    BY <1>1 DEF Worker
  <2> HIDE DEF r
  <2> QED BY <1>2, <1>4, <2>1, <2>2 DEF Advances
<1>12. CASE CreateSecret(t) \/ UpdateSecret(t)
  <2> DEFINE c == [w EXCEPT !.pc = "refresh", !.cond = "Created"]
             u == [w EXCEPT !.pc = "refresh", !.cond = "Updated", !.secret = Nil]
  <2>1. (CreateApplies(t) \/ UpdateApplies(t)) /\ (Goto(t, c) \/ Goto(t, u))
    BY <1>12 DEF CreateSecret, UpdateSecret
  <2>2. /\ c.pc = "refresh" /\ c.owner = w.owner /\ c.expires = w.expires
        /\ u.pc = "refresh" /\ u.owner = w.owner /\ u.expires = w.expires
    BY <1>1 DEF Worker
  <2> HIDE DEF c, u
  <2> QED BY <1>2, <1>4, <2>1, <2>2 DEF Advances
<1>13. CASE RefreshOwner(t)
  <2> DEFINE r == [w EXCEPT !.pc = "write", !.owner = tokenCache[t]]
  <2>1. w.pc = "refresh" /\ Still /\ (Error(t) \/ (Goto(t, r) /\ tokenCache[t] # Nil))
    BY <1>13 DEF RefreshOwner, Still
  <2>2. r.pc = "write" /\ r.owner = tokenCache[t] /\ r.expires = w.expires /\ r.cond = w.cond
    BY <1>1 DEF Worker
  <2> HIDE DEF r
  <2> QED BY <1>2, <1>3, <1>4, <2>1, <2>2 DEF Advances
<1>14. CASE WriteStatus(t) \/ StatusUnchanged(t)
  <2> DEFINE m == Mutated(w.owner, w.cond, w.expires)
             g == [w EXCEPT !.pc = "get", !.owner = Mutated(w.owner, w.cond, w.expires)]
  <2>1. /\ w.pc = "write" /\ (Still \/ StatusApplies(t))
        /\ Goto(t, g) \/ Error(t) \/ Requeued(t)
    BY <1>14 DEF WriteStatus, StatusApplies, StatusUnchanged, StatusDone, Still,
                 RequeueAfter, Requeued
  <2>2. g.pc = "get" /\ g.owner = m /\ g.expires = w.expires
    <3> HIDE DEF m
    <3>1. g = [w EXCEPT !.pc = "get", !.owner = m]
      BY DEF m
    <3> HIDE DEF g
    <3> QED BY <1>1, <3>1 DEF Worker
  <2>3. Revised(w.owner, m)
    BY <1>1 DEF Revised, Worker
  <2> HIDE DEF g, m
  <2> QED BY <1>2, <1>3, <1>4, <2>1, <2>2, <2>3 DEF Advances
<1>15. CASE StatusConflict(t)
  <2> DEFINE r == [w EXCEPT !.pc = "refresh", !.tries = w.tries + 1]
  <2>1. w.pc = "write" /\ Still /\ (Error(t) \/ Goto(t, r))
    BY <1>15 DEF StatusConflict, Still
  <2>2. r.pc = "refresh" /\ r.owner = w.owner /\ r.expires = w.expires /\ r.cond = w.cond
    BY <1>1 DEF Worker
  <2> HIDE DEF r
  <2> QED BY <1>2, <1>3, <1>4, <2>1, <2>2 DEF Advances
<1> QED BY <1>5, <1>6, <1>7, <1>8, <1>9, <1>10, <1>11, <1>12, <1>13, <1>14, <1>15
        DEF Acts, WorkerStep

----------------------------------------------------------------------------
(* Steps that leave t alone, and hand it no Secret.                        *)
Elsewhere(t) ==
    /\ worker'[t] = worker[t] /\ tokenCache'[t] = tokenCache[t]
    /\ tokens'[t] \in {tokens[t], Nil}
    /\ now' \in Nat /\ now' >= now /\ incarnation' \in Nat /\ incarnation' >= incarnation
    /\ \A k \in Keys : Of(t, secrets'[k]) =>
         /\ secrets'[k] = secrets[k]
         /\ secretCache'[k] \in {secrets[k], secretCache[k]}

Owns(t) == \E spec \in Manifests[t] : CreateToken(t, spec) \/ EditToken(t, spec)

LEMMA WorkersElsewhere ==
    ASSUME IInv, NEW t \in Tokens, NEW u \in Tokens, u # t, Acts(u)
    PROVE  Elsewhere(t)
<1>1. /\ UNCHANGED <<tokenCache, secretCache, incarnation, now>>
      /\ worker'[t] = worker[t] /\ tokens'[t] = tokens[t]
  BY ActsApart
<1>2. now \in Nat /\ incarnation \in Nat /\ secrets \in [Keys -> SecretObject \cup {Nil}]
  BY DEF IInv, TypeOK
<1>3. ASSUME NEW k \in Keys, Of(t, secrets'[k])
      PROVE  secrets'[k] = secrets[k]
  <2>1. CASE UNCHANGED secrets
    BY <2>1
  <2>2. CASE DeleteApplies(u)
    BY <1>2, <1>3, <2>2 DEF DeleteApplies, Of
  <2>3. CASE CreateApplies(u)
    BY <1>2, <1>3, <2>3 DEF CreateApplies, Of, NewSecret, Ref
  <2>4. CASE UpdateApplies(u)
    <3>1. \/ secrets'[k] = secrets[k]
          \/ secrets[k].owner = Ref(u, worker[u].owner) /\ secrets'[k].owner = secrets[k].owner
      BY <2>4, UpdateKeepsOwner
    <3> QED BY <1>3, <3>1 DEF Of, Ref
  <2> QED BY <2>1, <2>2, <2>3, <2>4, ActsMove
          DEF Still, Effects, StatusApplies, AppFailureApplies
<1> QED BY <1>1, <1>2, <1>3 DEF Elsewhere

LEMMA ClusterElsewhere ==
    ASSUME IInv, NEW t \in Tokens,
           \/ \E u \in Tokens : \/ DeleteToken(u) \/ TimerFires(u) \/ AppEvent(u)
                                \/ u # t /\ (Owns(u) \/ SyncToken(u))
           \/ \E k \in Keys : CollectGarbage(k) \/ SyncSecret(k) \/ \E l \in Labels : Meddle(k, l)
           \/ Tick \/ UNCHANGED vars
    PROVE  Elsewhere(t)
<1>1. /\ now \in Nat /\ incarnation \in Nat /\ secrets \in [Keys -> SecretObject \cup {Nil}]
      /\ tokens \in [Tokens -> TokenObject \cup {Nil}]
      /\ tokenCache \in [Tokens -> TokenObject \cup {Nil}]
      /\ secretCache \in [Keys -> SecretObject \cup {Nil}]
  BY DEF IInv, TypeOK
<1>2. ASSUME NEW u \in Tokens, \/ DeleteToken(u) \/ TimerFires(u) \/ AppEvent(u)
                               \/ u # t /\ (Owns(u) \/ SyncToken(u))
      PROVE  Elsewhere(t)
  <2>1. UNCHANGED <<secrets, secretCache, worker, now>>
    BY <1>2 DEF DeleteToken, TimerFires, AppEvent, Owns, CreateToken, EditToken, SyncToken
  <2>2. /\ tokenCache'[t] = tokenCache[t] /\ tokens'[t] \in {tokens[t], Nil}
        /\ incarnation' \in {incarnation, incarnation + 1}
    BY <1>1, <1>2 DEF DeleteToken, TimerFires, AppEvent, Owns, CreateToken, EditToken, SyncToken
  <2> QED BY <1>1, <2>1, <2>2 DEF Elsewhere
<1>3. ASSUME NEW k \in Keys, CollectGarbage(k) \/ SyncSecret(k)
      PROVE  Elsewhere(t)
  BY <1>1, <1>3 DEF CollectGarbage, SyncSecret, Elsewhere, Of
<1>4. ASSUME NEW k \in Keys, NEW l \in Labels, Meddle(k, l)
      PROVE  Elsewhere(t)
  BY <1>1, <1>4 DEF Meddle, Elsewhere, Of
<1>5. CASE Tick \/ UNCHANGED vars
  BY <1>1, <1>5 DEF Tick, vars, Elsewhere
<1> QED BY <1>2, <1>3, <1>4, <1>5

(* Whatever happens, from the point of view of t.                          *)
LEMMA StepOf ==
    ASSUME IInv, [Next]_vars, NEW t \in Tokens
    PROVE  Elsewhere(t) \/ Acts(t) \/ Owns(t) \/ SyncToken(t) \/ Restart
<1>1. ASSUME NEW u \in Tokens, u # t, Acts(u) PROVE Elsewhere(t)
  BY <1>1, WorkersElsewhere
<1>2. ASSUME NEW u \in Tokens, u # t, Owns(u) \/ SyncToken(u) PROVE Elsewhere(t)
  BY <1>2, ClusterElsewhere
<1>3. ASSUME NEW u \in Tokens, DeleteToken(u) \/ TimerFires(u) \/ AppEvent(u) PROVE Elsewhere(t)
  BY <1>3, ClusterElsewhere
<1>4. ASSUME NEW k \in Keys, CollectGarbage(k) \/ SyncSecret(k) \/ \E l \in Labels : Meddle(k, l)
      PROVE  Elsewhere(t)
  BY <1>4, ClusterElsewhere
<1>5. CASE Tick \/ UNCHANGED vars
  BY <1>5, ClusterElsewhere
<1> QED BY <1>1, <1>2, <1>3, <1>4, <1>5 DEF Next, ClusterStep, Acts, Owns

----------------------------------------------------------------------------
(* A worker writes the Secret of its spec, and goes on with what it has.   *)
LEMMA WriteApplies ==
    ASSUME IInv, NEW t \in Tokens, CreateApplies(t) \/ UpdateApplies(t)
    PROVE  LET w == worker[t]
               k == w.owner.spec.key
               s == secrets'[k]
           IN  /\ w.pc \in {"create", "update"} /\ w.owner \in TokenObject /\ k \in Keys
               /\ \A j \in Keys : j # k => secrets'[j] = secrets[j]
               /\ s # Nil /\ s.owner = Ref(t, w.owner) /\ s.owner # Nil
               /\ s.expires = w.expires /\ s.basic = w.owner.spec.basic
               /\ \/ secrets[k] = Nil /\ s.type = w.owner.spec.basic
                  \/ IsControlledBy(secrets[k], t, w.owner) /\ s.type = secrets[k].type
               /\ UNCHANGED tokens
<1> DEFINE w == worker[t]
           k == w.owner.spec.key
           s == secrets'[k]
<1>1. /\ w.pc \in {"create", "update"} /\ w.owner \in TokenObject /\ k \in Keys
      /\ w.expires \in Nat /\ w \in Worker /\ Good(t, w)
      /\ secrets \in [Keys -> SecretObject \cup {Nil}] /\ UNCHANGED tokens
  BY DEF IInv, TypeOK, WorkersGood, Good, CreateApplies, UpdateApplies, TokenObject, Spec, Worker
<1>2. \A j \in Keys : j # k => secrets'[j] = secrets[j]
  BY <1>1 DEF CreateApplies, UpdateApplies
<1>3. Ref(t, w.owner) # Nil
  BY <1>1, NilAssumption DEF Ref, OwnerRef, TokenObject
<1>4. CASE CreateApplies(t)
  <2>1. secrets[k] = Nil /\ s = NewSecret(t, w.owner, w.expires)
    BY <1>1, <1>4 DEF CreateApplies
  <2>2. NewSecret(t, w.owner, w.expires) \in SecretObject
    BY <1>1 DEF NewSecret, SecretObject, Ref, OwnerRef, TokenObject, Spec
  <2>3. /\ s # Nil /\ s.owner = Ref(t, w.owner) /\ s.expires = w.expires
        /\ s.basic = w.owner.spec.basic /\ s.type = w.owner.spec.basic
    BY <2>1, <2>2, NilAssumption DEF NewSecret
  <2> QED BY <1>1, <1>2, <1>3, <2>1, <2>3
<1>5. CASE UpdateApplies(t)
  <2> DEFINE new == [w.secret EXCEPT !.basic = w.owner.spec.basic, !.expires = w.expires]
  <2>1. s = new /\ secrets[k] = w.secret /\ w.secret # Nil /\ w.pc = "update"
    BY <1>1, <1>5 DEF UpdateApplies, Good
  <2>2. w.secret \in SecretObject /\ w.secret.owner = Ref(t, w.owner)
    BY <1>1, <2>1 DEF Good
  <2>3. /\ new \in SecretObject /\ new.owner = w.secret.owner /\ new.type = w.secret.type
        /\ new.basic = w.owner.spec.basic /\ new.expires = w.expires
    BY <1>1, <2>2 DEF SecretObject, TokenObject, Spec
  <2>4. new # Nil
    BY <2>3, NilAssumption
  <2> HIDE DEF new
  <2> QED BY <1>1, <1>2, <1>3, <2>1, <2>2, <2>3, <2>4 DEF IsControlledBy
<1> QED BY <1>4, <1>5

LEMMA WriterGoesOn ==
    ASSUME IInv, NEW t \in Tokens, Acts(t), worker[t].pc \in {"create", "update"}
    PROVE  \/ worker'[t].pc = "idle"
           \/ /\ worker'[t].pc = "refresh" /\ worker'[t].owner = worker[t].owner
              /\ worker'[t].expires = worker[t].expires
              /\ CreateApplies(t) \/ UpdateApplies(t)
BY ActsMove DEF Ends, Starts, Advances, DeleteApplies

----------------------------------------------------------------------------
(* Steady.                                                                 *)
LEMMA Narrows ==
    ASSUME NEW t \in Tokens, Steady(t), NoNews(t),
           worker'[t].pc # "idle" => worker[t].pc # "idle"
    PROVE  Steady(t)'
BY NoNewViews DEF Steady

LEMMA ElsewhereNoNews ==
    ASSUME NEW t \in Tokens, Elsewhere(t)
    PROVE  NoNews(t)
BY InView DEF Elsewhere, NoNews

LEMMA StartsSteady ==
    ASSUME IInv, NEW t \in Tokens, Lineage(t), Starts(t), Quiet, UNCHANGED tokenCache
    PROVE  Steady(t)'
<1>1. /\ tokens' = tokens /\ tokenCache[t] # Nil /\ worker'[t].owner = tokenCache[t]
      /\ tokens[t] # Nil /\ tokenCache[t].uid = tokens[t].uid =>
           tokenCache[t].generation = tokens[t].generation
  BY DEF Starts, Still, EditSeen
<1>2. \A v \in Views(t)' : v = Id(tokenCache[t]) \/ (tokens[t] # Nil /\ v = Id(tokens[t]))
  BY <1>1 DEF Views
<1>3. tokens[t] # Nil /\ tokenCache[t].uid = tokens[t].uid => Id(tokenCache[t]) = Id(tokens[t])
  <2>1. tokens[t] # Nil /\ tokenCache[t].uid = tokens[t].uid =>
          SameVersion(Id(tokenCache[t]), Id(tokens[t]))
    BY <1>1 DEF SameVersion, Id
  <2> QED BY <1>1, <2>1, InView DEF Lineage
<1>4. Id(tokenCache[t]).uid = tokenCache[t].uid /\ Id(tokens[t]).uid = tokens[t].uid
  BY DEF Id
<1> QED BY <1>2, <1>3, <1>4 DEF Steady

LEMMA SteadyKept ==
    ASSUME QInv, Quiet, [Next]_vars, NEW t \in Tokens
    PROVE  Steady(t)'
<1>1. IInv /\ Lineage(t) /\ Steady(t)
  BY DEF QInv
<1>2. CASE Elsewhere(t)
  BY <1>1, <1>2, ElsewhereNoNews, Narrows DEF Elsewhere
<1>3. CASE Acts(t)
  <2>1. NoNews(t) /\ UNCHANGED tokenCache
    BY <1>1, <1>3, ActsNoNews, ActsApart
  <2>2. CASE Starts(t)
    BY <1>1, <2>1, <2>2, StartsSteady
  <2>3. CASE Ends(t) \/ Advances(t)
    <3>1. worker'[t].pc # "idle" => worker[t].pc # "idle"
      BY <2>3 DEF Ends, Advances, DeleteApplies, CreateApplies, UpdateApplies
    <3> QED BY <1>1, <2>1, <3>1, Narrows
  <2> QED BY <1>1, <1>3, <2>2, <2>3, ActsMove
<1>4. ASSUME NEW spec \in Manifests[t], CreateToken(t, spec)
      PROVE  Steady(t)'
  <2>1. /\ \A v \in Views(t) : v.uid < tokens'[t].uid /\ v.uid \in Nat
        /\ \A v \in Views(t)' : v = Id(tokens'[t]) \/ v \in Views(t)
        /\ tokens'[t].uid = incarnation + 1 /\ incarnation \in Nat
    BY <1>1, <1>4, CreateLineage, ViewType DEF IInv, TypeOK
  <2>2. Id(tokens'[t]).uid = tokens'[t].uid /\ UNCHANGED worker
    BY <1>4 DEF Id, CreateToken
  <2> QED BY <1>1, <2>1, <2>2 DEF Steady
<1>5. ASSUME NEW spec \in Manifests[t], EditToken(t, spec)
      PROVE  Steady(t)'
  BY <1>5 DEF EditToken, Settled, IdleWorker, Steady
<1>6. CASE SyncToken(t)
  <2>1. NoNews(t)
    BY <1>1, <1>6, OthersNoNews
  <2> QED BY <1>1, <1>6, <2>1, Narrows DEF SyncToken
<1>7. CASE Restart
  BY <1>7 DEF Restart, IdleWorker, Steady
<1> QED BY <1>1, <1>2, <1>3, <1>4, <1>5, <1>6, <1>7, StepOf DEF Owns

----------------------------------------------------------------------------
(* Ladder.                                                                 *)
LEMMA UidType ==
    ASSUME IInv, NEW t \in Tokens
    PROVE  /\ tokens[t] # Nil => tokens[t].uid \in Nat
           /\ tokenCache[t] # Nil => tokenCache[t].uid \in Nat
           /\ worker[t].pc # "idle" => worker[t].owner # Nil /\ worker[t].owner.uid \in Nat
           /\ \A k \in Keys : Of(t, secrets[k]) => secrets[k].owner.uid \in Nat
           /\ incarnation \in Nat
<1>1. /\ tokens[t] \in TokenObject \cup {Nil} /\ tokenCache[t] \in TokenObject \cup {Nil}
      /\ worker[t].pc # "idle" => worker[t].owner \in TokenObject
      /\ \A k \in Keys : secrets[k] \in SecretObject \cup {Nil}
      /\ incarnation \in Nat
  BY DEF IInv, TypeOK, WorkersGood, Good
<1> QED BY <1>1, NilAssumption DEF TokenObject, SecretObject, OwnerRef, Of

LEMMA OwnersKnown ==
    ASSUME IInv, NEW t \in Tokens, Lineage(t), Ladder(t), worker[t].pc # "idle"
    PROVE  Known(t, worker[t].owner.uid)
<1>1. worker[t].owner # Nil /\ worker[t].owner.uid \in Nat
  BY UidType
<1>2. worker[t].owner.uid <= incarnation
  BY <1>1, InView DEF Lineage, Id
<1> QED BY <1>1, <1>2 DEF Known, Ladder

LEMMA ActsLadder ==
    ASSUME QInv, NEW t \in Tokens, Acts(t)
    PROVE  Ladder(t)'
<1> DEFINE w == worker[t]
           v == worker'[t]
<1>1. IInv /\ Lineage(t) /\ Ladder(t) /\ UNCHANGED <<tokenCache, incarnation>>
  BY ActsApart DEF QInv
<1>2. tokens'[t] # Nil => tokens[t] # Nil /\ tokens'[t].uid = tokens[t].uid
  BY <1>1, ActsNoNews DEF NoNews, Id
<1>3. v.pc # "idle" => \/ tokenCache[t] # Nil /\ v.owner = tokenCache[t]
                       \/ w.pc # "idle" /\ v.owner.uid = w.owner.uid
  <2>1. CASE Starts(t)
    BY <2>1 DEF Starts
  <2>2. CASE Advances(t)
    <3>1. ASSUME Revised(w.owner, v.owner), w.pc = "write"
          PROVE  v.owner.uid = w.owner.uid
      <4>1. w.owner \in TokenObject
        BY <1>1, <3>1 DEF IInv, WorkersGood, Good
      <4> QED BY <3>1, <4>1, RevisedKeeps DEF Id
    <3> QED BY <2>2, <3>1 DEF Advances, DeleteApplies, CreateApplies, UpdateApplies
  <2> QED BY <1>1, <2>1, <2>2, ActsMove DEF Ends
<1>4. /\ tokens[t] # Nil => tokens[t].uid \in Nat
      /\ tokenCache[t] # Nil => tokenCache[t].uid \in Nat
      /\ w.pc # "idle" => w.owner.uid \in Nat
      /\ \A k \in Keys : Of(t, secrets[k]) => secrets[k].owner.uid \in Nat
  BY <1>1, UidType
<1>5. ASSUME NEW u \in Nat, Known(t, u)
      PROVE  /\ u <= incarnation' /\ (tokenCache'[t] # Nil => u <= tokenCache'[t].uid)
             /\ v.pc # "idle" => u <= v.owner.uid
             /\ tokens'[t] # Nil /\ tokenCache'[t] = Nil => u < tokens'[t].uid
  BY <1>1, <1>2, <1>3, <1>5 DEF Known
<1>6. ASSUME NEW k \in Keys, Of(t, secrets'[k])
      PROVE  secrets'[k].owner.uid \in Nat /\ Known(t, secrets'[k].owner.uid)
  <2>1. CASE secrets'[k] = secrets[k]
    BY <1>1, <1>4, <1>6, <2>1 DEF Ladder
  <2>2. CASE CreateApplies(t) \/ UpdateApplies(t)
    <3>1. /\ w.pc # "idle"
          /\ secrets'[k] # secrets[k] => secrets'[k].owner = Ref(t, w.owner)
      BY <1>1, <2>2, WriteApplies
    <3>2. Known(t, w.owner.uid)
      BY <1>1, <3>1, OwnersKnown
    <3> QED BY <1>4, <2>1, <3>1, <3>2 DEF Ref
  <2>3. CASE Still \/ StatusApplies(t) \/ AppFailureApplies(t) \/ DeleteApplies(t)
    <3>1. secrets \in [Keys -> SecretObject \cup {Nil}]
      BY <1>1 DEF IInv, TypeOK
    <3>2. secrets'[k] \in {secrets[k], Nil}
      BY <2>3, <3>1 DEF Still, StatusApplies, AppFailureApplies, DeleteApplies
    <3> QED BY <1>6, <2>1, <3>2 DEF Of
  <2> QED BY <1>1, <2>2, <2>3, ActsMove DEF Effects
<1>7. ASSUME NEW k \in Keys, Of(t, secrets'[k])
      PROVE  Known(t, secrets[k].owner.uid)'
  BY <1>5, <1>6, <1>7 DEF Known
<1>8. /\ tokens'[t] # Nil /\ tokenCache'[t] # Nil => tokenCache'[t].uid <= tokens'[t].uid
      /\ v.pc # "idle" /\ tokenCache'[t] # Nil => v.owner.uid <= tokenCache'[t].uid
      /\ v.pc # "idle" /\ tokens'[t] # Nil /\ tokenCache'[t] = Nil => v.owner.uid < tokens'[t].uid
  BY <1>1, <1>2, <1>3, <1>4 DEF Ladder
<1> QED BY <1>7, <1>8 DEF Ladder

(* The cache, or the caches of a new process, take over the server's view. *)
LEMMA SyncLadder ==
    ASSUME QInv, NEW t \in Tokens, tokenCache'[t] = tokens[t],
           worker'[t] \in {worker[t], IdleWorker}, UNCHANGED <<tokens, secrets, incarnation>>
    PROVE  Ladder(t)'
<1>1. IInv /\ Lineage(t) /\ Ladder(t)
  BY DEF QInv
<1>2. /\ tokens[t] # Nil => tokens[t].uid \in Nat
      /\ tokenCache[t] # Nil => tokenCache[t].uid \in Nat
      /\ worker[t].pc # "idle" => worker[t].owner.uid \in Nat
      /\ \A k \in Keys : Of(t, secrets[k]) => secrets[k].owner.uid \in Nat
  BY <1>1, UidType
<1>3. worker'[t].pc # "idle" => worker'[t] = worker[t]
  BY DEF IdleWorker
<1>4. \A k \in Keys : Of(t, secrets[k]) => Known(t, secrets[k].owner.uid)'
  BY <1>1, <1>2, <1>3 DEF Ladder, Known
<1> QED BY <1>1, <1>2, <1>3, <1>4 DEF Ladder

LEMMA LadderKept ==
    ASSUME QInv, Quiet, [Next]_vars, NEW t \in Tokens
    PROVE  Ladder(t)'
<1>1. IInv /\ Lineage(t) /\ Ladder(t) /\ incarnation \in Nat
  BY DEF QInv, IInv, TypeOK
<1>2. /\ tokens[t] # Nil => tokens[t].uid \in Nat
      /\ tokenCache[t] # Nil => tokenCache[t].uid \in Nat
      /\ worker[t].pc # "idle" => worker[t].owner # Nil /\ worker[t].owner.uid \in Nat
      /\ \A k \in Keys : Of(t, secrets[k]) => secrets[k].owner.uid \in Nat
  BY <1>1, UidType
<1>3. CASE Elsewhere(t)
  <2>1. ASSUME NEW k \in Keys, Of(t, secrets'[k])
        PROVE  Known(t, secrets[k].owner.uid)'
    <3>1. secrets'[k] = secrets[k] /\ Known(t, secrets[k].owner.uid)
      BY <1>1, <1>3, <2>1 DEF Elsewhere, Ladder
    <3> QED BY <1>1, <1>2, <1>3, <2>1, <3>1 DEF Elsewhere, Known
  <2> QED BY <1>1, <1>3, <2>1 DEF Elsewhere, Ladder
<1>4. ASSUME NEW spec \in Manifests[t], CreateToken(t, spec)
      PROVE  Ladder(t)'
  <2>1. /\ tokens'[t].uid = incarnation + 1 /\ incarnation' = incarnation + 1
        /\ UNCHANGED <<secrets, tokenCache, worker>>
    BY <1>1, <1>4, CreateLineage DEF CreateToken
  <2>2. /\ tokenCache[t] # Nil => tokenCache[t].uid <= incarnation
        /\ worker[t].pc # "idle" => worker[t].owner.uid <= incarnation
    BY <1>1, <1>2, InView DEF Lineage, Id
  <2>3. \A k \in Keys : Of(t, secrets[k]) => Known(t, secrets[k].owner.uid)'
    BY <1>1, <1>2, <2>1 DEF Ladder, Known
  <2> QED BY <1>1, <1>2, <2>1, <2>2, <2>3 DEF Ladder
<1>5. ASSUME NEW spec \in Manifests[t], EditToken(t, spec)
      PROVE  Ladder(t)'
  <2>1. /\ tokens[t] # Nil /\ tokens[t] \in TokenObject
        /\ tokens'[t] = [tokens[t] EXCEPT !.spec = spec, !.generation = tokens[t].generation + 1]
        /\ UNCHANGED <<tokenCache, worker, secrets, incarnation>>
    BY <1>1, <1>5 DEF EditToken, IInv, TypeOK
  <2>2. tokens'[t].uid = tokens[t].uid
    BY <2>1 DEF TokenObject
  <2>3. \A k \in Keys : Of(t, secrets[k]) => Known(t, secrets[k].owner.uid)'
    BY <1>1, <2>1, <2>2 DEF Ladder, Known
  <2> QED BY <1>1, <2>1, <2>2, <2>3 DEF Ladder
<1>6. CASE SyncToken(t)
  BY <1>1, <1>6, SyncLadder DEF SyncToken, IInv, TypeOK
<1>7. CASE Restart
  BY <1>7, SyncLadder DEF Restart
<1> QED BY <1>1, <1>3, <1>4, <1>5, <1>6, <1>7, ActsLadder, StepOf DEF Owns

----------------------------------------------------------------------------
(* Kept.                                                                   *)
LEMMA CleanIsTidy ==
    ASSUME NEW t, NEW obj, NEW store, NEW cache, Clean(t, obj, store)
    PROVE  Tidy(t, obj, store, cache)
BY DEF Clean, Tidy

(* What a view owns depends on its uid, and what it asks for on its spec.  *)
LEMMA CleanById ==
    ASSUME NEW t, NEW obj, NEW new, NEW store, Clean(t, obj, store), Id(new) = Id(obj)
    PROVE  Clean(t, new, store)
<1>1. new.uid = obj.uid /\ new.spec = obj.spec
  BY DEF Id
<1> QED BY <1>1 DEF Clean, IsControlledBy, Ref, InPlace

LEMMA TidyById ==
    ASSUME NEW t, NEW obj, NEW new, NEW store, NEW cache, Tidy(t, obj, store, cache),
           Id(new) = Id(obj), new.managed = obj.managed
    PROVE  Tidy(t, new, store, cache)
<1>1. new.uid = obj.uid /\ new.spec = obj.spec
  BY DEF Id
<1> QED BY <1>1 DEF Tidy, IsControlledBy, Ref, InPlace, LeftOver

(* Nothing is handed to t, and the cache only catches up.                  *)
LEMMA Fewer ==
    ASSUME NEW t, NEW obj, NEW store, NEW cache, NEW new, NEW seen,
           \A k \in Keys : IsControlledBy(new[k], t, obj) =>
             new[k] = store[k] /\ seen[k] \in {store[k], cache[k]}
    PROVE  /\ Clean(t, obj, store) => Clean(t, obj, new)
           /\ Tidy(t, obj, store, cache) => Tidy(t, obj, new, seen)
BY DEF Clean, Tidy, InPlace, LeftOver

LEMMA ControlledOf ==
    ASSUME NEW t \in Tokens, NEW obj \in TokenObject, NEW s, IsControlledBy(s, t, obj)
    PROVE  Of(t, s) /\ s.owner.uid = obj.uid
<1>1. Ref(t, obj) \in OwnerRef /\ s.owner = Ref(t, obj) /\ s # Nil
  BY DEF Ref, OwnerRef, TokenObject, IsControlledBy
<1> QED BY <1>1, NilAssumption DEF Of, Ref

LEMMA Objects ==
    ASSUME IInv, NEW t \in Tokens
    PROVE  /\ tokens[t] # Nil => tokens[t] \in TokenObject
           /\ tokenCache[t] # Nil => tokenCache[t] \in TokenObject
           /\ worker[t].pc # "idle" => worker[t].owner \in TokenObject /\ worker[t].owner # Nil
           /\ worker[t].pc \in Unswept => worker[t].owner.managed \in ManagedSecret
BY NilAssumption DEF IInv, TypeOK, WorkersGood, Good, Unswept

(* The views of one incarnation, while a worker runs.                      *)
LEMMA SameInHand ==
    ASSUME NEW t \in Tokens, Steady(t), worker[t].pc # "idle", worker[t].owner # Nil,
           NEW obj, obj \in {tokens[t], tokenCache[t], worker[t].owner} \ {Nil},
           obj.uid = worker[t].owner.uid
    PROVE  Id(obj) = Id(worker[t].owner)
<1>1. Id(obj) \in Views(t) /\ Id(worker[t].owner) \in Views(t)
  BY DEF Views
<1>2. Id(obj).uid = Id(worker[t].owner).uid
  BY DEF Id
<1> QED BY <1>1, <1>2 DEF Steady

(* The worker takes over the view of the cache.                            *)
LEMMA CacheOwns ==
    ASSUME IInv, NEW t \in Tokens, Steady(t), Ladder(t),
           worker[t].pc # "idle", tokenCache[t] # Nil
    PROVE  \/ Id(tokenCache[t]) = Id(worker[t].owner)
           \/ \A k \in Keys : ~ IsControlledBy(secrets[k], t, tokenCache[t])
<1>1. /\ worker[t].owner # Nil /\ tokenCache[t] \in TokenObject
      /\ tokenCache[t].uid \in Nat /\ worker[t].owner.uid \in Nat
  BY Objects, UidType
<1>2. CASE tokenCache[t].uid = worker[t].owner.uid
  BY <1>1, <1>2, SameInHand
<1>3. CASE tokenCache[t].uid # worker[t].owner.uid
  <2>1. ASSUME NEW k \in Keys, IsControlledBy(secrets[k], t, tokenCache[t])
        PROVE  FALSE
    <3>1. Known(t, tokenCache[t].uid)
      BY <1>1, <2>1, ControlledOf DEF Ladder
    <3> QED BY <1>1, <1>3, <3>1 DEF Known, Ladder
  <2> QED BY <2>1
<1> QED BY <1>2, <1>3

LEMMA CacheIsClean ==
    ASSUME IInv, NEW t \in Tokens, Steady(t), Ladder(t), Kept(t),
           worker[t].pc \in Swept, tokenCache[t] # Nil
    PROVE  Clean(t, tokenCache[t], secrets)
<1>1. worker[t].pc # "idle" /\ Clean(t, worker[t].owner, secrets)
  BY DEF Kept, Swept
<1>2. CASE Id(tokenCache[t]) = Id(worker[t].owner)
  BY <1>1, <1>2, CleanById
<1>3. CASE \A k \in Keys : ~ IsControlledBy(secrets[k], t, tokenCache[t])
  BY <1>3 DEF Clean
<1> QED BY <1>1, <1>2, <1>3, CacheOwns

(* The Secret the worker writes is the one its owner's spec asks for.      *)
LEMMA WritesTidy ==
    ASSUME IInv, NEW t \in Tokens, Steady(t), Kept(t), CreateApplies(t) \/ UpdateApplies(t),
           NEW obj, obj \in {tokens[t], tokenCache[t], worker[t].owner} \ {Nil}
    PROVE  /\ Tidy(t, obj, secrets, secretCache) => Tidy(t, obj, secrets', secretCache)
           /\ Clean(t, obj, secrets) => Clean(t, obj, secrets')
<1> DEFINE w == worker[t]
           k == w.owner.spec.key
<1>1. /\ w.pc \in Swept /\ w.pc # "idle" /\ k \in Keys /\ w.owner # Nil
      /\ \A j \in Keys : j # k => secrets'[j] = secrets[j]
      /\ secrets'[k].owner = Ref(t, w.owner)
      /\ \/ secrets'[k].type = w.owner.spec.basic
         \/ IsControlledBy(secrets[k], t, w.owner) /\ secrets'[k].type = secrets[k].type
  BY WriteApplies, Objects DEF Swept
<1>2. secrets'[k].type = w.owner.spec.basic
  BY <1>1 DEF Kept, Clean, InPlace
<1>3. IsControlledBy(secrets'[k], t, obj) => InPlace(obj, k, secrets'[k])
  <2> SUFFICES ASSUME IsControlledBy(secrets'[k], t, obj)
               PROVE  InPlace(obj, k, secrets'[k])
    OBVIOUS
  <2>1. obj.uid = w.owner.uid
    BY <1>1 DEF IsControlledBy, Ref
  <2>2. Id(obj) = Id(w.owner)
    BY <1>1, <2>1, SameInHand
  <2> QED BY <1>2, <2>2 DEF Id, InPlace
<1> QED BY <1>1, <1>3 DEF Tidy, Clean

LEMMA DeletesTidy ==
    ASSUME IInv, NEW t \in Tokens, DeleteApplies(t), NEW obj
    PROVE  /\ Tidy(t, obj, secrets, secretCache) => Tidy(t, obj, secrets', secretCache)
           /\ Clean(t, obj, secrets) => Clean(t, obj, secrets')
<1>1. \A k \in Keys : secrets'[k] \in {secrets[k], Nil}
  BY DEF IInv, TypeOK, DeleteApplies
<1> QED BY <1>1, Fewer DEF IsControlledBy

LEMMA LeftOverKey ==
    ASSUME NEW obj, NEW k, NEW s, NEW seen, LeftOver(obj, k, s, seen)
    PROVE  obj.managed.key = k /\ obj.managed.basic = s.type /\ seen = s
BY DEF LeftOver

(* The Secret that DeleteSecret is about is gone, or was never there.      *)
LEMMA SweptOnDelete ==
    ASSUME IInv, NEW t \in Tokens, DeleteApplies(t), Kept(t)
    PROVE  Clean(t, worker[t].owner, secrets')
<1> DEFINE obj == worker[t].owner
           j == obj.managed.key
<1>1. /\ Tidy(t, obj, secrets, secretCache) /\ obj.managed \in ManagedSecret
      /\ secrets' = [secrets EXCEPT ![j] = Nil] /\ secrets \in [Keys -> SecretObject \cup {Nil}]
  BY Objects DEF DeleteApplies, Kept, Unswept, IInv, TypeOK
<1>2. j \in Keys /\ secrets'[j] = Nil /\ \A k \in Keys : k # j => secrets'[k] = secrets[k]
  BY <1>1 DEF ManagedSecret
<1>3. \A k \in Keys : IsControlledBy(secrets'[k], t, obj) => InPlace(obj, k, secrets'[k])
  <2> SUFFICES ASSUME NEW k \in Keys, IsControlledBy(secrets'[k], t, obj)
               PROVE  InPlace(obj, k, secrets'[k])
    OBVIOUS
  <2>1. k # j /\ secrets'[k] = secrets[k]
    BY <1>2 DEF IsControlledBy
  <2>2. InPlace(obj, k, secrets[k]) \/ LeftOver(obj, k, secrets[k], secretCache[k])
    BY <1>1, <2>1 DEF Tidy
  <2> QED BY <2>1, <2>2, LeftOverKey
<1> QED BY <1>3 DEF Clean

LEMMA SweptOnLookup ==
    ASSUME IInv, NEW t \in Tokens, Kept(t), worker[t].pc = "lookup",
           ~ IsControlledBy(secretCache[worker[t].owner.managed.key], t, worker[t].owner)
    PROVE  Clean(t, worker[t].owner, secrets)
<1>1. Tidy(t, worker[t].owner, secrets, secretCache)
  BY DEF Kept, Unswept
<1>2. ASSUME NEW k \in Keys, IsControlledBy(secrets[k], t, worker[t].owner)
      PROVE  InPlace(worker[t].owner, k, secrets[k])
  <2>1. ASSUME LeftOver(worker[t].owner, k, secrets[k], secretCache[k])
        PROVE  FALSE
    BY <1>2, <2>1, LeftOverKey
  <2> QED BY <1>1, <1>2, <2>1 DEF Tidy
<1> QED BY <1>2 DEF Clean

(* Nothing to sweep: the status names no Secret, or the one of the spec.   *)
LEMMA NothingToSweep ==
    ASSUME NEW t, NEW obj, NEW store, NEW cache, Tidy(t, obj, store, cache),
           obj.managed = Nil \/ MatchesSpec(obj), IInv,
           \A k \in Keys : store[k] \in SecretObject \cup {Nil}
    PROVE  Clean(t, obj, store)
<1> SUFFICES ASSUME NEW k \in Keys, IsControlledBy(store[k], t, obj), LeftOver(obj, k, store[k], cache[k])
             PROVE  InPlace(obj, k, store[k])
  BY DEF Tidy, Clean
<1>1. obj.managed = [key |-> k, basic |-> store[k].type] /\ store[k].type \in BOOLEAN
  BY DEF LeftOver, IsControlledBy, SecretObject
<1>2. obj.managed # Nil
  BY <1>1, NilAssumption DEF ManagedSecret
<1>3. obj.managed = [key |-> obj.spec.key, basic |-> obj.spec.basic]
  BY <1>2 DEF MatchesSpec
<1>4. obj.managed.key = k /\ obj.managed.basic = store[k].type
  BY LeftOverKey
<1>5. obj.managed.key = obj.spec.key /\ obj.managed.basic = obj.spec.basic
  BY <1>3
<1> QED BY <1>4, <1>5 DEF InPlace

LEMMA ActsKept ==
    ASSUME QInv, NEW t \in Tokens, Acts(t)
    PROVE  Kept(t)'
<1> DEFINE w == worker[t]
           v == worker'[t]
<1>1. /\ IInv /\ Steady(t) /\ Ladder(t) /\ Kept(t) /\ UNCHANGED <<tokenCache, secretCache>>
      /\ \A k \in Keys : secrets[k] \in SecretObject \cup {Nil}
  BY ActsApart DEF QInv, IInv, TypeOK
<1>2. tokens'[t] # Nil => Tidy(t, tokens'[t], secrets', secretCache)
  <2> SUFFICES ASSUME tokens'[t] # Nil
               PROVE  Tidy(t, tokens'[t], secrets', secretCache)
    OBVIOUS
  <2>1. CASE Still
    BY <1>1, <2>1 DEF Still, Kept
  <2>2. CASE DeleteApplies(t)
    BY <1>1, <2>2, DeletesTidy DEF DeleteApplies, Kept
  <2>3. CASE CreateApplies(t) \/ UpdateApplies(t)
    BY <1>1, <2>3, WritesTidy DEF CreateApplies, UpdateApplies, Kept
  <2>4. CASE StatusApplies(t)
    <3>1. tokens[t] = w.owner /\ Revised(tokens[t], tokens'[t]) /\ tokens[t] \in TokenObject
      BY <1>1, <2>4, StatusRevises
    <3>2. Id(tokens'[t]) = Id(w.owner)
      BY <3>1, RevisedKeeps
    <3>3. Clean(t, w.owner, secrets) /\ secrets' = secrets
      BY <1>1, <2>4 DEF StatusApplies, Kept, Swept
    <3> QED BY <3>2, <3>3, CleanById, CleanIsTidy
  <2>5. CASE AppFailureApplies(t)
    <3>1. tokens[t] \in TokenObject /\ tokens[t] # Nil /\ secrets' = secrets
      BY <1>1, <2>5, StatusRevises, NilAssumption DEF AppFailureApplies
    <3>2. tokens'[t] = [tokens[t] EXCEPT !.ready = w.cond]
      BY <1>1, <2>5 DEF AppFailureApplies, IInv, TypeOK
    <3>3. Id(tokens'[t]) = Id(tokens[t]) /\ tokens'[t].managed = tokens[t].managed
      BY <3>1, <3>2 DEF Id, TokenObject
    <3> QED BY <1>1, <3>1, <3>3, TidyById DEF Kept
  <2> QED BY <1>1, <2>1, <2>2, <2>3, <2>4, <2>5, ActsMove DEF Effects
<1>3. ASSUME NEW obj, obj \in {tokenCache[t], w.owner} \ {Nil}
      PROVE  /\ Tidy(t, obj, secrets, secretCache) => Tidy(t, obj, secrets', secretCache)
             /\ Clean(t, obj, secrets) => Clean(t, obj, secrets')
  <2>1. CASE UNCHANGED secrets
    BY <2>1
  <2>2. CASE DeleteApplies(t)
    BY <1>1, <2>2, DeletesTidy
  <2>3. CASE CreateApplies(t) \/ UpdateApplies(t)
    BY <1>1, <1>3, <2>3, WritesTidy
  <2> QED BY <1>1, <2>1, <2>2, <2>3, ActsMove DEF Effects, Still, StatusApplies, AppFailureApplies
<1>4. w.pc # "idle" => w.owner # Nil /\ w.owner \in TokenObject
  BY <1>1, Objects
<1>5. CASE Ends(t)
  BY <1>1, <1>2, <1>3, <1>5 DEF Ends, Kept, Unswept, Swept
<1>6. CASE Starts(t)
  <2>1. v.pc = "get" => Clean(t, tokenCache[t], secrets)
    BY <1>1, <1>6, NothingToSweep DEF Starts, Kept
  <2> QED BY <1>1, <1>2, <1>3, <1>6, <2>1 DEF Starts, Still, Kept, Unswept, Swept
<1>7. CASE Advances(t)
  <2>1. v.pc \in Unswept => Tidy(t, v.owner, secrets', secretCache)
    <3> SUFFICES ASSUME v.pc \in Unswept
                 PROVE  Tidy(t, v.owner, secrets', secretCache)
      OBVIOUS
    <3>1. w.pc = "lookup" /\ v.owner = w.owner
      BY <1>7 DEF Advances, Unswept
    <3> QED BY <1>1, <1>3, <1>4, <3>1 DEF Kept, Unswept
  <2>2. Clean(t, v.owner, secrets') \/ v.pc \notin Swept
    <3>1. CASE w.pc = "lookup" /\ v.pc = "delete"
      BY <3>1 DEF Swept
    <3>2. CASE /\ w.pc = "lookup" /\ v.owner = w.owner /\ Still
               /\ ~ IsControlledBy(secretCache[w.owner.managed.key], t, w.owner)
      BY <1>1, <3>2, SweptOnLookup DEF Still
    <3>3. CASE DeleteApplies(t) /\ v.owner = w.owner
      BY <1>1, <3>3, SweptOnDelete
    <3>4. CASE w.pc \in Swept /\ v.owner = w.owner
      BY <1>1, <1>3, <1>4, <3>4 DEF Kept, Swept
    <3>5. CASE w.pc = "refresh" /\ v.owner = tokenCache[t] /\ tokenCache[t] # Nil /\ Still
      BY <1>1, <3>5, CacheIsClean DEF Swept, Still
    <3>6. CASE w.pc = "write" /\ Revised(w.owner, v.owner) /\ UNCHANGED secrets
      <4>1. Id(v.owner) = Id(w.owner) /\ Clean(t, w.owner, secrets)
        BY <1>1, <1>4, <3>6, RevisedKeeps DEF Kept, Swept
      <4> QED BY <3>6, <4>1, CleanById
    <3> QED BY <1>7, <3>1, <3>2, <3>3, <3>4, <3>5, <3>6
            DEF Advances, Swept, CreateApplies, UpdateApplies, StatusApplies, Still
  <2> QED BY <1>1, <1>2, <1>3, <2>1, <2>2 DEF Kept
<1> QED BY <1>1, <1>5, <1>6, <1>7, ActsMove

(* An edit makes of the settled Secret one that the status names.          *)
LEMMA EditKept ==
    ASSUME QInv, Quiet, NEW t \in Tokens, NEW spec \in Manifests[t], EditToken(t, spec)
    PROVE  Kept(t)'
<1> DEFINE old == tokens[t]
           new == tokens'[t]
<1>1. /\ IInv /\ Kept(t) /\ Settled(t) /\ old # Nil /\ old \in TokenObject
      /\ new = [old EXCEPT !.spec = spec, !.generation = old.generation + 1]
      /\ UNCHANGED <<tokenCache, worker, secrets, secretCache>>
  BY DEF QInv, EditToken, IInv, TypeOK
<1>2. /\ new.uid = old.uid /\ new.managed = old.managed
      /\ old.managed = [key |-> old.spec.key, basic |-> old.spec.basic] /\ secretCache = secrets
  BY <1>1 DEF TokenObject, Settled, MatchesSpec
<1> HIDE DEF new
<1>3. Tidy(t, new, secrets, secretCache)
  <2> SUFFICES ASSUME NEW k \in Keys, IsControlledBy(secrets[k], t, new)
               PROVE  LeftOver(new, k, secrets[k], secretCache[k])
    BY DEF Tidy
  <2>1. InPlace(old, k, secrets[k]) \/ LeftOver(old, k, secrets[k], secretCache[k])
    BY <1>1, <1>2 DEF Kept, Tidy, IsControlledBy, Ref
  <2> QED BY <1>2, <2>1 DEF InPlace, LeftOver
<1> QED BY <1>1, <1>3 DEF Kept, new

LEMMA KeptKept ==
    ASSUME QInv, Quiet, [Next]_vars, NEW t \in Tokens
    PROVE  Kept(t)'
<1>1. IInv /\ Ladder(t) /\ Kept(t)
  BY DEF QInv
<1>2. CASE Elsewhere(t)
  <2>1. ASSUME NEW obj \in TokenObject
        PROVE  /\ Clean(t, obj, secrets) => Clean(t, obj, secrets')
               /\ Tidy(t, obj, secrets, secretCache) => Tidy(t, obj, secrets', secretCache')
    BY <1>2, ControlledOf, Fewer DEF Elsewhere
  <2> QED BY <1>1, <1>2, <2>1, Objects DEF Kept, Elsewhere, Unswept, Swept
<1>3. ASSUME NEW spec \in Manifests[t], CreateToken(t, spec)
      PROVE  Kept(t)'
  <2> DEFINE new == [uid |-> incarnation + 1, generation |-> 1, spec |-> spec,
                     managed |-> Nil, expires |-> 0, ready |-> "None"]
  <2>1. /\ tokens'[t] = new /\ incarnation \in Nat /\ new.uid = incarnation + 1
        /\ UNCHANGED <<tokenCache, worker, secrets, secretCache>>
    BY <1>1, <1>3 DEF CreateToken, IInv, TypeOK
  <2>2. new \in TokenObject
    BY <2>1, ManifestsAssumption DEF TokenObject, Reasons, Outcomes
  <2> HIDE DEF new
  <2>3. ASSUME NEW k \in Keys, IsControlledBy(secrets[k], t, new)
        PROVE  FALSE
    <3>1. Of(t, secrets[k]) /\ secrets[k].owner.uid = incarnation + 1
      BY <2>1, <2>2, <2>3, ControlledOf
    <3>2. secrets[k].owner.uid <= incarnation
      BY <1>1, <3>1 DEF Ladder, Known
    <3> QED BY <2>1, <3>1, <3>2
  <2>4. Tidy(t, new, secrets, secretCache)
    BY <2>3 DEF Tidy
  <2> QED BY <1>1, <2>1, <2>4 DEF Kept
<1>4. CASE SyncToken(t)
  BY <1>1, <1>4 DEF SyncToken, IInv, TypeOK, Kept
<1>5. CASE Restart
  <2>1. ASSUME NEW obj, Tidy(t, obj, secrets, secretCache)
        PROVE  Tidy(t, obj, secrets', secretCache')
    BY <1>5, <2>1 DEF Restart, Tidy, LeftOver
  <2> QED BY <1>1, <1>5, <2>1 DEF Restart, IdleWorker, Kept, Unswept, Swept
<1> QED BY <1>1, <1>2, <1>3, <1>4, <1>5, EditKept, ActsKept, StepOf DEF Owns

----------------------------------------------------------------------------
(* The data of Secrets are of the kind of their type.                      *)
LEMMA KindKept ==
    ASSUME QInv, [Next]_vars
    PROVE  KindMatches'
<1>1. IInv /\ KindMatches /\ secrets \in [Keys -> SecretObject \cup {Nil}]
  BY DEF QInv, IInv, TypeOK
<1> SUFFICES ASSUME NEW j \in Keys, secrets'[j] # Nil, secrets'[j].owner # Nil
             PROVE  secrets'[j].type = secrets'[j].basic
  BY DEF KindMatches
<1>2. CASE secrets'[j] = secrets[j]
  BY <1>1, <1>2 DEF KindMatches
<1>3. ASSUME NEW k \in Keys, CollectGarbage(k) \/ \E l \in Labels : Meddle(k, l)
      PROVE  secrets'[j] = secrets[j]
  BY <1>1, <1>3 DEF CollectGarbage, Meddle
<1>4. ASSUME NEW t \in Tokens, Deletes(t)
      PROVE  secrets'[j] = secrets[j]
  BY <1>1, <1>4 DEF Deletes, DeleteSecret, DeleteApplies
<1>5. ASSUME NEW t \in Tokens, CreateApplies(t) \/ UpdateApplies(t), secrets'[j] # secrets[j]
      PROVE  secrets'[j].type = secrets'[j].basic
  <2>1. /\ worker[t].pc \in Swept /\ j = worker[t].owner.spec.key
        /\ secrets'[j].basic = worker[t].owner.spec.basic
        /\ \/ secrets'[j].type = worker[t].owner.spec.basic
           \/ IsControlledBy(secrets[j], t, worker[t].owner) /\ secrets'[j].type = secrets[j].type
    BY <1>1, <1>5, WriteApplies DEF Swept
  <2>2. Clean(t, worker[t].owner, secrets)
    BY <2>1 DEF QInv, Kept
  <2> QED BY <2>1, <2>2 DEF Clean, InPlace
<1>6. CASE secrets'[j] # secrets[j]
  <2>1. Next
    BY <1>6 DEF vars
  <2> QED BY <1>3, <1>4, <1>5, <1>6, <2>1, SecretSteps
<1> QED BY <1>2, <1>6

----------------------------------------------------------------------------
(* Honest.                                                                 *)
LEMMA ExpiryType ==
    ASSUME IInv, NEW t \in Tokens
    PROVE  /\ now \in Nat /\ TokenValidity \in Nat /\ worker[t].expires \in Nat
           /\ tokens[t] # Nil => tokens[t].expires \in Nat
           /\ \A k \in Keys : secrets[k] # Nil => secrets[k].expires \in Nat
BY NumbersAssumption DEF IInv, TypeOK, Worker, TokenObject, SecretObject

LEMMA StatusExpiry ==
    ASSUME IInv, NEW t \in Tokens, StatusApplies(t)
    PROVE  /\ tokens[t] = worker[t].owner /\ tokens[t] # Nil
           /\ tokens'[t].uid = tokens[t].uid
           /\ \/ tokens'[t].expires = tokens[t].expires
              \/ worker[t].cond \in ReadyTrue /\ tokens'[t].expires = worker[t].expires
<1> DEFINE w == worker[t]
<1>1. /\ tokens[t] = w.owner /\ w.owner \in TokenObject /\ tokens[t] # Nil
      /\ tokens'[t] = Mutated(w.owner, w.cond, w.expires)
  BY NilAssumption DEF StatusApplies, IInv, TypeOK, WorkersGood, Good
<1>2. CASE w.cond \in ReadyTrue
  <2>1. tokens'[t] = [w.owner EXCEPT !.ready = w.cond, !.expires = w.expires,
                                     !.managed = SpecOf(w.owner)]
    BY <1>1, <1>2 DEF Mutated
  <2> QED BY <1>1, <1>2, <2>1 DEF TokenObject
<1>3. CASE w.cond \notin ReadyTrue
  <2>1. tokens'[t] = [w.owner EXCEPT !.ready = w.cond]
    BY <1>1, <1>3 DEF Mutated
  <2> QED BY <1>1, <2>1 DEF TokenObject
<1> QED BY <1>2, <1>3

LEMMA LastsFewer ==
    ASSUME NEW t, NEW obj, NEW new, NEW e, NEW store, NEW later,
           new.uid = obj.uid, Lasts(t, obj, e, store),
           \A k \in Keys : IsControlledBy(later[k], t, obj) => later[k] = store[k]
    PROVE  Lasts(t, new, e, later)
BY DEF Lasts, IsControlledBy, Ref

LEMMA ActsServerHonest ==
    ASSUME QInv, NEW t \in Tokens, Acts(t), tokens'[t] # Nil
    PROVE  /\ tokens'[t].expires <= now + TokenValidity
           /\ Lasts(t, tokens'[t], tokens'[t].expires, secrets')
<1> DEFINE w == worker[t]
<1>1. /\ IInv /\ Kept(t) /\ Honest(t) /\ secrets \in [Keys -> SecretObject \cup {Nil}]
  BY DEF QInv, IInv, TypeOK
<1>2. CASE Still
  BY <1>1, <1>2 DEF Still, Honest
<1>3. CASE DeleteApplies(t)
  <2>1. tokens' = tokens /\ \A k \in Keys : secrets'[k] \in {secrets[k], Nil}
    BY <1>1, <1>3 DEF DeleteApplies
  <2> QED BY <1>1, <2>1, LastsFewer DEF Honest, IsControlledBy
<1>4. CASE CreateApplies(t) \/ UpdateApplies(t)
  <2>1. /\ w.pc \in {"create", "update"} /\ tokens' = tokens
        /\ \A k \in Keys : secrets'[k] = secrets[k] \/ secrets'[k].expires = w.expires
    BY <1>1, <1>4, WriteApplies
  <2>2. tokens[t].expires <= w.expires
    BY <1>1, <2>1 DEF Honest
  <2> QED BY <1>1, <2>1, <2>2 DEF Honest, Lasts
<1>5. CASE StatusApplies(t)
  <2>1. /\ tokens[t] = w.owner /\ tokens[t] # Nil /\ tokens'[t].uid = tokens[t].uid
        /\ w.pc = "write" /\ secrets' = secrets
    BY <1>1, <1>5, StatusExpiry DEF StatusApplies
  <2>2. CASE tokens'[t].expires = tokens[t].expires
    BY <1>1, <2>1, <2>2, LastsFewer DEF Honest
  <2>3. CASE w.cond \in ReadyTrue /\ tokens'[t].expires = w.expires
    BY <1>1, <2>1, <2>3, LastsFewer DEF Honest
  <2> QED BY <1>1, <1>5, <2>2, <2>3, StatusExpiry
<1>6. CASE AppFailureApplies(t)
  <2>1. tokens[t] # Nil /\ tokens[t] \in TokenObject /\ secrets' = secrets
    BY <1>1, <1>6, StatusRevises, NilAssumption DEF AppFailureApplies
  <2>2. tokens'[t] = [tokens[t] EXCEPT !.ready = w.cond]
    BY <1>1, <1>6 DEF AppFailureApplies, IInv, TypeOK
  <2>3. tokens'[t].uid = tokens[t].uid /\ tokens'[t].expires = tokens[t].expires
    BY <2>1, <2>2 DEF TokenObject
  <2> QED BY <1>1, <2>1, <2>3, LastsFewer DEF Honest
<1> QED BY <1>1, <1>2, <1>3, <1>4, <1>5, <1>6, ActsMove DEF Effects

LEMMA ActsHonest ==
    ASSUME QInv, NEW t \in Tokens, Acts(t)
    PROVE  Honest(t)'
<1> DEFINE w == worker[t]
           v == worker'[t]
<1>1. /\ IInv /\ Steady(t) /\ Ladder(t) /\ Kept(t) /\ Honest(t) /\ UNCHANGED <<tokenCache, now>>
      /\ now \in Nat /\ TokenValidity \in Nat /\ w.expires \in Nat
  BY ActsApart, ExpiryType DEF QInv
<1>2. v.expires \in {0, w.expires, now + TokenValidity}
  BY <1>1, ActsMove DEF Ends, Starts, Advances
<1>3. v.expires <= now + TokenValidity
  BY <1>1, <1>2 DEF Honest
<1>4. ASSUME v.pc \in {"create", "update"}, tokens'[t] # Nil
      PROVE  tokens'[t].expires <= v.expires
  <2>1. v.expires = now + TokenValidity /\ Still
    BY <1>1, <1>4, ActsMove DEF Ends, Starts, Advances
  <2> QED BY <1>1, <1>4, <2>1 DEF Still, Honest
<1>5. ASSUME v.pc \in {"refresh", "write"}, v.cond \in ReadyTrue
      PROVE  Lasts(t, v.owner, v.expires, secrets')
  <2>1. CASE w.pc \in {"create", "update"}
    <3>1. /\ CreateApplies(t) \/ UpdateApplies(t)
          /\ v.owner = w.owner /\ v.expires = w.expires
      BY <1>1, <1>5, <2>1, WriterGoesOn
    <3>2. Clean(t, w.owner, secrets')
      BY <1>1, <2>1, <3>1, WritesTidy, Objects DEF Kept, Swept
    <3>3. secrets'[w.owner.spec.key].expires = w.expires
      BY <1>1, <3>1, WriteApplies
    <3> QED BY <1>1, <3>1, <3>2, <3>3 DEF Clean, InPlace, Lasts
  <2>2. CASE w.pc \notin {"create", "update"}
    <3>1. /\ w.pc \in {"refresh", "write"} /\ v.cond = w.cond /\ v.expires = w.expires /\ Still
          /\ v.owner = w.owner \/ (v.owner = tokenCache[t] /\ tokenCache[t] # Nil)
      BY <1>1, <1>5, <2>2, ActsMove DEF Ends, Starts, Advances, CreateApplies, UpdateApplies
    <3>2. Lasts(t, w.owner, w.expires, secrets) /\ secrets' = secrets
      BY <1>1, <1>5, <3>1 DEF Honest, Still
    <3>3. CASE v.owner = w.owner
      BY <3>1, <3>2, <3>3
    <3>4. CASE v.owner = tokenCache[t] /\ tokenCache[t] # Nil
      <4>1. CASE Id(tokenCache[t]) = Id(w.owner)
        BY <3>1, <3>2, <3>4, <4>1, LastsFewer DEF Id
      <4>2. CASE \A k \in Keys : ~ IsControlledBy(secrets[k], t, tokenCache[t])
        BY <3>2, <3>4, <4>2 DEF Lasts
      <4> QED BY <1>1, <3>1, <3>4, <4>1, <4>2, CacheOwns
    <3> QED BY <3>1, <3>3, <3>4
  <2> QED BY <2>1, <2>2
<1> QED BY <1>1, <1>3, <1>4, <1>5, ActsServerHonest DEF Honest

LEMMA HonestKept ==
    ASSUME QInv, [Next]_vars, NEW t \in Tokens
    PROVE  Honest(t)'
<1>1. IInv /\ Honest(t)
  BY DEF QInv
<1>2. /\ now \in Nat /\ TokenValidity \in Nat /\ worker[t].expires \in Nat
      /\ tokens[t] # Nil => tokens[t].expires \in Nat
      /\ \A k \in Keys : secrets[k] # Nil => secrets[k].expires \in Nat
  BY <1>1, ExpiryType
<1>3. CASE Elsewhere(t)
  <2>1. ASSUME NEW obj \in TokenObject, NEW e, Lasts(t, obj, e, secrets)
        PROVE  Lasts(t, obj, e, secrets')
    BY <1>3, <2>1, ControlledOf, LastsFewer DEF Elsewhere
  <2>2. /\ now' \in Nat /\ now' >= now /\ worker'[t] = worker[t]
        /\ tokens'[t] # Nil => tokens'[t] = tokens[t]
    BY <1>3 DEF Elsewhere
  <2>3. /\ tokens[t] # Nil => tokens[t] \in TokenObject
        /\ worker[t].pc \in {"refresh", "write"} => worker[t].owner \in TokenObject
    BY <1>1, Objects
  <2> QED BY <1>1, <1>2, <2>1, <2>2, <2>3 DEF Honest
<1>4. ASSUME NEW spec \in Manifests[t], CreateToken(t, spec)
      PROVE  Honest(t)'
  <2>1. tokens'[t].expires = 0 /\ UNCHANGED <<now, worker, secrets>>
    BY <1>1, <1>4 DEF CreateToken, IInv, TypeOK
  <2>2. Lasts(t, tokens'[t], 0, secrets)
    BY <1>2 DEF Lasts, IsControlledBy
  <2> QED BY <1>1, <1>2, <2>1, <2>2 DEF Honest
<1>5. ASSUME NEW spec \in Manifests[t], EditToken(t, spec)
      PROVE  Honest(t)'
  <2>1. /\ tokens[t] # Nil /\ tokens[t] \in TokenObject
        /\ tokens'[t] = [tokens[t] EXCEPT !.spec = spec, !.generation = tokens[t].generation + 1]
        /\ UNCHANGED <<now, worker, secrets>>
    BY <1>1, <1>5 DEF EditToken, IInv, TypeOK
  <2>2. tokens'[t].uid = tokens[t].uid /\ tokens'[t].expires = tokens[t].expires
    BY <2>1 DEF TokenObject
  <2> QED BY <1>1, <2>1, <2>2, LastsFewer DEF Honest
<1>6. CASE SyncToken(t)
  BY <1>1, <1>6 DEF SyncToken, Honest
<1>7. CASE Restart
  BY <1>1, <1>2, <1>7 DEF Restart, IdleWorker, Honest
<1> QED BY <1>1, <1>3, <1>4, <1>5, <1>6, <1>7, ActsHonest, StepOf DEF Owns

----------------------------------------------------------------------------
LEMMA QuietInitial == Init => QInv
<1> SUFFICES ASSUME Init PROVE QInv
  OBVIOUS
<1>1. IInv /\ \A k \in Keys : secrets[k] = Nil
  BY Initial DEF Init
<1>2. ASSUME NEW t \in Tokens PROVE Lineage(t) /\ Steady(t) /\ Ladder(t) /\ Kept(t) /\ Honest(t)
  <2>1. tokens[t] = Nil /\ tokenCache[t] = Nil /\ worker[t] = IdleWorker /\ now = 0
    BY DEF Init
  <2>2. Views(t) = {}
    BY <2>1 DEF Views, IdleWorker
  <2> QED BY <1>1, <2>1, <2>2, NumbersAssumption
          DEF IdleWorker, Lineage, Steady, Ladder, Of, Kept, Unswept, Swept, Honest
<1> QED BY <1>1, <1>2 DEF QInv, KindMatches

LEMMA QuietInductive ==
    ASSUME Quiet
    PROVE  QInv /\ [Next]_vars => QInv'
<1> SUFFICES ASSUME QInv, [Next]_vars PROVE QInv'
  OBVIOUS
<1>1. IInv' /\ KindMatches'
  BY Inductive, KindKept DEF QInv
<1>2. ASSUME NEW t \in Tokens
      PROVE  Lineage(t)' /\ Steady(t)' /\ Ladder(t)' /\ Kept(t)' /\ Honest(t)'
  BY LineageKept, SteadyKept, LadderKept, KeptKept, HonestKept DEF QInv
<1> QED BY <1>1, <1>2 DEF QInv

LEMMA QuietImplies == QInv => NoStraySecret /\ KindMatches /\ StatusNeverOverstates
<1> SUFFICES ASSUME QInv PROVE NoStraySecret /\ StatusNeverOverstates
  BY DEF QInv
<1>1. NoStraySecret
  <2> SUFFICES ASSUME NEW t \in Tokens, NEW k \in Keys, Owned(t, k)
               PROVE  k \in {tokens[t].spec.key, IF tokens[t].managed = Nil
                              THEN tokens[t].spec.key ELSE tokens[t].managed.key}
    BY DEF NoStraySecret
  <2>1. /\ IsControlledBy(secrets[k], t, tokens[t]) /\ secrets[k] \in SecretObject
        /\ Tidy(t, tokens[t], secrets, secretCache)
    BY DEF Owned, QInv, Kept, IInv, TypeOK, IsControlledBy
  <2>2. CASE InPlace(tokens[t], k, secrets[k])
    BY <2>2 DEF InPlace
  <2>3. CASE LeftOver(tokens[t], k, secrets[k], secretCache[k])
    <3>1. tokens[t].managed.key = k
      BY <2>3, LeftOverKey
    <3>2. tokens[t].managed # Nil
      BY <2>1, <2>3, NilAssumption DEF LeftOver, ManagedSecret, SecretObject
    <3> QED BY <3>1, <3>2
  <2> QED BY <2>1, <2>2, <2>3 DEF Tidy
<1>2. StatusNeverOverstates
  <2> SUFFICES ASSUME NEW t \in Tokens, tokens[t] # Nil, tokens[t].managed # Nil,
                      Owned(t, tokens[t].managed.key)
               PROVE  tokens[t].expires <= secrets[tokens[t].managed.key].expires
    BY DEF StatusNeverOverstates
  <2>1. tokens[t].managed.key \in Keys
    BY DEF QInv, IInv, TypeOK, TokenObject, ManagedSecret
  <2> QED BY <2>1 DEF QInv, Honest, Lasts, Owned
<1> QED BY <1>1, <1>2

(* When edits do not race a reconciliation, no Secret is left behind that  *)
(* DeleteSecret would not find: neither by a rename, nor by a change of    *)
(* the kind, nor by a Token deleted and created anew, whatever fails.      *)
THEOREM SecretsDoNotStray ==
    ASSUME Quiet
    PROVE  Safety => []NoStraySecret
<1>1. QInv /\ [Next]_vars => QInv'
  BY QuietInductive
<1> QED BY <1>1, QuietInitial, QuietImplies, PTL DEF Safety

(* Nor does UpdateSecret ever put the data of one kind into a Secret that  *)
(* CreateSecret has given the type of the other.                           *)
THEOREM KindsMatch ==
    ASSUME Quiet
    PROVE  Safety => []KindMatches
<1>1. QInv /\ [Next]_vars => QInv'
  BY QuietInductive
<1> QED BY <1>1, QuietInitial, QuietImplies, PTL DEF Safety

(* The expiry in the status is never later than that of the credentials,   *)
(* whichever of the two writes UpdateSecret and UpdateTokenStatus is lost. *)
THEOREM StatusIsHonest ==
    ASSUME Quiet
    PROVE  Safety => []StatusNeverOverstates
<1>1. QInv /\ [Next]_vars => QInv'
  BY QuietInductive
<1> QED BY <1>1, QuietInitial, QuietImplies, PTL DEF Safety
=============================================================================
