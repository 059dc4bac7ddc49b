------------------------ MODULE AppControllerProofs ------------------------
(***************************************************************************)
(* Proofs about AppController, for any Apps, Secrets, Tokens, manifests    *)
(* and bounds: type correctness; that no client outlives its App or its    *)
(* key; and that in an orderly environment the client of an App at rest is *)
(* the one its spec and its Secret call for.                               *)
(***************************************************************************)
EXTENDS AppController, TLAPS

(* What a reconciliation has in hand depends on where it stands.           *)
Good(a) ==
    /\ worker[a].pc # "idle" => worker[a].app \in AppObject
    /\ worker[a].pc = "forApp" => worker[a].config \in OperatorConfig

(* A Token that looks up a client knows of which App.                      *)
Lookups == \A t \in Tokens : tokens[t].pc = "lookup" => tokens[t].app \in Apps

Sound == TypeOK /\ Lookups /\ \A a \in Apps : Good(a)

(* What the caches say about the configuration of an App.                  *)
CacheResolvable(a) == appCache[a] # Nil /\ ResolveReason(appCache[a], keyCache) = "Reconciled"

(* Two views of an App, of which the first is not the newer one.           *)
Precedes(old, new) ==
    /\ old.generation <= new.generation
    /\ old.generation = new.generation => old.spec = new.spec

(* Generations tell the specs of one incarnation apart.                    *)
Lineage(a) ==
    /\ apps[a] # Nil => apps[a].uid <= revision
    /\ appCache[a] # Nil => appCache[a].uid <= revision
    /\ apps[a] # Nil /\ appCache[a] # Nil /\ apps[a].uid = appCache[a].uid =>
         Precedes(appCache[a], apps[a])
    /\ apps[a] # Nil /\ appCache[a] # Nil /\ Orderly => apps[a].uid = appCache[a].uid

(* A reconciliation works on the spec the cache has, or its App waits in   *)
(* the queue; one about to use the registry has a key in the cache.        *)
Attentive(a) ==
    a \notin queue =>
        /\ worker[a].pc # "idle" =>
             appCache[a] # Nil /\ appCache[a].spec = worker[a].app.spec
        /\ worker[a].pc = "forApp" => CacheResolvable(a)
        /\ worker[a].pc \in {"idle", "status"} /\ ~ CacheResolvable(a) => registry[a] = Nil

Watchful(a) == Lineage(a) /\ Attentive(a)

(* No App is passed off as another of its name.                            *)
Announced == Orderly \/ ~ Relists

IInv == Sound /\ Announced /\ \A a \in Apps : Watchful(a)

----------------------------------------------------------------------------
(* The views of an App in an orderly environment: the server's is not      *)
(* older than the cache's, nor that than the one a reconciliation has, nor *)
(* those than the one behind the client.                                   *)
Behind(cached, app) ==
    /\ cached.version.generation <= app.generation
    /\ cached.version.generation = app.generation =>
         /\ cached.client.id = app.spec.id
         /\ cached.client.validateKey = app.spec.validateKey
         /\ cached.version.rv = 0 <=> app.spec.keyRef = Nil

Chain(a) ==
    /\ apps[a] # Nil /\ appCache[a] = Nil => worker[a].pc = "idle" /\ registry[a] = Nil
    /\ apps[a] # Nil /\ appCache[a] # Nil => Precedes(appCache[a], apps[a])
    /\ appCache[a] # Nil /\ worker[a].pc # "idle" => Precedes(worker[a].app, appCache[a])
    /\ registry[a] # Nil /\ appCache[a] # Nil => Behind(registry[a], appCache[a])
    /\ registry[a] # Nil /\ worker[a].pc # "idle" => Behind(registry[a], worker[a].app)

(* The keys seen under some resourceVersion, anywhere.                     *)
Seen(rv, pem) ==
    \/ rv = 0 /\ pem = Nil
    \/ \E s \in KeySecrets : keySecrets[s] # Nil /\ rv = keySecrets[s].rv /\ pem = keySecrets[s].pem
    \/ \E s \in KeySecrets : keyCache[s] # Nil /\ rv = keyCache[s].rv /\ pem = keyCache[s].pem
    \/ \E a \in Apps : worker[a].pc = "forApp"
                       /\ rv = worker[a].version.rv /\ pem = worker[a].config.pem
    \/ \E a \in Apps : registry[a] # Nil
                       /\ rv = registry[a].version.rv /\ pem = registry[a].client.pem

KeysTold ==
    /\ \A rv \in Nat, p, q \in Pems \cup {Nil} : Seen(rv, p) /\ Seen(rv, q) => p = q
    /\ \A rv \in Nat, p \in Pems \cup {Nil} : Seen(rv, p) => rv <= revision
    /\ \A s \in KeySecrets : /\ keySecrets[s] # Nil => keySecrets[s].rv > 0
                             /\ keyCache[s] # Nil => keyCache[s].rv > 0

(* The configuration in hand is the one of the App in hand, and of the     *)
(* caches unless the App waits in the queue.                               *)
Matched(a) ==
    LET w == worker[a] IN
    /\ w.pc = "forApp" =>
         /\ w.version.generation = w.app.generation
         /\ w.config.id = w.app.spec.id /\ w.config.validateKey = w.app.spec.validateKey
         /\ w.version.rv = 0 <=> w.app.spec.keyRef = Nil
         /\ a \notin queue => w.config = ConfigOf(appCache[a], keyCache)
    /\ w.pc \in {"idle", "status"} /\ a \notin queue /\ CacheResolvable(a) /\ registry[a] # Nil =>
         registry[a].client = ConfigOf(appCache[a], keyCache)

OInv == IInv /\ KeysTold /\ \A a \in Apps : Chain(a) /\ Matched(a)

----------------------------------------------------------------------------
(* Types of the values that steps compute.                                 *)
LEMMA StatusType ==
    ASSUME NEW app \in AppObject, NEW reason \in Reasons
    PROVE  /\ WithStatus(app, reason) \in AppObject
           /\ WithStatus(app, reason).uid = app.uid
           /\ WithStatus(app, reason).generation = app.generation
           /\ WithStatus(app, reason).spec = app.spec
BY DEF WithStatus, AppObject, Reasons

LEMMA EditedType ==
    ASSUME NEW app \in AppObject, NEW spec \in Spec
    PROVE  [app EXCEPT !.spec = spec, !.generation = app.generation + 1] \in AppObject
<1>1. app.generation + 1 \in Nat
  BY DEF AppObject
<1> QED BY <1>1 DEF AppObject

LEMMA ConfigType ==
    ASSUME NEW app \in AppObject, NEW secrets \in [KeySecrets -> KeySecret \cup {Nil}],
           ResolveReason(app, secrets) = "Reconciled"
    PROVE  /\ ConfigOf(app, secrets) \in OperatorConfig
           /\ VersionOf(app, secrets) \in Version
           /\ app.spec.keyRef # Nil => KeyOf(app, secrets) \in KeySecret
<1>1. app.spec \in Spec /\ app.generation \in Nat
  BY DEF AppObject
<1>2. CASE app.spec.keyRef = Nil
  BY <1>1, <1>2 DEF ConfigOf, VersionOf, OperatorConfig, Version, Spec
<1>3. CASE app.spec.keyRef # Nil
  <2>1. app.spec.keyRef \in KeySecrets
    BY <1>1, <1>3 DEF Spec
  <2>2. KeyOf(app, secrets) \in KeySecret \cup {Nil}
    BY <2>1, <1>3 DEF KeyOf
  <2>3. KeyOf(app, secrets) # Nil
    BY <1>3 DEF ResolveReason
  <2> QED
    BY <1>1, <1>3, <2>2, <2>3 DEF ConfigOf, VersionOf, OperatorConfig, Version, Spec, KeySecret
<1> QED BY <1>2, <1>3

LEMMA ReasonType ==
    ASSUME NEW app, NEW secrets
    PROVE  ResolveReason(app, secrets) \in Reasons
BY DEF ResolveReason, Reasons

----------------------------------------------------------------------------
(* Putting a well-typed value in hand that suits its place in the code.    *)
Fits(w) ==
    /\ w \in Worker
    /\ w.pc # "idle" => w.app \in AppObject
    /\ w.pc = "forApp" => w.config \in OperatorConfig

WorkersOK == worker \in [Apps -> Worker] /\ \A a \in Apps : Good(a)

LEMMA PutWorker ==
    ASSUME Sound, NEW a \in Apps, NEW w, Fits(w), Goto(a, w)
    PROVE  WorkersOK'
<1>1. worker \in [Apps -> Worker] /\ \A b \in Apps : Good(b)
  BY DEF Sound, TypeOK
<1>2. worker' \in [Apps -> Worker] /\ worker'[a] = w
  BY <1>1 DEF Goto, Fits
<1>3. ASSUME NEW b \in Apps, b # a
      PROVE  worker'[b] = worker[b]
  BY <1>1, <1>3 DEF Goto
<1> QED BY <1>1, <1>2, <1>3 DEF WorkersOK, Good, Fits

LEMMA IdleFits == Fits(IdleWorker)
BY DEF Fits, IdleWorker, Worker, Version, Reasons

LEMMA KeepWorkers ==
    ASSUME Sound, UNCHANGED worker
    PROVE  WorkersOK'
BY DEF Sound, TypeOK, WorkersOK, Good

(* The clauses of TypeOK but for the workers and the objects they write.   *)
AppsOK == apps \in [Apps -> AppObject \cup {Nil}]
RegistryOK == registry \in [Apps -> CachedClient \cup {Nil}]
QueuesOK == queue \subseteq Apps /\ timers \subseteq Apps
SecretsOK == keySecrets \in [KeySecrets -> KeySecret \cup {Nil}] /\ revision \in Nat
CachesOK == /\ appCache \in [Apps -> AppObject \cup {Nil}]
            /\ keyCache \in [KeySecrets -> KeySecret \cup {Nil}]
TokensOK == /\ refs \in [Tokens -> References] /\ refCache \in [Tokens -> References]
            /\ refEdits \in Nat
            /\ tokens \in [Tokens -> Token]
            /\ tokenQueue \subseteq Tokens /\ tokenTimers \subseteq Tokens
            /\ \A t \in Tokens : tokens[t].pc = "lookup" => tokens[t].app \in Apps

LEMMA Parts ==
    Sound <=> /\ AppsOK /\ RegistryOK /\ QueuesOK /\ SecretsOK /\ CachesOK /\ TokensOK
              /\ faults \in Nat /\ WorkersOK
BY DEF Sound, Lookups, TypeOK, AppsOK, RegistryOK, QueuesOK, SecretsOK, CachesOK, TokensOK, WorkersOK

LEMMA PartsNext ==
    Sound' <=> /\ AppsOK' /\ RegistryOK' /\ QueuesOK' /\ SecretsOK' /\ CachesOK' /\ TokensOK'
               /\ faults' \in Nat /\ WorkersOK'
BY DEF Sound, Lookups, TypeOK, AppsOK, RegistryOK, QueuesOK, SecretsOK, CachesOK, TokensOK, WorkersOK

LEMMA ElsewhereOK ==
    ASSUME Sound, UNCHANGED Elsewhere
    PROVE  SecretsOK' /\ CachesOK' /\ TokensOK'
BY Parts DEF Elsewhere, tokenSide, SecretsOK, CachesOK, TokensOK

----------------------------------------------------------------------------
LEMMA InitSound == Init => Sound
<1> SUFFICES ASSUME Init PROVE Sound
  OBVIOUS
<1>1. \A a \in Apps : worker[a] = IdleWorker /\ Fits(worker[a])
  BY IdleFits DEF Init
<1>2. WorkersOK
  BY <1>1 DEF Init, WorkersOK, Good, Fits
<1>3. TokensOK
  BY DEF Init, TokensOK, Token, NewToken
<1> QED
  BY <1>2, <1>3, Parts DEF Init, AppsOK, RegistryOK, QueuesOK, SecretsOK, CachesOK

LEMMA UserSound ==
    ASSUME Sound, UserStep
    PROVE  Sound'
<1>1. WorkersOK'
  BY KeepWorkers DEF UserStep
<1>2. RegistryOK' /\ QueuesOK' /\ CachesOK' /\ TokensOK' /\ faults' \in Nat
  BY Parts DEF UserStep, RegistryOK, QueuesOK, CachesOK, TokensOK, tokenSide
<1>3. AppsOK /\ SecretsOK
  BY Parts
<1>4. ASSUME NEW a \in Apps, DeleteApp(a)
      PROVE  AppsOK' /\ SecretsOK'
  BY <1>3, <1>4 DEF DeleteApp, AppsOK, SecretsOK
<1>5. ASSUME NEW a \in Apps, NEW spec \in Manifests, CreateApp(a, spec)
      PROVE  AppsOK' /\ SecretsOK'
  <2>1. [uid |-> revision + 1, generation |-> 1, spec |-> spec,
         ready |-> "None", keyValid |-> "None", observed |-> 0] \in AppObject
    BY <1>3, ManifestsAssumption DEF AppObject, Reasons, SecretsOK
  <2> QED BY <1>3, <1>5, <2>1 DEF CreateApp, Revise, AppsOK, SecretsOK
<1>6. ASSUME NEW a \in Apps, NEW spec \in Manifests, EditApp(a, spec)
      PROVE  AppsOK' /\ SecretsOK'
  <2>1. apps[a] \in AppObject
    BY <1>3, <1>6 DEF EditApp, AppsOK
  <2>2. [apps[a] EXCEPT !.spec = spec, !.generation = apps[a].generation + 1] \in AppObject
    BY <2>1, ManifestsAssumption, EditedType
  <2>3. apps' = [apps EXCEPT ![a] =
          [apps[a] EXCEPT !.spec = spec, !.generation = apps[a].generation + 1]]
    BY <1>3, <1>6, <2>1 DEF EditApp, AppsOK, AppObject
  <2> QED BY <1>3, <1>6, <2>2, <2>3 DEF EditApp, AppsOK, SecretsOK
<1>7. ASSUME NEW s \in KeySecrets, DeleteKey(s)
      PROVE  AppsOK' /\ SecretsOK'
  BY <1>3, <1>7 DEF DeleteKey, AppsOK, SecretsOK
<1>8. ASSUME NEW s \in KeySecrets, NEW pem \in Contents, PutKey(s, pem)
      PROVE  AppsOK' /\ SecretsOK'
  BY <1>3, <1>8, ManifestsAssumption DEF PutKey, Revise, AppsOK, SecretsOK, KeySecret
<1> QED BY <1>1, <1>2, <1>4, <1>5, <1>6, <1>7, <1>8, PartsNext DEF UserStep

LEMMA InformerSound ==
    ASSUME Sound, \/ \E a \in Apps : SyncApp(a) \/ TimerFires(a)
                  \/ \E s \in KeySecrets : SyncKey(s)
    PROVE  Sound'
<1>1. WorkersOK'
  BY KeepWorkers DEF SyncApp, TimerFires, SyncKey
<1>2. AppsOK' /\ RegistryOK' /\ SecretsOK' /\ faults' \in Nat
  BY Parts DEF SyncApp, TimerFires, SyncKey, server, AppsOK, RegistryOK, SecretsOK
<1>3. AppsOK /\ QueuesOK /\ SecretsOK /\ CachesOK /\ TokensOK
  BY Parts
<1>4. ASSUME NEW a \in Apps, SyncApp(a)
      PROVE  QueuesOK' /\ CachesOK' /\ TokensOK'
  BY <1>3, <1>4 DEF SyncApp, TokensOf, mapAppToTokens, mapAppToClusterTokens, AppsOK, QueuesOK, CachesOK,
     TokensOK
<1>5. ASSUME NEW a \in Apps, TimerFires(a)
      PROVE  QueuesOK' /\ CachesOK' /\ TokensOK'
  BY <1>3, <1>5 DEF TimerFires, tokenSide, QueuesOK, CachesOK, TokensOK
<1>6. ASSUME NEW s \in KeySecrets, SyncKey(s)
      PROVE  QueuesOK' /\ CachesOK' /\ TokensOK'
  BY <1>3, <1>6 DEF SyncKey, SecretToApps, tokenSide, SecretsOK, QueuesOK, CachesOK, TokensOK
<1> QED BY <1>1, <1>2, <1>4, <1>5, <1>6, PartsNext

(* A reconciliation that moves on, or ends one way or the other.           *)
LEMMA StepSound ==
    ASSUME Sound, NEW a \in Apps, AppStep(a) \/ KeyReadFails(a) \/ CallFails(a) \/ ResponseLost(a)
    PROVE  Sound'
<1> DEFINE w == worker[a]
<1>1. /\ AppsOK /\ RegistryOK /\ QueuesOK /\ CachesOK /\ faults \in Nat
      /\ w \in Worker /\ Good(a)
  BY Parts DEF WorkersOK
<1>2. SecretsOK' /\ CachesOK' /\ TokensOK'
  BY ElsewhereOK
     DEF AppStep, KeyReadFails, StartGone, Start, ResolveConfig, KeepsClient, BuildsClient, BuildFails,
         DropClient, WriteStatus, StatusUnchanged, StatusConflict, CallFails, ResponseLost
<1> DEFINE Kept == AppsOK' /\ RegistryOK' /\ QueuesOK' /\ faults' \in Nat
<1>3. CASE StartGone(a)
  <2>1. WorkersOK'
    BY <1>3, KeepWorkers DEF StartGone
  <2>2. Kept
    BY <1>1, <1>3 DEF StartGone, Take, Invalidate, AppsOK, RegistryOK, QueuesOK
  <2> QED BY <1>2, <2>1, <2>2, PartsNext
<1>4. CASE Start(a)
  <2> DEFINE v == [IdleWorker EXCEPT !.pc = "resolve", !.app = appCache[a]]
  <2>1. appCache[a] \in AppObject
    BY <1>1, <1>4 DEF Start, CachesOK
  <2>2. Fits(v)
    BY <2>1, IdleFits DEF Fits, IdleWorker, Worker
  <2>3. Goto(a, v)
    BY <1>4 DEF Start
  <2>4. WorkersOK'
    BY <2>2, <2>3, PutWorker
  <2>5. Kept
    BY <1>1, <1>4 DEF Start, Take, AppsOK, RegistryOK, QueuesOK
  <2> QED BY <1>2, <2>4, <2>5, PartsNext
<1>5. CASE ResolveConfig(a)
  <2> DEFINE reason == ResolveReason(w.app, keyCache)
             v == IF reason = "Reconciled"
                  THEN [w EXCEPT !.pc = "forApp", !.reason = reason,
                                 !.config = ConfigOf(w.app, keyCache),
                                 !.version = VersionOf(w.app, keyCache)]
                  ELSE [w EXCEPT !.pc = "invalidate", !.reason = reason]
  <2>1. w.pc = "resolve" /\ Goto(a, v)
    BY <1>5 DEF ResolveConfig
  <2>2. w.app \in AppObject /\ reason \in Reasons
    BY <1>1, <2>1, ReasonType DEF Good
  <2>3. ASSUME reason = "Reconciled" PROVE Fits(v)
    <3>1. ConfigOf(w.app, keyCache) \in OperatorConfig /\ VersionOf(w.app, keyCache) \in Version
      BY <1>1, <2>2, <2>3, ConfigType DEF CachesOK
    <3> HIDE DEF reason
    <3> QED BY <1>1, <2>2, <2>3, <3>1 DEF Fits, Worker
  <2>4. ASSUME reason # "Reconciled" PROVE Fits(v)
    <3> HIDE DEF reason
    <3> QED BY <1>1, <2>2, <2>4 DEF Fits, Worker
  <2>5. WorkersOK'
    <3> HIDE DEF v
    <3> QED BY <2>1, <2>3, <2>4, PutWorker
  <2>6. Kept
    BY <1>1, <1>5 DEF ResolveConfig, AppsOK, RegistryOK, QueuesOK
  <2> QED BY <1>2, <2>5, <2>6, PartsNext
<1>6. CASE KeyReadFails(a) \/ KeepsClient(a) \/ BuildsClient(a) \/ BuildFails(a) \/ DropClient(a)
  <2>1. PICK v : Goto(a, v) /\ v \in {[w EXCEPT !.pc = "status"],
                   [w EXCEPT !.pc = "invalidate", !.reason = "SetupFailed"]}
    BY <1>6 DEF KeyReadFails, KeepsClient, BuildsClient, BuildFails, DropClient
  <2>2. w.pc \in {"resolve", "forApp", "invalidate"}
    BY <1>6 DEF KeyReadFails, KeepsClient, BuildsClient, BuildFails, DropClient
  <2>3. Fits(v)
    BY <1>1, <2>1, <2>2 DEF Good, Fits, Worker, Reasons
  <2>4. WorkersOK'
    BY <2>1, <2>3, PutWorker
  <2>5. CASE BuildsClient(a)
    <3>1. [client |-> w.config, version |-> w.version] \in CachedClient
      BY <1>1, <2>5 DEF BuildsClient, Good, Worker, CachedClient
    <3> QED BY <1>1, <1>2, <2>4, <2>5, <3>1, PartsNext
            DEF BuildsClient, AppsOK, RegistryOK, QueuesOK
  <2>6. CASE ~ BuildsClient(a)
    BY <1>1, <1>2, <1>6, <2>4, <2>6, PartsNext
       DEF KeyReadFails, KeepsClient, BuildFails, DropClient, Invalidate, Fault,
           AppsOK, RegistryOK, QueuesOK
  <2> QED BY <2>5, <2>6
<1>7. CASE \/ WriteStatus(a) \/ StatusUnchanged(a) \/ StatusConflict(a)
           \/ CallFails(a) \/ ResponseLost(a)
  <2>1. Goto(a, IdleWorker) /\ queue' \subseteq Apps /\ timers' \subseteq Apps
    BY <1>1, <1>7 DEF WriteStatus, StatusUnchanged, StatusConflict, CallFails, ResponseLost,
       Done, Error, QueuesOK
  <2>2. WorkersOK'
    BY <2>1, IdleFits, PutWorker
  <2>3. RegistryOK' /\ faults' \in Nat
    BY <1>1, <1>7 DEF WriteStatus, StatusUnchanged, StatusConflict, CallFails, ResponseLost,
       Fault, RegistryOK
  <2>4. AppsOK'
    <3>1. CASE StatusApplies(a)
      <4>1. w.app \in AppObject /\ w.reason \in Reasons
        BY <1>1, <3>1 DEF StatusApplies, Good, Worker
      <4>2. Status(a) \in AppObject
        BY <4>1, StatusType DEF Status
      <4> QED BY <1>1, <3>1, <4>2 DEF StatusApplies, AppsOK
    <3>2. CASE ~ StatusApplies(a)
      BY <1>1, <1>7, <3>2
         DEF WriteStatus, StatusUnchanged, StatusConflict, CallFails, ResponseLost, AppsOK
    <3> QED BY <3>1, <3>2
  <2> QED BY <1>2, <2>1, <2>2, <2>3, <2>4, PartsNext DEF QueuesOK
<1> QED BY <1>3, <1>4, <1>5, <1>6, <1>7 DEF AppStep

(* What a Token and its users do leaves the App controller alone.          *)
TokenActs(t) ==
    \/ SyncRef(t) \/ TokenTimerFires(t) \/ TokenStep(t)
    \/ \E ref \in References : EditRef(t, ref)

LEMMA TokensApart ==
    ASSUME NEW t \in Tokens, TokenActs(t)
    PROVE  UNCHANGED <<appSide, faults>>
BY DEF TokenActs, SyncRef, TokenTimerFires, EditRef, TokenStep, UseStartup, ResolveApp, Lookup,
       TokenElsewhere

LEMMA UseType ==
    ASSUME TokensOK, NEW t \in Tokens, NEW client \in OperatorConfig \cup {Nil}, Use(t, client)
    PROVE  /\ tokens' \in [Tokens -> Token] /\ tokenTimers' \subseteq Tokens
           /\ Lookups'
<1>1. tokens[t].client \in OperatorConfig \cup {Nil}
  BY DEF TokensOK, Token
<1>2. \A c \in OperatorConfig \cup {Nil}, r \in BOOLEAN :
        /\ [NewToken EXCEPT !.ready = r, !.client = c] \in Token
        /\ [NewToken EXCEPT !.ready = r, !.client = c].pc = "idle"
  BY DEF NewToken, Token
<1>3. /\ [NewToken EXCEPT !.client = tokens[t].client] \in Token
      /\ [NewToken EXCEPT !.client = tokens[t].client].pc = "idle"
  BY <1>1 DEF NewToken, Token
<1>4. \E v \in Token : v.pc = "idle" /\ tokens' = [tokens EXCEPT ![t] = v]
  <2>1. CASE client = Nil
    BY <1>3, <2>1 DEF Use, Unavailable, TokenIdles
  <2>2. CASE client # Nil
    BY <1>2, <2>2 DEF Use, TokenIdles
  <2> QED BY <2>1, <2>2
<1>5. tokenTimers' \subseteq Tokens
  BY DEF Use, Unavailable, TokenIdles, TokensOK
<1> QED BY <1>4, <1>5 DEF TokensOK, Lookups

(* A Token that moved on leaves the references alone.                      *)
LEMMA MovedOn ==
    ASSUME TokensOK, UNCHANGED <<refs, refEdits, refCache>>, tokenQueue' \subseteq Tokens,
           tokens' \in [Tokens -> Token], tokenTimers' \subseteq Tokens, Lookups'
    PROVE  TokensOK'
BY DEF TokensOK, Lookups

LEMMA TokenSound ==
    ASSUME Sound, NEW t \in Tokens, TokenActs(t)
    PROVE  Sound'
<1>1. TokensOK /\ RegistryOK /\ tokenQueue \subseteq Tokens
  BY Parts DEF TokensOK
<1>2. ASSUME SyncRef(t) PROVE TokensOK'
  BY <1>1, <1>2 DEF SyncRef, TokensOK
<1>3. ASSUME TokenTimerFires(t) PROVE TokensOK'
  BY <1>1, <1>3 DEF TokenTimerFires, TokensOK
<1>4. ASSUME NEW ref \in References, EditRef(t, ref) PROVE TokensOK'
  BY <1>1, <1>4 DEF EditRef, TokensOK
<1>5. ASSUME UseStartup(t) PROVE TokensOK'
  <2>1. PICK client \in OperatorConfig \cup {Nil} : Use(t, client)
    BY <1>5, StartupAssumption DEF UseStartup
  <2>2. UNCHANGED <<refs, refEdits, refCache>> /\ tokenQueue' \subseteq Tokens
    BY <1>1, <1>5 DEF UseStartup, TakeToken, TokenElsewhere
  <2> QED BY <1>1, <2>1, <2>2, UseType, MovedOn
<1>6. ASSUME ResolveApp(t) PROVE TokensOK'
  <2> DEFINE a == AppKeyOf(t, refCache[t])
  <2>1. a \in Apps
    BY <1>1, <1>6, ReferencesAssumption DEF ResolveApp, TokensOK
  <2>2. UNCHANGED <<refs, refEdits, refCache>> /\ tokenQueue' \subseteq Tokens
    BY <1>1, <1>6 DEF ResolveApp, TakeToken, TokenElsewhere
  <2>3. CASE AppUsable(a)
    <3> DEFINE v == [tokens[t] EXCEPT !.pc = "lookup", !.app = a]
    <3>1. v \in Token /\ v.app = a
      BY <1>1, <2>1 DEF TokensOK, Token
    <3>2. tokens' = [tokens EXCEPT ![t] = v] /\ UNCHANGED tokenTimers
      BY <1>1, <1>6, <2>3 DEF ResolveApp, TokensOK, Token
    <3> HIDE DEF v, a
    <3>3. tokens' \in [Tokens -> Token] /\ tokenTimers' \subseteq Tokens /\ Lookups'
      BY <1>1, <2>1, <3>1, <3>2 DEF TokensOK, Lookups
    <3> QED BY <1>1, <2>2, <3>3, MovedOn
  <2>4. CASE ~ AppUsable(a)
    <3>1. Unavailable(t)
      BY <1>6, <2>4 DEF ResolveApp
    <3>2. Use(t, Nil)
      BY <3>1 DEF Use
    <3> QED BY <1>1, <2>2, <3>2, UseType, MovedOn
  <2> QED BY <2>3, <2>4
<1>7. ASSUME Lookup(t) PROVE TokensOK'
  <2> DEFINE cached == registry[tokens[t].app]
             client == IF cached = Nil THEN Nil ELSE cached.client
  <2>1. Use(t, client) /\ UNCHANGED <<refs, refEdits, refCache, tokenQueue>>
    BY <1>7 DEF Lookup, TokenElsewhere
  <2>2. client \in OperatorConfig \cup {Nil}
    BY <1>1, <1>7 DEF Lookup, TokensOK, RegistryOK, CachedClient
  <2> HIDE DEF client
  <2> QED BY <1>1, <2>1, <2>2, UseType, MovedOn
<1>8. TokensOK'
  BY <1>2, <1>3, <1>4, <1>5, <1>6, <1>7 DEF TokenActs, TokenStep
<1>9. WorkersOK' /\ UNCHANGED <<appSide, faults>>
  BY TokensApart, KeepWorkers DEF appSide
<1> QED
  BY <1>8, <1>9, Parts, PartsNext
     DEF appSide, server, AppsOK, RegistryOK, QueuesOK, SecretsOK, CachesOK

LEMMA RestartSound ==
    ASSUME Sound, Restart
    PROVE  Sound'
<1>1. \A a \in Apps : worker'[a] = IdleWorker
  BY DEF Restart
<1>2. WorkersOK'
  BY <1>1, IdleFits DEF Restart, WorkersOK, Good, Fits
<1>3. TokensOK'
  <2>1. tokens \in [Tokens -> Token] /\ refs \in [Tokens -> References] /\ refEdits \in Nat
    BY Parts DEF TokensOK
  <2>2. \A t \in Tokens : [tokens[t] EXCEPT !.pc = "idle", !.app = Nil] \in Token
    BY <2>1 DEF Token
  <2>3. \A t \in Tokens : [tokens[t] EXCEPT !.pc = "idle", !.app = Nil].pc = "idle"
    BY <2>1 DEF Token
  <2>4. tokens' = [t \in Tokens |-> [tokens[t] EXCEPT !.pc = "idle", !.app = Nil]]
    BY DEF Restart
  <2>5. tokens' \in [Tokens -> Token] /\ \A t \in Tokens : tokens'[t].pc = "idle"
    BY <2>2, <2>3, <2>4
  <2>6. UNCHANGED <<refs, refEdits>> /\ refCache' = refs /\ tokenQueue' = Tokens /\ tokenTimers' = {}
    BY DEF Restart
  <2> QED BY <2>1, <2>5, <2>6 DEF TokensOK
<1>4. AppsOK' /\ SecretsOK'
  BY Parts DEF Restart, server, AppsOK, SecretsOK
<1>5. CachesOK'
  BY Parts DEF Restart, server, AppsOK, SecretsOK, CachesOK
<1>6. RegistryOK' /\ QueuesOK'
  BY DEF Restart, RegistryOK, QueuesOK
<1>7. faults' \in Nat
  <2>1. faults \in Nat /\ Fault
    BY Parts DEF Restart
  <2> QED BY <2>1 DEF Fault
<1> QED
  BY <1>2, <1>3, <1>4, <1>5, <1>6, <1>7, PartsNext

LEMMA SoundSteps == Sound /\ [Next]_vars => Sound'
<1> SUFFICES ASSUME Sound, [Next]_vars PROVE Sound'
  OBVIOUS
<1>1. CASE Next
  BY <1>1, UserSound, InformerSound, StepSound, TokenSound, RestartSound DEF Next, TokenActs
<1>2. CASE UNCHANGED vars
  BY <1>2, Parts, PartsNext, KeepWorkers
     DEF vars, appSide, server, tokenSide, AppsOK, RegistryOK, QueuesOK, SecretsOK, CachesOK, TokensOK
<1> QED BY <1>1, <1>2

(* Every variable keeps its type: objects, caches, queues, reconciliations *)
(* and the registry.                                                       *)
THEOREM TypeCorrect == Safety => []TypeOK
<1>1. Sound => TypeOK
  BY DEF Sound
<1> QED BY <1>1, InitSound, SoundSteps, PTL DEF Safety

----------------------------------------------------------------------------
(* Watchful survives every step.  Most steps leave most Apps alone.        *)
Unmoved(b) ==
    /\ apps'[b] = apps[b] /\ appCache'[b] = appCache[b] /\ worker'[b] = worker[b]
    /\ registry'[b] = registry[b] /\ (b \in queue' <=> b \in queue)
    /\ keyCache' = keyCache /\ revision' >= revision

LEMMA UnmovedIsWatchful ==
    ASSUME Sound, NEW b \in Apps, Watchful(b), Unmoved(b), revision' \in Nat
    PROVE  Watchful(b)'
<1>1. /\ revision \in Nat
      /\ apps[b] # Nil => apps[b].uid \in Nat
      /\ appCache[b] # Nil => appCache[b].uid \in Nat
  BY DEF Sound, TypeOK, AppObject
<1>2. Lineage(b)'
  BY <1>1 DEF Watchful, Lineage, Precedes, Unmoved
<1>3. Attentive(b)'
  <2>1. ResolveReason(appCache'[b], keyCache') = ResolveReason(appCache[b], keyCache)
    BY DEF Unmoved
  <2>2. CacheResolvable(b)' <=> CacheResolvable(b)
    BY <2>1 DEF CacheResolvable, Unmoved
  <2> QED BY <2>2 DEF Watchful, Attentive, Unmoved
<1> QED BY <1>2, <1>3 DEF Watchful

LEMMA OthersUnmoved ==
    ASSUME Sound, NEW a \in Apps, NEW b \in Apps, b # a,
           \/ SyncApp(a) \/ TimerFires(a) \/ AppStep(a)
           \/ KeyReadFails(a) \/ CallFails(a) \/ ResponseLost(a)
    PROVE  Unmoved(b)
<1>1. /\ revision \in Nat /\ worker \in [Apps -> Worker]
      /\ apps \in [Apps -> AppObject \cup {Nil}] /\ appCache \in [Apps -> AppObject \cup {Nil}]
      /\ registry \in [Apps -> CachedClient \cup {Nil}]
  BY DEF Sound, TypeOK
<1>2. CASE SyncApp(a) \/ TimerFires(a)
  BY <1>1, <1>2 DEF SyncApp, TimerFires, server, Unmoved
<1>3. CASE StartGone(a) \/ Start(a) \/ ResolveConfig(a) \/ KeyReadFails(a)
  BY <1>1, <1>3
     DEF StartGone, Start, ResolveConfig, KeyReadFails, Take, Invalidate, Goto, Elsewhere, Unmoved
<1>4. CASE KeepsClient(a) \/ BuildsClient(a) \/ BuildFails(a) \/ DropClient(a)
  BY <1>1, <1>4
     DEF KeepsClient, BuildsClient, BuildFails, DropClient, Invalidate, Goto, Elsewhere, Unmoved
<1>5. CASE \/ WriteStatus(a) \/ StatusUnchanged(a) \/ StatusConflict(a)
           \/ CallFails(a) \/ ResponseLost(a)
  BY <1>1, <1>5
     DEF WriteStatus, StatusUnchanged, StatusConflict, CallFails, ResponseLost, StatusApplies,
         Done, Error, Goto, Elsewhere, Unmoved
<1> QED BY <1>2, <1>3, <1>4, <1>5 DEF AppStep

(* Whether a configuration resolves, and to what, depends on the spec and  *)
(* on the one Secret it refers to.                                         *)
LEMMA SameSpec ==
    ASSUME NEW app, NEW other, app.spec = other.spec, NEW secrets
    PROVE  /\ ResolveReason(app, secrets) = ResolveReason(other, secrets)
           /\ ConfigOf(app, secrets) = ConfigOf(other, secrets)
BY DEF ResolveReason, ConfigOf, KeyOf

LEMMA UnrelatedSecret ==
    ASSUME Sound, NEW s \in KeySecrets, SyncKey(s), NEW app \in AppObject, app.spec.keyRef # s
    PROVE  /\ ResolveReason(app, keyCache') = ResolveReason(app, keyCache)
           /\ ConfigOf(app, keyCache') = ConfigOf(app, keyCache)
<1>1. keyCache \in [KeySecrets -> KeySecret \cup {Nil}] /\ app.spec.keyRef \in KeySecrets \cup {Nil}
  BY DEF Sound, TypeOK, AppObject, Spec
<1>2. KeyOf(app, keyCache') = KeyOf(app, keyCache)
  BY <1>1 DEF SyncKey, KeyOf
<1> QED BY <1>2 DEF ResolveReason, ConfigOf

LEMMA UserWatchful ==
    ASSUME IInv, UserStep, NEW b \in Apps
    PROVE  Watchful(b)'
<1>1. /\ revision \in Nat /\ apps \in [Apps -> AppObject \cup {Nil}]
      /\ appCache \in [Apps -> AppObject \cup {Nil}] /\ Watchful(b)
  BY DEF IInv, Sound, TypeOK
<1>2. Attentive(b)'
  BY <1>1 DEF UserStep, Watchful, Attentive, CacheResolvable, ResolveReason, KeyOf
<1>3. Lineage(b) /\ appCache' = appCache
  BY <1>1 DEF Watchful, UserStep
<1>4. ASSUME NEW a \in Apps, DeleteApp(a)
      PROVE  Lineage(b)'
  BY <1>1, <1>3, <1>4 DEF DeleteApp, Lineage, Precedes
<1>5. ASSUME NEW a \in Apps, NEW spec \in Manifests, CreateApp(a, spec)
      PROVE  Lineage(b)'
  <2>1. revision' = revision + 1
    BY <1>5 DEF CreateApp, Revise
  <2>2. appCache[b] # Nil => appCache[b].uid \in Nat
    BY <1>1 DEF AppObject
  <2>3. CASE b = a
    <3>1. apps'[b].uid = revision + 1 /\ (Orderly => appCache[b] = Nil)
      BY <1>1, <1>5, <2>3 DEF CreateApp, DeletionDone
    <3> QED BY <1>1, <1>3, <2>1, <2>2, <3>1 DEF Lineage
  <2>4. CASE b # a
    <3>1. apps'[b] = apps[b] /\ (apps[b] # Nil => apps[b].uid \in Nat)
      BY <1>1, <1>5, <2>4 DEF CreateApp, AppObject
    <3> QED BY <1>1, <1>3, <2>1, <2>2, <3>1 DEF Lineage, Precedes
  <2> QED BY <2>3, <2>4
<1>6. ASSUME NEW a \in Apps, NEW spec \in Manifests, EditApp(a, spec)
      PROVE  Lineage(b)'
  <2>1. revision' = revision
    BY <1>6 DEF EditApp
  <2>2. CASE b = a
    <3>1. /\ apps[b] \in AppObject /\ apps'[b] # Nil
          /\ apps'[b].uid = apps[b].uid /\ apps'[b].generation = apps[b].generation + 1
      <4>1. apps[b] \in AppObject
        BY <1>1, <1>6, <2>2 DEF EditApp
      <4>2. apps'[b] = [apps[b] EXCEPT !.spec = spec, !.generation = apps[b].generation + 1]
        BY <1>1, <1>6, <2>2, <4>1 DEF EditApp, AppObject
      <4>3. apps'[b] \in AppObject
        BY <4>1, <4>2, EditedType, ManifestsAssumption
      <4> QED BY <4>1, <4>2, <4>3, NilAssumption DEF AppObject
    <3>2. apps[b].generation \in Nat /\ (appCache[b] # Nil => appCache[b].generation \in Nat)
      BY <1>1, <3>1 DEF AppObject
    <3>3. apps[b] # Nil
      BY <1>6, <2>2 DEF EditApp
    <3> QED BY <1>3, <2>1, <3>1, <3>2, <3>3 DEF Lineage, Precedes
  <2>3. CASE b # a
    <3>1. apps'[b] = apps[b]
      BY <1>1, <1>6, <2>3 DEF EditApp
    <3> QED BY <1>3, <2>1, <3>1 DEF Lineage, Precedes
  <2> QED BY <2>2, <2>3
<1>7. ASSUME NEW s \in KeySecrets, DeleteKey(s) \/ \E pem \in Contents : PutKey(s, pem)
      PROVE  Lineage(b)'
  <2>1. apps' = apps /\ revision' \in Nat /\ revision' >= revision
    BY <1>1, <1>7 DEF DeleteKey, PutKey, Revise
  <2>2. /\ apps[b] # Nil => apps[b].uid \in Nat
        /\ appCache[b] # Nil => appCache[b].uid \in Nat
    BY <1>1 DEF AppObject
  <2> QED BY <1>1, <1>3, <2>1, <2>2 DEF Lineage, Precedes
<1> QED BY <1>2, <1>4, <1>5, <1>6, <1>7 DEF UserStep, Watchful

(* What passes the predicate, or is announced as new, enqueues the App and *)
(* its Tokens; what does neither is of the spec the cache has.             *)
LEMMA SyncAppEnqueues ==
    ASSUME IInv, NEW a \in Apps, SyncApp(a)
    PROVE  \/ queue' = queue \cup {a} /\ tokenQueue' = tokenQueue \cup TokensOf(a)
           \/ /\ appCache[a] # Nil /\ apps[a] # Nil
              /\ UNCHANGED <<queue, tokenQueue>>
              /\ appCache[a].uid = apps[a].uid /\ appCache[a].spec = apps[a].spec
<1> DEFINE passes == Passes(appCache[a], apps[a])
           recreated == Recreated(appCache[a], apps[a])
<1>1. PICK relisted \in {FALSE, Relists} :
        IF passes \/ (recreated /\ ~ relisted)
        THEN queue' = queue \cup {a} /\ tokenQueue' = tokenQueue \cup TokensOf(a)
        ELSE UNCHANGED <<queue, tokenQueue>>
  BY DEF SyncApp
<1>2. Announced /\ Lineage(a)
  BY DEF IInv, Watchful
<1>3. recreated => ~ relisted
  <2>1. CASE Orderly
    BY <1>2, <2>1 DEF Recreated, Lineage
  <2>2. CASE ~ Orderly
    BY <1>2, <2>2 DEF Announced
  <2> QED BY <2>1, <2>2
<1>4. ~ passes /\ ~ recreated =>
        /\ appCache[a] # Nil /\ apps[a] # Nil
        /\ appCache[a].uid = apps[a].uid /\ appCache[a].spec = apps[a].spec
  BY <1>2 DEF Passes, Recreated, Lineage, Precedes
<1> QED BY <1>1, <1>3, <1>4

LEMMA SyncAppWatchful ==
    ASSUME IInv, NEW a \in Apps, SyncApp(a)
    PROVE  Watchful(a)'
<1>1. /\ apps \in [Apps -> AppObject \cup {Nil}] /\ appCache \in [Apps -> AppObject \cup {Nil}]
      /\ Lineage(a) /\ Attentive(a)
  BY DEF IInv, Sound, TypeOK, Watchful
<1>2. /\ appCache'[a] = apps[a] /\ apps' = apps /\ revision' = revision
      /\ worker' = worker /\ registry' = registry /\ keyCache' = keyCache
  BY <1>1 DEF SyncApp, server
<1>3. Lineage(a)'
  BY <1>1, <1>2 DEF Lineage, Precedes, AppObject
<1>4. CASE queue' = queue \cup {a}
  BY <1>3, <1>4 DEF Watchful, Attentive
<1>5. CASE queue' # queue \cup {a}
  <2>1. /\ appCache[a] # Nil /\ apps[a] # Nil /\ queue' = queue
        /\ appCache[a].spec = apps[a].spec
    BY <1>5, SyncAppEnqueues
  <2>2. CacheResolvable(a)' <=> CacheResolvable(a)
    BY <1>2, <2>1, SameSpec DEF CacheResolvable
  <2> QED BY <1>1, <1>2, <1>3, <2>1, <2>2 DEF Watchful, Attentive
<1> QED BY <1>4, <1>5

LEMMA SyncKeyWatchful ==
    ASSUME IInv, NEW s \in KeySecrets, SyncKey(s), NEW b \in Apps
    PROVE  Watchful(b)'
<1>1. appCache \in [Apps -> AppObject \cup {Nil}] /\ Lineage(b) /\ Attentive(b)
  BY DEF IInv, Sound, TypeOK, Watchful
<1>2. Lineage(b)'
  BY <1>1 DEF SyncKey, server, Lineage, Precedes
<1>3. CASE b \in queue'
  BY <1>2, <1>3 DEF Watchful, Attentive
<1>4. CASE b \notin queue'
  <2>1. b \notin queue /\ (appCache[b] # Nil => appCache[b].spec.keyRef # s)
    BY <1>4 DEF SyncKey, SecretToApps
  <2>2. CacheResolvable(b)' <=> CacheResolvable(b)
    <3>1. CASE appCache[b] = Nil
      BY <3>1 DEF SyncKey, CacheResolvable
    <3>2. CASE appCache[b] # Nil
      <4>1. ResolveReason(appCache[b], keyCache') = ResolveReason(appCache[b], keyCache)
        BY <1>1, <2>1, <3>2, UnrelatedSecret DEF IInv
      <4> QED BY <3>2, <4>1 DEF SyncKey, CacheResolvable
    <3> QED BY <3>1, <3>2
  <2> QED BY <1>1, <1>2, <2>1, <2>2 DEF SyncKey, Watchful, Attentive
<1> QED BY <1>3, <1>4

(* A step of a reconciliation changes App a at most in its status.         *)
LEMMA StatusOnly ==
    ASSUME Sound, NEW a \in Apps, AppStep(a) \/ KeyReadFails(a) \/ CallFails(a) \/ ResponseLost(a)
    PROVE  \/ apps' = apps
           \/ /\ apps[a] # Nil /\ apps'[a] # Nil /\ apps'[a].uid = apps[a].uid
              /\ apps'[a].generation = apps[a].generation /\ apps'[a].spec = apps[a].spec
<1> DEFINE w == worker[a]
<1>1. /\ apps \in [Apps -> AppObject \cup {Nil}] /\ w \in Worker /\ Good(a)
  BY DEF Sound, TypeOK
<1>2. CASE StatusApplies(a)
  <2>1. w.app \in AppObject /\ w.reason \in Reasons /\ apps[a] = w.app /\ apps'[a] = Status(a)
    BY <1>1, <1>2 DEF StatusApplies, Good, Worker
  <2> QED BY <2>1, StatusType, NilAssumption DEF Status
<1>3. CASE ~ StatusApplies(a)
  BY <1>3 DEF AppStep, KeyReadFails, StartGone, Start, ResolveConfig, KeepsClient, BuildsClient, BuildFails,
     DropClient, WriteStatus, StatusUnchanged, StatusConflict, CallFails, ResponseLost
<1> QED BY <1>2, <1>3

LEMMA StepCaches ==
    ASSUME NEW a \in Apps, AppStep(a) \/ KeyReadFails(a) \/ CallFails(a) \/ ResponseLost(a)
    PROVE  appCache' = appCache /\ keyCache' = keyCache /\ revision' = revision
BY DEF AppStep, KeyReadFails, StartGone, Start, ResolveConfig, KeepsClient, BuildsClient, BuildFails,
   DropClient, WriteStatus, StatusUnchanged, StatusConflict, CallFails, ResponseLost, Elsewhere

LEMMA StepWatchful ==
    ASSUME IInv, NEW a \in Apps, AppStep(a) \/ KeyReadFails(a) \/ CallFails(a) \/ ResponseLost(a)
    PROVE  Watchful(a)'
<1> DEFINE w == worker[a]
<1>1. /\ worker \in [Apps -> Worker] /\ registry \in [Apps -> CachedClient \cup {Nil}]
      /\ appCache \in [Apps -> AppObject \cup {Nil}]
      /\ Good(a) /\ Lineage(a) /\ Attentive(a)
  BY DEF IInv, Sound, TypeOK, Watchful
<1>2. /\ appCache' = appCache /\ keyCache' = keyCache /\ revision' = revision
      /\ CacheResolvable(a)' <=> CacheResolvable(a)
  BY StepCaches DEF CacheResolvable, ResolveReason, KeyOf
<1>3. Lineage(a)'
  BY <1>1, <1>2, StatusOnly DEF IInv, Lineage, Precedes
<1>4. Attentive(a)'
  <2>1. CASE StartGone(a)
    BY <1>1, <1>2, <2>1 DEF StartGone, Take, Invalidate, Attentive
  <2>2. CASE Start(a)
    BY <1>1, <1>2, <2>2 DEF Start, Goto, IdleWorker, Attentive
  <2>3. CASE ResolveConfig(a)
    <3> DEFINE reason == ResolveReason(w.app, keyCache)
    <3>1. /\ worker'[a].app = w.app /\ registry' = registry /\ queue' = queue
          /\ w.pc = "resolve" /\ worker'[a].pc \in {"forApp", "invalidate"}
          /\ worker'[a].pc = "forApp" => reason = "Reconciled"
      <4> HIDE DEF reason
      <4> QED BY <1>1, <2>3 DEF ResolveConfig, Goto, Worker, reason
    <3>2. ASSUME a \notin queue PROVE reason = ResolveReason(appCache[a], keyCache)
      BY <1>1, <3>1, <3>2, SameSpec DEF Attentive
    <3>3. ASSUME a \notin queue PROVE appCache[a] # Nil /\ appCache[a].spec = w.app.spec
      BY <1>1, <3>1, <3>3 DEF Attentive
    <3> HIDE DEF reason
    <3> QED BY <1>2, <3>1, <3>2, <3>3 DEF Attentive, CacheResolvable
  <2>4. CASE KeepsClient(a) \/ BuildsClient(a)
    <3>1. /\ worker'[a] = [w EXCEPT !.pc = "status"] /\ w.pc = "forApp" /\ queue' = queue
      BY <1>1, <2>4 DEF KeepsClient, BuildsClient, Goto
    <3>2. worker'[a].pc = "status" /\ worker'[a].app = w.app
      BY <1>1, <3>1 DEF Worker
    <3> QED BY <1>1, <1>2, <3>1, <3>2 DEF Attentive
  <2>5. CASE KeyReadFails(a) \/ BuildFails(a) \/ DropClient(a)
    <3>1. /\ w.pc # "idle" /\ queue' = queue /\ worker'[a].app = w.app
          /\ worker'[a].pc \in {"invalidate", "status"}
          /\ worker'[a].pc = "status" => registry'[a] = Nil
      <4>1. CASE KeyReadFails(a) \/ BuildFails(a)
        BY <1>1, <4>1 DEF KeyReadFails, BuildFails, Goto, Worker
      <4>2. CASE DropClient(a)
        BY <1>1, <4>2 DEF DropClient, Goto, Invalidate, Worker
      <4> QED BY <2>5, <4>1, <4>2
    <3> QED BY <1>1, <1>2, <3>1 DEF Attentive
  <2>6. CASE WriteStatus(a) \/ StatusUnchanged(a)
    <3>1. w.pc = "status" /\ queue' = queue /\ registry' = registry /\ worker'[a].pc = "idle"
      BY <1>1, <2>6
         DEF WriteStatus, StatusUnchanged, StatusApplies, Done, Goto, IdleWorker
    <3> QED BY <1>1, <1>2, <3>1 DEF Attentive
  <2>7. CASE StatusConflict(a) \/ CallFails(a) \/ ResponseLost(a)
    BY <2>7 DEF StatusConflict, CallFails, ResponseLost, Error, Attentive
  <2> QED BY <2>1, <2>2, <2>3, <2>4, <2>5, <2>6, <2>7 DEF AppStep
<1> QED BY <1>3, <1>4 DEF Watchful

LEMMA RestartWatchful ==
    ASSUME IInv, Restart, NEW b \in Apps
    PROVE  Watchful(b)'
<1>1. /\ apps \in [Apps -> AppObject \cup {Nil}] /\ Lineage(b)
  BY DEF IInv, Sound, TypeOK, Watchful
<1>2. UNCHANGED <<apps, revision>> /\ appCache' = apps
  BY DEF Restart, server
<1>3. Lineage(b)'
  <2>1. CASE apps[b] = Nil
    BY <1>1, <1>2, <2>1 DEF Lineage
  <2>2. CASE apps[b] # Nil
    <3>1. apps[b] \in AppObject /\ apps[b].generation \in Nat
      BY <1>1, <2>2 DEF AppObject
    <3> QED BY <1>1, <1>2, <2>2, <3>1 DEF Lineage, Precedes
  <2> QED BY <2>1, <2>2
<1>4. Attentive(b)'
  BY DEF Restart, Attentive, IdleWorker
<1> QED BY <1>3, <1>4 DEF Watchful

LEMMA TokensUnmoved ==
    ASSUME Sound, NEW t \in Tokens, TokenActs(t), NEW b \in Apps
    PROVE  Unmoved(b)
BY TokensApart DEF Sound, TypeOK, appSide, server, Unmoved

LEMMA Initial ==
    ASSUME Announced
    PROVE  Init => IInv
<1> SUFFICES ASSUME Init PROVE IInv
  OBVIOUS
<1>1. ASSUME NEW a \in Apps PROVE Watchful(a)
  BY DEF Init, Watchful, Lineage, Attentive, IdleWorker
<1> QED BY <1>1, InitSound DEF IInv

LEMMA Inductive == IInv /\ [Next]_vars => IInv'
<1> SUFFICES ASSUME IInv, [Next]_vars PROVE IInv'
  OBVIOUS
<1>1. Sound'
  BY SoundSteps DEF IInv
<1>2. revision' \in Nat
  BY <1>1 DEF Sound, TypeOK
<1>3. ASSUME NEW b \in Apps PROVE Watchful(b)'
  <2>1. ASSUME Unmoved(b) PROVE Watchful(b)'
    BY <1>2, <2>1, UnmovedIsWatchful DEF IInv
  <2>2. CASE UserStep
    BY <2>2, UserWatchful
  <2>3. ASSUME NEW a \in Apps, SyncApp(a)
        PROVE  Watchful(b)'
    BY <2>1, <2>3, SyncAppWatchful, OthersUnmoved DEF IInv
  <2>4. ASSUME NEW a \in Apps, TimerFires(a)
        PROVE  Watchful(b)'
    <3>1. CASE b = a
      BY <2>4, <3>1 DEF TimerFires, server, IInv, Watchful, Lineage, Precedes, Attentive
    <3> QED BY <2>1, <2>4, <3>1, OthersUnmoved DEF IInv
  <2>5. ASSUME NEW a \in Apps, AppStep(a) \/ KeyReadFails(a) \/ CallFails(a) \/ ResponseLost(a)
        PROVE  Watchful(b)'
    BY <2>1, <2>5, StepWatchful, OthersUnmoved DEF IInv
  <2>6. ASSUME NEW s \in KeySecrets, SyncKey(s)
        PROVE  Watchful(b)'
    BY <2>6, SyncKeyWatchful
  <2>7. ASSUME NEW t \in Tokens, TokenActs(t)
        PROVE  Watchful(b)'
    BY <2>1, <2>7, TokensUnmoved DEF IInv
  <2>8. CASE Restart
    BY <2>8, RestartWatchful
  <2>9. CASE UNCHANGED vars
    <3>1. revision \in Nat
      BY DEF IInv, Sound, TypeOK
    <3> QED BY <2>1, <2>9, <3>1 DEF vars, appSide, server, Unmoved
  <2> QED BY <2>2, <2>3, <2>4, <2>5, <2>6, <2>7, <2>8, <2>9 DEF Next, TokenActs
<1> QED BY <1>1, <1>3 DEF IInv

(* No client outlives its App or its key, however the deletion of either   *)
(* falls together with reconciliations, stale caches, faults and restarts: *)
(* provided an App that is replaced by another of its name is replaced     *)
(* after its deletion has been dealt with, or while the watch is up.       *)
THEOREM ClientsAreDropped ==
    ASSUME Orderly \/ ~ Relists
    PROVE  Safety => []NoClientWithoutKey
<1>1. Announced
  BY DEF Announced
<1>2. IInv => NoClientWithoutKey
  <2> SUFFICES ASSUME IInv, NEW a \in Apps, AtRest(a), ~ Resolvable(a)
               PROVE  registry[a] = Nil
    BY DEF NoClientWithoutKey
  <2>1. ~ CacheResolvable(a)
    BY DEF AtRest, Resolvable, CacheResolvable
  <2> QED BY <2>1 DEF IInv, Watchful, Attentive, AtRest
<1> QED BY <1>1, <1>2, Initial, Inductive, PTL DEF Safety

----------------------------------------------------------------------------
(* The watches on Apps enqueue exactly the Tokens and ClusterTokens that   *)
(* resolve to the App: main.go's index functions and the map functions on  *)
(* one side, GetAppRef and resolveApp on the other, agree on every         *)
(* reference, with and without a namespace.                                *)
THEOREM IndexAgrees ==
    ASSUME NEW a \in AppKey, NEW cached \in [Tokens -> AppReference \cup {Nil}], NEW t \in Tokens
    PROVE  t \in mapAppToTokens(a, cached) \cup mapAppToClusterTokens(a, cached)
             <=> AppKeyOf(t, cached[t]) = a
<1>1. a = [namespace |-> a.namespace, name |-> a.name] /\ a.namespace # Nil /\ a # Nil
  BY NamespacesAssumption, NilReference DEF AppKey, AppReference
<1>2. CASE cached[t] = Nil
  BY <1>1, <1>2
     DEF mapAppToTokens, mapAppToClusterTokens, TokenAppRefIndex, ClusterTokenAppRefIndex,
         AppKeyOf, GetAppRef
<1>3. CASE cached[t] # Nil /\ IsClusterToken(t)
  BY <1>1, <1>3, NilReference
     DEF mapAppToTokens, mapAppToClusterTokens, ClusterTokenAppRefIndex, IsClusterToken,
         AppKeyOf, GetAppRef
<1>4. CASE cached[t] # Nil /\ ~ IsClusterToken(t)
  <2>1. NamespaceOf[t] \in Namespaces /\ Defaulted(NamespaceOf[t]) = NamespaceOf[t]
    BY <1>4, NamespacesAssumption DEF IsClusterToken, Defaulted
  <2>2. [namespace |-> NamespaceOf[t], name |-> cached[t].name] # Nil
    BY <1>4, <2>1, NilReference DEF AppReference
  <2>3. AppKeyOf(t, cached[t]) = [namespace |-> NamespaceOf[t], name |-> cached[t].name]
    BY <1>4, <2>1, <2>2 DEF AppKeyOf, GetAppRef
  <2> QED
    BY <1>1, <1>4, <2>3 DEF mapAppToTokens, mapAppToClusterTokens, TokenAppRefIndex
<1> QED BY <1>2, <1>3, <1>4

(* No event of an App or of a reference is lost on a Token: the step that  *)
(* makes a reference resolve to another App, or to another spec, enqueues  *)
(* the Token, whatever Tokens, references and Apps there are: provided an  *)
(* App that is replaced by another of its name is replaced after its       *)
(* deletion has been dealt with, or while the watch is up.                 *)
THEOREM EventsReachTokens ==
    ASSUME Orderly \/ ~ Relists
    PROVE  Safety => NoEventMissed
<1>1. Announced
  BY DEF Announced
<1>2. IInv /\ [Next]_vars =>
        [\A t \in Tokens : ResolvesAnew(t) => t \in tokenQueue']_<<refCache, appCache>>
  <2> SUFFICES ASSUME IInv, Next, NEW t \in Tokens, ResolvesAnew(t),
                      refCache' # refCache \/ appCache' # appCache
               PROVE  t \in tokenQueue'
    BY DEF vars, appSide, tokenSide
  <2>1. /\ refCache \in [Tokens -> References] /\ refs \in [Tokens -> References]
        /\ appCache \in [Apps -> AppObject \cup {Nil}] /\ apps \in [Apps -> AppObject \cup {Nil}]
    BY DEF IInv, Sound, TypeOK
  <2>2. \/ \E a \in Apps : SyncApp(a)
        \/ \E u \in Tokens : SyncRef(u)
        \/ Restart
    <3>1. ASSUME \/ UserStep
                 \/ \E a \in Apps : TimerFires(a)
                 \/ \E s \in KeySecrets : SyncKey(s)
          PROVE  FALSE
      BY <3>1 DEF UserStep, TimerFires, SyncKey, tokenSide
    <3>2. ASSUME NEW a \in Apps, AppStep(a) \/ KeyReadFails(a) \/ CallFails(a) \/ ResponseLost(a)
          PROVE  FALSE
      BY <3>2
         DEF AppStep, KeyReadFails, StartGone, Start, ResolveConfig, KeepsClient, BuildsClient, BuildFails,
             DropClient, WriteStatus, StatusUnchanged, StatusConflict, CallFails, ResponseLost,
             Elsewhere, tokenSide
    <3>3. ASSUME NEW u \in Tokens,
                 \/ TokenTimerFires(u) \/ TokenStep(u)
                 \/ \E ref \in References : EditRef(u, ref)
          PROVE  FALSE
      BY <3>3
         DEF TokenTimerFires, TokenStep, UseStartup, ResolveApp, Lookup, EditRef,
             TokenElsewhere, appSide
    <3> QED BY <3>1, <3>2, <3>3 DEF Next
  <2>3. ASSUME NEW u \in Tokens, SyncRef(u) PROVE t \in tokenQueue'
    BY <2>1, <2>3 DEF SyncRef, appSide, ResolvesAnew
  <2>4. ASSUME NEW a \in Apps, SyncApp(a) PROVE t \in tokenQueue'
    <3>1. refCache' = refCache /\ \A b \in Apps : b # a => appCache'[b] = appCache[b]
      BY <2>1, <2>4 DEF SyncApp
    <3>2. AppKeyOf(t, refCache[t]) \in Apps \cup {Nil}
      BY <2>1, ReferencesAssumption
    <3>3. AppKeyOf(t, refCache[t]) = a /\ Identity(appCache[a]) # Identity(apps[a])
      BY <2>1, <2>4, <3>1, <3>2 DEF ResolvesAnew, SyncApp
    <3>4. tokenQueue' = tokenQueue \cup TokensOf(a)
      BY <2>4, <3>3, SyncAppEnqueues DEF Identity
    <3>5. t \in TokensOf(a)
      <4>1. a \in AppKey /\ refCache \in [Tokens -> AppReference \cup {Nil}]
        BY <2>1, AppsAssumption, ReferencesAssumption
      <4> QED BY <3>3, <4>1, IndexAgrees DEF TokensOf
    <3> QED BY <3>4, <3>5
  <2>5. CASE Restart
    BY <2>5 DEF Restart
  <2> QED BY <2>2, <2>3, <2>4, <2>5
<1> QED BY <1>1, <1>2, Initial, Inductive, PTL DEF Safety, NoEventMissed

----------------------------------------------------------------------------
(* The chain of views: each step either keeps it as it is, or passes a     *)
(* newer view one link on.                                                 *)
LEMMA PrecedesIsOrder ==
    ASSUME NEW x \in AppObject, NEW y \in AppObject, NEW z \in AppObject
    PROVE  /\ Precedes(x, x)
           /\ Precedes(x, y) /\ Precedes(y, z) => Precedes(x, z)
BY DEF Precedes, AppObject

LEMMA BehindGoesOn ==
    ASSUME NEW r \in CachedClient, NEW x \in AppObject, NEW y \in AppObject,
           Behind(r, x), Precedes(x, y)
    PROVE  Behind(r, y)
<1>1. r.version.generation \in Nat /\ x.generation \in Nat /\ y.generation \in Nat
  BY DEF CachedClient, Version, AppObject
<1> QED BY <1>1 DEF Behind, Precedes

Still(b) ==
    /\ apps'[b] = apps[b] /\ appCache'[b] = appCache[b]
    /\ worker'[b] = worker[b] /\ registry'[b] = registry[b]

LEMMA StillChained ==
    ASSUME NEW b \in Apps, Chain(b), Still(b)
    PROVE  Chain(b)'
BY DEF Chain, Still

LEMMA UserChained ==
    ASSUME Orderly, OInv, UserStep, NEW b \in Apps
    PROVE  Chain(b)'
<1>1. /\ apps \in [Apps -> AppObject \cup {Nil}] /\ appCache \in [Apps -> AppObject \cup {Nil}]
      /\ Chain(b)
      /\ appCache' = appCache /\ worker' = worker /\ registry' = registry
  BY DEF OInv, IInv, Sound, TypeOK, UserStep
<1>2. ASSUME NEW a \in Apps, DeleteApp(a)
      PROVE  Chain(b)'
  <2>1. CASE b = a
    BY <1>1, <1>2, <2>1 DEF DeleteApp, Chain
  <2>2. CASE b # a
    BY <1>1, <1>2, <2>2, StillChained DEF DeleteApp, Still
  <2> QED BY <2>1, <2>2
<1>3. ASSUME NEW a \in Apps, NEW spec \in Manifests, CreateApp(a, spec)
      PROVE  Chain(b)'
  <2>1. CASE b = a
    BY <1>1, <1>3, <2>1 DEF CreateApp, DeletionDone, Chain
  <2>2. CASE b # a
    BY <1>1, <1>3, <2>2, StillChained DEF CreateApp, Still
  <2> QED BY <2>1, <2>2
<1>4. ASSUME NEW a \in Apps, NEW spec \in Manifests, EditApp(a, spec)
      PROVE  Chain(b)'
  <2>1. CASE b = a
    <3>1. /\ apps[b] \in AppObject /\ apps[b] # Nil
          /\ apps'[b] = [apps[b] EXCEPT !.spec = spec, !.generation = apps[b].generation + 1]
      BY <1>1, <1>4, <2>1 DEF EditApp, AppObject
    <3>2. /\ apps[b].generation \in Nat
          /\ apps'[b].generation = apps[b].generation + 1
      BY <3>1 DEF AppObject
    <3>3. appCache[b] # Nil => appCache[b].generation \in Nat
      BY <1>1 DEF AppObject
    <3>4. appCache[b] # Nil => Precedes(appCache[b], apps'[b])
      BY <1>1, <3>1, <3>2, <3>3 DEF Chain, Precedes
    <3> QED BY <1>1, <3>1, <3>4 DEF Chain
  <2>2. CASE b # a
    BY <1>1, <1>4, <2>2, StillChained DEF EditApp, Still
  <2> QED BY <2>1, <2>2
<1>5. ASSUME NEW s \in KeySecrets, DeleteKey(s) \/ \E pem \in Contents : PutKey(s, pem)
      PROVE  Chain(b)'
  BY <1>1, <1>5, StillChained DEF DeleteKey, PutKey, Still
<1> QED BY <1>2, <1>3, <1>4, <1>5 DEF UserStep

LEMMA SyncAppChained ==
    ASSUME OInv, NEW a \in Apps, SyncApp(a)
    PROVE  Chain(a)'
<1>1. /\ apps \in [Apps -> AppObject \cup {Nil}] /\ appCache \in [Apps -> AppObject \cup {Nil}]
      /\ registry \in [Apps -> CachedClient \cup {Nil}] /\ Good(a) /\ Chain(a)
  BY DEF OInv, IInv, Sound, TypeOK
<1>2. /\ appCache'[a] = apps[a] /\ apps' = apps /\ worker' = worker /\ registry' = registry
  BY <1>1 DEF SyncApp, server
<1>3. CASE apps[a] = Nil
  BY <1>1, <1>2, <1>3 DEF Chain
<1>4. CASE apps[a] # Nil /\ appCache[a] = Nil
  BY <1>1, <1>2, <1>4, PrecedesIsOrder DEF Chain
<1>5. CASE apps[a] # Nil /\ appCache[a] # Nil
  <2>1. Precedes(appCache[a], apps[a]) /\ Precedes(apps[a], apps[a])
    BY <1>1, <1>5, PrecedesIsOrder DEF Chain
  <2>2. worker[a].pc # "idle" => Precedes(worker[a].app, apps[a])
    BY <1>1, <1>5, <2>1, PrecedesIsOrder DEF Chain, Good
  <2>3. registry[a] # Nil => Behind(registry[a], apps[a])
    BY <1>1, <1>5, <2>1, BehindGoesOn DEF Chain
  <2> QED BY <1>1, <1>2, <1>5, <2>1, <2>2, <2>3 DEF Chain
<1> QED BY <1>3, <1>4, <1>5

LEMMA StepChained ==
    ASSUME OInv, NEW a \in Apps, AppStep(a) \/ KeyReadFails(a) \/ CallFails(a) \/ ResponseLost(a)
    PROVE  Chain(a)'
<1> DEFINE w == worker[a]
<1>1. /\ Sound /\ apps \in [Apps -> AppObject \cup {Nil}] /\ worker \in [Apps -> Worker]
      /\ appCache \in [Apps -> AppObject \cup {Nil}]
      /\ registry \in [Apps -> CachedClient \cup {Nil}]
      /\ Good(a) /\ Chain(a) /\ Matched(a)
  BY DEF OInv, IInv, Sound, TypeOK
<1>2. appCache' = appCache
  BY StepCaches
<1>3. CASE StartGone(a)
  BY <1>1, <1>2, <1>3 DEF StartGone, Take, Invalidate, Chain
<1>4. CASE Start(a)
  <2>1. /\ appCache[a] \in AppObject /\ worker'[a].app = appCache[a] /\ worker'[a].pc = "resolve"
        /\ appCache[a] # Nil /\ apps' = apps /\ registry' = registry
    BY <1>1, <1>4 DEF Start, Goto, IdleWorker
  <2>2. Precedes(appCache[a], appCache[a])
    BY <2>1, PrecedesIsOrder
  <2> QED BY <1>1, <1>2, <2>1, <2>2 DEF Chain
<1>5. CASE \/ ResolveConfig(a) \/ KeyReadFails(a) \/ KeepsClient(a)
           \/ BuildFails(a) \/ DropClient(a)
  <2>1. /\ w.pc # "idle" /\ worker'[a].pc # "idle" /\ worker'[a].app = w.app /\ apps' = apps
        /\ registry'[a] \in {registry[a], Nil}
    <3>1. CASE ResolveConfig(a)
      BY <1>1, <3>1 DEF ResolveConfig, Goto, Worker
    <3>2. CASE KeepsClient(a)
      BY <1>1, <3>2 DEF KeepsClient, Goto, Worker
    <3>3. CASE KeyReadFails(a) \/ BuildFails(a)
      BY <1>1, <3>3 DEF KeyReadFails, BuildFails, Goto, Worker
    <3>4. CASE DropClient(a)
      BY <1>1, <3>4 DEF DropClient, Invalidate, Goto, Worker
    <3> QED BY <1>5, <3>1, <3>2, <3>3, <3>4
  <2> QED BY <1>1, <1>2, <2>1 DEF Chain
<1>6. CASE BuildsClient(a)
  <2> DEFINE r == [client |-> w.config, version |-> w.version]
  <2>1. /\ w.pc = "forApp" /\ worker'[a].pc = "status" /\ worker'[a].app = w.app /\ apps' = apps
        /\ registry'[a] = r
    BY <1>1, <1>6 DEF BuildsClient, Goto, Worker
  <2>2. r \in CachedClient /\ w.app \in AppObject
    BY <1>1, <2>1 DEF Good, Worker, CachedClient
  <2>3. Behind(r, w.app)
    BY <1>1, <2>1, <2>2 DEF Matched, Behind, AppObject
  <2>4. appCache[a] # Nil => Behind(r, appCache[a])
    <3> HIDE DEF r
    <3> QED BY <1>1, <2>1, <2>2, <2>3, BehindGoesOn DEF Chain
  <2> HIDE DEF r
  <2> QED BY <1>1, <1>2, <2>1, <2>3, <2>4 DEF Chain
<1>7. CASE \/ WriteStatus(a) \/ StatusUnchanged(a) \/ StatusConflict(a)
           \/ CallFails(a) \/ ResponseLost(a)
  <2>1. worker'[a].pc = "idle" /\ registry' = registry /\ w.pc # "idle"
    BY <1>1, <1>7 DEF WriteStatus, StatusUnchanged, StatusConflict, CallFails, ResponseLost,
       StatusApplies, Done, Error, Goto, IdleWorker
  <2>2. apps[a] # Nil /\ appCache[a] # Nil => Precedes(appCache[a], apps[a])
    BY <1>1 DEF Chain
  <2>3. \/ apps'[a] = apps[a]
        \/ /\ apps[a] # Nil /\ apps'[a] # Nil
           /\ apps'[a].generation = apps[a].generation /\ apps'[a].spec = apps[a].spec
    BY <1>1, StatusOnly
  <2>4. apps'[a] # Nil /\ appCache[a] # Nil => Precedes(appCache[a], apps'[a])
    BY <2>2, <2>3 DEF Precedes
  <2> QED BY <1>1, <1>2, <2>1, <2>3, <2>4 DEF Chain
<1> QED BY <1>3, <1>4, <1>5, <1>6, <1>7 DEF AppStep

LEMMA RestartChained ==
    ASSUME OInv, Restart, NEW b \in Apps
    PROVE  Chain(b)'
<1>1. /\ apps[b] \in AppObject \cup {Nil} /\ appCache' = apps /\ apps' = apps
      /\ worker'[b].pc = "idle" /\ registry'[b] = Nil
  BY DEF OInv, IInv, Sound, TypeOK, Restart, server, IdleWorker
<1> QED BY <1>1, PrecedesIsOrder DEF Chain

----------------------------------------------------------------------------
(* A resourceVersion stands for one key: only users make new ones.         *)
NothingNew ==
    /\ \A rv \in Nat, pem \in Pems \cup {Nil} : Seen(rv, pem)' => Seen(rv, pem)
    /\ \A s \in KeySecrets : /\ keySecrets'[s] # Nil => keySecrets'[s].rv > 0
                             /\ keyCache'[s] # Nil => keyCache'[s].rv > 0
    /\ revision' \in Nat /\ revision' >= revision

LEMMA NothingNewTold ==
    ASSUME OInv, NothingNew
    PROVE  KeysTold'
<1>1. revision \in Nat /\ KeysTold
  BY DEF OInv, IInv, Sound, TypeOK
<1> QED BY <1>1 DEF NothingNew, KeysTold

LEMMA SameSeen ==
    ASSUME UNCHANGED <<keySecrets, keyCache, worker, registry>>, NEW rv, NEW pem
    PROVE  Seen(rv, pem)' <=> Seen(rv, pem)
BY DEF Seen

LEMMA UserTold ==
    ASSUME OInv, UserStep
    PROVE  KeysTold'
<1>1. /\ revision \in Nat /\ KeysTold
      /\ keySecrets \in [KeySecrets -> KeySecret \cup {Nil}]
      /\ keyCache' = keyCache /\ worker' = worker /\ registry' = registry
  BY DEF OInv, IInv, Sound, TypeOK, UserStep
<1>2. ASSUME NEW a \in Apps,
             DeleteApp(a) \/ \E spec \in Manifests : CreateApp(a, spec) \/ EditApp(a, spec)
      PROVE  KeysTold'
  <2>1. keySecrets' = keySecrets /\ revision' \in {revision, revision + 1}
    BY <1>1, <1>2 DEF DeleteApp, CreateApp, EditApp, Revise
  <2>2. revision' \in Nat /\ revision' >= revision
    BY <1>1, <2>1
  <2>3. NothingNew
    BY <1>1, <2>1, <2>2, SameSeen DEF NothingNew, KeysTold
  <2> QED BY <2>3, NothingNewTold
<1>3. ASSUME NEW s \in KeySecrets, DeleteKey(s)
      PROVE  KeysTold'
  <2>1. keySecrets' = [keySecrets EXCEPT ![s] = Nil] /\ revision' = revision
    BY <1>3 DEF DeleteKey
  <2>2. \A u \in KeySecrets : keySecrets'[u] \in {keySecrets[u], Nil}
    BY <1>1, <2>1
  <2>3. ASSUME NEW rv \in Nat, NEW pem \in Pems \cup {Nil}, Seen(rv, pem)'
        PROVE  Seen(rv, pem)
    BY <1>1, <2>2, <2>3 DEF Seen
  <2>4. NothingNew
    BY <1>1, <2>1, <2>2, <2>3 DEF NothingNew, KeysTold
  <2> QED BY <2>4, NothingNewTold
<1>4. ASSUME NEW s \in KeySecrets, NEW pem \in Contents, PutKey(s, pem)
      PROVE  KeysTold'
  <2> DEFINE k == [rv |-> revision + 1, pem |-> pem]
  <2>1. keySecrets' = [keySecrets EXCEPT ![s] = k] /\ revision' = revision + 1
    BY <1>4 DEF PutKey, Revise
  <2>2. \A u \in KeySecrets : keySecrets'[u] = IF u = s THEN k ELSE keySecrets[u]
    BY <1>1, <2>1
  <2>3. ASSUME NEW rv \in Nat, NEW p \in Pems \cup {Nil}, Seen(rv, p)'
        PROVE  Seen(rv, p) \/ (rv = revision + 1 /\ p = pem)
    BY <1>1, <2>2, <2>3 DEF Seen
  <2>4. \A rv \in Nat, p \in Pems \cup {Nil} : Seen(rv, p) => rv <= revision
    BY <1>1 DEF KeysTold
  <2>5. \A rv \in Nat, p, q \in Pems \cup {Nil} : Seen(rv, p) /\ Seen(rv, q) => p = q
    BY <1>1 DEF KeysTold
  <2>6. ASSUME NEW rv \in Nat, NEW p \in Pems \cup {Nil}, NEW q \in Pems \cup {Nil},
               Seen(rv, p)', Seen(rv, q)'
        PROVE  p = q
    BY <1>1, <2>3, <2>4, <2>5, <2>6
  <2>7. ASSUME NEW rv \in Nat, NEW p \in Pems \cup {Nil}, Seen(rv, p)'
        PROVE  rv <= revision'
    BY <1>1, <2>1, <2>3, <2>4, <2>7
  <2>8. \A u \in KeySecrets : /\ keySecrets'[u] # Nil => keySecrets'[u].rv > 0
                              /\ keyCache'[u] # Nil => keyCache'[u].rv > 0
    BY <1>1, <2>2 DEF KeysTold
  <2> QED BY <2>6, <2>7, <2>8 DEF KeysTold
<1> QED BY <1>2, <1>3, <1>4 DEF UserStep

LEMMA SyncKeyTold ==
    ASSUME OInv, NEW s \in KeySecrets, SyncKey(s)
    PROVE  KeysTold'
<1>1. /\ revision \in Nat /\ KeysTold
      /\ keyCache \in [KeySecrets -> KeySecret \cup {Nil}]
  BY DEF OInv, IInv, Sound, TypeOK
<1>2. /\ keySecrets' = keySecrets /\ worker' = worker /\ registry' = registry
      /\ revision' = revision
      /\ \A u \in KeySecrets : keyCache'[u] \in {keyCache[u], keySecrets[u]}
  BY <1>1 DEF SyncKey, server
<1>3. ASSUME NEW rv \in Nat, NEW pem \in Pems \cup {Nil}, Seen(rv, pem)'
      PROVE  Seen(rv, pem)
  BY <1>2, <1>3 DEF Seen
<1>4. NothingNew
  BY <1>1, <1>2, <1>3 DEF NothingNew, KeysTold
<1> QED BY <1>4, NothingNewTold

LEMMA StepTold ==
    ASSUME OInv, NEW a \in Apps, AppStep(a) \/ KeyReadFails(a) \/ CallFails(a) \/ ResponseLost(a)
    PROVE  KeysTold'
<1> DEFINE w == worker[a]
<1>1. /\ revision \in Nat /\ KeysTold /\ worker \in [Apps -> Worker]
      /\ registry \in [Apps -> CachedClient \cup {Nil}]
      /\ keyCache \in [KeySecrets -> KeySecret \cup {Nil}] /\ Good(a)
  BY DEF OInv, IInv, Sound, TypeOK
<1>2. keyCache' = keyCache /\ keySecrets' = keySecrets /\ revision' = revision
  BY DEF AppStep, KeyReadFails, StartGone, Start, ResolveConfig, KeepsClient, BuildsClient, BuildFails,
     DropClient, WriteStatus, StatusUnchanged, StatusConflict, CallFails, ResponseLost, Elsewhere
<1>3. \A b \in Apps : b # a => worker'[b] = worker[b] /\ registry'[b] = registry[b]
  BY OthersUnmoved DEF OInv, IInv, Unmoved
<1>4. ASSUME NEW rv \in Nat, NEW pem \in Pems \cup {Nil},
             worker'[a].pc = "forApp", rv = worker'[a].version.rv, pem = worker'[a].config.pem
      PROVE  Seen(rv, pem)
  <2>1. /\ ResolveConfig(a) /\ w.pc = "resolve" /\ ResolveReason(w.app, keyCache) = "Reconciled"
        /\ worker'[a].version = VersionOf(w.app, keyCache)
        /\ worker'[a].config = ConfigOf(w.app, keyCache)
    <3>1. ASSUME StartGone(a) PROVE FALSE
      BY <1>1, <1>4, <3>1 DEF StartGone, Take
    <3>2. ASSUME Start(a) PROVE FALSE
      BY <1>1, <1>4, <3>2 DEF Start, Goto, IdleWorker
    <3>3. ASSUME \/ KeyReadFails(a) \/ KeepsClient(a) \/ BuildsClient(a)
                 \/ BuildFails(a) \/ DropClient(a)
          PROVE  FALSE
      BY <1>1, <1>4, <3>3
         DEF KeyReadFails, KeepsClient, BuildsClient, BuildFails, DropClient, Goto, Worker
    <3>4. ASSUME \/ WriteStatus(a) \/ StatusUnchanged(a) \/ StatusConflict(a)
                 \/ CallFails(a) \/ ResponseLost(a)
          PROVE  FALSE
      BY <1>1, <1>4, <3>4 DEF WriteStatus, StatusUnchanged, StatusConflict, CallFails,
         ResponseLost, Done, Error, Goto, IdleWorker
    <3>5. ResolveConfig(a)
      BY <3>1, <3>2, <3>3, <3>4 DEF AppStep
    <3> QED BY <1>1, <1>4, <3>5 DEF ResolveConfig, Goto, Worker
  <2>2. w.app \in AppObject
    BY <1>1, <2>1 DEF Good
  <2>3. CASE w.app.spec.keyRef = Nil
    BY <1>4, <2>1, <2>3 DEF VersionOf, ConfigOf, Seen
  <2>4. CASE w.app.spec.keyRef # Nil
    <3> DEFINE s == w.app.spec.keyRef
    <3>1. s \in KeySecrets
      BY <2>2, <2>4 DEF AppObject, Spec
    <3>2. keyCache[s] # Nil
      BY <2>1, <2>4 DEF ResolveReason, KeyOf
    <3>3. rv = keyCache[s].rv /\ pem = keyCache[s].pem
      BY <1>4, <2>1, <2>4 DEF VersionOf, ConfigOf, KeyOf
    <3> QED BY <3>1, <3>2, <3>3 DEF Seen
  <2> QED BY <2>3, <2>4
<1>5. \/ registry'[a] \in {registry[a], Nil}
      \/ /\ w.pc = "forApp" /\ registry'[a] = [client |-> w.config, version |-> w.version]
  BY <1>1 DEF AppStep, KeyReadFails, StartGone, Start, ResolveConfig, KeepsClient, BuildsClient, BuildFails,
     DropClient, Invalidate, WriteStatus, StatusUnchanged, StatusConflict, CallFails, ResponseLost
<1>6. ASSUME NEW rv \in Nat, NEW pem \in Pems \cup {Nil},
             registry'[a] # Nil, rv = registry'[a].version.rv, pem = registry'[a].client.pem
      PROVE  Seen(rv, pem)
  BY <1>5, <1>6 DEF Seen
<1>7. ASSUME NEW rv \in Nat, NEW pem \in Pems \cup {Nil}, Seen(rv, pem)'
      PROVE  Seen(rv, pem)
  <2>1. ASSUME NEW b \in Apps,
               \/ /\ worker'[b].pc = "forApp"
                  /\ rv = worker'[b].version.rv /\ pem = worker'[b].config.pem
               \/ /\ registry'[b] # Nil
                  /\ rv = registry'[b].version.rv /\ pem = registry'[b].client.pem
        PROVE  Seen(rv, pem)
    <3>1. CASE b = a
      BY <1>4, <1>6, <2>1, <3>1
    <3>2. CASE b # a
      BY <1>3, <2>1, <3>2 DEF Seen
    <3> QED BY <3>1, <3>2
  <2> QED BY <1>2, <1>7, <2>1 DEF Seen
<1>8. NothingNew
  BY <1>1, <1>2, <1>7 DEF NothingNew, KeysTold
<1> QED BY <1>8, NothingNewTold

LEMMA RestartTold ==
    ASSUME OInv, Restart
    PROVE  KeysTold'
<1>1. revision \in Nat /\ KeysTold
  BY DEF OInv, IInv, Sound, TypeOK
<1>2. /\ keySecrets' = keySecrets /\ keyCache' = keySecrets /\ revision' = revision
      /\ \A a \in Apps : worker'[a].pc = "idle" /\ registry'[a] = Nil
  BY DEF Restart, server, IdleWorker
<1>3. ASSUME NEW rv \in Nat, NEW pem \in Pems \cup {Nil}, Seen(rv, pem)'
      PROVE  Seen(rv, pem)
  BY <1>2, <1>3 DEF Seen
<1>4. NothingNew
  BY <1>1, <1>2, <1>3 DEF NothingNew, KeysTold
<1> QED BY <1>4, NothingNewTold

----------------------------------------------------------------------------
(* The configuration in hand keeps to the App in hand and to the caches.   *)
SameConfig(b) ==
    /\ worker'[b] = worker[b] /\ registry'[b] = registry[b]
    /\ b \notin queue' =>
         /\ b \notin queue
         /\ CacheResolvable(b)' <=> CacheResolvable(b)
         /\ appCache[b] # Nil => ConfigOf(appCache'[b], keyCache') = ConfigOf(appCache[b], keyCache)

LEMMA SameConfigMatched ==
    ASSUME OInv, NEW b \in Apps, SameConfig(b)
    PROVE  Matched(b)'
<1>1. Matched(b) /\ Attentive(b)
  BY DEF OInv, IInv, Watchful
<1>2. CASE b \in queue'
  BY <1>1, <1>2 DEF Matched, SameConfig
<1>3. CASE b \notin queue'
  <2>1. /\ b \notin queue /\ (CacheResolvable(b)' <=> CacheResolvable(b))
        /\ worker'[b] = worker[b] /\ registry'[b] = registry[b]
    BY <1>3 DEF SameConfig
  <2>2. worker[b].pc = "forApp" \/ CacheResolvable(b) =>
          ConfigOf(appCache'[b], keyCache') = ConfigOf(appCache[b], keyCache)
    BY <1>1, <1>3, <2>1 DEF SameConfig, Attentive, CacheResolvable
  <2> QED BY <1>1, <1>3, <2>1, <2>2 DEF Matched
<1> QED BY <1>2, <1>3

LEMMA SameCachesSameConfig ==
    ASSUME NEW b \in Apps, appCache'[b] = appCache[b], keyCache' = keyCache,
           worker'[b] = worker[b], registry'[b] = registry[b], b \in queue => b \in queue'
    PROVE  SameConfig(b)
<1>1. /\ ResolveReason(appCache'[b], keyCache') = ResolveReason(appCache[b], keyCache)
      /\ ConfigOf(appCache'[b], keyCache') = ConfigOf(appCache[b], keyCache)
  OBVIOUS
<1> QED BY <1>1 DEF SameConfig, CacheResolvable

LEMMA SyncAppMatched ==
    ASSUME OInv, NEW a \in Apps, SyncApp(a)
    PROVE  SameConfig(a)
<1>1. /\ apps \in [Apps -> AppObject \cup {Nil}] /\ appCache \in [Apps -> AppObject \cup {Nil}]
      /\ Lineage(a)
  BY DEF OInv, IInv, Sound, TypeOK, Watchful
<1>2. /\ appCache'[a] = apps[a] /\ worker' = worker /\ registry' = registry
      /\ keyCache' = keyCache
  BY <1>1 DEF SyncApp
<1>3. CASE queue' = queue \cup {a}
  BY <1>2, <1>3 DEF SameConfig
<1>4. CASE queue' # queue \cup {a}
  <2>1. /\ appCache[a] # Nil /\ apps[a] # Nil /\ queue' = queue
        /\ appCache[a].spec = apps[a].spec
    BY <1>4, SyncAppEnqueues DEF OInv
  <2>2. /\ ResolveReason(appCache'[a], keyCache') = ResolveReason(appCache[a], keyCache)
        /\ ConfigOf(appCache'[a], keyCache') = ConfigOf(appCache[a], keyCache)
    BY <1>2, <2>1, SameSpec
  <2> QED BY <1>2, <2>1, <2>2 DEF SameConfig, CacheResolvable
<1> QED BY <1>3, <1>4

LEMMA SyncKeyMatched ==
    ASSUME OInv, NEW s \in KeySecrets, SyncKey(s), NEW b \in Apps
    PROVE  SameConfig(b)
<1>1. appCache[b] \in AppObject \cup {Nil} /\ Sound
  BY DEF OInv, IInv, Sound, TypeOK
<1>2. /\ appCache' = appCache /\ worker' = worker /\ registry' = registry
      /\ b \notin queue' => b \notin queue /\ (appCache[b] # Nil => appCache[b].spec.keyRef # s)
  BY DEF SyncKey, SecretToApps
<1>3. ASSUME b \notin queue', appCache[b] # Nil
      PROVE  /\ ResolveReason(appCache[b], keyCache') = ResolveReason(appCache[b], keyCache)
             /\ ConfigOf(appCache[b], keyCache') = ConfigOf(appCache[b], keyCache)
  BY <1>1, <1>2, <1>3, UnrelatedSecret
<1> QED BY <1>2, <1>3 DEF SameConfig, CacheResolvable

(* A client found under the version in hand is the one that would have     *)
(* been built: neither an App nor a Secret has had two specs, or keys, of  *)
(* one version.                                                            *)
LEMMA HitIsCurrent ==
    ASSUME OInv, NEW a \in Apps, worker[a].pc = "forApp", Hit(a)
    PROVE  registry[a].client = worker[a].config
<1> DEFINE w == worker[a]
           r == registry[a]
<1>1. /\ r \in CachedClient /\ w \in Worker /\ w.config \in OperatorConfig
      /\ r.version = w.version
      /\ Chain(a) /\ Matched(a) /\ KeysTold
  BY DEF OInv, IInv, Sound, TypeOK, Good, Hit
<1>2. Behind(r, w.app)
  BY <1>1 DEF Chain, Hit
<1>3. r.client.id = w.config.id /\ r.client.validateKey = w.config.validateKey
  BY <1>1, <1>2 DEF Matched, Behind
<1>4. r.version.rv \in Nat /\ r.client \in OperatorConfig
  BY <1>1 DEF CachedClient, Version
<1>5. Seen(r.version.rv, r.client.pem) /\ Seen(r.version.rv, w.config.pem)
  BY <1>1 DEF Seen, Hit
<1>6. r.client.pem = w.config.pem
  BY <1>1, <1>4, <1>5 DEF KeysTold, OperatorConfig
<1> QED BY <1>1, <1>3, <1>4, <1>6 DEF OperatorConfig

LEMMA StepMatched ==
    ASSUME OInv, NEW a \in Apps, AppStep(a) \/ KeyReadFails(a) \/ CallFails(a) \/ ResponseLost(a)
    PROVE  Matched(a)'
<1> DEFINE w == worker[a]
<1>1. /\ worker \in [Apps -> Worker] /\ registry \in [Apps -> CachedClient \cup {Nil}]
      /\ keyCache \in [KeySecrets -> KeySecret \cup {Nil}]
      /\ Good(a) /\ Attentive(a) /\ Matched(a)
  BY DEF OInv, IInv, Sound, TypeOK, Watchful
<1>2. /\ appCache' = appCache /\ keyCache' = keyCache
      /\ CacheResolvable(a)' <=> CacheResolvable(a)
      /\ ConfigOf(appCache'[a], keyCache') = ConfigOf(appCache[a], keyCache)
  BY StepCaches DEF CacheResolvable
<1>3. CASE StartGone(a)
  BY <1>1, <1>3 DEF StartGone, Take, Invalidate, Matched
<1>4. CASE Start(a)
  BY <1>1, <1>4 DEF Start, Goto, IdleWorker, Matched
<1>5. CASE ResolveConfig(a)
  <2> DEFINE reason == ResolveReason(w.app, keyCache)
  <2>1. /\ w.pc = "resolve" /\ queue' = queue
        /\ worker'[a].pc \in {"forApp", "invalidate"}
        /\ worker'[a].pc = "forApp" =>
             /\ reason = "Reconciled" /\ worker'[a].app = w.app
             /\ worker'[a].config = ConfigOf(w.app, keyCache)
             /\ worker'[a].version = VersionOf(w.app, keyCache)
    <3> HIDE DEF reason
    <3> QED BY <1>1, <1>5 DEF ResolveConfig, Goto, Worker, reason
  <2>2. CASE worker'[a].pc # "forApp"
    BY <2>1, <2>2 DEF Matched
  <2>3. CASE worker'[a].pc = "forApp"
    <3>1. w.app \in AppObject
      BY <1>1, <2>1 DEF Good
    <3>2. VersionOf(w.app, keyCache).rv = 0 <=> w.app.spec.keyRef = Nil
      <4>1. CASE w.app.spec.keyRef # Nil
        <5>1. w.app.spec.keyRef \in KeySecrets
          BY <3>1, <4>1 DEF AppObject, Spec
        <5>2. keyCache[w.app.spec.keyRef] # Nil
          BY <2>1, <2>3, <4>1 DEF ResolveReason, KeyOf
        <5>3. keyCache[w.app.spec.keyRef].rv > 0
          BY <5>1, <5>2 DEF OInv, KeysTold
        <5> QED BY <4>1, <5>3 DEF VersionOf, KeyOf
      <4> QED BY <4>1 DEF VersionOf
    <3>3. /\ VersionOf(w.app, keyCache).generation = w.app.generation
          /\ ConfigOf(w.app, keyCache).id = w.app.spec.id
          /\ ConfigOf(w.app, keyCache).validateKey = w.app.spec.validateKey
      BY DEF VersionOf, ConfigOf
    <3>4. a \notin queue => ConfigOf(w.app, keyCache) = ConfigOf(appCache[a], keyCache)
      BY <1>1, <2>1, SameSpec DEF Attentive
    <3> HIDE DEF reason
    <3> QED BY <1>2, <2>1, <2>3, <3>2, <3>3, <3>4 DEF Matched
  <2> QED BY <2>2, <2>3
<1>6. CASE KeepsClient(a) \/ BuildsClient(a)
  <2>1. /\ w.pc = "forApp" /\ queue' = queue /\ worker'[a].pc = "status"
        /\ registry'[a].client = w.config
    <3>1. CASE KeepsClient(a)
      BY <1>1, <3>1, HitIsCurrent DEF KeepsClient, Goto, Worker
    <3>2. CASE BuildsClient(a)
      BY <1>1, <3>2 DEF BuildsClient, Goto, Worker
    <3> QED BY <1>6, <3>1, <3>2
  <2> QED BY <1>1, <1>2, <2>1 DEF Matched
<1>7. CASE KeyReadFails(a) \/ BuildFails(a) \/ DropClient(a)
  <2>1. /\ worker'[a].pc \in {"invalidate", "status"}
        /\ worker'[a].pc = "status" => registry'[a] = Nil
    <3>1. CASE KeyReadFails(a) \/ BuildFails(a)
      BY <1>1, <3>1 DEF KeyReadFails, BuildFails, Goto, Worker
    <3>2. CASE DropClient(a)
      BY <1>1, <3>2 DEF DropClient, Goto, Invalidate, Worker
    <3> QED BY <1>7, <3>1, <3>2
  <2> QED BY <2>1 DEF Matched
<1>8. CASE WriteStatus(a) \/ StatusUnchanged(a)
  <2>1. w.pc = "status" /\ queue' = queue /\ registry' = registry /\ worker'[a].pc = "idle"
    BY <1>1, <1>8 DEF WriteStatus, StatusUnchanged, StatusApplies, Done, Goto, IdleWorker
  <2> QED BY <1>1, <1>2, <2>1 DEF Matched
<1>9. CASE StatusConflict(a) \/ CallFails(a) \/ ResponseLost(a)
  <2>1. a \in queue' /\ worker'[a].pc = "idle"
    BY <1>1, <1>9 DEF StatusConflict, CallFails, ResponseLost, Error, Goto, IdleWorker
  <2> QED BY <2>1 DEF Matched
<1> QED BY <1>3, <1>4, <1>5, <1>6, <1>7, <1>8, <1>9 DEF AppStep

----------------------------------------------------------------------------
LEMMA OrderlyInitial ==
    ASSUME Orderly
    PROVE  Init => OInv
<1> SUFFICES ASSUME Init PROVE OInv
  OBVIOUS
<1>1. IInv
  BY Initial DEF Announced
<1>2. ASSUME NEW a \in Apps PROVE Chain(a) /\ Matched(a)
  BY DEF Init, Chain, Matched, IdleWorker
<1>3. KeysTold
  BY DEF Init, KeysTold, Seen, IdleWorker
<1> QED BY <1>1, <1>2, <1>3 DEF OInv

(* The step of one App, or of none, seen from App b.                       *)
LEMMA OthersKeep ==
    ASSUME OInv, NEW b \in Apps, Unmoved(b)
    PROVE  Chain(b)' /\ Matched(b)'
<1>1. Chain(b)'
  BY StillChained DEF OInv, Unmoved, Still
<1>2. SameConfig(b)
  BY SameCachesSameConfig DEF Unmoved
<1> QED BY <1>1, <1>2, SameConfigMatched

LEMMA AppKeeps ==
    ASSUME Orderly, OInv, Next, NEW b \in Apps
    PROVE  Chain(b)' /\ Matched(b)'
<1>1. Sound /\ Chain(b)
  BY DEF OInv, IInv
<1>2. CASE UserStep
  <2>1. SameConfig(b)
    BY <1>2, SameCachesSameConfig DEF UserStep
  <2> QED BY <1>2, <2>1, UserChained, SameConfigMatched
<1>3. ASSUME NEW a \in Apps, SyncApp(a)
      PROVE  Chain(b)' /\ Matched(b)'
  BY <1>1, <1>3, OthersUnmoved, OthersKeep, SyncAppChained, SyncAppMatched, SameConfigMatched
<1>4. ASSUME NEW a \in Apps, TimerFires(a)
      PROVE  Chain(b)' /\ Matched(b)'
  <2>1. SameConfig(b) /\ Still(b)
    BY <1>4, SameCachesSameConfig DEF TimerFires, server, Still
  <2> QED BY <1>1, <2>1, StillChained, SameConfigMatched
<1>5. ASSUME NEW a \in Apps, AppStep(a) \/ KeyReadFails(a) \/ CallFails(a) \/ ResponseLost(a)
      PROVE  Chain(b)' /\ Matched(b)'
  BY <1>1, <1>5, OthersUnmoved, OthersKeep, StepChained, StepMatched
<1>6. ASSUME NEW s \in KeySecrets, SyncKey(s)
      PROVE  Chain(b)' /\ Matched(b)'
  <2>1. Still(b)
    BY <1>6 DEF SyncKey, server, Still
  <2> QED BY <1>1, <1>6, <2>1, StillChained, SyncKeyMatched, SameConfigMatched
<1>7. ASSUME NEW t \in Tokens, TokenActs(t)
      PROVE  Chain(b)' /\ Matched(b)'
  BY <1>1, <1>7, TokensUnmoved, OthersKeep
<1>8. CASE Restart
  <2>1. worker'[b].pc = "idle" /\ registry'[b] = Nil
    BY <1>8 DEF Restart, IdleWorker
  <2> QED BY <1>8, <2>1, RestartChained DEF Matched
<1> QED BY <1>2, <1>3, <1>4, <1>5, <1>6, <1>7, <1>8 DEF Next, TokenActs

LEMMA KeysKeep ==
    ASSUME OInv, Next
    PROVE  KeysTold'
<1>1. revision \in Nat /\ KeysTold
  BY DEF OInv, IInv, Sound, TypeOK
<1>2. ASSUME UNCHANGED <<keySecrets, keyCache, worker, registry, revision>>
      PROVE  KeysTold'
  BY <1>1, <1>2, SameSeen, NothingNewTold DEF NothingNew, KeysTold
<1>3. ASSUME NEW a \in Apps, SyncApp(a) \/ TimerFires(a)
      PROVE  KeysTold'
  BY <1>2, <1>3 DEF SyncApp, TimerFires, server
<1>4. ASSUME NEW t \in Tokens, TokenActs(t)
      PROVE  KeysTold'
  BY <1>2, <1>4, TokensApart DEF appSide, server
<1> QED BY <1>3, <1>4, UserTold, SyncKeyTold, StepTold, RestartTold DEF Next, TokenActs

LEMMA OrderlyInductive ==
    ASSUME Orderly
    PROVE  OInv /\ [Next]_vars => OInv'
<1> SUFFICES ASSUME OInv, [Next]_vars PROVE OInv'
  OBVIOUS
<1>1. IInv'
  BY Inductive DEF OInv
<1>2. CASE Next
  BY <1>1, <1>2, AppKeeps, KeysKeep DEF OInv
<1>3. CASE UNCHANGED vars
  <2>1. revision \in Nat /\ KeysTold
    BY DEF OInv, IInv, Sound, TypeOK
  <2>2. KeysTold'
    BY <1>3, <2>1, SameSeen, NothingNewTold DEF vars, appSide, server, NothingNew, KeysTold
  <2>3. ASSUME NEW b \in Apps PROVE Unmoved(b)
    BY <1>3, <2>1 DEF vars, appSide, server, Unmoved
  <2> QED BY <1>1, <2>2, <2>3, OthersKeep DEF OInv
<1> QED BY <1>2, <1>3

(* In an orderly environment, where an App is recreated only after its     *)
(* deletion has been dealt with, the client kept for an App at rest is     *)
(* always the one its spec and its Secret call for, whatever edits,        *)
(* rotations and changes of keyRef interleave with reconciliations, stale  *)
(* caches, faults and restarts.  (Without the assumption this is false.)   *)
THEOREM ClientsAreCurrent ==
    ASSUME Orderly
    PROVE  Safety => []ClientIsCurrent
<1>1. OInv => ClientIsCurrent
  <2> SUFFICES ASSUME OInv, NEW a \in Apps, AtRest(a), Resolvable(a), registry[a] # Nil
               PROVE  registry[a].client = ConfigOf(apps[a], keySecrets)
    BY DEF ClientIsCurrent
  <2>1. CacheResolvable(a)
    BY DEF AtRest, Resolvable, CacheResolvable
  <2> QED BY <2>1 DEF OInv, Matched, AtRest
<1>2. OInv /\ [Next]_vars => OInv'
  BY OrderlyInductive
<1> QED BY <1>1, <1>2, OrderlyInitial, PTL DEF Safety
=============================================================================
