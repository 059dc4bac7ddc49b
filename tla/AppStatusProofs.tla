-------------------------- MODULE AppStatusProofs --------------------------
(***************************************************************************)
(* Proof about AppController: an App at rest shows Ready exactly when the  *)
(* registry has its client.  The status a reconciliation leaves alone is   *)
(* that of a copy which may lag behind the server's, so the proof is about *)
(* how far it lags.                                                        *)
(***************************************************************************)
EXTENDS AppControllerProofs

(* The reason in hand is what became of the client.                        *)
Decided(a) ==
    /\ worker[a].pc = "forApp" => worker[a].reason = "Reconciled"
    /\ worker[a].pc = "invalidate" => worker[a].reason # "Reconciled"
    /\ worker[a].pc = "status" => (worker[a].reason = "Reconciled" <=> registry[a] # Nil)

(* A copy does not show a success that the server has since replaced by a  *)
(* failure, unless the retry of that failure is yet to come.               *)
Fresh(app, a) == app.ready = "Reconciled" => apps[a].ready = "Reconciled"

Told(a) ==
    apps[a] # Nil /\ a \notin timers =>
        /\ appCache[a] # Nil => Fresh(appCache[a], a)
        /\ worker[a].pc # "idle" => Fresh(worker[a].app, a)

(* Between reconciliations status and registry agree, even before the      *)
(* cache has caught up.                                                    *)
Agrees(a) ==
    (/\ worker[a].pc = "idle" /\ a \notin queue /\ a \notin timers
     /\ apps[a] # Nil /\ appCache[a] # Nil) =>
        (apps[a].ready = "Reconciled" <=> registry[a] # Nil)

Showing(a) == Decided(a) /\ Told(a) /\ Agrees(a)

SInv == Sound /\ \A a \in Apps : Showing(a)

----------------------------------------------------------------------------
(* Most steps leave most Apps, and their retries, alone.                   *)
Unseen(b) == Unmoved(b) /\ (b \in timers' <=> b \in timers)

LEMMA UnseenShows ==
    ASSUME NEW b \in Apps, Showing(b), Unseen(b)
    PROVE  Showing(b)'
<1>1. Decided(b)'
  BY DEF Showing, Decided, Unseen, Unmoved
<1>2. Told(b)'
  BY DEF Showing, Told, Fresh, Unseen, Unmoved
<1>3. Agrees(b)'
  BY DEF Showing, Agrees, Unseen, Unmoved
<1> QED BY <1>1, <1>2, <1>3 DEF Showing

LEMMA OthersUnseen ==
    ASSUME Sound, NEW a \in Apps, NEW b \in Apps, b # a,
           \/ SyncApp(a) \/ TimerFires(a) \/ AppStep(a)
           \/ KeyReadFails(a) \/ CallFails(a) \/ ResponseLost(a)
    PROVE  Unseen(b)
<1>1. Unmoved(b)
  BY OthersUnmoved
<1>2. timers' \in {timers, timers \ {a}, timers \cup {a}}
  <2>1. CASE SyncApp(a) \/ TimerFires(a)
    BY <2>1 DEF SyncApp, TimerFires
  <2>2. CASE AppStep(a) \/ KeyReadFails(a) \/ CallFails(a) \/ ResponseLost(a)
    BY <2>2 DEF AppStep, KeyReadFails, StartGone, Start, ResolveConfig, KeepsClient, BuildsClient, BuildFails,
       DropClient, WriteStatus, StatusUnchanged, StatusConflict, CallFails, ResponseLost,
       Done, Error
  <2> QED BY <2>1, <2>2
<1> QED BY <1>1, <1>2 DEF Unseen

LEMMA UserShows ==
    ASSUME Orderly, SInv, UserStep, NEW b \in Apps
    PROVE  Showing(b)'
<1>1. /\ apps \in [Apps -> AppObject \cup {Nil}] /\ Showing(b)
      /\ appCache' = appCache /\ worker' = worker /\ registry' = registry
      /\ queue' = queue /\ timers' = timers
  BY DEF SInv, Sound, TypeOK, UserStep
<1>2. Decided(b)'
  BY <1>1 DEF Showing, Decided
<1>3. ASSUME apps'[b] # Nil => apps[b] # Nil /\ apps'[b].ready = apps[b].ready
      PROVE  Showing(b)'
  BY <1>1, <1>2, <1>3 DEF Showing, Told, Fresh, Agrees
<1>4. ASSUME NEW a \in Apps, DeleteApp(a)
      PROVE  Showing(b)'
  BY <1>1, <1>3, <1>4 DEF DeleteApp
<1>5. ASSUME NEW a \in Apps, NEW spec \in Manifests, CreateApp(a, spec)
      PROVE  Showing(b)'
  <2>1. CASE b = a
    <3>1. appCache[b] = Nil /\ worker[b].pc = "idle"
      BY <1>5, <2>1 DEF CreateApp, DeletionDone
    <3> QED BY <1>1, <1>2, <3>1 DEF Showing, Told, Agrees
  <2>2. CASE b # a
    BY <1>1, <1>3, <1>5, <2>2 DEF CreateApp
  <2> QED BY <2>1, <2>2
<1>6. ASSUME NEW a \in Apps, NEW spec \in Manifests, EditApp(a, spec)
      PROVE  Showing(b)'
  <2>1. CASE b = a
    <3>1. /\ apps[b] \in AppObject /\ apps[b] # Nil
          /\ apps'[b] = [apps[b] EXCEPT !.spec = spec, !.generation = apps[b].generation + 1]
      BY <1>1, <1>6, <2>1 DEF EditApp, AppObject
    <3>2. apps'[b].ready = apps[b].ready
      BY <3>1 DEF AppObject
    <3> QED BY <1>3, <3>1, <3>2
  <2>2. CASE b # a
    BY <1>1, <1>3, <1>6, <2>2 DEF EditApp
  <2> QED BY <2>1, <2>2
<1>7. ASSUME NEW s \in KeySecrets, DeleteKey(s) \/ \E pem \in Contents : PutKey(s, pem)
      PROVE  Showing(b)'
  BY <1>3, <1>7 DEF DeleteKey, PutKey
<1> QED BY <1>4, <1>5, <1>6, <1>7 DEF UserStep

(* A cached status is replaced by the server's.                            *)
LEMMA SyncAppShows ==
    ASSUME SInv, NEW a \in Apps, SyncApp(a)
    PROVE  Showing(a)'
<1>1. appCache \in [Apps -> AppObject \cup {Nil}] /\ Showing(a)
  BY DEF SInv, Sound, TypeOK
<1>2. /\ appCache'[a] = apps[a] /\ apps' = apps /\ worker' = worker /\ registry' = registry
      /\ timers' = timers /\ (a \in queue => a \in queue')
      /\ appCache[a] = Nil /\ apps[a] # Nil => a \in queue'
  BY <1>1 DEF SyncApp, server, Passes
<1>3. Decided(a)'
  BY <1>1, <1>2 DEF Showing, Decided
<1>4. Told(a)'
  BY <1>1, <1>2 DEF Showing, Told, Fresh
<1>5. Agrees(a)'
  BY <1>1, <1>2 DEF Showing, Agrees
<1> QED BY <1>3, <1>4, <1>5 DEF Showing

(* The retry after a failure waits for the cache and the reconciliation,   *)
(* which then cannot be behind any more.                                   *)
LEMMA TimerShows ==
    ASSUME Orderly, SInv, NEW a \in Apps, TimerFires(a)
    PROVE  Showing(a)'
<1>1. /\ Showing(a) /\ DelayOver(a) /\ a \in queue'
      /\ UNCHANGED <<apps, appCache, worker, registry>>
  BY DEF SInv, TimerFires, server
<1>2. Decided(a)'
  BY <1>1 DEF Showing, Decided
<1>3. Told(a)'
  BY <1>1 DEF DelayOver, Told, Fresh
<1>4. Agrees(a)'
  BY <1>1 DEF Agrees
<1> QED BY <1>2, <1>3, <1>4 DEF Showing

(* The reconciliation of App a.  Only its last step can break what Told    *)
(* says of the server's status, and a failure leaves a retry pending.      *)
LEMMA StepShows ==
    ASSUME ~ LostResponses, SInv, NEW a \in Apps,
           AppStep(a) \/ KeyReadFails(a) \/ CallFails(a) \/ ResponseLost(a)
    PROVE  Showing(a)'
<1> DEFINE w == worker[a]
<1>1. /\ apps \in [Apps -> AppObject \cup {Nil}] /\ appCache \in [Apps -> AppObject \cup {Nil}]
      /\ worker \in [Apps -> Worker] /\ registry \in [Apps -> CachedClient \cup {Nil}]
      /\ Good(a) /\ Decided(a) /\ Told(a) /\ Agrees(a)
  BY DEF SInv, Sound, TypeOK, Showing
<1>2. appCache' = appCache
  BY StepCaches
<1>3. CASE StartGone(a)
  BY <1>1, <1>2, <1>3 DEF StartGone, Take, Invalidate, Showing, Decided, Told, Fresh, Agrees
<1>4. CASE Start(a)
  <2>1. /\ worker'[a].pc = "resolve" /\ worker'[a].app = appCache[a]
        /\ apps' = apps /\ timers' = timers /\ appCache[a] # Nil
    BY <1>1, <1>4 DEF Start, Goto, IdleWorker
  <2>2. Told(a)'
    BY <1>1, <1>2, <2>1 DEF Told, Fresh
  <2> QED BY <2>1, <2>2 DEF Showing, Decided, Agrees
<1>5. CASE \/ ResolveConfig(a) \/ KeyReadFails(a) \/ KeepsClient(a)
           \/ BuildsClient(a) \/ BuildFails(a) \/ DropClient(a)
  <2>1. /\ w.pc # "idle" /\ worker'[a].pc # "idle" /\ worker'[a].app = w.app
        /\ apps' = apps /\ timers' = timers /\ Decided(a)'
    <3>1. CASE ResolveConfig(a)
      <4> DEFINE reason == ResolveReason(w.app, keyCache)
      <4>1. /\ w.pc = "resolve" /\ UNCHANGED <<apps, timers>> /\ worker'[a].app = w.app
            /\ IF reason = "Reconciled"
               THEN worker'[a].pc = "forApp" /\ worker'[a].reason = reason
               ELSE worker'[a].pc = "invalidate" /\ worker'[a].reason = reason
        <5> HIDE DEF reason
        <5> QED BY <1>1, <3>1 DEF ResolveConfig, Goto, Worker, reason
      <4> HIDE DEF reason
      <4> QED BY <4>1 DEF Decided
    <3>2. CASE KeepsClient(a)
      BY <1>1, <3>2 DEF KeepsClient, Hit, Goto, Worker, Decided
    <3>3. CASE BuildsClient(a)
      <4> DEFINE r == [client |-> w.config, version |-> w.version]
      <4>1. /\ w.pc = "forApp" /\ UNCHANGED <<apps, timers>> /\ registry'[a] = r
            /\ worker'[a] = [w EXCEPT !.pc = "status"]
        BY <1>1, <3>3 DEF BuildsClient, Goto
      <4>2. worker'[a].pc = "status" /\ worker'[a].app = w.app /\ worker'[a].reason = w.reason
        BY <1>1, <4>1 DEF Worker
      <4>3. r # Nil
        <5>1. r \in CachedClient
          BY <1>1, <4>1 DEF Good, Worker, CachedClient
        <5> HIDE DEF r
        <5> QED BY <5>1, NilAssumption
      <4> HIDE DEF r
      <4> QED BY <1>1, <4>1, <4>2, <4>3 DEF Decided
    <3>4. CASE KeyReadFails(a) \/ BuildFails(a)
      BY <1>1, <3>4 DEF KeyReadFails, BuildFails, Goto, Worker, Decided
    <3>5. CASE DropClient(a)
      BY <1>1, <3>5 DEF DropClient, Invalidate, Goto, Worker, Decided
    <3> QED BY <1>5, <3>1, <3>2, <3>3, <3>4, <3>5
  <2>2. Told(a)'
    BY <1>1, <1>2, <2>1 DEF Told, Fresh
  <2> QED BY <2>1, <2>2 DEF Showing, Agrees
<1>6. CASE WriteStatus(a) \/ StatusUnchanged(a)
  <2>1. /\ w.pc = "status" /\ worker'[a].pc = "idle" /\ registry' = registry
        /\ timers' = IF w.reason = "Reconciled" THEN timers ELSE timers \cup {a}
    BY <1>1, <1>6
       DEF WriteStatus, StatusUnchanged, StatusApplies, Done, Goto, IdleWorker
  <2>2. Decided(a)'
    BY <2>1 DEF Decided
  <2>3. CASE w.reason # "Reconciled"
    BY <2>1, <2>2, <2>3 DEF Showing, Told, Agrees
  <2>4. CASE w.reason = "Reconciled"
    <3>1. registry'[a] # Nil /\ timers' = timers /\ w.app \in AppObject
      BY <1>1, <2>1, <2>4 DEF Decided, Good
    <3>2. Status(a).ready = "Reconciled"
      BY <2>4, <3>1 DEF Status, WithStatus, AppObject
    <3>3. apps'[a] # Nil /\ a \notin timers => apps'[a].ready = "Reconciled"
      <4>1. CASE WriteStatus(a)
        BY <1>1, <3>2, <4>1 DEF WriteStatus, StatusApplies
      <4>2. CASE StatusUnchanged(a)
        BY <1>1, <2>1, <3>2, <4>2 DEF StatusUnchanged, Told, Fresh
      <4> QED BY <1>6, <4>1, <4>2
    <3> QED BY <2>1, <2>2, <3>1, <3>3 DEF Showing, Told, Fresh, Agrees
  <2> QED BY <2>3, <2>4
<1>7. CASE StatusConflict(a) \/ CallFails(a) \/ ResponseLost(a)
  <2>1. /\ worker'[a].pc = "idle" /\ a \in queue'
        /\ apps' = apps /\ timers' = timers
    BY <1>1, <1>7
       DEF StatusConflict, CallFails, ResponseLost, Error, Goto, IdleWorker
  <2> QED BY <1>1, <1>2, <2>1 DEF Showing, Decided, Told, Fresh, Agrees
<1> QED BY <1>3, <1>4, <1>5, <1>6, <1>7 DEF AppStep

(* After a restart every App waits in the queue.                           *)
LEMMA RestartShows ==
    ASSUME SInv, Restart, NEW b \in Apps
    PROVE  Showing(b)'
<1>1. /\ apps' = apps /\ appCache' = apps /\ worker'[b].pc = "idle"
      /\ apps[b] # Nil => b \in queue'
  BY DEF Restart, server, IdleWorker
<1> QED BY <1>1 DEF Showing, Decided, Told, Fresh, Agrees

LEMMA StatusInitial == Init => SInv
<1> SUFFICES ASSUME Init PROVE SInv
  OBVIOUS
<1>1. ASSUME NEW a \in Apps PROVE Showing(a)
  BY DEF Init, Showing, Decided, Told, Agrees, IdleWorker
<1> QED BY <1>1, InitSound DEF SInv

LEMMA StatusInductive ==
    ASSUME Orderly, ~ LostResponses
    PROVE  SInv /\ [Next]_vars => SInv'
<1> SUFFICES ASSUME SInv, [Next]_vars PROVE SInv'
  OBVIOUS
<1>1. Sound /\ Sound'
  BY SoundSteps DEF SInv
<1>2. ASSUME NEW b \in Apps PROVE Showing(b)'
  <2>1. ASSUME Unseen(b) PROVE Showing(b)'
    BY <2>1, UnseenShows DEF SInv
  <2>2. CASE UserStep
    BY <2>2, UserShows
  <2>3. ASSUME NEW a \in Apps, SyncApp(a)
        PROVE  Showing(b)'
    BY <1>1, <2>1, <2>3, SyncAppShows, OthersUnseen
  <2>4. ASSUME NEW a \in Apps, TimerFires(a)
        PROVE  Showing(b)'
    BY <1>1, <2>1, <2>4, TimerShows, OthersUnseen
  <2>5. ASSUME NEW a \in Apps, AppStep(a) \/ KeyReadFails(a) \/ CallFails(a) \/ ResponseLost(a)
        PROVE  Showing(b)'
    BY <1>1, <2>1, <2>5, StepShows, OthersUnseen
  <2>6. ASSUME NEW s \in KeySecrets, SyncKey(s)
        PROVE  Showing(b)'
    BY <2>6 DEF SyncKey, server, SInv, Showing, Decided, Told, Fresh, Agrees
  <2>7. ASSUME NEW t \in Tokens, TokenActs(t)
        PROVE  Showing(b)'
    BY <1>1, <2>1, <2>7, TokensUnmoved, TokensApart DEF Unseen, appSide
  <2>8. CASE Restart
    BY <2>8, RestartShows
  <2>9. CASE UNCHANGED vars
    <3>1. revision \in Nat
      BY <1>1 DEF Sound, TypeOK
    <3> QED BY <2>1, <2>9, <3>1 DEF vars, appSide, server, Unseen, Unmoved
  <2> QED BY <2>2, <2>3, <2>4, <2>5, <2>6, <2>7, <2>8, <2>9 DEF Next, TokenActs
<1> QED BY <1>1, <1>2 DEF SInv

(* An App that rests with no retry pending shows Ready exactly when the    *)
(* registry has its client, whatever edits, changes of its key, conflicts, *)
(* failed writes, failed builds and restarts have gone before, although    *)
(* writeAppStatus leaves the status alone when a cached copy, which may    *)
(* lag, shows it already.  Two things are assumed: the delay of a retry    *)
(* outlasts the lag of the cache (Orderly), and no status write takes      *)
(* effect while its response is lost.  (Without either this is false.)     *)
THEOREM StatusFollowsRegistry ==
    ASSUME Orderly, ~ LostResponses
    PROVE  Safety => []StatusAgrees
<1>1. SInv => StatusAgrees
  BY DEF SInv, Showing, Agrees, AtRest, StatusAgrees
<1>2. SInv /\ [Next]_vars => SInv'
  BY StatusInductive
<1> QED BY <1>1, <1>2, StatusInitial, PTL DEF Safety
=============================================================================
