------------------------------ MODULE Registry ------------------------------
(***************************************************************************)
(* The client registry as it is written: a map behind a sync.RWMutex,      *)
(* looked into under the read lock first and, to build a client, once more *)
(* under the write lock, which is held while the factory runs.             *)
(*                                                                         *)
(* Startup and ForApp differ in their key, and in that ForApp has a        *)
(* version: the client of StartupKey is always cached under the same one,  *)
(* so that both are "Obtain" here.                                         *)
(***************************************************************************)
EXTENDS Integers

CONSTANTS Callers, Keys, Versions, Uses, Nil, MaxBuilds,  \* as in ClientCache
          StartupKey

VARIABLES
    clients, built, call,  \* as in ClientCache: Registry.clients, and the calls
    startupCfg,  \* whether the operator was started with a configuration
    pc,          \* where in its method each caller is
    readers,     \* RWMutex: who holds the read lock
    waiting,     \* RWMutex: who has asked for it since a writer announced itself
    writer       \* RWMutex: who has announced itself as writer, or is it

lock == <<readers, waiting, writer>>
vars == <<clients, built, call, startupCfg, pc, lock>>

Promise == INSTANCE ClientCache

ASSUME RegistryUses == Uses \in [Callers -> SUBSET Promise!Request]
ASSUME RegistryNil == Nil \notin Promise!Request \cup Promise!CachedClient \cup Callers
ASSUME RegistryBound == MaxBuilds \in Nat

(* The places of a method where another goroutine may come in between.     *)
Places == {"idle", "rlock", "read", "runlock", "lock", "locked", "build", "unlock", "return"}

TypeOK ==
    /\ clients \in [Keys -> Promise!CachedClient \cup {Nil}]
    /\ built \in Nat /\ startupCfg \in BOOLEAN
    /\ call \in [Callers -> Promise!Call]
    /\ pc \in [Callers -> Places]
    /\ readers \subseteq Callers /\ waiting \subseteq Callers /\ writer \in Callers \cup {Nil}

Init ==
    /\ clients = [k \in Keys |-> Nil] /\ built = 0 /\ startupCfg \in BOOLEAN
    /\ call = [c \in Callers |-> Promise!IdleCall]
    /\ pc = [c \in Callers |-> "idle"]
    /\ readers = {} /\ waiting = {} /\ writer = Nil

----------------------------------------------------------------------------
Request(c) == call[c].request
Cached(c) == clients[Request(c).key]
Hit(c) == Cached(c) # Nil /\ Cached(c).version = Request(c).version

Goto(c, from, to) == pc[c] = from /\ pc' = [pc EXCEPT ![c] = to]
Answer(c, status, client) ==
    call' = [call EXCEPT ![c].status = status, ![c].client = client]

Begin(c, r) ==
    /\ Goto(c, "idle", IF r.op = "Invalidate" THEN "lock" ELSE "rlock")
    /\ call' = [call EXCEPT ![c] = [request |-> r, status |-> "pending", client |-> 0]]
    /\ UNCHANGED <<clients, built, startupCfg, lock>>

(* ErrNoStartupConfig.                                                     *)
Unconfigured(c) == Request(c).op = "Obtain" /\ Request(c).key = StartupKey /\ ~ startupCfg

NoStartup(c) ==
    /\ Goto(c, "rlock", "return") /\ Unconfigured(c)
    /\ Answer(c, "failed", 0)
    /\ UNCHANGED <<clients, built, startupCfg, lock>>

RLock(c) ==
    /\ Goto(c, "rlock", "read") /\ ~ Unconfigured(c)
    /\ IF writer = Nil
       THEN readers' = readers \cup {c} /\ UNCHANGED waiting
       ELSE waiting' = waiting \cup {c} /\ UNCHANGED readers
    /\ UNCHANGED <<clients, built, call, startupCfg, writer>>

(* The first look; a Lookup ends with it.                                  *)
Read(c) ==
    /\ c \in readers /\ Goto(c, "read", "runlock")
    /\ IF Request(c).op = "Lookup"
       THEN IF Cached(c) = Nil THEN Answer(c, "missing", 0)
            ELSE Answer(c, "found", Cached(c).client)
       ELSE IF Hit(c) THEN Answer(c, "found", Cached(c).client) ELSE UNCHANGED call
    /\ UNCHANGED <<clients, built, startupCfg, lock>>

RUnlock(c) ==
    /\ Goto(c, "runlock", IF call[c].status = "pending" THEN "lock" ELSE "return")
    /\ readers' = readers \ {c}
    /\ UNCHANGED <<clients, built, call, startupCfg, waiting, writer>>

(* A writer first keeps other writers and new readers out ...              *)
Lock(c) ==
    /\ writer = Nil /\ Goto(c, "lock", "locked") /\ writer' = c
    /\ UNCHANGED <<clients, built, call, startupCfg, readers, waiting>>

\* Mutant: no second look.
BuildBlindly(c) ==
    /\ pc[c] = "locked" /\ readers = {} /\ Request(c).op = "Obtain"
    /\ Goto(c, "locked", "build") /\ UNCHANGED call
    /\ UNCHANGED <<clients, built, startupCfg, lock>>

(* ... and goes on when the readers have left: the second look ...         *)
Recheck(c) ==
    /\ pc[c] = "locked" /\ readers = {} /\ Request(c).op = "Obtain"
    /\ IF Hit(c) THEN Goto(c, "locked", "unlock") /\ Answer(c, "found", Cached(c).client)
       ELSE Goto(c, "locked", "build") /\ UNCHANGED call
    /\ UNCHANGED <<clients, built, startupCfg, lock>>

\* Mutant: the client is cached without its version.
CachesBareClient(c) ==
    /\ built < MaxBuilds /\ Goto(c, "build", "unlock")
    /\ built' = built + 1
    /\ clients' = [clients EXCEPT ![Request(c).key] = [client |-> built + 1]]
    /\ Answer(c, "found", built + 1)
    /\ UNCHANGED <<startupCfg, lock>>

(* ... the factory, which may take its time ...                            *)
Build(c) ==
    /\ built < MaxBuilds /\ Goto(c, "build", "unlock")
    /\ built' = built + 1
    /\ clients' = [clients EXCEPT ![Request(c).key] =
                     [client |-> built + 1, version |-> Request(c).version]]
    /\ Answer(c, "found", built + 1)
    /\ UNCHANGED <<startupCfg, lock>>

\* Mutant: an error leaves the method without the deferred Unlock.
FailsLocked(c) ==
    /\ Goto(c, "build", "return") /\ Answer(c, "failed", 0)
    /\ UNCHANGED <<clients, built, startupCfg, lock>>

BuildFails(c) ==
    /\ Goto(c, "build", "unlock") /\ Answer(c, "failed", 0)
    /\ UNCHANGED <<clients, built, startupCfg, lock>>

(* ... or the removal of the entry.                                        *)
Delete(c) ==
    /\ Goto(c, "locked", "unlock") /\ readers = {} /\ Request(c).op = "Invalidate"
    /\ clients' = [clients EXCEPT ![Request(c).key] = Nil]
    /\ Answer(c, "done", 0)
    /\ UNCHANGED <<built, startupCfg, lock>>

(* Whoever waits to read gets in before the next writer.                   *)
Unlock(c) ==
    /\ Goto(c, "unlock", "return") /\ writer' = Nil
    /\ readers' = readers \cup waiting /\ waiting' = {}
    /\ UNCHANGED <<clients, built, call, startupCfg>>

Return(c) ==
    /\ Goto(c, "return", "idle") /\ call' = [call EXCEPT ![c] = Promise!IdleCall]
    /\ UNCHANGED <<clients, built, startupCfg, lock>>

Step(c) ==
    \/ NoStartup(c) \/ RLock(c) \/ Read(c) \/ RUnlock(c) \/ Lock(c) \/ Recheck(c)
    \/ Build(c) \/ BuildFails(c) \/ Delete(c) \/ Unlock(c) \/ Return(c)

Next == \E c \in Callers : (\E r \in Uses[c] : Begin(c, r)) \/ Step(c)

Spec == Init /\ [][Next]_vars

(* Goroutines run on, factories return, and a sync.Mutex is handed to the  *)
(* one that waits longest before long (its starvation mode).               *)
Fairness == \A c \in Callers : WF_vars(Step(c)) /\ SF_vars(Lock(c))

FairSpec == Spec /\ Fairness

----------------------------------------------------------------------------
(* Every call takes effect at one moment, although it looks twice and lets *)
(* go of the lock in between: no client is built that another caller has   *)
(* built already, and none is returned that was not cached.                *)
Linearizable == Promise!Spec

(* No caller is locked out, whatever methods the others call and however   *)
(* the factory fails: readers are not starved by writers nor the converse. *)
EveryCallReturns == \A c \in Callers : pc[c] # "idle" ~> pc[c] = "idle"
=============================================================================
