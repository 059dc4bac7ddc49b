---------------------------- MODULE ClientCache ----------------------------
(***************************************************************************)
(* What the client registry promises its callers: each call takes effect   *)
(* at one moment between its start and its return.  Obtaining a client     *)
(* (Startup, ForApp) finds the cached one of the wanted version, or builds *)
(* and caches one, or fails and leaves the cache alone.                    *)
(***************************************************************************)
EXTENDS Integers

CONSTANTS
    Callers,     \* goroutines: the workers of the controllers
    Keys,        \* cache keys: of Apps, and StartupKey
    Versions,    \* versions clients are cached under
    Uses,        \* Uses[c]: the requests caller c makes
    Nil,         \* no entry, no request
    MaxBuilds    \* bound: clients built

Request == [op : {"Obtain", "Lookup", "Invalidate"}, key : Keys, version : Versions]

(* A client is known by the count of clients built before it.              *)
CachedClient == [client : Nat, version : Versions]
Call == [request : Request \cup {Nil},
         status : {"idle", "pending", "found", "missing", "failed", "done"}, client : Nat]
IdleCall == [request |-> Nil, status |-> "idle", client |-> 0]

VARIABLES
    clients,  \* the cache
    built,    \* how many clients have been built
    call      \* the call each caller makes, and its outcome so far

cacheVars == <<clients, built, call>>

Init ==
    /\ clients = [k \in Keys |-> Nil] /\ built = 0
    /\ call = [c \in Callers |-> IdleCall]

Invoke(c, r) ==
    /\ call[c] = IdleCall
    /\ call' = [call EXCEPT ![c] = [request |-> r, status |-> "pending", client |-> 0]]
    /\ UNCHANGED <<clients, built>>

Pending(c, op) == call[c].status = "pending" /\ call[c].request.op = op
Cached(c) == clients[call[c].request.key]
Hit(c) == Cached(c) # Nil /\ Cached(c).version = call[c].request.version

Answer(c, status, client) ==
    call' = [call EXCEPT ![c].status = status, ![c].client = client]

Find(c) ==
    /\ Pending(c, "Obtain") /\ Hit(c)
    /\ Answer(c, "found", Cached(c).client) /\ UNCHANGED <<clients, built>>

Build(c) ==
    /\ Pending(c, "Obtain") /\ ~ Hit(c) /\ built < MaxBuilds
    /\ built' = built + 1
    /\ clients' = [clients EXCEPT ![call[c].request.key] =
                     [client |-> built + 1, version |-> call[c].request.version]]
    /\ Answer(c, "found", built + 1)

Fail(c) ==
    /\ Pending(c, "Obtain") /\ ~ Hit(c)
    /\ Answer(c, "failed", 0) /\ UNCHANGED <<clients, built>>

Look(c) ==
    /\ Pending(c, "Lookup")
    /\ IF Cached(c) = Nil THEN Answer(c, "missing", 0) ELSE Answer(c, "found", Cached(c).client)
    /\ UNCHANGED <<clients, built>>

Drop(c) ==
    /\ Pending(c, "Invalidate")
    /\ clients' = [clients EXCEPT ![call[c].request.key] = Nil]
    /\ Answer(c, "done", 0) /\ UNCHANGED built

Return(c) ==
    /\ call[c].status \notin {"idle", "pending"}
    /\ call' = [call EXCEPT ![c] = IdleCall] /\ UNCHANGED <<clients, built>>

TakeEffect(c) == Find(c) \/ Build(c) \/ Fail(c) \/ Look(c) \/ Drop(c)

Next == \E c \in Callers : (\E r \in Uses[c] : Invoke(c, r)) \/ TakeEffect(c) \/ Return(c)

Spec == Init /\ [][Next]_cacheVars
=============================================================================
