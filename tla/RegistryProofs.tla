--------------------------- MODULE RegistryProofs ---------------------------
(***************************************************************************)
(* Proofs about Registry, for any callers, keys, versions and requests:    *)
(* type correctness, and that the double-checked look-up under an RWMutex  *)
(* implements the atomic calls of ClientCache.                             *)
(***************************************************************************)
EXTENDS Registry, TLAPS

Open == {"found", "missing", "failed", "done"}

(* How a call stands at each place of its method; who is past Lock is the  *)
(* writer; and one about to build has seen, under the lock, no client of   *)
(* its version.                                                            *)
Placed(c) ==
    /\ pc[c] = "idle" <=> call[c].status = "idle"
    /\ pc[c] = "idle" => call[c] = Promise!IdleCall
    /\ pc[c] # "idle" => Request(c) \in Promise!Request
    /\ pc[c] \in {"rlock", "read", "lock", "locked", "build"} => call[c].status = "pending"
    /\ pc[c] \in {"unlock", "return"} => call[c].status \in Open
    /\ pc[c] \in {"rlock", "read"} => Request(c).op \in {"Obtain", "Lookup"}
    /\ pc[c] = "runlock" /\ call[c].status = "pending" => Request(c).op = "Obtain"
    /\ pc[c] \in {"lock", "locked"} => Request(c).op \in {"Obtain", "Invalidate"}
    /\ pc[c] = "build" => Request(c).op = "Obtain" /\ ~ Hit(c)
    /\ pc[c] \in {"locked", "build", "unlock"} => writer = c
    /\ pc[c] \notin {"idle", "rlock", "return"} => ~ Unconfigured(c)

StartupNeedsConfig == StartupKey \in Keys /\ ~ startupCfg => clients[StartupKey] = Nil

IInv == TypeOK /\ StartupNeedsConfig /\ \A c \in Callers : Placed(c)

----------------------------------------------------------------------------
(* One caller moves; the others stand as they stood if the lock is not     *)
(* taken from them and the cache changes only in the writer's hands.       *)
LEMMA OneMoves ==
    ASSUME IInv, NEW c \in Callers, TypeOK', Placed(c)', StartupNeedsConfig',
           \A d \in Callers : d # c => pc'[d] = pc[d] /\ call'[d] = call[d],
           startupCfg' = startupCfg,
           writer' = writer \/ writer \in {Nil, c},
           clients' = clients \/ writer = c
    PROVE  IInv'
<1> SUFFICES ASSUME NEW d \in Callers, d # c PROVE Placed(d)'
  BY DEF IInv
<1>1. Placed(d) /\ d # Nil
  BY RegistryNil DEF IInv
<1>2. pc'[d] = pc[d] /\ call'[d] = call[d]
  OBVIOUS
<1>3. Request(d)' = Request(d) /\ (Unconfigured(d)' <=> Unconfigured(d))
  BY <1>2 DEF Request, Unconfigured
<1>4. pc[d] \in {"locked", "build", "unlock"} => writer = d /\ writer' = d /\ clients' = clients
  BY <1>1 DEF Placed
<1>5. pc[d] = "build" => (Hit(d)' <=> Hit(d))
  BY <1>3, <1>4 DEF Hit, Cached
<1> QED BY <1>1, <1>2, <1>3, <1>4, <1>5 DEF Placed

(* What the steps that only move on and answer have in common.             *)
LEMMA Moves ==
    ASSUME TypeOK, NEW c \in Callers, NEW from, NEW to, Goto(c, from, to),
           to \in Places
    PROVE  /\ pc' \in [Callers -> Places]
           /\ pc[c] = from /\ pc'[c] = to
           /\ \A d \in Callers : d # c => pc'[d] = pc[d]
BY DEF TypeOK, Goto

LEMMA Answers ==
    ASSUME TypeOK, NEW c \in Callers, NEW status \in Open, NEW client \in Nat,
           Answer(c, status, client)
    PROVE  /\ call' \in [Callers -> Promise!Call]
           /\ call'[c].status = status /\ call'[c].client = client
           /\ call'[c].request = call[c].request
           /\ \A d \in Callers : d # c => call'[d] = call[d]
<1>1. call \in [Callers -> Promise!Call] /\ call[c] \in Promise!Call
  BY DEF TypeOK
<1>2. [call[c] EXCEPT !.status = status, !.client = client] \in Promise!Call
  BY <1>1 DEF Promise!Call, Open
<1>3. call' = [call EXCEPT ![c] = [call[c] EXCEPT !.status = status, !.client = client]]
  BY <1>1 DEF Answer, Promise!Call
<1> QED BY <1>1, <1>2, <1>3 DEF Promise!Call

LEMMA CachedType ==
    ASSUME IInv, NEW c \in Callers, pc[c] # "idle"
    PROVE  /\ Request(c) \in Promise!Request
           /\ Request(c).key \in Keys /\ Cached(c) \in Promise!CachedClient \cup {Nil}
           /\ Cached(c) # Nil => Cached(c).client \in Nat
<1>1. Request(c) \in Promise!Request /\ clients \in [Keys -> Promise!CachedClient \cup {Nil}]
  BY DEF IInv, TypeOK, Placed
<1> QED BY <1>1 DEF Promise!Request, Promise!CachedClient, Cached

LEMMA InitOK == Init => IInv
<1> SUFFICES ASSUME Init PROVE IInv
  OBVIOUS
<1>1. Promise!IdleCall \in Promise!Call
  BY DEF Promise!IdleCall, Promise!Call
<1>2. TypeOK
  BY <1>1 DEF Init, Places, TypeOK
<1>3. ASSUME NEW c \in Callers PROVE Placed(c)
  BY <1>1 DEF Init, Placed, Promise!IdleCall
<1> QED BY <1>2, <1>3 DEF Init, IInv, StartupNeedsConfig

(* Outside of the lock.                                                    *)
LEMMA OpenSteps ==
    ASSUME IInv, NEW c \in Callers,
           \/ \E r \in Uses[c] : Begin(c, r)
           \/ NoStartup(c) \/ RLock(c) \/ RUnlock(c) \/ Return(c)
    PROVE  IInv'
<1>1. TypeOK /\ StartupNeedsConfig /\ Placed(c)
  BY DEF IInv
<1>2. ASSUME NEW r \in Uses[c], Begin(c, r)
      PROVE  IInv'
  <2> DEFINE to == IF r.op = "Invalidate" THEN "lock" ELSE "rlock"
             fresh == [request |-> r, status |-> "pending", client |-> 0]
  <2>1. /\ r \in Promise!Request /\ r.op \in {"Obtain", "Lookup", "Invalidate"}
        /\ fresh \in Promise!Call
    BY RegistryUses DEF Promise!Request, Promise!Call
  <2>2. /\ pc' \in [Callers -> Places]
        /\ pc'[c] = to /\ \A d \in Callers : d # c => pc'[d] = pc[d]
    BY <1>1, <1>2, Moves DEF Places, Begin
  <2>3. /\ call' \in [Callers -> Promise!Call] /\ call'[c] = fresh
        /\ \A d \in Callers : d # c => call'[d] = call[d]
    BY <1>1, <1>2, <2>1 DEF Begin, TypeOK
  <2>4. TypeOK' /\ StartupNeedsConfig'
    BY <1>1, <1>2, <2>2, <2>3 DEF Begin, lock, TypeOK, StartupNeedsConfig
  <2>5. Placed(c)'
    BY <2>1, <2>2, <2>3 DEF Placed, Request, Unconfigured
  <2> QED BY <1>2, <2>2, <2>3, <2>4, <2>5, OneMoves DEF Places, Begin, lock
<1>3. CASE NoStartup(c)
  <2>1. /\ pc' \in [Callers -> Places]
        /\ pc[c] = "rlock" /\ pc'[c] = "return"
        /\ \A d \in Callers : d # c => pc'[d] = pc[d]
    BY <1>1, <1>3, Moves DEF Places, NoStartup
  <2>2. /\ call' \in [Callers -> Promise!Call] /\ call'[c].status = "failed"
        /\ call'[c].request = call[c].request
        /\ \A d \in Callers : d # c => call'[d] = call[d]
    BY <1>1, <1>3, Answers DEF NoStartup, Open
  <2>3. TypeOK' /\ StartupNeedsConfig'
    BY <1>1, <1>3, <2>1, <2>2 DEF NoStartup, lock, TypeOK, StartupNeedsConfig
  <2>4. Placed(c)'
    BY <1>1, <2>1, <2>2 DEF Placed, Request, Unconfigured, Open
  <2> QED BY <1>3, <2>1, <2>2, <2>3, <2>4, OneMoves DEF Places, NoStartup, lock
<1>4. CASE RLock(c)
  <2>1. /\ pc' \in [Callers -> Places]
        /\ pc[c] = "rlock" /\ pc'[c] = "read"
        /\ \A d \in Callers : d # c => pc'[d] = pc[d]
    BY <1>1, <1>4, Moves DEF Places, RLock
  <2>2. TypeOK' /\ StartupNeedsConfig'
    BY <1>1, <1>4, <2>1 DEF RLock, TypeOK, StartupNeedsConfig
  <2>3. Placed(c)'
    BY <1>1, <1>4, <2>1 DEF RLock, Placed, Request, Unconfigured
  <2> QED BY <1>4, <2>1, <2>2, <2>3, OneMoves DEF Places, RLock
<1>5. CASE RUnlock(c)
  <2> DEFINE to == IF call[c].status = "pending" THEN "lock" ELSE "return"
  <2>1. /\ pc' \in [Callers -> Places]
        /\ pc[c] = "runlock" /\ pc'[c] = to
        /\ \A d \in Callers : d # c => pc'[d] = pc[d]
    BY <1>1, <1>5, Moves DEF Places, RUnlock
  <2>2. TypeOK' /\ StartupNeedsConfig'
    BY <1>1, <1>5, <2>1 DEF RUnlock, TypeOK, StartupNeedsConfig
  <2>3. call[c].status \in Open \cup {"pending"}
    BY <1>1, <2>1 DEF TypeOK, Promise!Call, Placed, Open
  <2>4. Placed(c)'
    BY <1>1, <1>5, <2>1, <2>3 DEF RUnlock, Placed, Request, Unconfigured, Open
  <2> QED BY <1>5, <2>1, <2>2, <2>4, OneMoves DEF Places, RUnlock
<1>6. CASE Return(c)
  <2>1. /\ pc' \in [Callers -> Places]
        /\ pc'[c] = "idle" /\ \A d \in Callers : d # c => pc'[d] = pc[d]
    BY <1>1, <1>6, Moves DEF Places, Return
  <2>2. /\ call' \in [Callers -> Promise!Call] /\ call'[c] = Promise!IdleCall
        /\ \A d \in Callers : d # c => call'[d] = call[d]
    BY <1>1, <1>6 DEF Return, TypeOK, Promise!IdleCall, Promise!Call
  <2>3. TypeOK' /\ StartupNeedsConfig'
    BY <1>1, <1>6, <2>1, <2>2 DEF Return, lock, TypeOK, StartupNeedsConfig
  <2>4. Placed(c)'
    BY <2>1, <2>2 DEF Placed, Promise!IdleCall
  <2> QED BY <1>6, <2>1, <2>2, <2>3, <2>4, OneMoves DEF Places, Return, lock
<1> QED BY <1>2, <1>3, <1>4, <1>5, <1>6

(* With the read lock, or with the write lock.                             *)
LEMMA LockedSteps ==
    ASSUME IInv, NEW c \in Callers,
           \/ Read(c) \/ Lock(c) \/ Recheck(c) \/ Unlock(c)
           \/ Build(c) \/ BuildFails(c) \/ Delete(c)
    PROVE  IInv'
<1>1. TypeOK /\ StartupNeedsConfig /\ Placed(c)
  BY DEF IInv
<1> DEFINE PcMoves(from, to) ==
               /\ pc' \in [Callers -> Places] /\ pc[c] = from /\ pc'[c] = to
               /\ \A d \in Callers : d # c => pc'[d] = pc[d]
           CallAnswered(statuses) ==
               /\ call' \in [Callers -> Promise!Call] /\ call'[c].status \in statuses
               /\ call'[c].request = call[c].request
               /\ \A d \in Callers : d # c => call'[d] = call[d]
<1>2. CASE Read(c)
  <2>1. PcMoves("read", "runlock")
    BY <1>1, <1>2, Moves DEF Places, Read
  <2>2. /\ Request(c) \in Promise!Request
        /\ Cached(c) # Nil => Cached(c).client \in Nat
    BY <2>1, CachedType
  <2>3. call' = call \/ CallAnswered({"found", "missing"})
    <3>1. CASE Answer(c, "missing", 0)
      BY <1>1, <3>1, Answers DEF Open
    <3>2. CASE Cached(c) # Nil /\ Answer(c, "found", Cached(c).client)
      BY <1>1, <2>2, <3>2, Answers DEF Open
    <3> QED BY <1>2, <3>1, <3>2 DEF Read, Hit
  <2>4. call' = call => Request(c).op # "Lookup"
    <3>1. ASSUME NEW status \in Open, NEW client \in Nat, Answer(c, status, client)
          PROVE  call' # call
      BY <1>1, <2>1, <3>1, Answers DEF Placed, Open
    <3> QED BY <1>2, <2>2, <3>1 DEF Read, Open
  <2>5. TypeOK' /\ StartupNeedsConfig'
    BY <1>1, <1>2, <2>1, <2>3 DEF Read, lock, TypeOK, StartupNeedsConfig
  <2>6. Placed(c)'
    BY <1>1, <1>2, <2>1, <2>3, <2>4 DEF Read, Placed, Request, Unconfigured
  <2> QED BY <1>2, <2>1, <2>3, <2>5, <2>6, OneMoves DEF Places, Read, lock
<1>3. CASE Lock(c)
  <2>1. PcMoves("lock", "locked")
    BY <1>1, <1>3, Moves DEF Places, Lock
  <2>2. TypeOK' /\ StartupNeedsConfig'
    BY <1>1, <1>3, <2>1 DEF Lock, TypeOK, StartupNeedsConfig
  <2>3. Placed(c)'
    BY <1>1, <1>3, <2>1 DEF Lock, Placed, Request, Unconfigured
  <2> QED BY <1>3, <2>1, <2>2, <2>3, OneMoves DEF Places, Lock
<1>4. CASE Recheck(c)
  <2>1. CASE Hit(c)
    <3>1. PcMoves("locked", "unlock")
      BY <1>1, <1>4, <2>1, Moves DEF Places, Recheck
    <3>2. Cached(c).client \in Nat
      BY <2>1, <3>1, CachedType DEF Hit
    <3>3. CallAnswered({"found"})
      BY <1>1, <1>4, <2>1, <3>2, Answers DEF Recheck, Open
    <3>4. TypeOK' /\ StartupNeedsConfig'
      BY <1>1, <1>4, <3>1, <3>3 DEF Recheck, lock, TypeOK, StartupNeedsConfig
    <3>5. Placed(c)'
      BY <1>1, <1>4, <3>1, <3>3 DEF Recheck, lock, Placed, Request, Unconfigured, Open
    <3> QED BY <1>4, <3>1, <3>3, <3>4, <3>5, OneMoves DEF Places, Recheck, lock
  <2>2. CASE ~ Hit(c)
    <3>1. PcMoves("locked", "build") /\ call' = call
      BY <1>1, <1>4, <2>2, Moves DEF Places, Recheck
    <3>2. TypeOK' /\ StartupNeedsConfig'
      BY <1>1, <1>4, <3>1 DEF Recheck, lock, TypeOK, StartupNeedsConfig
    <3>3. Placed(c)'
      BY <1>1, <1>4, <2>2, <3>1
         DEF Recheck, lock, Placed, Request, Unconfigured, Hit, Cached
    <3> QED BY <1>4, <3>1, <3>2, <3>3, OneMoves DEF Places, Recheck, lock
  <2> QED BY <2>1, <2>2
<1>5. CASE Unlock(c)
  <2>1. PcMoves("unlock", "return")
    BY <1>1, <1>5, Moves DEF Places, Unlock
  <2>2. TypeOK' /\ StartupNeedsConfig'
    BY <1>1, <1>5, <2>1 DEF Unlock, TypeOK, StartupNeedsConfig
  <2>3. Placed(c)' /\ writer = c
    BY <1>1, <1>5, <2>1 DEF Unlock, Placed, Request, Unconfigured, Open
  <2> QED BY <1>5, <2>1, <2>2, <2>3, OneMoves DEF Places, Unlock
<1>6. CASE Build(c)
  <2>1. PcMoves("build", "unlock")
    BY <1>1, <1>6, Moves DEF Places, Build
  <2>2. built + 1 \in Nat /\ built' = built + 1
    BY <1>1, <1>6 DEF Build, TypeOK
  <2>3. CallAnswered({"found"})
    BY <1>1, <1>6, <2>2, Answers DEF Build, Open
  <2>4. Request(c).key \in Keys /\ Request(c).version \in Versions
    BY <2>1, CachedType DEF Promise!Request
  <2> DEFINE entry == [client |-> built + 1, version |-> Request(c).version]
  <2>5. entry \in Promise!CachedClient /\ clients' = [clients EXCEPT ![Request(c).key] = entry]
    BY <1>6, <2>2, <2>4 DEF Build, Promise!CachedClient
  <2>6. TypeOK'
    <3> HIDE DEF entry
    <3> QED BY <1>1, <1>6, <2>1, <2>2, <2>3, <2>5 DEF Build, lock, TypeOK
  <2>7. StartupNeedsConfig'
    <3>1. Request(c).op = "Obtain" /\ ~ Unconfigured(c)
      BY <1>1, <2>1 DEF Placed
    <3> QED BY <1>1, <1>6, <2>5, <3>1 DEF Build, TypeOK, StartupNeedsConfig, Unconfigured
  <2>8. Placed(c)' /\ writer = c
    BY <1>1, <1>6, <2>1, <2>3 DEF Build, lock, Placed, Request, Unconfigured, Open
  <2> QED BY <1>6, <2>1, <2>3, <2>6, <2>7, <2>8, OneMoves DEF Places, Build, lock
<1>7. CASE BuildFails(c)
  <2>1. PcMoves("build", "unlock")
    BY <1>1, <1>7, Moves DEF Places, BuildFails
  <2>2. CallAnswered({"failed"})
    BY <1>1, <1>7, Answers DEF BuildFails, Open
  <2>3. TypeOK' /\ StartupNeedsConfig'
    BY <1>1, <1>7, <2>1, <2>2 DEF BuildFails, lock, TypeOK, StartupNeedsConfig
  <2>4. Placed(c)'
    BY <1>1, <1>7, <2>1, <2>2 DEF BuildFails, lock, Placed, Request, Unconfigured, Open
  <2> QED BY <1>7, <2>1, <2>2, <2>3, <2>4, OneMoves DEF Places, BuildFails, lock
<1>8. CASE Delete(c)
  <2>1. PcMoves("locked", "unlock")
    BY <1>1, <1>8, Moves DEF Places, Delete
  <2>2. CallAnswered({"done"})
    BY <1>1, <1>8, Answers DEF Delete, Open
  <2>3. TypeOK' /\ StartupNeedsConfig'
    BY <1>1, <1>8, <2>1, <2>2 DEF Delete, lock, TypeOK, StartupNeedsConfig
  <2>4. Placed(c)' /\ writer = c
    BY <1>1, <1>8, <2>1, <2>2 DEF Delete, lock, Placed, Request, Unconfigured, Open
  <2> QED BY <1>8, <2>1, <2>2, <2>3, <2>4, OneMoves DEF Places, Delete, lock
<1> QED BY <1>2, <1>3, <1>4, <1>5, <1>6, <1>7, <1>8

LEMMA Inductive == IInv /\ [Next]_vars => IInv'
<1> SUFFICES ASSUME IInv, [Next]_vars PROVE IInv'
  OBVIOUS
<1>1. CASE Next
  BY <1>1, OpenSteps, LockedSteps DEF Next, Step
<1>2. CASE UNCHANGED vars
  BY <1>2 DEF vars, lock, IInv, TypeOK, StartupNeedsConfig, Placed, Request, Unconfigured,
     Hit, Cached
<1> QED BY <1>1, <1>2

(* Every variable of the registry keeps its type.                          *)
THEOREM TypeCorrect == Spec => []TypeOK
<1>1. IInv => TypeOK
  BY DEF IInv
<1> QED BY <1>1, InitOK, Inductive, PTL DEF Spec

----------------------------------------------------------------------------
(* Each step of a method is a step of the atomic call, or none of it.      *)
LEMMA Simulates ==
    ASSUME IInv, [Next]_vars
    PROVE  [Promise!Next]_<<clients, built, call>>
<1> SUFFICES ASSUME Next PROVE [Promise!Next]_<<clients, built, call>>
  BY DEF vars
<1> DEFINE Stutter == clients' = clients /\ built' = built /\ call' = call
<1>1. PICK c \in Callers : (\E r \in Uses[c] : Begin(c, r)) \/ Step(c)
  BY DEF Next
<1>2. /\ Placed(c) /\ StartupNeedsConfig /\ call[c] \in Promise!Call
  BY DEF IInv, TypeOK
<1> DEFINE Effect == \/ \E r \in Uses[c] : Promise!Invoke(c, r)
                     \/ Promise!TakeEffect(c) \/ Promise!Return(c)
<1> SUFFICES Stutter \/ Effect
  BY DEF Promise!Next, Promise!cacheVars
<1>3. CASE \E r \in Uses[c] : Begin(c, r)
  BY <1>2, <1>3 DEF Begin, Goto, Placed, Promise!Invoke
<1>4. CASE RLock(c) \/ RUnlock(c) \/ Lock(c) \/ Unlock(c)
  BY <1>4 DEF RLock, RUnlock, Lock, Unlock
<1>5. CASE Return(c)
  BY <1>2, <1>5 DEF Return, Goto, Placed, Open, Promise!Return
<1>6. CASE NoStartup(c)
  <2>1. /\ pc[c] = "rlock" /\ Promise!Pending(c, "Obtain")
        /\ Answer(c, "failed", 0) /\ clients' = clients /\ built' = built
    BY <1>2, <1>6 DEF NoStartup, Goto, Placed, Unconfigured, Request, Promise!Pending
  <2>2. Cached(c) = Nil
    BY <1>2, <1>6, <2>1, CachedType DEF NoStartup, Unconfigured, Cached, StartupNeedsConfig
  <2>3. ~ Promise!Hit(c)
    BY <2>2 DEF Promise!Hit, Promise!Cached, Cached, Request
  <2> QED BY <2>1, <2>3 DEF Answer, Promise!Answer, Promise!Fail, Promise!TakeEffect
<1>7. CASE Read(c)
  <2>1. /\ pc[c] = "read" /\ call[c].status = "pending" /\ Request(c).op \in {"Obtain", "Lookup"}
        /\ clients' = clients /\ built' = built
    BY <1>2, <1>7 DEF Read, Goto, Placed
  <2>2. CASE Request(c).op = "Lookup"
    BY <1>7, <2>1, <2>2
       DEF Read, Answer, Cached, Request, Promise!Pending, Promise!Cached, Promise!Answer,
           Promise!Look, Promise!TakeEffect
  <2>3. CASE Request(c).op = "Obtain"
    BY <1>7, <2>1, <2>3
       DEF Read, Answer, Hit, Cached, Request, Promise!Pending, Promise!Cached, Promise!Hit,
           Promise!Answer, Promise!Find, Promise!TakeEffect
  <2> QED BY <2>1, <2>2, <2>3
<1>8. CASE Recheck(c)
  BY <1>2, <1>8
     DEF Recheck, Placed, Answer, Hit, Cached, Request, Promise!Pending, Promise!Cached,
         Promise!Hit, Promise!Answer, Promise!Find, Promise!TakeEffect
<1>9. CASE Build(c)
  <2>1. Promise!Pending(c, "Obtain") /\ ~ Promise!Hit(c)
    BY <1>2, <1>9
       DEF Build, Goto, Placed, Hit, Cached, Request, Promise!Pending, Promise!Cached, Promise!Hit
  <2> QED BY <1>9, <2>1
          DEF Build, Answer, Request, Promise!Answer, Promise!Build, Promise!TakeEffect
<1>10. CASE BuildFails(c)
  <2>1. Promise!Pending(c, "Obtain") /\ ~ Promise!Hit(c)
    BY <1>2, <1>10
       DEF BuildFails, Goto, Placed, Hit, Cached, Request, Promise!Pending, Promise!Cached,
           Promise!Hit
  <2> QED BY <1>10, <2>1
          DEF BuildFails, Answer, Promise!Answer, Promise!Fail, Promise!TakeEffect
<1>11. CASE Delete(c)
  BY <1>2, <1>11
     DEF Delete, Goto, Placed, Answer, Request, Promise!Pending, Promise!Answer, Promise!Drop,
         Promise!TakeEffect
<1> QED BY <1>1, <1>3, <1>4, <1>5, <1>6, <1>7, <1>8, <1>9, <1>10, <1>11 DEF Step

(* The registry keeps its promise: under any interleaving of its methods,  *)
(* each call behaves as if it took effect at one moment, although ForApp   *)
(* and Startup look twice and let go of the lock in between.               *)
THEOREM Implements == Spec => Linearizable
<1>1. Init => Promise!Init
  BY DEF Init, Promise!Init
<1>2. IInv /\ [Next]_vars => [Promise!Next]_<<clients, built, call>>
  BY Simulates
<1> QED BY <1>1, <1>2, InitOK, Inductive, PTL
        DEF Spec, Linearizable, Promise!Spec, Promise!cacheVars
=============================================================================
