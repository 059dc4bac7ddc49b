--------------------------- MODULE MCTokenSecret ---------------------------
(* Small instances of TokenSecret for TLC.                                 *)
EXTENDS TokenSecret

CONSTANTS t1, t2, a, b, plain

Plain(key) == [key |-> key, basic |-> FALSE, labels |-> plain,
               refreshes |-> TRUE, retries |-> TRUE]
Basic(key) == [Plain(key) EXCEPT !.basic = TRUE]

(* Renames and changes of the kind of Secret.                              *)
RenamesAndKinds == [t \in Tokens |-> {Plain(a), Plain(b), Basic(a)}]
Renames == [t \in Tokens |-> {Plain(a), Plain(b)}]

(* The same with intervals of zero: both of them, or the refresh alone.    *)
Untimed(spec) == [spec EXCEPT !.refreshes = FALSE, !.retries = FALSE]
Unrefreshed(spec) == [spec EXCEPT !.refreshes = FALSE]
DelaysAndKinds == [t \in Tokens |-> {Plain(a), Untimed(Plain(b)), Unrefreshed(Basic(a))}]

(* Every Token asks for the same Secret.                                   *)
Contention == [t \in Tokens |-> {Plain(a)}]

(* t1 holds the Secret and is settled, t2, without any delays, has just    *)
(* been created.                                                           *)
HeldSpec(t) == IF t = t1 THEN Plain(a) ELSE Untimed(Plain(a))

HeldInit ==
    /\ tokens = [t \in Tokens |->
         [uid |-> IF t = t1 THEN 1 ELSE 2, generation |-> 1, spec |-> HeldSpec(t),
          managed |-> IF t = t1 THEN SpecOf([spec |-> HeldSpec(t)]) ELSE Nil,
          expires |-> IF t = t1 THEN TokenValidity ELSE 0,
          ready |-> IF t = t1 THEN "Created" ELSE "None"]]
    /\ secrets = [k \in Keys |-> IF k = a THEN NewSecret(t1, tokens[t1], TokenValidity) ELSE Nil]
    /\ tokenCache = [t \in Tokens |-> IF t = t1 THEN tokens[t] ELSE Nil]
    /\ secretCache = secrets
    /\ queue = {} /\ timers = {t1} /\ active = {t1}
    /\ worker = [t \in Tokens |-> IdleWorker]
    /\ now = 0 /\ incarnation = MaxIncarnation /\ faults = 0 /\ meddles = 0

HandOverSpec == HeldInit /\ [][Next]_vars /\ WeakFairness
=============================================================================
