---------------------------- MODULE TokenRefresh ----------------------------
(***************************************************************************)
(* The credentials of one Token in time: how long those in its Secret are  *)
(* still valid, when the next reconciliation is due, and what the metrics  *)
(* say meanwhile.                                                          *)
(*                                                                         *)
(* Time passes in ticks while the operator waits, and a tick is longer     *)
(* than a reconciliation: nothing due is put off, and no time passes       *)
(* between two steps of one reconciliation.  What other actors do between  *)
(* them, to the caches and to other Tokens, is the subject of TokenSecret; *)
(* name and kind of the Secret stay as they are here.                      *)
(*                                                                         *)
(* Clocks count down to what they wait for, and stopwatches stop at        *)
(* Horizon, so that time itself needs no bound.                            *)
(***************************************************************************)
EXTENDS Integers

CONSTANTS
    Intervals,      \* values of spec.refreshInterval and spec.retryInterval;
                    \* a negative one acts like zero
    TokenValidity,  \* lifetime of an installation token
    AppRetry,       \* appRefRetryInterval
    MaxBackoff,     \* longest delay of the workqueue's rate limiter
    Horizon,        \* bound: what the stopwatches count to
    Nil             \* never; no value exported

ASSUME IntervalsAssumption == Intervals \subseteq Nat
ASSUME DelaysAssumption ==
    /\ TokenValidity \in Nat \ {0} /\ AppRetry \in Nat \ {0}
    /\ MaxBackoff \in Nat /\ Horizon \in Nat
ASSUME NilAssumption == Nil \notin Int

Spec == [refresh : Intervals, retry : Intervals]

VARIABLES
    spec,     \* the intervals of the Token's spec
    secret,   \* the Secret of the name: none, the Token's own, or another's
    left,     \* ticks for which the credentials in it are valid
    up,       \* the operator runs
    pc,       \* where the reconciliation stands
    due,      \* ticks until the key leaves the workqueue
    gauge,    \* token.expiry.timestamp, as ticks from now
    alarm,    \* token.reconcile.errors or config.errors has risen since
              \* token.refresh last counted a success
    uncounted, \* clock: the longest backoff after an error that was not counted
    failing,  \* stopwatch: since a reconciliation failed or the operator was down
    meddled   \* stopwatch: since somebody else touched the Secret

world == <<spec, up, meddled>>
vars == <<spec, secret, left, up, pc, due, gauge, alarm, uncounted, failing, meddled>>

PCs == {"idle", "mint", "create", "update", "status"}

TypeOK ==
    /\ spec \in Spec /\ secret \in {"none", "own", "foreign"}
    /\ left \in 0..TokenValidity
    /\ up \in BOOLEAN /\ pc \in PCs /\ due \in Nat \cup {Nil}
    /\ gauge \in 0..TokenValidity \cup {Nil} /\ alarm \in BOOLEAN
    /\ uncounted \in 0..MaxBackoff /\ failing \in 0..Horizon /\ meddled \in 0..Horizon

----------------------------------------------------------------------------
(* The workqueue holds a key once, with the earliest time asked for.       *)
Earliest(d) == IF due = Nil \/ d < due THEN d ELSE due

\* Mutants: the result has no delay; a margin taken off without a check.
Done(d) == UNCHANGED due
WithMargin(d) == due' = Earliest(d - 1)

(* Result{RequeueAfter: d} and no error: zero is no delay but no requeue.  *)
RequeueAfter(d) == due' = IF d = 0 THEN due ELSE Earliest(d)

(* An error: the rate limiter chooses the delay.                           *)
Backoff == \E d \in 0..MaxBackoff : due' = Earliest(d)

\* Mutant: a failure that is not counted.
Uncounted == UNCHANGED alarm

RecordReconcileError == alarm' = TRUE
RecordConfigError == alarm' = TRUE
RecordTokenRefresh == alarm' = FALSE

\* Mutant: only the first expiry is recorded.
RecordFirstExpiry == gauge' = IF gauge = Nil THEN TokenValidity ELSE gauge

(* recordExpiry: the expiry just written to the status.                    *)
RecordTokenExpiry == gauge' = TokenValidity

(* A reconciliation that fails has counted that, or it has not.            *)
Fails == pc' = "idle" /\ failing' = 0 /\ UNCHANGED uncounted
FailsUncounted ==
    pc' = "idle" /\ failing' = 0 /\ uncounted' = MaxBackoff /\ UNCHANGED alarm

----------------------------------------------------------------------------
Init ==
    /\ spec \in Spec /\ secret = "none" /\ left = 0
    /\ up = TRUE /\ pc = "idle" /\ due = 0 /\ gauge = Nil /\ alarm = FALSE
    /\ uncounted = 0 /\ failing = Horizon /\ meddled = Horizon

(* One reconciliation.                                                     *)
Begin == up /\ pc = "idle" /\ due = 0

(* The App resolves to no client; the status is written, or is not.        *)
AppUnavailable ==
    /\ Begin /\ Fails /\ RecordConfigError
    /\ due' = AppRetry \/ due' \in 0..MaxBackoff
    /\ UNCHANGED <<secret, left, gauge, world>>

(* The Secret is not controlled by the Token: an error once the status is  *)
(* written, and an uncounted one when the status cannot be written.        *)
NotOwned ==
    /\ Begin /\ secret = "foreign" /\ due' \in 0..MaxBackoff
    /\ (Fails /\ RecordReconcileError) \/ FailsUncounted
    /\ UNCHANGED <<secret, left, gauge, world>>

(* The Token or the Secret cannot be read: an error nothing counts.        *)
ReadFails ==
    /\ Begin /\ FailsUncounted /\ due' \in 0..MaxBackoff
    /\ UNCHANGED <<secret, left, gauge, world>>

Start ==
    /\ Begin /\ secret # "foreign" /\ pc' = "mint" /\ due' = Nil
    /\ UNCHANGED <<secret, left, gauge, alarm, uncounted, failing, world>>

Mint ==
    /\ pc = "mint" /\ pc' = IF secret = "none" THEN "create" ELSE "update"
    /\ UNCHANGED <<secret, left, due, gauge, alarm, uncounted, failing, world>>

MintFailsTransiently ==
    /\ pc = "mint" /\ Fails /\ RecordReconcileError /\ RequeueAfter(spec.retry)
    /\ UNCHANGED <<secret, left, gauge, world>>

MintFailsFatally ==
    /\ pc = "mint" /\ Fails /\ RecordReconcileError /\ Backoff
    /\ UNCHANGED <<secret, left, gauge, world>>

WriteApplies ==
    /\ \/ pc = "create" /\ secret = "none"
       \/ pc = "update" /\ secret = "own"
    /\ secret' = "own" /\ left' = TokenValidity

WriteSecret ==
    /\ WriteApplies /\ pc' = "status"
    /\ UNCHANGED <<due, gauge, alarm, uncounted, failing, world>>

(* The write is refused, fails, or takes effect without an answer.         *)
WriteFails ==
    /\ pc \in {"create", "update"} /\ (WriteApplies \/ UNCHANGED <<secret, left>>)
    /\ Fails /\ RecordReconcileError /\ Backoff
    /\ UNCHANGED <<gauge, world>>

WriteStatus ==
    /\ pc = "status" /\ pc' = "idle"
    /\ RecordTokenRefresh /\ RecordTokenExpiry /\ RequeueAfter(spec.refresh)
    /\ UNCHANGED <<secret, left, uncounted, failing, world>>

StatusFails ==
    /\ pc = "status" /\ Fails /\ RecordReconcileError /\ Backoff
    /\ UNCHANGED <<secret, left, gauge, world>>

----------------------------------------------------------------------------
(* The world around it.                                                    *)

(* Users edit the intervals: a new generation, and an event.               *)
Edit(s) ==
    /\ spec # s /\ spec' = s /\ due' = IF up THEN 0 ELSE due
    /\ UNCHANGED <<secret, left, up, pc, gauge, alarm, uncounted, failing, meddled>>

(* The App changes, or an entry of the workqueue is older than thought.    *)
AppEvent ==
    /\ up /\ due' = 0
    /\ UNCHANGED <<secret, left, pc, gauge, alarm, uncounted, failing, world>>

(* Somebody deletes the Secret, or puts one of his own in its place; the   *)
(* controller does not watch Secrets.                                      *)
Meddle ==
    /\ secret' = (IF secret = "none" THEN "foreign" ELSE "none")
    /\ left' = 0 /\ meddled' = 0
    /\ UNCHANGED <<spec, up, pc, due, gauge, alarm, uncounted, failing>>

(* The process ends, and with it its workqueue and its metrics.            *)
Crash ==
    /\ up /\ up' = FALSE /\ pc' = "idle" /\ due' = Nil
    /\ gauge' = Nil /\ alarm' = FALSE /\ failing' = 0
    /\ UNCHANGED <<spec, secret, left, uncounted, meddled>>

\* Mutant: the successor waits for an event.
BootIdle ==
    /\ ~ up /\ up' = TRUE
    /\ UNCHANGED <<spec, secret, left, pc, due, gauge, alarm, uncounted, failing, meddled>>

(* Its successor lists the Tokens and enqueues all of them.                *)
Boot ==
    /\ ~ up /\ up' = TRUE /\ due' = 0
    /\ UNCHANGED <<spec, secret, left, pc, gauge, alarm, uncounted, failing, meddled>>

Down(c) == IF c = Nil \/ c = 0 THEN c ELSE c - 1
Watch(s) == IF s < Horizon THEN s + 1 ELSE s

Tick ==
    /\ up => pc = "idle" /\ due # 0
    /\ left' = Down(left) /\ due' = Down(due) /\ gauge' = Down(gauge)
    /\ uncounted' = Down(uncounted)
    /\ failing' = (IF up THEN Watch(failing) ELSE 0) /\ meddled' = Watch(meddled)
    /\ UNCHANGED <<spec, secret, up, pc, alarm>>

----------------------------------------------------------------------------
Reconcile ==
    \/ Start \/ AppUnavailable \/ NotOwned \/ ReadFails \/ Mint
    \/ MintFailsTransiently \/ MintFailsFatally
    \/ WriteSecret \/ WriteFails \/ WriteStatus \/ StatusFails

Next ==
    \/ Reconcile
    \/ \E s \in Spec : Edit(s)
    \/ AppEvent \/ Meddle \/ Crash \/ Boot \/ Tick

Safety == Init /\ [][Next]_vars

(* The workers run, time passes, and an operator that died is restarted.   *)
Live == Safety /\ WF_vars(Reconcile) /\ WF_vars(Tick) /\ WF_vars(Boot)

----------------------------------------------------------------------------
Usable == secret = "own" /\ left > 0

(* The operator waits for the next reconciliation.                         *)
AtRest == up /\ pc = "idle" /\ due # 0

(* Intervals that serve their purpose: the API server accepts others.      *)
Sane == spec.refresh > 0 /\ spec.refresh < TokenValidity /\ spec.retry > 0

Max2(x, y) == IF x > y THEN x ELSE y

(* The longest delay after a failure.                                      *)
Delay == Max2(spec.retry, Max2(AppRetry, MaxBackoff))

(* "Tokens expire in 1 hour and refresh automatically before expiration":  *)
(* the Secret holds valid credentials except for one delay after something *)
(* failed, and one refresh interval after somebody tampered with it, which *)
(* nothing tells the operator of; whatever failed before, in whatever      *)
(* order, and however often the intervals were edited and the operator     *)
(* restarted.  Intervals of zero, or above the validity, are excluded.     *)
FreshUnlessFailing ==
    (AtRest /\ Sane /\ failing >= Delay /\ meddled >= spec.refresh) => Usable

(* Ready stays True when minting fails, but an outage is not silent: when  *)
(* the Token's credentials have run out or are missing, an error has been  *)
(* counted since the last success, the Secret was tampered with lately, or *)
(* a reconciliation ended within the last backoff in one of the errors     *)
(* that are not counted: the Token or its Secret could not be read, or the *)
(* status of a Token whose Secret is another's could not be written.       *)
NoSilentExpiry ==
    (AtRest /\ Sane /\ uncounted = 0 /\ meddled >= Max2(spec.refresh, MaxBackoff))
        => Usable \/ alarm

(* The exported expiry never promises more than the Secret holds, and      *)
(* less only when an error has been counted since.                         *)
GaugeIsHonest ==
    (up /\ pc = "idle" /\ gauge # Nil /\ secret = "own") =>
        gauge = left \/ (alarm /\ gauge < left)

(* When failures and tampering end, the Secret becomes usable for good,    *)
(* whatever state they have left behind, a dead operator included.         *)
Recovers == <>[](Sane /\ failing > 0 /\ meddled > 0) => <>[](Usable \/ due = 0)
=============================================================================
