------------------------- MODULE TokenRefreshProofs -------------------------
(***************************************************************************)
(* Proofs about TokenRefresh, for any intervals, validity and delays:      *)
(* type correctness, that credentials are fresh unless something failed or *)
(* was tampered with lately, that no expiry is silent, and that the gauge  *)
(* of the expiry is honest.                                                *)
(***************************************************************************)
EXTENDS TokenRefresh, TLAPS

(* Within a reconciliation the queue holds the key for at once or not at   *)
(* all; between two, a Token with sane intervals always has a next one.    *)
Phases ==
    /\ ~ up => pc = "idle" /\ gauge = Nil
    /\ pc # "idle" => due \in {0, Nil}
    /\ (AtRest /\ Sane) => due # Nil
    /\ pc = "status" => IF secret = "own" THEN left = TokenValidity ELSE meddled = 0

(* The next reconciliation comes before the credentials run out.           *)
Ahead == secret = "own" /\ due < left /\ due <= spec.refresh

(* Otherwise it comes within one delay of the last failure, or within one  *)
(* interval of the last time somebody touched the Secret.                  *)
InTime ==
    (AtRest /\ Sane) =>
        Ahead \/ due + failing <= Delay \/ due + meddled <= spec.refresh

(* As long as no error is counted, delays are short: what ends them is a   *)
(* success, or a failure that is not counted.                              *)
Grace == Max2(spec.refresh, MaxBackoff)

InTimeOrLoud ==
    (AtRest /\ Sane /\ ~ alarm) =>
        /\ due <= Grace
        /\ Ahead \/ due <= uncounted \/ due + meddled <= Grace

GaugeInTime ==
    (up /\ gauge # Nil /\ secret = "own") =>
        gauge = left \/ (gauge < left /\ (alarm \/ pc = "status"))

IInv == TypeOK /\ Phases /\ InTime /\ InTimeOrLoud /\ GaugeInTime

USE IntervalsAssumption, DelaysAssumption, NilAssumption

----------------------------------------------------------------------------
LEMMA Types ==
    ASSUME TypeOK
    PROVE  /\ spec.refresh \in Nat /\ spec.retry \in Nat /\ left \in Nat
           /\ failing \in Nat /\ meddled \in Nat /\ uncounted \in Nat /\ due \in Nat \cup {Nil}
<1>1. spec.refresh \in Nat /\ spec.retry \in Nat
  BY DEF TypeOK, Spec
<1> QED BY <1>1 DEF TypeOK

(* The maxima, and that steps which keep the intervals keep them.          *)
LEMMA Maxima ==
    ASSUME TypeOK
    PROVE  /\ Delay \in Nat /\ Delay >= spec.retry /\ Delay >= AppRetry /\ Delay >= MaxBackoff
           /\ Grace \in Nat /\ Grace >= spec.refresh /\ Grace >= MaxBackoff
<1>1. spec.retry \in Nat /\ spec.refresh \in Nat /\ AppRetry \in Nat /\ MaxBackoff \in Nat
  BY Types
<1>2. \A x, y \in Nat : Max2(x, y) \in Nat /\ Max2(x, y) >= x /\ Max2(x, y) >= y
  BY DEF Max2
<1>3. Max2(AppRetry, MaxBackoff) \in Nat
  BY <1>1, <1>2
<1>4. /\ Delay \in Nat /\ Delay >= spec.retry /\ Delay >= Max2(AppRetry, MaxBackoff)
      /\ Grace \in Nat /\ Grace >= spec.refresh /\ Grace >= MaxBackoff
  BY <1>1, <1>2, <1>3 DEF Delay, Grace
<1>5. Max2(AppRetry, MaxBackoff) >= AppRetry /\ Max2(AppRetry, MaxBackoff) >= MaxBackoff
  BY <1>1, <1>2
<1> QED BY <1>1, <1>3, <1>4, <1>5

LEMMA SameMaxima ==
    ASSUME UNCHANGED spec
    PROVE  Delay' = Delay /\ Grace' = Grace
BY DEF Delay, Grace

(* Time passes while the operator waits.                                   *)
LEMMA TimePasses ==
    ASSUME IInv, Tick, AtRest', Sane'
    PROVE  /\ AtRest /\ Sane /\ UNCHANGED <<spec, secret, alarm, Delay, Grace>>
           /\ due \in Nat \ {0} /\ due' = due - 1
           /\ failing' \in {failing, failing + 1} /\ meddled' \in {meddled, meddled + 1}
           /\ uncounted' = (IF uncounted = 0 THEN 0 ELSE uncounted - 1)
           /\ Ahead => Ahead'
<1>1. UNCHANGED <<spec, secret, up, pc, alarm>>
  BY DEF Tick
<1>2. up /\ pc = "idle" /\ due # 0 /\ Sane
  BY <1>1 DEF Tick, AtRest, Sane
<1>3. due \in Nat \ {0}
  BY <1>2, Types DEF IInv, Phases, AtRest
<1>4. due' = due - 1
  BY <1>3 DEF Tick, Down
<1>5. failing' \in {failing, failing + 1} /\ meddled' \in {meddled, meddled + 1}
  BY <1>2 DEF Tick, Watch
<1>6. left' = IF left = 0 THEN 0 ELSE left - 1
  BY Types DEF Tick, Down, IInv
<1>7. Ahead => Ahead'
  BY <1>1, <1>3, <1>4, <1>6, Types DEF Ahead, IInv
<1>8. UNCHANGED <<Delay, Grace>>
  BY <1>1, SameMaxima
<1>9. uncounted' = IF uncounted = 0 THEN 0 ELSE uncounted - 1
  BY Types DEF Tick, Down, IInv
<1> QED BY <1>1, <1>2, <1>3, <1>4, <1>5, <1>7, <1>8, <1>9 DEF AtRest

LEMMA AppUnavailableStep ==
    ASSUME IInv, AppUnavailable
    PROVE  IInv'
<1>1. TypeOK'
  BY DEF IInv, TypeOK, PCs, Spec, AppUnavailable, Begin, Fails, RecordConfigError, world
<1>2. Phases'
  BY <1>1 DEF IInv, TypeOK, PCs, Spec, Phases, AtRest, Sane, AppUnavailable, Begin, Fails, RecordConfigError, world
<1>3. InTime'
  BY <1>1, Maxima, SameMaxima DEF IInv, TypeOK, Spec, Phases, InTime, Ahead, AtRest, Sane, AppUnavailable, Begin, Fails, RecordConfigError, world
<1>4. InTimeOrLoud'
  BY <1>1, Maxima, SameMaxima DEF IInv, TypeOK, Spec, Phases, InTimeOrLoud, Ahead, AtRest, Sane, AppUnavailable, Begin, Fails, RecordConfigError, world
<1>5. GaugeInTime'
  BY <1>1 DEF IInv, TypeOK, Phases, GaugeInTime, AppUnavailable, Begin, Fails, RecordConfigError, world
<1> QED BY <1>1, <1>2, <1>3, <1>4, <1>5 DEF IInv

LEMMA NotOwnedStep ==
    ASSUME IInv, NotOwned
    PROVE  IInv'
<1>1. TypeOK'
  <2>1. alarm' \in BOOLEAN
    BY Zenon DEF IInv, TypeOK, NotOwned, RecordReconcileError, FailsUncounted
  <2>2. due' \in Nat /\ failing' \in 0..Horizon /\ pc' = "idle"
    BY DEF NotOwned, Fails, FailsUncounted
  <2>3. uncounted' \in 0..MaxBackoff
    BY DEF IInv, TypeOK, NotOwned, Fails, FailsUncounted
  <2> QED BY <2>1, <2>2, <2>3 DEF IInv, TypeOK, PCs, NotOwned, world
<1>2. Phases'
  BY <1>1 DEF IInv, TypeOK, PCs, Spec, Phases, AtRest, Sane, NotOwned, Begin, Fails, FailsUncounted, RecordReconcileError, world
<1>3. InTime'
  BY <1>1, Maxima, SameMaxima DEF IInv, TypeOK, Spec, Phases, InTime, Ahead, AtRest, Sane, NotOwned, Begin, Fails, FailsUncounted, RecordReconcileError, world
<1>4. InTimeOrLoud'
  BY <1>1, Maxima, SameMaxima DEF IInv, TypeOK, Spec, Phases, InTimeOrLoud, Ahead, AtRest, Sane, NotOwned, Begin, Fails, FailsUncounted, RecordReconcileError, world
<1>5. GaugeInTime'
  BY <1>1 DEF IInv, TypeOK, Phases, GaugeInTime, NotOwned, Begin, Fails, FailsUncounted, RecordReconcileError, world
<1> QED BY <1>1, <1>2, <1>3, <1>4, <1>5 DEF IInv

LEMMA ReadFailsStep ==
    ASSUME IInv, ReadFails
    PROVE  IInv'
<1>1. TypeOK'
  <2>1. due' \in Nat /\ failing' \in 0..Horizon /\ uncounted' \in 0..MaxBackoff
    BY DEF ReadFails, FailsUncounted
  <2> QED BY <2>1 DEF IInv, TypeOK, PCs, ReadFails, FailsUncounted, world
<1>2. Phases'
  BY <1>1 DEF IInv, TypeOK, PCs, Spec, Phases, AtRest, Sane, ReadFails, Begin, FailsUncounted, world
<1>3. InTime'
  BY <1>1, Maxima, SameMaxima DEF IInv, TypeOK, Spec, Phases, InTime, Ahead, AtRest, Sane, ReadFails, Begin, FailsUncounted, world
<1>4. InTimeOrLoud'
  BY <1>1, Maxima, SameMaxima DEF IInv, TypeOK, Spec, Phases, InTimeOrLoud, Ahead, AtRest, Sane, ReadFails, Begin, FailsUncounted, world
<1>5. GaugeInTime'
  BY <1>1 DEF IInv, TypeOK, Phases, GaugeInTime, ReadFails, Begin, FailsUncounted, world
<1> QED BY <1>1, <1>2, <1>3, <1>4, <1>5 DEF IInv

LEMMA StartStep ==
    ASSUME IInv, Start
    PROVE  IInv'
<1>1. TypeOK'
  BY DEF IInv, TypeOK, PCs, Spec, Start, Begin, world
<1>2. Phases'
  BY <1>1 DEF IInv, TypeOK, PCs, Spec, Phases, AtRest, Sane, Start, Begin, world
<1>3. InTime'
  BY <1>1, Maxima, SameMaxima DEF IInv, TypeOK, Spec, Phases, InTime, Ahead, AtRest, Sane, Start, Begin, world
<1>4. InTimeOrLoud'
  BY <1>1, Maxima, SameMaxima DEF IInv, TypeOK, Spec, Phases, InTimeOrLoud, Ahead, AtRest, Sane, Start, Begin, world
<1>5. GaugeInTime'
  BY <1>1 DEF IInv, TypeOK, Phases, GaugeInTime, Start, Begin, world
<1> QED BY <1>1, <1>2, <1>3, <1>4, <1>5 DEF IInv

LEMMA MintStep ==
    ASSUME IInv, Mint
    PROVE  IInv'
<1>1. TypeOK'
  BY DEF IInv, TypeOK, PCs, Spec, Mint, world
<1>2. Phases'
  BY <1>1 DEF IInv, TypeOK, PCs, Spec, Phases, AtRest, Sane, Mint, world
<1>3. InTime'
  BY <1>1, Maxima, SameMaxima DEF IInv, TypeOK, Spec, Phases, InTime, Ahead, AtRest, Sane, Mint, world
<1>4. InTimeOrLoud'
  BY <1>1, Maxima, SameMaxima DEF IInv, TypeOK, Spec, Phases, InTimeOrLoud, Ahead, AtRest, Sane, Mint, world
<1>5. GaugeInTime'
  BY <1>1 DEF IInv, TypeOK, Phases, GaugeInTime, Mint, world
<1> QED BY <1>1, <1>2, <1>3, <1>4, <1>5 DEF IInv

LEMMA MintFailsTransientlyStep ==
    ASSUME IInv, MintFailsTransiently
    PROVE  IInv'
<1>1. TypeOK'
  BY DEF IInv, TypeOK, PCs, Spec, MintFailsTransiently, Fails, RecordReconcileError, RequeueAfter, Earliest, world
<1>2. Phases'
  BY <1>1 DEF IInv, TypeOK, PCs, Spec, Phases, AtRest, Sane, MintFailsTransiently, Fails, RecordReconcileError, RequeueAfter, Earliest, world
<1>3. InTime'
  BY <1>1, Maxima, SameMaxima DEF IInv, TypeOK, Spec, Phases, InTime, Ahead, AtRest, Sane, MintFailsTransiently, Fails, RecordReconcileError, RequeueAfter, Earliest, world
<1>4. InTimeOrLoud'
  BY <1>1, Maxima, SameMaxima DEF IInv, TypeOK, Spec, Phases, InTimeOrLoud, Ahead, AtRest, Sane, MintFailsTransiently, Fails, RecordReconcileError, RequeueAfter, Earliest, world
<1>5. GaugeInTime'
  BY <1>1 DEF IInv, TypeOK, Phases, GaugeInTime, MintFailsTransiently, Fails, RecordReconcileError, RequeueAfter, Earliest, world
<1> QED BY <1>1, <1>2, <1>3, <1>4, <1>5 DEF IInv

LEMMA MintFailsFatallyStep ==
    ASSUME IInv, MintFailsFatally
    PROVE  IInv'
<1>1. TypeOK'
  BY DEF IInv, TypeOK, PCs, Spec, MintFailsFatally, Fails, RecordReconcileError, Backoff, Earliest, world
<1>2. Phases'
  BY <1>1 DEF IInv, TypeOK, PCs, Spec, Phases, AtRest, Sane, MintFailsFatally, Fails, RecordReconcileError, Backoff, Earliest, world
<1>3. InTime'
  BY <1>1, Maxima, SameMaxima DEF IInv, TypeOK, Spec, Phases, InTime, Ahead, AtRest, Sane, MintFailsFatally, Fails, RecordReconcileError, Backoff, Earliest, world
<1>4. InTimeOrLoud'
  BY <1>1, Maxima, SameMaxima DEF IInv, TypeOK, Spec, Phases, InTimeOrLoud, Ahead, AtRest, Sane, MintFailsFatally, Fails, RecordReconcileError, Backoff, Earliest, world
<1>5. GaugeInTime'
  BY <1>1 DEF IInv, TypeOK, Phases, GaugeInTime, MintFailsFatally, Fails, RecordReconcileError, Backoff, Earliest, world
<1> QED BY <1>1, <1>2, <1>3, <1>4, <1>5 DEF IInv

LEMMA WriteSecretStep ==
    ASSUME IInv, WriteSecret
    PROVE  IInv'
<1>1. TypeOK'
  BY DEF IInv, TypeOK, PCs, Spec, WriteSecret, WriteApplies, world
<1>2. Phases'
  BY <1>1 DEF IInv, TypeOK, PCs, Spec, Phases, AtRest, Sane, WriteSecret, WriteApplies, world
<1>3. InTime'
  BY <1>1, Maxima, SameMaxima DEF IInv, TypeOK, Spec, Phases, InTime, Ahead, AtRest, Sane, WriteSecret, WriteApplies, world
<1>4. InTimeOrLoud'
  BY <1>1, Maxima, SameMaxima DEF IInv, TypeOK, Spec, Phases, InTimeOrLoud, Ahead, AtRest, Sane, WriteSecret, WriteApplies, world
<1>5. GaugeInTime'
  BY <1>1 DEF IInv, TypeOK, Phases, GaugeInTime, WriteSecret, WriteApplies, world
<1> QED BY <1>1, <1>2, <1>3, <1>4, <1>5 DEF IInv

LEMMA WriteFailsStep ==
    ASSUME IInv, WriteFails
    PROVE  IInv'
<1>1. TypeOK'
  BY DEF IInv, TypeOK, PCs, Spec, WriteFails, WriteApplies, Fails, RecordReconcileError, Backoff, Earliest, world
<1>2. Phases'
  BY <1>1 DEF IInv, TypeOK, PCs, Spec, Phases, AtRest, Sane, WriteFails, WriteApplies, Fails, RecordReconcileError, Backoff, Earliest, world
<1>3. InTime'
  BY <1>1, Maxima, SameMaxima DEF IInv, TypeOK, Spec, Phases, InTime, Ahead, AtRest, Sane, WriteFails, WriteApplies, Fails, RecordReconcileError, Backoff, Earliest, world
<1>4. InTimeOrLoud'
  BY <1>1, Maxima, SameMaxima DEF IInv, TypeOK, Spec, Phases, InTimeOrLoud, Ahead, AtRest, Sane, WriteFails, WriteApplies, Fails, RecordReconcileError, Backoff, Earliest, world
<1>5. GaugeInTime'
  BY <1>1 DEF IInv, TypeOK, Phases, GaugeInTime, WriteFails, WriteApplies, Fails, RecordReconcileError, Backoff, Earliest, world
<1> QED BY <1>1, <1>2, <1>3, <1>4, <1>5 DEF IInv

LEMMA WriteStatusStep ==
    ASSUME IInv, WriteStatus
    PROVE  IInv'
<1>1. TypeOK'
  <2>1. spec.refresh \in Nat
    BY DEF IInv, TypeOK, Spec
  <2>2. due' \in Nat \cup {Nil}
    BY <2>1 DEF IInv, TypeOK, WriteStatus, RequeueAfter, Earliest
  <2>3. alarm' \in BOOLEAN /\ pc' \in PCs
    BY DEF WriteStatus, RecordTokenRefresh, PCs
  <2>4. gauge' \in 0..TokenValidity
    BY DEF WriteStatus, RecordTokenExpiry
  <2> QED BY <2>2, <2>3, <2>4 DEF IInv, TypeOK, WriteStatus, world
<1>2. Phases'
  BY <1>1 DEF IInv, TypeOK, PCs, Spec, Phases, AtRest, Sane, WriteStatus, RecordTokenRefresh, RecordTokenExpiry, RequeueAfter, Earliest, world
<1>3. InTime'
  BY <1>1, Maxima, SameMaxima DEF IInv, TypeOK, Spec, Phases, InTime, Ahead, AtRest, Sane, WriteStatus, RecordTokenRefresh, RecordTokenExpiry, RequeueAfter, Earliest, world
<1>4. InTimeOrLoud'
  BY <1>1, Maxima, SameMaxima DEF IInv, TypeOK, Spec, Phases, InTimeOrLoud, Ahead, AtRest, Sane, WriteStatus, RecordTokenRefresh, RecordTokenExpiry, RequeueAfter, Earliest, world
<1>5. GaugeInTime'
  BY <1>1 DEF IInv, TypeOK, Phases, GaugeInTime, WriteStatus, RecordTokenRefresh, RecordTokenExpiry, RequeueAfter, Earliest, world
<1> QED BY <1>1, <1>2, <1>3, <1>4, <1>5 DEF IInv

LEMMA StatusFailsStep ==
    ASSUME IInv, StatusFails
    PROVE  IInv'
<1>1. TypeOK'
  BY DEF IInv, TypeOK, PCs, Spec, StatusFails, Fails, RecordReconcileError, Backoff, Earliest, world
<1>2. Phases'
  BY <1>1 DEF IInv, TypeOK, PCs, Spec, Phases, AtRest, Sane, StatusFails, Fails, RecordReconcileError, Backoff, Earliest, world
<1>3. InTime'
  BY <1>1, Maxima, SameMaxima DEF IInv, TypeOK, Spec, Phases, InTime, Ahead, AtRest, Sane, StatusFails, Fails, RecordReconcileError, Backoff, Earliest, world
<1>4. InTimeOrLoud'
  BY <1>1, Maxima, SameMaxima DEF IInv, TypeOK, Spec, Phases, InTimeOrLoud, Ahead, AtRest, Sane, StatusFails, Fails, RecordReconcileError, Backoff, Earliest, world
<1>5. GaugeInTime'
  BY <1>1 DEF IInv, TypeOK, Phases, GaugeInTime, StatusFails, Fails, RecordReconcileError, Backoff, Earliest, world
<1> QED BY <1>1, <1>2, <1>3, <1>4, <1>5 DEF IInv

LEMMA AppEventStep ==
    ASSUME IInv, AppEvent
    PROVE  IInv'
<1>1. TypeOK'
  BY DEF IInv, TypeOK, PCs, Spec, AppEvent, world
<1>2. Phases'
  BY <1>1 DEF IInv, TypeOK, PCs, Spec, Phases, AtRest, Sane, AppEvent, world
<1>3. InTime'
  BY <1>1, Maxima, SameMaxima DEF IInv, TypeOK, Spec, Phases, InTime, Ahead, AtRest, Sane, AppEvent, world
<1>4. InTimeOrLoud'
  BY <1>1, Maxima, SameMaxima DEF IInv, TypeOK, Spec, Phases, InTimeOrLoud, Ahead, AtRest, Sane, AppEvent, world
<1>5. GaugeInTime'
  BY <1>1 DEF IInv, TypeOK, Phases, GaugeInTime, AppEvent, world
<1> QED BY <1>1, <1>2, <1>3, <1>4, <1>5 DEF IInv

LEMMA MeddleStep ==
    ASSUME IInv, Meddle
    PROVE  IInv'
<1>1. TypeOK'
  BY DEF IInv, TypeOK, PCs, Spec, Meddle, world
<1>2. Phases'
  BY <1>1 DEF IInv, TypeOK, PCs, Spec, Phases, AtRest, Sane, Meddle, world
<1>3. InTime'
  <2> SUFFICES ASSUME AtRest', Sane'
               PROVE  due' + failing' <= Delay' \/ due' + meddled' <= spec'.refresh
    BY DEF InTime
  <2>0. AtRest /\ Sane /\ meddled' = 0 /\ UNCHANGED <<spec, due, failing>>
    BY DEF Meddle, AtRest, Sane
  <2>1. due \in Nat /\ meddled \in Nat /\ spec.refresh \in Nat
    BY <2>0, Types DEF IInv, Phases
  <2>2. Delay' = Delay
    BY <2>0, SameMaxima
  <2>3. Ahead \/ due + failing <= Delay \/ due + meddled <= spec.refresh
    BY <2>0 DEF IInv, InTime
  <2> QED BY <2>0, <2>1, <2>2, <2>3 DEF Ahead
<1>4. InTimeOrLoud'
  BY <1>1, Maxima, SameMaxima DEF IInv, TypeOK, Spec, Phases, InTimeOrLoud, Ahead, AtRest, Sane, Meddle, world
<1>5. GaugeInTime'
  BY <1>1 DEF IInv, TypeOK, Phases, GaugeInTime, Meddle, world
<1> QED BY <1>1, <1>2, <1>3, <1>4, <1>5 DEF IInv

LEMMA CrashStep ==
    ASSUME IInv, Crash
    PROVE  IInv'
<1>1. TypeOK'
  <2>1. due' \in Nat \cup {Nil} /\ gauge' \in 0..TokenValidity \cup {Nil} /\ failing' \in 0..Horizon
    BY DEF Crash
  <2> QED BY <2>1 DEF IInv, TypeOK, PCs, Crash
<1>2. Phases'
  BY <1>1 DEF IInv, TypeOK, PCs, Spec, Phases, AtRest, Sane, Crash, world
<1>3. InTime'
  BY <1>1, Maxima, SameMaxima DEF IInv, TypeOK, Spec, Phases, InTime, Ahead, AtRest, Sane, Crash, world
<1>4. InTimeOrLoud'
  BY <1>1, Maxima, SameMaxima DEF IInv, TypeOK, Spec, Phases, InTimeOrLoud, Ahead, AtRest, Sane, Crash, world
<1>5. GaugeInTime'
  BY <1>1 DEF IInv, TypeOK, Phases, GaugeInTime, Crash, world
<1> QED BY <1>1, <1>2, <1>3, <1>4, <1>5 DEF IInv

LEMMA BootStep ==
    ASSUME IInv, Boot
    PROVE  IInv'
<1>1. TypeOK'
  BY DEF IInv, TypeOK, PCs, Spec, Boot, world
<1>2. Phases'
  BY <1>1 DEF IInv, TypeOK, PCs, Spec, Phases, AtRest, Sane, Boot, world
<1>3. InTime'
  BY <1>1, Maxima, SameMaxima DEF IInv, TypeOK, Spec, Phases, InTime, Ahead, AtRest, Sane, Boot, world
<1>4. InTimeOrLoud'
  BY <1>1, Maxima, SameMaxima DEF IInv, TypeOK, Spec, Phases, InTimeOrLoud, Ahead, AtRest, Sane, Boot, world
<1>5. GaugeInTime'
  BY <1>1 DEF IInv, TypeOK, Phases, GaugeInTime, Boot, world
<1> QED BY <1>1, <1>2, <1>3, <1>4, <1>5 DEF IInv

LEMMA TickStep ==
    ASSUME IInv, Tick
    PROVE  IInv'
<1>1. TypeOK'
  BY DEF IInv, TypeOK, PCs, Spec, Tick, Down, Watch, world
<1>2. Phases'
  BY <1>1 DEF IInv, TypeOK, PCs, Spec, Phases, AtRest, Sane, Tick, Down, Watch, world
<1>3. InTime'
  <2> SUFFICES ASSUME AtRest', Sane'
               PROVE  Ahead' \/ due' + failing' <= Delay' \/ due' + meddled' <= spec'.refresh
    BY DEF InTime
  <2>1. Ahead \/ due + failing <= Delay \/ due + meddled <= spec.refresh
    BY TimePasses DEF IInv, InTime
  <2> QED BY <2>1, TimePasses, Types, Maxima DEF IInv
<1>4. InTimeOrLoud'
  <2> SUFFICES ASSUME AtRest', Sane', ~ alarm'
               PROVE  due' <= Grace' /\ (Ahead' \/ due' <= uncounted' \/ due' + meddled' <= Grace')
    BY DEF InTimeOrLoud
  <2>1. due <= Grace /\ (Ahead \/ due <= uncounted \/ due + meddled <= Grace)
    BY TimePasses DEF IInv, InTimeOrLoud
  <2> QED BY <2>1, TimePasses, Types, Maxima DEF IInv
<1>5. GaugeInTime'
  BY <1>1 DEF IInv, TypeOK, Phases, GaugeInTime, Tick, Down, Watch, world
<1> QED BY <1>1, <1>2, <1>3, <1>4, <1>5 DEF IInv

LEMMA EditStep ==
    ASSUME IInv, NEW s \in Spec, Edit(s)
    PROVE  IInv'
<1>1. TypeOK'
  BY DEF IInv, TypeOK, PCs, Spec, Edit, world
<1>2. Phases'
  BY <1>1 DEF IInv, TypeOK, PCs, Spec, Phases, AtRest, Sane, Edit, world
<1>3. InTime'
  BY <1>1, Maxima, SameMaxima DEF IInv, TypeOK, Spec, Phases, InTime, Ahead, AtRest, Sane, Edit, world
<1>4. InTimeOrLoud'
  BY <1>1, Maxima, SameMaxima DEF IInv, TypeOK, Spec, Phases, InTimeOrLoud, Ahead, AtRest, Sane, Edit, world
<1>5. GaugeInTime'
  BY <1>1 DEF IInv, TypeOK, Phases, GaugeInTime, Edit, world
<1> QED BY <1>1, <1>2, <1>3, <1>4, <1>5 DEF IInv

----------------------------------------------------------------------------
LEMMA InitInv ==
    ASSUME Init
    PROVE  IInv
<1>1. TypeOK
  <2>1. /\ left \in 0..TokenValidity /\ uncounted \in 0..MaxBackoff
        /\ failing \in 0..Horizon /\ meddled \in 0..Horizon
    BY DEF Init
  <2> QED BY <2>1 DEF Init, TypeOK, PCs
<1>2. Phases /\ InTime /\ InTimeOrLoud /\ GaugeInTime
  BY DEF Init, Phases, InTime, InTimeOrLoud, GaugeInTime, AtRest
<1> QED BY <1>1, <1>2 DEF IInv

LEMMA NextInv ==
    ASSUME IInv, [Next]_vars
    PROVE  IInv'
<1>1. CASE Reconcile
  BY <1>1, AppUnavailableStep, NotOwnedStep, ReadFailsStep, StartStep, MintStep,
     MintFailsTransientlyStep, MintFailsFatallyStep, WriteSecretStep,
     WriteFailsStep, WriteStatusStep, StatusFailsStep DEF Reconcile
<1>2. CASE \E s \in Spec : Edit(s)
  BY <1>2, EditStep
<1>3. CASE AppEvent \/ Meddle \/ Crash \/ Boot \/ Tick
  BY <1>3, AppEventStep, MeddleStep, CrashStep, BootStep, TickStep
<1>4. CASE UNCHANGED vars
  BY <1>4 DEF vars, IInv, TypeOK, Phases, InTime, InTimeOrLoud, GaugeInTime,
              Ahead, Grace, AtRest, Sane, Delay, Max2
<1> QED BY <1>1, <1>2, <1>3, <1>4 DEF Next

(* The intervals, the phases of Reconcile and what is due fit together in  *)
(* every reachable state: the inductive invariant the others follow from.  *)
THEOREM Invariance == Safety => []IInv
<1>1. Init => IInv
  BY InitInv
<1>2. IInv /\ [Next]_vars => IInv'
  BY NextInv
<1> QED BY <1>1, <1>2, PTL DEF Safety

(* Type correctness of the timed model, whatever the intervals, the        *)
(* validity and the delays are.                                            *)
THEOREM TypeCorrect == Safety => []TypeOK
<1>1. IInv => TypeOK
  BY DEF IInv
<1> QED BY <1>1, Invariance, PTL

(* Intervals below the validity keep the Secret's credentials valid but    *)
(* for one delay after a failure and one interval after tampering: the     *)
(* RequeueAfter of every path of Reconcile is what it takes.               *)
THEOREM CredentialsAreFresh == Safety => []FreshUnlessFailing
<1>1. IInv => FreshUnlessFailing
  <2> SUFFICES ASSUME IInv, AtRest, Sane, failing >= Delay, meddled >= spec.refresh
               PROVE  Usable
    BY DEF FreshUnlessFailing
  <2>1. due \in Nat \ {0}
    BY Types DEF IInv, Phases, AtRest
  <2>2. Ahead \/ due + failing <= Delay \/ due + meddled <= spec.refresh
    BY DEF IInv, InTime
  <2>3. Ahead
    BY <2>1, <2>2, Types, Maxima DEF IInv
  <2> QED BY <2>1, <2>3, Types DEF IInv, Ahead, Usable
<1> QED BY <1>1, Invariance, PTL

(* Credentials that have run out, or are missing, show in the counters of  *)
(* errors, unless a reconciliation ended within the last backoff in one of *)
(* the errors that are not counted: each other path that fails to refresh  *)
(* them counts an error, and each that does not count one is soon retried. *)
THEOREM ExpiryIsNotSilent == Safety => []NoSilentExpiry
<1>1. IInv => NoSilentExpiry
  <2> SUFFICES ASSUME IInv, AtRest, Sane, uncounted = 0, ~ alarm,
                      meddled >= Grace
               PROVE  Usable
    BY DEF NoSilentExpiry, Grace
  <2>1. due \in Nat \ {0}
    BY Types DEF IInv, Phases, AtRest
  <2>2. Ahead \/ due <= uncounted \/ due + meddled <= Grace
    BY DEF IInv, InTimeOrLoud
  <2>3. Ahead
    BY <2>1, <2>2, Types, Maxima DEF IInv
  <2> QED BY <2>1, <2>3, Types DEF IInv, Ahead, Usable
<1> QED BY <1>1, Invariance, PTL

(* The exported expiry is that of the Secret, or an error tells why not.   *)
THEOREM ExpiryGaugeIsHonest == Safety => []GaugeIsHonest
<1>1. IInv => GaugeIsHonest
  BY DEF IInv, GaugeInTime, GaugeIsHonest
<1> QED BY <1>1, Invariance, PTL
=============================================================================
