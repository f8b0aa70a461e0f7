------------------------- MODULE UserBudgetDO_proofs -------------------------
(***************************************************************************)
(* Theorems about UserBudgetDO, for every set of entities, requests and    *)
(* sessions, every setting and every bound: its types, that it implements  *)
(* ReservationLifecycle, and the two guards that outlive a call, the alarm *)
(* that covers every reservation and the velocity breaker.                 *)
(***************************************************************************)
EXTENDS UserBudgetDO, FiniteSetTheorems, TLAPS

-----------------------------------------------------------------------------
(* The velocity rows.                                                       *)

LEMMA WindowStart ==
  ASSUME NEW t \in Nat, NEW w \in Nat \ {0}
  PROVE  /\ t - (t % w) \in Nat
         /\ t - (t % w) <= t
  OBVIOUS

LEMMA VelocityRows ==
  ASSUME NEW vs \in VelocityState, NEW w \in Nat \ {0}, NEW cooldown \in Nat,
         NEW est \in Nat, NEW t \in Nat
  PROVE  /\ FreshRow(w, t) \in VelocityState
         /\ Rotate(vs, w, t) \in VelocityState
         /\ Touched(vs, w, cooldown, t) \in VelocityState
         /\ Incremented(vs, w, cooldown, est, t) \in VelocityState
<1>1. t - (t % w) \in Nat
  BY WindowStart
<1>2. \A n \in Nat : FreshRow(n, t) \in VelocityState
  BY DEF FreshRow, VelocityState
<1>3. Rotate(vs, w, t) \in VelocityState
  BY <1>1 DEF Rotate, VelocityState
<1>4. Touched(vs, w, cooldown, t) \in VelocityState
  BY <1>2 DEF Touched, VelocityState
<1>5. \A v \in VelocityState : [v EXCEPT !.curr = @ + est] \in VelocityState
  BY DEF VelocityState
<1>6. Incremented(vs, w, cooldown, est, t) \in VelocityState
  BY <1>3, <1>4, <1>5 DEF Incremented
<1> QED
  BY <1>2, <1>3, <1>4, <1>6

-----------------------------------------------------------------------------
(* Sums of reservation amounts, as cardinalities of sets of units.           *)

LEMMA UnitsFinite ==
  ASSUME NEW t \in [Request -> Reservation], NEW X \in SUBSET Request, NEW e
  PROVE  IsFiniteSet(Units(t, X, e)) /\ Held(t, X, e) \in Nat
<1> DEFINE Y == {x \in X : e \in t[x].keys}
           F == [r \in Y |-> UnitsOf(t, r)]
           S == {UnitsOf(t, r) : r \in Y}
<1>1. IsFiniteSet(Y)
  BY FS_Subset, TablesAssumption
<1>2. F \in Surjection(Y, S)
  BY DEF Surjection
<1>3. IsFiniteSet(S)
  BY <1>1, <1>2, FS_Surjection
<1>4. ASSUME NEW r \in Y
      PROVE  IsFiniteSet(UnitsOf(t, r))
  <2>1. t[r].amount \in Int
    BY DEF Reservation
  <2>2. IsFiniteSet(1..t[r].amount)
    BY <2>1, FS_Interval
  <2>3. IsFiniteSet({r})
    BY FS_Singleton
  <2> QED
    BY <2>2, <2>3, FS_Product DEF UnitsOf
<1>5. IsFiniteSet(UNION S)
  BY <1>3, <1>4, FS_UNION
<1> QED
  BY <1>5, FS_CardinalityType DEF Units, Held

LEMMA UnitsIn ==
  ASSUME NEW t, NEW X, NEW e, NEW u
  PROVE  u \in Units(t, X, e) <=>
           \E r \in X : e \in t[r].keys /\ u \in {r} \X (1..t[r].amount)
  BY DEF Units, UnitsOf

\* Disjoint sets of reservations hold the sum of what each holds.
LEMMA HeldSplit ==
  ASSUME NEW t \in [Request -> Reservation], NEW e,
         NEW X \in SUBSET Request, NEW Y \in SUBSET Request, X \cap Y = {}
  PROVE  Held(t, X \cup Y, e) = Held(t, X, e) + Held(t, Y, e)
<1>1. IsFiniteSet(Units(t, X, e)) /\ IsFiniteSet(Units(t, Y, e))
  BY UnitsFinite
<1>2. Units(t, X \cup Y, e) = Units(t, X, e) \cup Units(t, Y, e)
  BY UnitsIn
<1>3. Units(t, X, e) \cap Units(t, Y, e) = {}
  BY UnitsIn
<1>4. Cardinality(Units(t, X, e) \cap Units(t, Y, e)) = 0
  BY <1>3, FS_EmptySet
<1>5. Held(t, X, e) \in Nat /\ Held(t, Y, e) \in Nat
  BY UnitsFinite
<1>6. Cardinality(Units(t, X, e) \cup Units(t, Y, e))
        = Cardinality(Units(t, X, e)) + Cardinality(Units(t, Y, e))
            - Cardinality(Units(t, X, e) \cap Units(t, Y, e))
  BY <1>1, FS_Union
<1>7. Held(t, X \cup Y, e) = Cardinality(Units(t, X, e) \cup Units(t, Y, e))
  BY <1>2 DEF Held
<1>8. Held(t, X \cup Y, e) = Held(t, X, e) + Held(t, Y, e) - 0
  BY <1>4, <1>6, <1>7 DEF Held
<1> QED
  BY <1>5, <1>8

\* Reservations that do not cover e hold nothing on it.
LEMMA HeldNone ==
  ASSUME NEW t, NEW X, NEW e, \A r \in X : e \notin t[r].keys
  PROVE  Held(t, X, e) = 0
<1>1. Units(t, X, e) = {}
  BY UnitsIn
<1>2. Cardinality({}) = 0
  BY FS_EmptySet
<1> QED
  BY <1>1, <1>2 DEF Held

\* Rows that are the same in two tables hold the same in both.
LEMMA HeldSame ==
  ASSUME NEW t, NEW u, NEW X, NEW e, \A r \in X : t[r] = u[r]
  PROVE  Held(t, X, e) = Held(u, X, e)
<1>1. \A v : v \in Units(t, X, e) <=> v \in Units(u, X, e)
  BY UnitsIn
<1>2. Units(t, X, e) = Units(u, X, e)
  BY <1>1
<1> QED
  BY <1>2 DEF Held

\* One reservation holds its amount on every entity it covers.
LEMMA HeldOne ==
  ASSUME NEW t \in [Request -> Reservation], NEW r \in Request, NEW e
  PROVE  Held(t, {r}, e) = IF e \in t[r].keys THEN t[r].amount ELSE 0
<1>1. CASE e \notin t[r].keys
  BY <1>1, HeldNone
<1>2. CASE e \in t[r].keys
  <2>1. t[r].amount \in Nat
    BY DEF Reservation
  <2>2. Units(t, {r}, e) = {r} \X (1..t[r].amount)
    BY <1>2 DEF Units, UnitsOf
  <2>3. IsFiniteSet(1..t[r].amount) /\ Cardinality(1..t[r].amount) = t[r].amount
    BY <2>1, FS_Interval
  <2>4. IsFiniteSet({r}) /\ Cardinality({r}) = 1
    BY FS_Singleton
  <2>5. Cardinality({r} \X (1..t[r].amount)) = Cardinality({r}) * Cardinality(1..t[r].amount)
    BY <2>3, <2>4, FS_Product
  <2>6. Cardinality({r} \X (1..t[r].amount)) = t[r].amount
    BY <2>1, <2>3, <2>4, <2>5
  <2> QED
    BY <1>2, <2>2, <2>6 DEF Held
<1> QED
  BY <1>1, <1>2

-----------------------------------------------------------------------------
(* Type correctness.                                                         *)

LEMMA SubtractType ==
  ASSUME NEW a \in Nat, NEW b \in Nat
  PROVE  Minus0(a, b) \in Nat
  BY DEF Minus0

LEMMA PeriodStartType ==
  ASSUME NEW i \in Nat \ {0}, NEW p \in Nat, NEW t \in Nat
  PROVE  CurrentPeriodStart(i, p, t) \in Nat
<1>1. CASE ~(p + i <= t)
  BY <1>1 DEF CurrentPeriodStart
<1>2. CASE p + i <= t
  <2>1. (t - p) \div i \in Nat
    BY <1>2
  <2>2. i * ((t - p) \div i) \in Nat
    BY <2>1
  <2> QED
    BY <1>2, <2>2 DEF CurrentPeriodStart
<1> QED
  BY <1>1, <1>2

LEMMA EmptyRows ==
  /\ NoReservation \in Reservation
  /\ NoOutbox \in OutboxRow
  /\ NoSessionRow \in SessionRow
  /\ NoVelocityRow \in VelocityState
  /\ Idle \in Job
  /\ SomeConfig \in Config
<1>1. SomeConfig \in Config
  BY ConfigsAssumption DEF SomeConfig
<1> QED
  BY <1>1 DEF NoReservation, Reservation, NoOutbox, OutboxRow, NoSessionRow, SessionRow,
              NoVelocityRow, VelocityState, Idle, Job

LEMMA InitType == Init => TypeOK
  BY EmptyRows DEF Init, TypeOK

LEMMA FreedType ==
  ASSUME TypeOK, NEW X
  PROVE  Freed(X) \in [Request -> Reservation]
  BY EmptyRows DEF Freed, TypeOK

LEMMA EarlierAlarmType ==
  ASSUME TypeOK, NEW t \in Nat
  PROVE  EarlierAlarm(t) \in Nat
  BY DEF EarlierAlarm, TypeOK


\* What every outcome of checkAndReserve does to the rows' periods.
LEMMA ResetPeriodsType ==
  ASSUME TypeOK, NEW rows, ResetPeriods(rows)
  PROVE  /\ budgets' \in SUBSET Entity
         /\ config' \in [Entity -> Config]
         /\ spend' \in [Entity -> Nat]
         /\ periodStart' \in [Entity -> Nat]
         /\ \A e \in Entity : ReservedNow(rows, e) \in Nat
<1>1. ASSUME NEW e \in Entity, PeriodOver(e)
      PROVE  CurrentPeriodStart(config[e].interval, periodStart[e], now) \in Nat
  <2>1. config[e].interval \in Nat \ {0} /\ periodStart[e] \in Nat /\ now \in Nat
    BY <1>1 DEF PeriodOver, TypeOK, Config
  <2> QED
    BY <2>1, PeriodStartType
<1>2. periodStart' \in [Entity -> Nat]
  BY <1>1 DEF ResetPeriods, TypeOK
<1>3. spend' \in [Entity -> Nat]
  BY DEF ResetPeriods, SpendNow, TypeOK
<1> QED
  BY <1>2, <1>3 DEF ResetPeriods, ReservedNow, TypeOK

LEMMA TouchedRowType ==
  ASSUME TypeOK, NEW e \in Entity
  PROVE  TouchedRow(e) \in VelocityState /\ TrippedRow(e) \in VelocityState
<1>1. /\ vel[e] \in VelocityState /\ now \in Nat
      /\ config[e].window \in Nat \ {0} /\ config[e].cooldown \in Nat
  BY DEF TypeOK, Config
<1>2. Touched(vel[e], config[e].window, config[e].cooldown, now) \in VelocityState
  <2>1. 0 \in Nat
    OBVIOUS
  <2> QED
    BY <1>1, <2>1, VelocityRows
<1>3. [vel[e] EXCEPT !.tripped = now] \in VelocityState
  BY <1>1 DEF VelocityState
<1> QED
  BY <1>1, <1>2, <1>3 DEF TouchedRow, TrippedRow

LEMMA DeniedType ==
  ASSUME TypeOK, NEW rows, Denied(rows), vel' \in [Entity -> VelocityState]
  PROVE  TypeOK'
<1>1. ResetPeriods(rows)
  BY DEF Denied
<1> QED
  BY <1>1, ResetPeriodsType DEF Denied, TypeOK

LEMMA ReserveType ==
  ASSUME TypeOK, NEW r \in Request, NEW rows \in SUBSET Entity, rows # {},
         NEW s \in Session \cup {NoSession},
         NEW est \in Estimates, NEW org \in OrgFlags, Reserve(r, rows, s, est, org)
  PROVE  TypeOK'
<1>1. est \in Nat /\ org \in BOOLEAN /\ now + TTL \in Nat
  BY NumbersAssumption, TablesAssumption DEF TypeOK
<1>2. /\ budgets' \in SUBSET Entity /\ config' \in [Entity -> Config]
      /\ spend' \in [Entity -> Nat] /\ periodStart' \in [Entity -> Nat]
      /\ \A e \in Entity : ReservedNow(rows, e) \in Nat
  <2>1. ResetPeriods(rows)
    BY DEF Reserve
  <2> QED
    BY <2>1, ResetPeriodsType
<1>3. reserved' \in [Entity -> Nat]
  BY <1>1, <1>2 DEF Reserve
<1>4. vel' \in [Entity -> VelocityState]
  <2>1. ASSUME NEW e \in Entity
        PROVE  Incremented(vel[e], config[e].window, config[e].cooldown, est, now) \in VelocityState
    <3>1. /\ vel[e] \in VelocityState /\ now \in Nat
          /\ config[e].window \in Nat \ {0} /\ config[e].cooldown \in Nat
      BY DEF TypeOK, Config
    <3> QED
      BY <1>1, <3>1, VelocityRows
  <2> QED
    BY <2>1 DEF Reserve, TypeOK
<1>5. rsv' \in [Request -> Reservation]
  <2>1. [amount |-> est, keys |-> rows, expires |-> now + TTL, session |-> s, org |-> org]
          \in Reservation
    BY <1>1 DEF Reservation
  <2> QED
    BY <2>1 DEF Reserve, TypeOK
<1>6. sess' \in [Entity -> [Session -> SessionRow]]
  <2>1. ASSUME NEW e \in Entity, NEW t \in Session
        PROVE  /\ sess[e][t] \in SessionRow
               /\ [spend |-> sess[e][t].spend + est, seen |-> now] \in SessionRow
    BY <1>1 DEF TypeOK, SessionRow
  <2> QED
    BY <2>1 DEF Reserve
<1>7. alarm' \in Nat
  BY <1>1, EarlierAlarmType DEF Reserve
<1>8. used' \in SUBSET Request
  BY DEF Reserve, TypeOK
<1> QED
  BY <1>2, <1>3, <1>4, <1>5, <1>6, <1>7, <1>8 DEF Reserve, TypeOK

LEMMA CheckType ==
  ASSUME TypeOK, CheckAndReserve
  PROVE  TypeOK'
<1>1. PICK scope \in Scopes, s \in Session \cup {NoSession}, est \in Estimates :
        LET rows == budgets \cap scope IN
        /\ rows # {}
        /\ \/ DenySession(rows, s, est)
           \/ DenyVelocity(rows, s, est)
           \/ DenyBudget(rows, s, est)
           \/ \E r \in Request \ used, org \in OrgFlags : Reserve(r, rows, s, est, org)
  BY DEF CheckAndReserve
<1> DEFINE rows == budgets \cap scope
<1>2. rows \in SUBSET Entity
  BY TablesAssumption DEF TypeOK
<1>3. CASE DenySession(rows, s, est)
  <2>1. Denied(rows) /\ vel' \in [Entity -> VelocityState]
    BY <1>3 DEF DenySession, TypeOK
  <2> QED
    BY <2>1, DeniedType
<1>4. CASE DenyVelocity(rows, s, est)
  <2>1. Denied(rows)
    BY <1>4 DEF DenyVelocity
  <2>2. PICK d \in rows, before \in SUBSET rows :
          vel' = [e \in Entity |-> IF e = d THEN TrippedRow(e)
                                   ELSE IF e \in before THEN TouchedRow(e) ELSE vel[e]]
    BY <1>4 DEF DenyVelocity
  <2>3. vel' \in [Entity -> VelocityState]
    BY <2>2, TouchedRowType DEF TypeOK
  <2> QED
    BY <2>1, <2>3, DeniedType
<1>5. CASE DenyBudget(rows, s, est)
  <2>1. Denied(rows)
    BY <1>5 DEF DenyBudget
  <2>2. vel' \in [Entity -> VelocityState]
    BY <1>5, TouchedRowType DEF DenyBudget, TypeOK
  <2> QED
    BY <2>1, <2>2, DeniedType
<1>6. CASE \E r \in Request \ used, org \in OrgFlags : Reserve(r, rows, s, est, org)
  <2>1. PICK r \in Request, org \in OrgFlags : Reserve(r, rows, s, est, org)
    BY <1>6
  <2> QED
    BY <1>1, <1>2, <2>1, ReserveType
<1> QED
  BY <1>1, <1>3, <1>4, <1>5, <1>6

LEMMA SettleType ==
  ASSUME TypeOK, Settle
  PROVE  TypeOK'
<1>1. ASSUME NEW r \in Request, NEW cost \in Costs, Reconcile(r, cost)
      PROVE  TypeOK'
  <2>1. /\ cost \in Nat /\ now + Soon \in Nat
        /\ rsv[r].amount \in Nat /\ rsv[r].keys \in SUBSET Entity
    BY NumbersAssumption DEF TypeOK, Reservation
  <2>2. spend' \in [Entity -> Nat]
    BY <1>1, <2>1 DEF Reconcile, TypeOK
  <2>3. reserved' \in [Entity -> Nat]
    BY <1>1, <2>1, SubtractType DEF Reconcile, TypeOK
  <2>4. sess' \in [Entity -> [Session -> SessionRow]]
    <3>1. ASSUME NEW e \in Entity, NEW s \in Session
          PROVE  /\ sess[e][s] \in SessionRow
                 /\ [sess[e][s] EXCEPT !.spend = Minus0(@ + cost, rsv[r].amount)] \in SessionRow
      <4>1. sess[e][s] \in SessionRow /\ sess[e][s].spend + cost \in Nat
        BY <2>1 DEF TypeOK, SessionRow
      <4>2. Minus0(sess[e][s].spend + cost, rsv[r].amount) \in Nat
        BY <2>1, <4>1, SubtractType
      <4> QED
        BY <4>1, <4>2 DEF SessionRow
    <3> QED
      BY <1>1, <3>1 DEF Reconcile
  <2>5. outbox' \in [Request -> OutboxRow]
    <3>1. [keys |-> rsv[r].keys, cost |-> cost, attempts |-> 0, next |-> 0] \in OutboxRow
      BY <2>1 DEF OutboxRow
    <3> QED
      BY <1>1, <3>1 DEF Reconcile, TypeOK
  <2>6. alarm' \in Nat
    BY <1>1, <2>1, EarlierAlarmType DEF Reconcile, TypeOK
  <2>7. rsv' \in [Request -> Reservation]
    BY <1>1, FreedType DEF Reconcile
  <2> QED
    BY <1>1, <2>2, <2>3, <2>4, <2>5, <2>6, <2>7 DEF Reconcile, TypeOK
<1>2. ASSUME NEW r \in Request, AckPgSync(r)
      PROVE  TypeOK'
  BY <1>2, EmptyRows DEF AckPgSync, TypeOK, ledger
<1> QED
  BY <1>1, <1>2 DEF Settle

LEMMA AdminType ==
  ASSUME TypeOK, Admin
  PROVE  TypeOK'
<1>1. ASSUME NEW e \in Entity, NEW c \in Configs, NEW seed \in Seeds, NEW start \in Starts,
             PopulateIfEmpty(e, c, seed, start)
      PROVE  TypeOK'
  <2>1. c \in Config /\ seed \in Nat /\ start \in Nat
    BY ConfigsAssumption, NumbersAssumption
  <2>2. UpsertedRow(vel[e], c) \in VelocityState
    <3>1. c.window \in Nat \ {0} /\ now \in Nat /\ vel[e] \in VelocityState
      BY <2>1 DEF Config, TypeOK
    <3>2. FreshRow(c.window, now) \in VelocityState
      BY <3>1 DEF FreshRow, VelocityState
    <3>3. [FreshRow(c.window, now) EXCEPT !.tripped = vel[e].tripped] \in VelocityState
      BY <3>1, <3>2 DEF VelocityState
    <3> QED
      BY <3>1, <3>2, <3>3, EmptyRows DEF UpsertedRow
  <2> QED
    BY <1>1, <2>1, <2>2 DEF PopulateIfEmpty, TypeOK
<1>2. ASSUME NEW e \in Entity, RemoveBudget(e)
      PROVE  TypeOK'
  BY <1>2, EmptyRows DEF RemoveBudget, TypeOK
<1>3. ASSUME NEW e \in Entity, ResetSpend(e)
      PROVE  TypeOK'
  <2> DEFINE matching == {r \in Request : e \in rsv[r].keys}
  <2>1. rsv' \in [Request -> Reservation]
    BY <1>3, FreedType DEF ResetSpend
  <2>2. \A x \in Entity : Held(rsv, matching, x) \in Nat
    BY UnitsFinite DEF TypeOK
  <2>3. reserved' \in [Entity -> Nat]
    BY <1>3, <2>2, SubtractType DEF ResetSpend, TypeOK
  <2>4. vel' \in [Entity -> VelocityState]
    <3>1. [vel[e] EXCEPT !.tripped = 0, !.curr = 0, !.prev = 0] \in VelocityState
      BY DEF TypeOK, VelocityState
    <3> QED
      BY <1>3, <3>1 DEF ResetSpend, TypeOK
  <2>5. sess' \in [Entity -> [Session -> SessionRow]]
    BY <1>3, EmptyRows DEF ResetSpend, TypeOK
  <2> QED
    BY <1>3, <2>1, <2>3, <2>4, <2>5 DEF ResetSpend, TypeOK
<1> QED
  BY <1>1, <1>2, <1>3 DEF Admin, Upsert

LEMMA RescheduleType ==
  ASSUME rsv' \in [Request -> Reservation], outbox' \in [Request -> OutboxRow],
         NEW at \in Nat, NEW set \in Nat, Reschedule(at, set)
  PROVE  alarm' \in Nat
<1>1. \A r \in Request : rsv'[r].expires \in Nat /\ outbox'[r].next \in Nat
  BY DEF Reservation, OutboxRow
<1>2. at + SessionTTL \in Nat
  BY NumbersAssumption
<1> QED
  BY <1>1, <1>2 DEF Reschedule

LEMMA FailedType ==
  ASSUME TypeOK, NEW X \in SUBSET Request,
         \A r \in X : Pending(r) => outbox[r].attempts < MaxAttempts
  PROVE  MarkFailed(X) \in [Request -> OutboxRow]
<1>1. ASSUME NEW r \in X, Pending(r)
      PROVE  [outbox[r] EXCEPT !.attempts = @ + 1, !.next = now + Backoff[outbox[r].attempts]]
               \in OutboxRow
  <2>1. outbox[r] \in OutboxRow /\ now \in Nat
    BY DEF TypeOK
  <2>2. outbox[r].attempts \in 0..(MaxAttempts - 1)
    BY <1>1, <2>1, NumbersAssumption DEF OutboxRow
  <2>3. now + Backoff[outbox[r].attempts] \in Nat /\ outbox[r].attempts + 1 \in Nat
    BY <2>1, <2>2, NumbersAssumption
  <2> QED
    BY <2>1, <2>3 DEF OutboxRow
<1> QED
  BY <1>1 DEF MarkFailed, TypeOK

LEMMA DropType ==
  ASSUME NEW box \in [Request -> OutboxRow]
  PROVE  DropAbandoned(box) \in [Request -> OutboxRow]
  BY EmptyRows DEF DropAbandoned

\* The requests a running handler still has to sync have attempts left: only the
\* handler itself counts attempts.
JobOK == /\ job.pc # "syncing" => job.todo = {}
         /\ \A r \in job.todo : Pending(r) => outbox[r].attempts < MaxAttempts

LEMMA AlarmType ==
  ASSUME TypeOK, JobOK, AlarmStep
  PROVE  TypeOK'
<1>1. CASE AlarmFire
  <2> DEFINE expired == {r \in Request : Live(r) /\ rsv[r].expires <= now}
  <2>1. rsv' \in [Request -> Reservation]
    BY <1>1, FreedType DEF AlarmFire
  <2>2. \A X \in SUBSET Request, x \in Entity : Held(rsv, X, x) \in Nat
    BY UnitsFinite DEF TypeOK
  <2>3. reserved' \in [Entity -> Nat]
    <3>1. \A x \in Entity : Held(rsv, expired, x) \in Nat
      BY <2>2
    <3> QED
      BY <1>1, <3>1, SubtractType DEF AlarmFire, TypeOK
  <2>4. sess' \in [Entity -> [Session -> SessionRow]]
    <3>1. ASSUME NEW e \in Entity, NEW s \in Session
          PROVE  [sess[e][s] EXCEPT !.spend =
                    Minus0(@, Held(rsv, InSession(rsv, expired, s), e))] \in SessionRow
      <4>1. sess[e][s] \in SessionRow /\ sess[e][s].spend \in Nat
        BY DEF TypeOK, SessionRow
      <4>2. Held(rsv, InSession(rsv, expired, s), e) \in Nat
        <5>1. InSession(rsv, expired, s) \in SUBSET Request
          BY DEF InSession
        <5> QED
          BY <5>1, <2>2
      <4>3. Minus0(sess[e][s].spend, Held(rsv, InSession(rsv, expired, s), e)) \in Nat
        BY <4>1, <4>2, SubtractType
      <4> QED
        BY <4>1, <4>3 DEF SessionRow
    <3>2. NoSessionRow \in SessionRow
      BY EmptyRows
    <3> QED
      BY <1>1, <3>1, <3>2 DEF AlarmFire
  <2>5. now \in Nat /\ 0 \in Nat
    BY DEF TypeOK
  <2>6. CASE Retryable = {} /\ UNCHANGED <<outbox, job>> /\ Reschedule(now, 0)
    <3>1. outbox' \in [Request -> OutboxRow] /\ job' \in Job
      BY <2>6 DEF TypeOK
    <3>2. alarm' \in Nat
      BY <2>1, <2>5, <2>6, <3>1, RescheduleType
    <3> QED
      BY <1>1, <2>1, <2>3, <2>4, <3>1, <3>2 DEF AlarmFire, TypeOK
  <2>7. CASE /\ outbox' = DropAbandoned(MarkFailed(Retryable))
             /\ UNCHANGED job /\ Reschedule(now, 0)
    <3>1. Retryable \in SUBSET Request /\ \A r \in Retryable : outbox[r].attempts < MaxAttempts
      BY DEF Retryable
    <3>2. MarkFailed(Retryable) \in [Request -> OutboxRow]
      BY <3>1, FailedType
    <3>3. outbox' \in [Request -> OutboxRow]
      BY <2>7, <3>2, DropType
    <3>4. alarm' \in Nat
      BY <2>1, <2>5, <2>7, <3>3, RescheduleType
    <3>5. job' \in Job
      BY <2>7 DEF TypeOK
    <3> QED
      BY <1>1, <2>1, <2>3, <2>4, <3>3, <3>4, <3>5 DEF AlarmFire, TypeOK
  <2>8. CASE /\ job' = [pc |-> "syncing", at |-> now, todo |-> Retryable]
             /\ alarm' = 0 /\ UNCHANGED outbox
    <3>1. job' \in Job
      BY <2>5, <2>8 DEF Job, Retryable
    <3> QED
      BY <1>1, <2>1, <2>3, <2>4, <2>8, <3>1 DEF AlarmFire, TypeOK
  <2> QED
    BY <1>1, <2>6, <2>7, <2>8 DEF AlarmFire
<1>2. ASSUME NEW r \in Request, NEW ok \in BOOLEAN, AlarmSync(r, ok)
      PROVE  TypeOK'
  <2> DEFINE box == IF ok THEN [outbox EXCEPT ![r] = NoOutbox] ELSE MarkFailed({r})
  <2>1. box \in [Request -> OutboxRow]
    <3>1. r \in job.todo
      BY <1>2 DEF AlarmSync
    <3>2. MarkFailed({r}) \in [Request -> OutboxRow]
      BY <3>1, FailedType DEF JobOK
    <3> QED
      BY <3>2, EmptyRows DEF TypeOK
  <2>2. outbox' \in [Request -> OutboxRow]
    BY <1>2, <2>1, DropType DEF AlarmSync
  <2>3. job' \in Job
    <3>1. job \in Job /\ job.todo \ {r} \in SUBSET Request
      BY DEF TypeOK, Job
    <3>2. [job EXCEPT !.pc = "pruning", !.todo = {}] \in Job
      BY <3>1 DEF Job
    <3>3. [job EXCEPT !.todo = job.todo \ {r}] \in Job
      BY <3>1 DEF Job
    <3> QED
      BY <1>2, <3>2, <3>3 DEF AlarmSync
  <2> QED
    BY <1>2, <2>2, <2>3 DEF AlarmSync, TypeOK, ledger
<1>3. CASE AlarmEnd
  <2>1. rsv' \in [Request -> Reservation] /\ outbox' \in [Request -> OutboxRow]
    BY <1>3 DEF AlarmEnd, TypeOK
  <2>2. job.at \in Nat /\ alarm \in Nat
    BY DEF TypeOK, Job
  <2>3. alarm' \in Nat
    BY <1>3, <2>1, <2>2, RescheduleType DEF AlarmEnd
  <2> QED
    BY <1>3, <2>3, EmptyRows DEF AlarmEnd, TypeOK, ledger
<1> QED
  BY <1>1, <1>2, <1>3 DEF AlarmStep

LEMMA PlatformType ==
  ASSUME TypeOK, Restart \/ Tick
  PROVE  TypeOK'
<1>1. CASE Restart
  <2>1. now + Soon \in Nat /\ now \in Nat /\ restarts + 1 \in Nat
    BY NumbersAssumption DEF TypeOK
  <2>2. alarm' \in Nat
    BY <1>1, <2>1 DEF Restart, TypeOK
  <2> QED
    BY <1>1, <2>1, <2>2, EmptyRows DEF Restart, TypeOK, ledger
<1>2. CASE Tick
  BY <1>2 DEF Tick, TypeOK, ledger
<1> QED
  BY <1>1, <1>2

LEMMA InitJob == Init => JobOK
  BY DEF Init, JobOK, Idle

LEMMA JobStep ==
  ASSUME TypeOK, JobOK, [Next]_vars
  PROVE  JobOK'
<1>0. 0 < MaxAttempts
  BY NumbersAssumption
<1>1. ASSUME UNCHANGED <<outbox, job>>
      PROVE  JobOK'
  BY <1>1 DEF JobOK, Pending
<1>2. CASE CheckAndReserve
  BY <1>1, <1>2 DEF CheckAndReserve, DenySession, DenyVelocity, DenyBudget, Denied, Reserve
<1>3. ASSUME NEW r \in Request, NEW cost \in Costs, Reconcile(r, cost)
      PROVE  JobOK'
  BY <1>0, <1>3 DEF Reconcile, JobOK, Pending, TypeOK, Job, OutboxRow
<1>4. ASSUME NEW r \in Request, AckPgSync(r)
      PROVE  JobOK'
  BY <1>4 DEF AckPgSync, JobOK, Pending, TypeOK, Job, NoOutbox
<1>5. CASE Admin
  BY <1>1, <1>5 DEF Admin, Upsert, PopulateIfEmpty, RemoveBudget, ResetSpend
<1>6. CASE AlarmFire
  BY <1>6 DEF AlarmFire, JobOK, Pending, Retryable
<1>7. ASSUME NEW r \in Request, NEW ok \in BOOLEAN, AlarmSync(r, ok)
      PROVE  JobOK'
  <2> DEFINE box == IF ok THEN [outbox EXCEPT ![r] = NoOutbox] ELSE MarkFailed({r})
  <2>1. \A q \in Request \ {r} : box[q] = outbox[q]
    BY DEF MarkFailed, TypeOK
  <2>2. CASE job.todo \ {r} = {}
    <3>1. job'.todo = {}
      BY <1>7, <2>2 DEF AlarmSync, TypeOK, Job
    <3> QED
      BY <3>1 DEF JobOK
  <2>3. CASE job.todo \ {r} # {}
    <3>1. outbox' = box /\ job'.todo = job.todo \ {r} /\ job'.pc = "syncing"
      BY <1>7, <2>3 DEF AlarmSync, TypeOK, Job
    <3> QED
      BY <2>1, <3>1 DEF JobOK, Pending, TypeOK, Job
  <2> QED
    BY <2>2, <2>3
<1>8. CASE AlarmEnd \/ Restart
  BY <1>8 DEF AlarmEnd, Restart, JobOK, Idle
<1>9. CASE Tick \/ UNCHANGED vars
  BY <1>1, <1>9 DEF Tick, vars
<1> QED
  BY <1>2, <1>3, <1>4, <1>5, <1>6, <1>7, <1>8, <1>9 DEF Next, Settle, AlarmStep

LEMMA TypeStep ==
  ASSUME TypeOK, JobOK, [Next]_vars
  PROVE  TypeOK'
<1>1. CASE UNCHANGED vars
  BY <1>1 DEF vars, ledger, TypeOK
<1> QED
  BY <1>1, CheckType, SettleType, AdminType, AlarmType, PlatformType DEF Next

\* The type invariant, on every instance: in particular no column goes negative and
\* no retry is scheduled from a missing backoff.
THEOREM TypeCorrect == Spec => [](TypeOK /\ JobOK)
<1>1. Init => TypeOK /\ JobOK
  BY InitType, InitJob
<1>2. TypeOK /\ JobOK /\ [Next]_vars => (TypeOK /\ JobOK)'
  BY TypeStep, JobStep
<1> QED
  BY <1>1, <1>2, PTL DEF Spec

-----------------------------------------------------------------------------
(* The lifecycle of a reservation.  Every step of the object does one of     *)
(* three things to the reservation ids: it hands one out, it moves one from  *)
(* the reservations to the outbox, or it only removes rows.                  *)

Opened(r) ==
  /\ r \notin used /\ used' = used \cup {r}
  /\ Live(r)' /\ (Pending(r)' <=> Pending(r))
  /\ \A q \in Request \ {r} : (Live(q)' <=> Live(q)) /\ (Pending(q)' <=> Pending(q))

Moved(r) ==
  /\ used' = used
  /\ Live(r) /\ ~Live(r)' /\ Pending(r)'
  /\ \A q \in Request \ {r} : (Live(q)' <=> Live(q)) /\ (Pending(q)' <=> Pending(q))

OnlyRemoved ==
  /\ used' = used
  /\ \A q \in Request : (Live(q)' => Live(q)) /\ (Pending(q)' => Pending(q))

LEMMA RowsSame ==
  ASSUME UNCHANGED <<rsv, outbox, used>>
  PROVE  OnlyRemoved
  BY DEF OnlyRemoved, Live, Pending

LEMMA RowsFreed ==
  ASSUME TypeOK, NEW X, rsv' = Freed(X)
  PROVE  \A q \in Request : Live(q)' <=> (Live(q) /\ q \notin X)
  BY DEF TypeOK, Freed, Live, NoReservation

LEMMA CheckRows ==
  ASSUME TypeOK, CheckAndReserve
  PROVE  OnlyRemoved \/ \E r \in Request : Opened(r)
<1>1. PICK scope \in Scopes, s \in Session \cup {NoSession}, est \in Estimates :
        LET rows == budgets \cap scope IN
        /\ rows # {}
        /\ \/ DenySession(rows, s, est)
           \/ DenyVelocity(rows, s, est)
           \/ DenyBudget(rows, s, est)
           \/ \E r \in Request \ used, org \in OrgFlags : Reserve(r, rows, s, est, org)
  BY DEF CheckAndReserve
<1> DEFINE rows == budgets \cap scope
<1>2. CASE Denied(rows)
  BY <1>2, RowsSame DEF Denied
<1>3. ASSUME NEW r \in Request \ used, NEW org \in OrgFlags, Reserve(r, rows, s, est, org)
      PROVE  Opened(r)
  <2>1. rsv' = [rsv EXCEPT ![r] = [amount |-> est, keys |-> rows, expires |-> now + TTL,
                                   session |-> s, org |-> org]]
        /\ used' = used \cup {r} /\ outbox' = outbox
    BY <1>3 DEF Reserve
  <2>2. rsv'[r].keys = rows /\ \A q \in Request \ {r} : rsv'[q] = rsv[q]
    BY <2>1 DEF TypeOK
  <2> QED
    BY <1>1, <2>1, <2>2 DEF Opened, Live, Pending
<1> QED
  BY <1>1, <1>2, <1>3 DEF DenySession, DenyVelocity, DenyBudget

LEMMA SettleRows ==
  ASSUME TypeOK, Settle
  PROVE  OnlyRemoved \/ \E r \in Request : Moved(r)
<1>1. ASSUME NEW r \in Request, NEW cost \in Costs, Reconcile(r, cost)
      PROVE  OnlyRemoved \/ Moved(r)
  <2> DEFINE entry == [keys |-> rsv[r].keys, cost |-> cost, attempts |-> 0, next |-> 0]
  <2>1. Live(r) /\ rsv' = Freed({r}) /\ used' = used
    BY <1>1 DEF Reconcile
  <2>2. \A q \in Request : Live(q)' <=> (Live(q) /\ q # r)
    BY <2>1, RowsFreed
  <2>3. CASE outbox' = outbox
    BY <2>1, <2>2, <2>3 DEF OnlyRemoved, Pending
  <2>4. CASE outbox' = [outbox EXCEPT ![r] = entry]
    <3>1. outbox'[r] = entry /\ \A q \in Request \ {r} : outbox'[q] = outbox[q]
      BY <2>4 DEF TypeOK
    <3>2. Pending(r)' /\ \A q \in Request \ {r} : Pending(q)' <=> Pending(q)
      BY <2>1, <3>1 DEF Pending, Live
    <3> QED
      BY <2>1, <2>2, <3>2 DEF Moved
  <2> QED
    BY <1>1, <2>3, <2>4 DEF Reconcile
<1>2. ASSUME NEW r \in Request, AckPgSync(r)
      PROVE  OnlyRemoved
  BY <1>2 DEF AckPgSync, OnlyRemoved, Live, Pending, TypeOK, NoOutbox
<1> QED
  BY <1>1, <1>2 DEF Settle

LEMMA AdminRows ==
  ASSUME TypeOK, Admin
  PROVE  OnlyRemoved
<1>1. ASSUME NEW e \in Entity, ResetSpend(e)
      PROVE  OnlyRemoved
  BY <1>1, RowsFreed DEF ResetSpend, OnlyRemoved, Pending
<1>2. ASSUME UNCHANGED <<rsv, outbox, used>>
      PROVE  OnlyRemoved
  BY <1>2, RowsSame
<1> QED
  BY <1>1, <1>2 DEF Admin, Upsert, PopulateIfEmpty, RemoveBudget

\* The bookkeeping of attempts never adds an entry.
LEMMA BoxKeys ==
  ASSUME TypeOK, NEW X
  PROVE  /\ \A q \in Request : MarkFailed(X)[q].keys = outbox[q].keys
         /\ \A q \in Request : DropAbandoned(MarkFailed(X))[q].keys # {} => Pending(q)
<1>1. ASSUME NEW q \in Request
      PROVE  MarkFailed(X)[q].keys = outbox[q].keys
  BY DEF MarkFailed, TypeOK, OutboxRow
<1> QED
  BY <1>1 DEF DropAbandoned, Pending, NoOutbox

LEMMA AlarmRows ==
  ASSUME TypeOK, AlarmStep
  PROVE  OnlyRemoved
<1>1. CASE AlarmFire
  <2> DEFINE expired == {r \in Request : Live(r) /\ rsv[r].expires <= now}
  <2>1. used' = used /\ rsv' = Freed(expired)
    BY <1>1 DEF AlarmFire
  <2>2. outbox' = outbox \/ outbox' = DropAbandoned(MarkFailed(Retryable))
    BY <1>1 DEF AlarmFire
  <2>3. \A q \in Request : Pending(q)' => Pending(q)
    BY <2>2, BoxKeys DEF Pending
  <2>4. \A q \in Request : Live(q)' => Live(q)
    BY <2>1, RowsFreed
  <2> QED
    BY <2>1, <2>3, <2>4 DEF OnlyRemoved
<1>2. ASSUME NEW r \in Request, NEW ok \in BOOLEAN, AlarmSync(r, ok)
      PROVE  OnlyRemoved
  <2> DEFINE box == IF ok THEN [outbox EXCEPT ![r] = NoOutbox] ELSE MarkFailed({r})
  <2>1. \A q \in Request : box[q].keys # {} => Pending(q)
    BY BoxKeys DEF Pending, TypeOK, NoOutbox
  <2>2. \A q \in Request : DropAbandoned(box)[q].keys # {} => Pending(q)
    BY <2>1 DEF DropAbandoned, NoOutbox
  <2>3. outbox' = box \/ outbox' = DropAbandoned(box)
    BY <1>2 DEF AlarmSync
  <2>4. \A q \in Request : Pending(q)' => Pending(q)
    BY <2>1, <2>2, <2>3 DEF Pending
  <2>5. UNCHANGED <<rsv, used>>
    BY <1>2 DEF AlarmSync
  <2> QED
    BY <2>4, <2>5 DEF OnlyRemoved, Live
<1>3. CASE AlarmEnd
  BY <1>3, RowsSame DEF AlarmEnd
<1> QED
  BY <1>1, <1>2, <1>3 DEF AlarmStep

\* What any step does to the reservation ids.
LEMMA RowsStep ==
  ASSUME TypeOK, [Next]_vars
  PROVE  OnlyRemoved \/ \E r \in Request : Opened(r) \/ Moved(r)
<1>1. CASE Restart \/ Tick \/ UNCHANGED vars
  BY <1>1, RowsSame DEF Restart, Tick, vars
<1> QED
  BY <1>1, CheckRows, SettleRows, AdminRows, AlarmRows DEF Next

-----------------------------------------------------------------------------

LEMMA BookedStep ==
  ASSUME TypeOK, BookedOnce, [Next]_vars
  PROVE  BookedOnce'
<1>1. CASE OnlyRemoved
  BY <1>1 DEF OnlyRemoved, BookedOnce
<1>2. ASSUME NEW r \in Request, Opened(r) \/ Moved(r)
      PROVE  BookedOnce'
  BY <1>2 DEF Opened, Moved, BookedOnce
<1> QED
  BY <1>1, <1>2, RowsStep

LEMMA BookedInit == Init => BookedOnce
  BY DEF Init, BookedOnce, Live, Pending, NoReservation, NoOutbox

\* No request is ever in the reservations and in the outbox, and none is in either
\* before its id was handed out: its cost is booked once.
THEOREM BookedAtMostOnce == Spec => []BookedOnce
<1>1. Init => TypeOK /\ JobOK /\ BookedOnce
  BY InitType, InitJob, BookedInit
<1>2. TypeOK /\ JobOK /\ BookedOnce /\ [Next]_vars => (TypeOK /\ JobOK /\ BookedOnce)'
  BY TypeStep, JobStep, BookedStep
<1> QED
  BY <1>1, <1>2, PTL DEF Spec

-----------------------------------------------------------------------------
(* The refinement.                                                          *)

LEMMA PhaseInit == Init => Lifecycle!Init
  BY DEF Init, Lifecycle!Init, Phase, Live, Pending, NoReservation, NoOutbox

LEMMA PhaseStep ==
  ASSUME TypeOK, BookedOnce, [Next]_vars
  PROVE  [Lifecycle!Next]_Phase
<1>1. CASE OnlyRemoved
  <2> DEFINE ended == {r \in Request : Phase[r] # Phase'[r]}
  <2>1. ASSUME NEW r \in ended
        PROVE  Phase[r] \in {"held", "booked"} /\ Phase'[r] = "done"
    BY <1>1, <2>1 DEF OnlyRemoved, BookedOnce, Phase
  <2>2. Phase' = [r \in Request |-> IF r \in ended THEN "done" ELSE Phase[r]]
    BY <2>1 DEF Phase
  <2>3. Lifecycle!Close(ended)
    BY <2>1, <2>2 DEF Lifecycle!Close
  <2> QED
    BY <2>3 DEF Lifecycle!Next
<1>2. ASSUME NEW r \in Request, Opened(r)
      PROVE  Lifecycle!Hold(r)
  <2>1. Phase[r] = "none" /\ Phase'[r] = "held"
    BY <1>2 DEF Opened, BookedOnce, Phase
  <2>2. \A q \in Request \ {r} : Phase'[q] = Phase[q]
    BY <1>2 DEF Opened, Phase
  <2>3. Phase' = [Phase EXCEPT ![r] = "held"]
    BY <2>1, <2>2 DEF Phase
  <2> QED
    BY <2>1, <2>3 DEF Lifecycle!Hold
<1>3. ASSUME NEW r \in Request, Moved(r)
      PROVE  Lifecycle!Book(r)
  <2>1. Phase[r] = "held" /\ Phase'[r] = "booked"
    BY <1>3 DEF Moved, Phase
  <2>2. \A q \in Request \ {r} : Phase'[q] = Phase[q]
    BY <1>3 DEF Moved, Phase
  <2>3. Phase' = [Phase EXCEPT ![r] = "booked"]
    BY <2>1, <2>2 DEF Phase
  <2> QED
    BY <2>1, <2>3 DEF Lifecycle!Book
<1> QED
  BY <1>1, <1>2, <1>3, RowsStep DEF Lifecycle!Next

\* The object implements the lifecycle of a reservation id: whatever order settlements,
\* acknowledgements, expiries, resets, retries and evictions come in, a hold ends once,
\* and an id that is done stays done.
THEOREM ImplementsLifecycle == Spec => FollowsLifecycle
<1>1. Init => TypeOK /\ JobOK /\ BookedOnce
  BY InitType, InitJob, BookedInit
<1>2. TypeOK /\ JobOK /\ BookedOnce /\ [Next]_vars => (TypeOK /\ JobOK /\ BookedOnce)'
  BY TypeStep, JobStep, BookedStep
<1>3. TypeOK /\ BookedOnce /\ [Next]_vars => [Lifecycle!Next]_Phase
  BY PhaseStep
<1> QED
  BY <1>1, <1>2, <1>3, PhaseInit, PTL DEF Spec, FollowsLifecycle, Lifecycle!Spec

-----------------------------------------------------------------------------
(* Lifetimes: both invariants speak of expiry times.                        *)

Lifetime == /\ now > 0
            /\ \A r \in Request : Live(r) => /\ rsv[r].expires > 0
                                             /\ rsv[r].expires <= now + TTL

\* A step keeps the reservations, frees some, or adds one that expires a TTL from now.
LEMMA RowOrigins ==
  ASSUME TypeOK, [Next]_vars
  PROVE  /\ now' = now \/ (now' = now + 1 /\ rsv' = rsv)
         /\ \A r \in Request : Live(r)' =>
              \/ Live(r) /\ rsv'[r] = rsv[r]
              \/ rsv'[r].expires = now + TTL
<1>1. ASSUME NEW X, rsv' = Freed(X), NEW r \in Request, Live(r)'
      PROVE  Live(r) /\ rsv'[r] = rsv[r]
  BY <1>1 DEF Freed, Live, NoReservation
<1>2. CASE CheckAndReserve
  <2>1. PICK scope \in Scopes, s \in Session \cup {NoSession}, est \in Estimates :
        LET rows == budgets \cap scope IN
           \/ DenySession(rows, s, est)
           \/ DenyVelocity(rows, s, est)
           \/ DenyBudget(rows, s, est)
           \/ \E r \in Request \ used, org \in OrgFlags : Reserve(r, rows, s, est, org)
    BY <1>2 DEF CheckAndReserve
  <2> DEFINE rows == budgets \cap scope
  <2>2. CASE Denied(rows)
    BY <2>2 DEF Denied, Live
  <2>3. ASSUME NEW q \in Request \ used, NEW org \in OrgFlags, Reserve(q, rows, s, est, org)
        PROVE  /\ now' = now
               /\ \A r \in Request : rsv'[r] = rsv[r] \/ rsv'[r].expires = now + TTL
    BY <2>3 DEF Reserve, TypeOK
  <2> QED
    BY <2>1, <2>2, <2>3 DEF DenySession, DenyVelocity, DenyBudget, Live
<1>3. CASE Settle
  BY <1>1, <1>3 DEF Settle, Reconcile, AckPgSync, Live
<1>4. CASE Admin
  BY <1>1, <1>4 DEF Admin, Upsert, PopulateIfEmpty, RemoveBudget, ResetSpend, Live
<1>5. CASE AlarmStep
  BY <1>1, <1>5 DEF AlarmStep, AlarmFire, AlarmSync, AlarmEnd, Live
<1>6. CASE Restart \/ UNCHANGED vars
  BY <1>6 DEF Restart, vars, Live
<1>7. CASE Tick
  BY <1>7 DEF Tick, Live
<1> QED
  BY <1>2, <1>3, <1>4, <1>5, <1>6, <1>7 DEF Next

LEMMA LifetimeStep ==
  ASSUME TypeOK, Lifetime, [Next]_vars
  PROVE  Lifetime'
<1>1. now \in Nat /\ TTL \in Nat \ {0} /\ \A r \in Request : rsv[r].expires \in Nat
  BY NumbersAssumption DEF TypeOK, Reservation
<1>2. now' = now \/ now' = now + 1
  BY RowOrigins
<1>3. ASSUME NEW r \in Request, Live(r)'
      PROVE  rsv'[r].expires > 0 /\ rsv'[r].expires <= now' + TTL
  <2>1. CASE Live(r) /\ rsv'[r] = rsv[r]
    BY <1>1, <1>2, <2>1 DEF Lifetime
  <2>2. CASE rsv'[r].expires = now + TTL
    BY <1>1, <1>2, <2>2
  <2> QED
    BY <1>3, <2>1, <2>2, RowOrigins
<1> QED
  BY <1>1, <1>2, <1>3 DEF Lifetime

LEMMA LifetimeInit == Init => Lifetime
  BY DEF Init, Lifetime, Live, NoReservation

-----------------------------------------------------------------------------
(* The alarm.                                                               *)

\* An alarm set while the handler runs is never further than a reservation lifetime.
AlarmNear == job.pc # "idle" => alarm <= now + TTL

LEMMA EarlierFacts ==
  ASSUME alarm \in Nat, NEW t \in Nat \ {0}
  PROVE  /\ EarlierAlarm(t) > 0 /\ EarlierAlarm(t) <= t
         /\ alarm > 0 => EarlierAlarm(t) <= alarm
  BY DEF EarlierAlarm

LEMMA NearStep ==
  ASSUME TypeOK, AlarmNear, [Next]_vars
  PROVE  AlarmNear'
<1>1. /\ now \in Nat /\ alarm \in Nat /\ TTL \in Nat \ {0} /\ Soon \in Nat \ {0} /\ Soon <= TTL
      /\ now + TTL \in Nat \ {0} /\ now + Soon \in Nat \ {0}
  BY NumbersAssumption DEF TypeOK
<1>2. ASSUME UNCHANGED <<alarm, job, now>>
      PROVE  AlarmNear'
  BY <1>2 DEF AlarmNear
<1>3. ASSUME UNCHANGED <<job, now>>,
             alarm' = EarlierAlarm(now + TTL) \/ alarm' = EarlierAlarm(now + Soon)
      PROVE  AlarmNear'
  <2>1. EarlierAlarm(now + TTL) <= now + TTL /\ EarlierAlarm(now + TTL) \in Nat
    BY <1>1, EarlierFacts DEF EarlierAlarm
  <2>2. EarlierAlarm(now + Soon) <= now + Soon /\ EarlierAlarm(now + Soon) \in Nat
    BY <1>1, EarlierFacts DEF EarlierAlarm
  <2> QED
    BY <1>1, <1>3, <2>1, <2>2 DEF AlarmNear
<1>4. CASE CheckAndReserve
  <2>1. \/ UNCHANGED <<alarm, job, now>>
        \/ UNCHANGED <<job, now>> /\ alarm' = EarlierAlarm(now + TTL)
    BY <1>4 DEF CheckAndReserve, DenySession, DenyVelocity, DenyBudget, Denied, Reserve
  <2> QED
    BY <1>2, <1>3, <2>1
<1>5. CASE Settle
  <2>1. \/ UNCHANGED <<alarm, job, now>>
        \/ UNCHANGED <<job, now>> /\ alarm' = EarlierAlarm(now + Soon)
    BY <1>5 DEF Settle, Reconcile, AckPgSync
  <2> QED
    BY <1>2, <1>3, <2>1
<1>6. CASE Admin
  BY <1>2, <1>6 DEF Admin, Upsert, PopulateIfEmpty, RemoveBudget, ResetSpend
<1>7. CASE AlarmFire
  BY <1>1, <1>7 DEF AlarmFire, AlarmNear
<1>8. ASSUME NEW r \in Request, NEW ok \in BOOLEAN, AlarmSync(r, ok)
      PROVE  AlarmNear'
  BY <1>8 DEF AlarmSync, AlarmNear
<1>9. CASE AlarmEnd \/ Restart
  BY <1>9 DEF AlarmEnd, Restart, AlarmNear, Idle
<1>10. CASE Tick
  BY <1>1, <1>10 DEF Tick, AlarmNear
<1> QED
  BY <1>2, <1>4, <1>5, <1>6, <1>7, <1>8, <1>9, <1>10 DEF Next, AlarmStep, vars

\* The reschedule looks at every reservation.
LEMMA RescheduleCovers ==
  ASSUME NEW at \in Nat, NEW set, Reschedule(at, set),
         outbox' \in [Request -> OutboxRow],
         rsv' \in [Request -> Reservation],
         \A r \in Request : Live(r)' => rsv'[r].expires > 0,
         NEW q \in Request, Live(q)'
  PROVE  alarm' > 0 /\ alarm' <= rsv'[q].expires
<1> DEFINE expiries == {rsv'[r].expires : r \in {x \in Request : rsv'[x].keys # {}}}
           cleanup  == IF \E e \in Entity, s \in Session : sess'[e][s].seen > 0
                       THEN {at + SessionTTL} ELSE {}
           waiting  == {r \in Request : outbox'[r].keys # {} /\ outbox'[r].attempts < MaxAttempts}
           retry    == IF \E r \in waiting : outbox'[r].next = 0 THEN {}
                       ELSE {outbox'[r].next : r \in waiting}
           candidates == expiries \cup cleanup \cup retry
<1>1. rsv'[q].expires \in candidates
  BY DEF Live
<1>2. \E a \in candidates : (\A c \in candidates : a <= c) /\ alarm' = a
  BY <1>1 DEF Reschedule
<1>3. \A c \in candidates : c > 0
  <2>1. \A c \in expiries : c > 0
    BY DEF Live
  <2>2. \A c \in cleanup : c > 0
    BY NumbersAssumption
  <2>3. \A c \in retry : c > 0
    BY DEF OutboxRow
  <2> QED
    BY <2>1, <2>2, <2>3
<1> QED
  BY <1>1, <1>2, <1>3

LEMMA CoverStep ==
  ASSUME TypeOK, TypeOK', Lifetime, Lifetime', AlarmNear, AlarmCoversHolds, [Next]_vars
  PROVE  AlarmCoversHolds'
<1>1. /\ now \in Nat /\ alarm \in Nat /\ TTL \in Nat \ {0} /\ Soon \in Nat \ {0} /\ restarts \in Nat
      /\ now + TTL \in Nat \ {0} /\ now + Soon \in Nat \ {0} /\ now > 0
      /\ alarm' \in Nat /\ now' \in Nat
      /\ \A r \in Request : rsv[r].expires \in Nat /\ rsv'[r].expires \in Nat
  BY NumbersAssumption DEF TypeOK, Lifetime, Reservation
<1>2. ASSUME job.pc = "idle", NEW r \in Request, Live(r)
      PROVE  /\ alarm > 0
             /\ \/ alarm <= rsv[r].expires
                \/ alarm <= now
                \/ restarts > 0 /\ alarm <= now + TTL
  BY <1>2 DEF AlarmCoversHolds
<1>3. ASSUME UNCHANGED <<job, restarts>>, now' = now \/ now' = now + 1,
             \A r \in Request : Live(r)' => Live(r) /\ rsv'[r] = rsv[r],
             alarm' = alarm \/ (alarm > 0 => alarm' > 0 /\ alarm' <= alarm)
      PROVE  AlarmCoversHolds'
  <2>1. ASSUME NEW r \in Request, Live(r)', job'.pc = "idle"
        PROVE  /\ alarm' > 0
               /\ \/ alarm' <= rsv'[r].expires
                  \/ alarm' <= now'
                  \/ restarts' > 0 /\ alarm' <= now' + TTL
    <3>1. job.pc = "idle" /\ Live(r) /\ rsv'[r] = rsv[r]
      BY <1>3, <2>1
    <3>2. /\ alarm > 0
          /\ \/ alarm <= rsv[r].expires
             \/ alarm <= now
             \/ restarts > 0 /\ alarm <= now + TTL
      BY <1>2, <3>1
    <3>3. alarm' > 0 /\ alarm' <= alarm
      BY <1>1, <1>3, <3>2
    <3>4. restarts' = restarts /\ now' >= now
      BY <1>1, <1>3
    <3>5. rsv'[r].expires = rsv[r].expires /\ rsv[r].expires \in Nat
      BY <1>1, <3>1
    <3>6. CASE alarm <= rsv[r].expires
      BY <1>1, <3>3, <3>5, <3>6
    <3>7. CASE alarm <= now
      BY <1>1, <3>3, <3>4, <3>7
    <3>8. CASE restarts > 0 /\ alarm <= now + TTL
      <4>1. alarm' <= now + TTL
        BY <1>1, <3>3, <3>8
      <4>2. alarm' <= now' + TTL
        <5>1. CASE now' = now
          BY <4>1, <5>1
        <5>2. CASE now' = now + 1
          <6>1. alarm' <= (now + 1) + TTL
            BY <1>1, <4>1
          <6> QED
            BY <5>2, <6>1
        <5> QED
          BY <1>3, <5>1, <5>2
      <4>3. restarts' > 0
        BY <3>4, <3>8
      <4> QED
        BY <3>3, <4>2, <4>3
    <3> QED
      BY <3>2, <3>6, <3>7, <3>8
  <2> QED
    BY <2>1 DEF AlarmCoversHolds
<1>4. ASSUME NEW X, rsv' = Freed(X), NEW r \in Request, Live(r)'
      PROVE  Live(r) /\ rsv'[r] = rsv[r]
  BY <1>4 DEF Freed, Live, NoReservation
<1>5. CASE CheckAndReserve
  <2>1. UNCHANGED <<job, now, restarts>>
    BY <1>5 DEF CheckAndReserve, DenySession, DenyVelocity, DenyBudget, Denied, Reserve
  <2>2. CASE UNCHANGED <<rsv, alarm>>
    BY <1>3, <2>1, <2>2 DEF Live
  <2>3. CASE alarm' = EarlierAlarm(now + TTL)
    <3>1. ASSUME NEW r \in Request, Live(r)', job'.pc = "idle"
          PROVE  /\ alarm' > 0
                 /\ \/ alarm' <= rsv'[r].expires
                    \/ alarm' <= now'
                    \/ restarts' > 0 /\ alarm' <= now' + TTL
      <4>1. /\ alarm' > 0 /\ alarm' <= now + TTL
            /\ alarm > 0 => alarm' <= alarm
        BY <1>1, <2>3, EarlierFacts
      <4>2. CASE Live(r) /\ rsv'[r] = rsv[r]
        <5>1. /\ alarm > 0
              /\ \/ alarm <= rsv[r].expires
                 \/ alarm <= now
                 \/ restarts > 0 /\ alarm <= now + TTL
          BY <1>2, <2>1, <3>1, <4>2
        <5> QED
          BY <1>1, <2>1, <4>1, <4>2, <5>1
      <4>3. CASE rsv'[r].expires = now + TTL
        BY <4>1, <4>3
      <4> QED
        BY <3>1, <4>2, <4>3, RowOrigins
    <3> QED
      BY <3>1 DEF AlarmCoversHolds
  <2>4. UNCHANGED <<rsv, alarm>> \/ alarm' = EarlierAlarm(now + TTL)
    BY <1>5 DEF CheckAndReserve, DenySession, DenyVelocity, DenyBudget, Denied, Reserve
  <2> QED
    BY <2>2, <2>3, <2>4
<1>6. ASSUME NEW r \in Request, NEW cost \in Costs, Reconcile(r, cost)
      PROVE  AlarmCoversHolds'
  <2>1. rsv' = Freed({r}) /\ UNCHANGED <<job, now, restarts>>
    BY <1>6 DEF Reconcile
  <2>2. alarm' = alarm \/ alarm' = EarlierAlarm(now + Soon)
    BY <1>6 DEF Reconcile
  <2>3. alarm' = alarm \/ (alarm > 0 => alarm' > 0 /\ alarm' <= alarm)
    BY <1>1, <2>2, EarlierFacts
  <2> QED
    BY <1>3, <1>4, <2>1, <2>3
<1>7. ASSUME NEW r \in Request, AckPgSync(r)
      PROVE  AlarmCoversHolds'
  BY <1>3, <1>7 DEF AckPgSync, Live
<1>8. CASE Admin
  <2>1. /\ UNCHANGED <<job, restarts, now, alarm>>
        /\ rsv' = rsv \/ \E X : rsv' = Freed(X)
    BY <1>8 DEF Admin, Upsert, PopulateIfEmpty, RemoveBudget, ResetSpend
  <2>2. \A r \in Request : Live(r)' => Live(r) /\ rsv'[r] = rsv[r]
    BY <1>4, <2>1 DEF Live
  <2> QED
    BY <1>3, <2>1, <2>2
<1>9. ASSUME NEW at \in Nat, NEW set, Reschedule(at, set)
      PROVE  AlarmCoversHolds'
  <2>1. /\ outbox' \in [Request -> OutboxRow] /\ rsv' \in [Request -> Reservation]
        /\ \A r \in Request : Live(r)' => rsv'[r].expires > 0
    BY DEF TypeOK, Lifetime
  <2>2. \A r \in Request : Live(r)' => alarm' > 0 /\ alarm' <= rsv'[r].expires
    BY <1>9, <2>1, RescheduleCovers
  <2> QED
    BY <2>2 DEF AlarmCoversHolds
<1>10. CASE AlarmFire
  <2>1. CASE Reschedule(now, 0)
    BY <1>1, <1>9, <2>1
  <2>2. CASE job' = [pc |-> "syncing", at |-> now, todo |-> Retryable]
    BY <2>2 DEF AlarmCoversHolds
  <2> QED
    BY <1>10, <2>1, <2>2 DEF AlarmFire
<1>11. ASSUME NEW r \in Request, NEW ok \in BOOLEAN, AlarmSync(r, ok)
       PROVE  AlarmCoversHolds'
  <2>1. job'.pc # "idle"
    BY <1>11 DEF AlarmSync, TypeOK, Job
  <2> QED
    BY <2>1 DEF AlarmCoversHolds
<1>12. CASE AlarmEnd
  <2>1. job.at \in Nat /\ Reschedule(job.at, alarm)
    BY <1>12 DEF AlarmEnd, TypeOK, Job
  <2> QED
    BY <1>9, <2>1
<1>13. CASE Restart
  <2>1. /\ restarts' = restarts + 1 /\ UNCHANGED <<rsv, now>>
        /\ alarm > 0 => alarm' = alarm
        /\ alarm = 0 /\ job.pc # "idle" => alarm' = now
    BY <1>1, <1>13 DEF Restart
  <2>2. ASSUME NEW r \in Request, Live(r)
        PROVE  /\ alarm' > 0
               /\ \/ alarm' <= rsv[r].expires
                  \/ alarm' <= now
                  \/ restarts' > 0 /\ alarm' <= now + TTL
    <3>1. CASE job.pc = "idle"
      BY <1>1, <1>2, <2>1, <2>2, <3>1
    <3>2. CASE job.pc # "idle"
      BY <1>1, <2>1, <3>2 DEF AlarmNear
    <3> QED
      BY <3>1, <3>2
  <2> QED
    BY <2>1, <2>2 DEF AlarmCoversHolds, Live
<1>14. CASE Tick
  BY <1>3, <1>14 DEF Tick, Live
<1>15. CASE UNCHANGED vars
  BY <1>3, <1>15 DEF vars, Live
<1> QED
  BY <1>5, <1>6, <1>7, <1>8, <1>10, <1>11, <1>12, <1>13, <1>14, <1>15 DEF Next, Settle, AlarmStep

\* Every live reservation has an alarm that expires it, at any point of any
\* interleaving with the handler, settlements and evictions.
THEOREM AlarmAlwaysCovers == Spec => []AlarmCoversHolds
<1>1. Init => TypeOK /\ JobOK /\ Lifetime /\ AlarmNear /\ AlarmCoversHolds
  <2>1. Init => AlarmNear /\ AlarmCoversHolds
    BY DEF Init, AlarmNear, AlarmCoversHolds, Live, NoReservation, Idle
  <2> QED
    BY <2>1, InitType, InitJob, LifetimeInit
<1>2. TypeOK /\ JobOK /\ Lifetime /\ AlarmNear /\ AlarmCoversHolds /\ [Next]_vars
        => (TypeOK /\ JobOK /\ Lifetime /\ AlarmNear /\ AlarmCoversHolds)'
  BY TypeStep, JobStep, LifetimeStep, NearStep, CoverStep
<1> QED
  BY <1>1, <1>2, PTL DEF Spec

-----------------------------------------------------------------------------
(* The velocity breaker.                                                    *)

\* Without a limit there is no breaker: an upsert that drops the limit drops the row.
NoLimitNoTrip == \A e \in budgets : config[e].limit = NoLimit => vel[e].tripped = 0

\* A request that is not denied leaves no breaker tripped.
LEMMA ClearedByAdmission ==
  ASSUME NEW vs \in VelocityState, NEW w \in Nat \ {0}, NEW limit, NEW cooldown \in Nat,
         NEW est \in Nat, NEW t \in Nat, ~VelocityDenies(vs, w, limit, cooldown, est, t)
  PROVE  Incremented(vs, w, cooldown, est, t).tripped = 0
<1>1. ~InCooldown(vs, cooldown, t)
  BY DEF VelocityDenies
<1>2. vs.tripped = 0 \/ Recovers(vs, cooldown, t)
  BY <1>1 DEF Recovers, VelocityState
<1>3. CASE Recovers(vs, cooldown, t) \/ ~HasVelocityRow(vs)
  <2>1. Touched(vs, w, cooldown, t).tripped = 0
    BY <1>3 DEF Touched, FreshRow
  <2>2. Touched(vs, w, cooldown, t) \in VelocityState
    BY VelocityRows
  <2>3. \A v \in VelocityState : [v EXCEPT !.curr = @ + est].tripped = v.tripped
    BY DEF VelocityState
  <2> QED
    BY <1>3, <2>1, <2>2, <2>3 DEF Incremented
<1>4. CASE ~(Recovers(vs, cooldown, t) \/ ~HasVelocityRow(vs))
  <2>1. Rotate(vs, w, t).tripped = 0
    BY <1>2, <1>4 DEF Rotate, VelocityState
  <2>2. Rotate(vs, w, t) \in VelocityState
    BY VelocityRows
  <2>3. \A v \in VelocityState : [v EXCEPT !.curr = @ + est].tripped = v.tripped
    BY DEF VelocityState
  <2> QED
    BY <1>4, <2>1, <2>2, <2>3 DEF Incremented
<1> QED
  BY <1>3, <1>4

\* A breaker trips now or stays as it is, and is cleared otherwise: what a denial does.
LEMMA TripOrigins ==
  ASSUME TypeOK, NEW e \in Entity
  PROVE  /\ TouchedRow(e).tripped \in {0, vel[e].tripped}
         /\ TrippedRow(e).tripped \in {now, vel[e].tripped}
         /\ config[e].limit = NoLimit => TouchedRow(e) = vel[e]
<1>1. vel[e] \in VelocityState
  BY DEF TypeOK
<1> QED
  BY <1>1 DEF TouchedRow, TrippedRow, Touched, FreshRow, VelocityState

TrippedBefore == NothingAdmittedWhileTripped /\ NoLimitNoTrip

\* The reservations shrink, and a breaker keeps its time, is cleared, or trips now.
LEMMA TrippedKept ==
  ASSUME TypeOK, Lifetime, TrippedBefore,
         UNCHANGED <<budgets, config, now>>,
         \A r \in Request : rsv'[r] = rsv[r] \/ rsv'[r].keys = {},
         \A e \in Entity : \/ vel'[e].tripped \in {0, vel[e].tripped}
                           \/ vel'[e].tripped = now /\ config[e].limit # NoLimit
  PROVE  TrippedBefore'
<1>1. ASSUME NEW r \in Request, NEW e \in rsv'[r].keys, vel'[e].tripped > 0
      PROVE  rsv'[r].expires <= vel'[e].tripped + TTL
  <2>1. rsv'[r] = rsv[r] /\ Live(r) /\ e \in Entity
    BY <1>1 DEF Live, TypeOK, Reservation
  <2>2. CASE vel'[e].tripped = vel[e].tripped
    BY <1>1, <2>1, <2>2 DEF TrippedBefore, NothingAdmittedWhileTripped
  <2>3. CASE vel'[e].tripped = now
    BY <2>1, <2>3 DEF Lifetime
  <2> QED
    BY <1>1, <2>1, <2>2, <2>3
<1>2. NoLimitNoTrip'
  BY DEF TrippedBefore, NoLimitNoTrip, TypeOK
<1> QED
  BY <1>1, <1>2 DEF TrippedBefore, NothingAdmittedWhileTripped

LEMMA TrippedCheck ==
  ASSUME TypeOK, Lifetime, TrippedBefore, CheckAndReserve
  PROVE  TrippedBefore'
<1>1. PICK scope \in Scopes, s \in Session \cup {NoSession}, est \in Estimates :
        LET rows == budgets \cap scope IN
           \/ DenySession(rows, s, est)
           \/ DenyVelocity(rows, s, est)
           \/ DenyBudget(rows, s, est)
           \/ \E r \in Request \ used, org \in OrgFlags : Reserve(r, rows, s, est, org)
  BY DEF CheckAndReserve
<1> DEFINE rows == budgets \cap scope
<1>2. rows \in SUBSET Entity /\ est \in Nat /\ budgets \subseteq Entity
  BY NumbersAssumption DEF TypeOK
<1>3. ASSUME Denied(rows),
             \A e \in Entity : \/ vel'[e].tripped \in {0, vel[e].tripped}
                               \/ vel'[e].tripped = now /\ config[e].limit # NoLimit
      PROVE  TrippedBefore'
  <2>1. UNCHANGED <<budgets, config, now, rsv>>
    BY <1>3 DEF Denied, ResetPeriods
  <2> QED
    BY <1>3, <2>1, TrippedKept
<1>4. CASE DenySession(rows, s, est)
  BY <1>3, <1>4 DEF DenySession
<1>5. CASE DenyVelocity(rows, s, est)
  <2>1. PICK d \in {e \in rows : VelocityDenied(e, est)}, before \in SUBSET rows :
          vel' = [e \in Entity |-> IF e = d THEN TrippedRow(e)
                                   ELSE IF e \in before THEN TouchedRow(e) ELSE vel[e]]
    BY <1>5 DEF DenyVelocity
  <2>2. d \in Entity /\ config[d].limit # NoLimit
    BY <1>2, <2>1 DEF VelocityDenied
  <2>3. ASSUME NEW e \in Entity
        PROVE  \/ vel'[e].tripped \in {0, vel[e].tripped}
               \/ vel'[e].tripped = now /\ config[e].limit # NoLimit
    BY <2>1, <2>2, TripOrigins
  <2> QED
    BY <1>3, <1>5, <2>3 DEF DenyVelocity
<1>6. CASE DenyBudget(rows, s, est)
  <2>1. ASSUME NEW e \in Entity
        PROVE  vel'[e].tripped \in {0, vel[e].tripped}
    BY <1>6, TripOrigins DEF DenyBudget
  <2> QED
    BY <1>3, <1>6, <2>1 DEF DenyBudget
<1>7. ASSUME NEW q \in Request \ used, NEW org \in OrgFlags, Reserve(q, rows, s, est, org)
      PROVE  TrippedBefore'
  <2>1. /\ UNCHANGED <<budgets, config, now>>
        /\ rsv'[q].keys = rows /\ \A r \in Request \ {q} : rsv'[r] = rsv[r]
    BY <1>7 DEF Reserve, ResetPeriods, TypeOK
  <2>2. ASSUME NEW e \in rows
        PROVE  vel'[e].tripped = 0
    <3>1. e \in Entity /\ ~VelocityDenied(e, est)
      BY <1>2, <1>7 DEF Reserve
    <3>2. CASE config[e].limit = NoLimit
      <4>1. vel'[e] = vel[e]
        BY <1>7, <3>1, <3>2 DEF Reserve
      <4> QED
        BY <3>2, <4>1 DEF TrippedBefore, NoLimitNoTrip
    <3>3. CASE config[e].limit # NoLimit
      <4>1. vel'[e] = Incremented(vel[e], config[e].window, config[e].cooldown, est, now)
        BY <1>7, <3>1, <3>3 DEF Reserve
      <4>2. ~VelocityDenies(vel[e], config[e].window, config[e].limit, config[e].cooldown, est, now)
        BY <3>1, <3>3 DEF VelocityDenied
      <4>3. /\ vel[e] \in VelocityState /\ now \in Nat
            /\ config[e].window \in Nat \ {0} /\ config[e].cooldown \in Nat
        BY <3>1 DEF TypeOK, Config
      <4> QED
        BY <1>2, <4>1, <4>2, <4>3, ClearedByAdmission
    <3> QED
      BY <3>2, <3>3
  <2>3. \A e \in Entity \ rows : vel'[e] = vel[e]
    BY <1>7 DEF Reserve
  <2>4. ASSUME NEW r \in Request, NEW e \in rsv'[r].keys, vel'[e].tripped > 0
        PROVE  rsv'[r].expires <= vel'[e].tripped + TTL
    <3>1. e \notin rows
      BY <2>2, <2>4
    <3>2. rsv'[r] = rsv[r]
      BY <2>1, <2>4, <3>1
    <3>3. vel'[e] = vel[e]
      BY <2>3, <2>4, <3>1, <3>2 DEF TypeOK, Reservation
    <3> QED
      BY <2>4, <3>2, <3>3 DEF TrippedBefore, NothingAdmittedWhileTripped
  <2>5. NoLimitNoTrip'
    BY <1>2, <2>1, <2>2, <2>3 DEF TrippedBefore, NoLimitNoTrip
  <2> QED
    BY <2>4, <2>5 DEF TrippedBefore, NothingAdmittedWhileTripped
<1> QED
  BY <1>1, <1>4, <1>5, <1>6, <1>7

LEMMA TrippedAdmin ==
  ASSUME TypeOK, Lifetime, TrippedBefore, Admin
  PROVE  TrippedBefore'
<1>1. ASSUME NEW r \in Request, NEW e \in rsv[r].keys
      PROVE  e \in Entity
  BY DEF TypeOK, Reservation
<1>2. ASSUME rsv' = rsv, NoLimitNoTrip',
             \A e \in Entity : vel'[e].tripped \in {0, vel[e].tripped}
      PROVE  TrippedBefore'
  BY <1>1, <1>2 DEF TrippedBefore, NothingAdmittedWhileTripped
<1>3. ASSUME NEW e \in Entity, NEW c \in Configs, NEW seed \in Seeds, NEW start \in Starts,
             PopulateIfEmpty(e, c, seed, start)
      PROVE  TrippedBefore'
  <2>1. /\ vel'[e] = UpsertedRow(vel[e], c) /\ config'[e] = c
        /\ \A x \in Entity \ {e} : vel'[x] = vel[x] /\ config'[x] = config[x]
        /\ budgets' = budgets \cup {e} /\ rsv' = rsv
    BY <1>3 DEF PopulateIfEmpty, TypeOK
  <2>2. UpsertedRow(vel[e], c).tripped \in {0, vel[e].tripped}
    BY DEF UpsertedRow, NoVelocityRow, FreshRow
  <2>3. c.limit = NoLimit => UpsertedRow(vel[e], c).tripped = 0
    BY DEF UpsertedRow, NoVelocityRow
  <2>4. NoLimitNoTrip'
    BY <2>1, <2>3 DEF TrippedBefore, NoLimitNoTrip, TypeOK
  <2> QED
    BY <1>2, <2>1, <2>2, <2>4
<1>4. ASSUME NEW e \in Entity, RemoveBudget(e)
      PROVE  TrippedBefore'
  <2>1. /\ vel'[e].tripped = 0
        /\ \A x \in Entity \ {e} : vel'[x] = vel[x] /\ config'[x] = config[x]
        /\ budgets' = budgets \ {e} /\ rsv' = rsv
    BY <1>4 DEF RemoveBudget, TypeOK, NoVelocityRow
  <2>2. NoLimitNoTrip'
    BY <2>1 DEF TrippedBefore, NoLimitNoTrip, TypeOK
  <2> QED
    BY <1>2, <2>1, <2>2
<1>5. ASSUME NEW e \in Entity, ResetSpend(e)
      PROVE  TrippedBefore'
  <2>1. vel'[e] = [vel[e] EXCEPT !.tripped = 0, !.curr = 0, !.prev = 0] /\ vel[e] \in VelocityState
    BY <1>5 DEF ResetSpend, TypeOK
  <2>2. vel'[e].tripped = 0
    BY <2>1 DEF VelocityState
  <2>3. \A x \in Entity \ {e} : vel'[x] = vel[x]
    BY <1>5 DEF ResetSpend, TypeOK
  <2>4. \A r \in Request : rsv'[r] = rsv[r] \/ rsv'[r].keys = {}
    BY <1>5 DEF ResetSpend, Freed, NoReservation
  <2>5. UNCHANGED <<budgets, config, now>>
    BY <1>5 DEF ResetSpend
  <2> QED
    BY <2>2, <2>3, <2>4, <2>5, TrippedKept
<1> QED
  BY <1>3, <1>4, <1>5 DEF Admin, Upsert

LEMMA TrippedStep ==
  ASSUME TypeOK, Lifetime, TrippedBefore, [Next]_vars
  PROVE  TrippedBefore'
<1>1. ASSUME UNCHANGED <<budgets, config, vel, now>>, rsv' = rsv \/ \E X : rsv' = Freed(X)
      PROVE  TrippedBefore'
  <2>1. \A r \in Request : rsv'[r] = rsv[r] \/ rsv'[r].keys = {}
    BY <1>1 DEF Freed, NoReservation
  <2> QED
    BY <1>1, <2>1, TrippedKept
<1>2. CASE Settle
  BY <1>1, <1>2 DEF Settle, Reconcile, AckPgSync, ledger
<1>3. CASE AlarmStep \/ Restart \/ UNCHANGED vars
  BY <1>1, <1>3 DEF AlarmStep, AlarmFire, AlarmSync, AlarmEnd, Restart, vars, ledger
<1>4. CASE Tick
  BY <1>4 DEF Tick, ledger, TrippedBefore, NothingAdmittedWhileTripped, NoLimitNoTrip
<1> QED
  BY <1>2, <1>3, <1>4, TrippedCheck, TrippedAdmin DEF Next

\* While the breaker of an entity is tripped, no reservation on it is younger than the
\* trip, whatever other entities, settings changes and denials do in between.
THEOREM NothingPassesTheBreaker == Spec => []NothingAdmittedWhileTripped
<1>1. Init => TypeOK /\ JobOK /\ Lifetime /\ TrippedBefore
  <2>1. Init => TrippedBefore
    BY DEF Init, TrippedBefore, NothingAdmittedWhileTripped, NoLimitNoTrip, NoReservation
  <2> QED
    BY <2>1, InitType, InitJob, LifetimeInit
<1>2. TypeOK /\ JobOK /\ Lifetime /\ TrippedBefore /\ [Next]_vars
        => (TypeOK /\ JobOK /\ Lifetime /\ TrippedBefore)'
  BY TypeStep, JobStep, LifetimeStep, TrippedStep
<1>3. TrippedBefore => NothingAdmittedWhileTripped
  BY DEF TrippedBefore
<1> QED
  BY <1>1, <1>2, <1>3, PTL DEF Spec

=============================================================================
