---------------------------- MODULE UserBudgetDO ----------------------------
(***************************************************************************)
(* The Durable Object that holds the budgets of one organisation           *)
(* (apps/proxy/src/durable-objects/user-budget.ts): every table of its     *)
(* SQLite storage, its one alarm, and one action per RPC method.           *)
(*                                                                         *)
(* A Durable Object runs one event at a time and its input gate stays      *)
(* closed while it waits for its own storage, so an RPC method is one      *)
(* action, trailing getAlarm/setAlarm included.  Only alarm() waits for    *)
(* something else (Postgres): it is split at those awaits, and any other   *)
(* method may run between its steps.                                       *)
(***************************************************************************)
EXTENDS Integers, FiniteSets, Velocity

CONSTANTS
  Entity,       \* entity keys "type:id" of the organisation
  Request,      \* reservation ids (crypto.randomUUID): each is used once
  Session,      \* session ids
  NoSession,    \* SQL NULL in session_id
  Scopes,       \* the sets of entities the (keyId, tags) of a call select
  Configs,      \* budget settings the dashboard can store
  Estimates,    \* estimates a call can carry
  Costs,        \* actual costs a settlement can carry
  Seeds,        \* spend_microdollars Postgres can seed a row with
  Starts,       \* current_period_start Postgres can seed a row with
  OrgFlags,     \* whether a call carries an org id
  TTL,          \* reservation lifetime (30_000 ms)
  Soon,         \* delay of the alarm that follows a settlement (1_000 ms)
  SessionTTL,   \* idle time after which session rows are dropped (24 h)
  Backoff,      \* BACKOFF_MS: delay after the attempt of this index
  MaxAttempts,  \* MAX_OUTBOX_ATTEMPTS
  LastCall,     \* bound: no call arrives after this time
  MaxRestarts   \* bound: evictions of the object that are explored

ASSUME TablesAssumption ==
  /\ IsFiniteSet(Request)
  /\ NoSession \notin Session
  /\ Scopes \subseteq SUBSET Entity
  /\ OrgFlags \subseteq BOOLEAN

ASSUME NumbersAssumption ==
  /\ Estimates \subseteq Nat /\ Costs \subseteq Nat /\ Seeds \subseteq Nat /\ Starts \subseteq Nat
  /\ TTL \in Nat \ {0} /\ Soon \in Nat \ {0} /\ SessionTTL \in Nat \ {0}
  /\ Soon <= TTL
  /\ MaxAttempts \in Nat \ {0}
  /\ Backoff \in [0..(MaxAttempts - 1) -> Nat \ {0}]
  /\ LastCall \in Nat /\ MaxRestarts \in Nat

\* Settings of a budget row; interval is the period length (0: no reset_interval).
Config == [max : Nat, strict : BOOLEAN, interval : Nat, sessionLimit : Nat \cup {NoLimit},
           limit : Nat \cup {NoLimit}, window : Nat \ {0}, cooldown : Nat]

ASSUME ConfigsAssumption == Configs \subseteq Config /\ Configs # {}

VARIABLES
  budgets,      \* entities that have a row in table budgets
  config,       \* settings columns of the rows
  spend,        \* column spend
  reserved,     \* column reserved
  periodStart,  \* column period_start
  rsv,          \* table reservations; a row with no keys is absent
  used,         \* reservation ids handed out
  sess,         \* table session_spend; a row with seen = 0 is absent
  vel,          \* table velocity_state
  outbox,       \* table pg_sync_outbox, the entries of one request together
  alarm,        \* time of the scheduled alarm, 0 for none
  job,          \* the alarm handler: where it waits, its `now`, requests still to sync
  now,          \* Date.now()
  restarts      \* evictions so far

ledger == <<budgets, config, spend, reserved, periodStart>>
vars == <<ledger, rsv, used, sess, vel, outbox, alarm, job, now, restarts>>

NoReservation == [amount |-> 0, keys |-> {}, expires |-> 0, session |-> NoSession, org |-> FALSE]
NoOutbox == [keys |-> {}, cost |-> 0, attempts |-> 0, next |-> 0]
NoSessionRow == [spend |-> 0, seen |-> 0]
Idle == [pc |-> "idle", at |-> 0, todo |-> {}]

Live(r) == rsv[r].keys # {}
Pending(r) == outbox[r].keys # {}

\* Faulty: without the MAX(0, ...).
Minus0Unclamped(a, b) == a - b

Minus0(a, b) == IF a > b THEN a - b ELSE 0          \* SQL MAX(0, a - b)

\* The microdollars that the reservations X of table t hold on e (in session s), as
\* a set of units, so that a sum of amounts is a cardinality.
UnitsOf(t, r) == {r} \X (1..t[r].amount)
Units(t, X, e) == UNION {UnitsOf(t, r) : r \in {x \in X : e \in t[x].keys}}
Held(t, X, e) == Cardinality(Units(t, X, e))
InSession(t, X, s) == {x \in X : t[x].session = s}

\* currentPeriodStart: `while (start + step <= now) start += step`.
CurrentPeriodStart(interval, start, t) ==
  IF start + interval <= t THEN start + interval * ((t - start) \div interval) ELSE start

\* Faulty: only an expired reservation is deleted.
FreedIfExpired(X) == [r \in Request |-> IF r \in X /\ rsv[r].expires <= now THEN NoReservation ELSE rsv[r]]

\* The table reservations without the rows X.
Freed(X) == [r \in Request |-> IF r \in X THEN NoReservation ELSE rsv[r]]

\* Faulty: setAlarm without getAlarm.
OverwrittenAlarm(t) == t

\* getAlarm, and setAlarm when none is scheduled or it is later than t.
EarlierAlarm(t) == IF alarm = 0 \/ alarm > t THEN t ELSE alarm

-----------------------------------------------------------------------------

SomeConfig == CHOOSE c \in Configs : TRUE

Init ==
  /\ budgets = {}
  /\ config = [e \in Entity |-> SomeConfig]
  /\ spend = [e \in Entity |-> 0]
  /\ reserved = [e \in Entity |-> 0]
  /\ periodStart = [e \in Entity |-> 0]
  /\ rsv = [r \in Request |-> NoReservation]
  /\ used = {}
  /\ sess = [e \in Entity |-> [s \in Session |-> NoSessionRow]]
  /\ vel = [e \in Entity |-> NoVelocityRow]
  /\ outbox = [r \in Request |-> NoOutbox]
  /\ alarm = 0
  /\ job = Idle
  /\ now = 1
  /\ restarts = 0

-----------------------------------------------------------------------------
(* checkAndReserve.  Its early returns leave transactionSync normally, so   *)
(* what was written before them stays: the period resets always, and on a   *)
(* velocity or budget denial the velocity rows touched so far.              *)

PeriodOver(e) ==
  /\ config[e].interval > 0
  /\ periodStart[e] > 0
  /\ CurrentPeriodStart(config[e].interval, periodStart[e], now) > periodStart[e]

\* Phase 1.5: spend and reserved of the matched rows after their period resets.
SpendNow(rows, e) == IF e \in rows /\ PeriodOver(e) THEN 0 ELSE spend[e]
ReservedNow(rows, e) == IF e \in rows /\ PeriodOver(e) THEN 0 ELSE reserved[e]

ResetPeriods(rows) ==
  /\ spend' = [e \in Entity |-> SpendNow(rows, e)]
  /\ periodStart' = [e \in Entity |->
       IF e \in rows /\ PeriodOver(e)
       THEN CurrentPeriodStart(config[e].interval, periodStart[e], now) ELSE periodStart[e]]
  /\ UNCHANGED <<budgets, config>>

\* Faulty: compares what was spent before this call.
SessionDeniedLate(e, s, est) ==
  s # NoSession /\ config[e].sessionLimit # NoLimit /\ sess[e][s].spend > config[e].sessionLimit

SessionDenied(e, s, est) ==
  /\ s # NoSession
  /\ config[e].sessionLimit # NoLimit
  /\ sess[e][s].spend + est > config[e].sessionLimit

VelocityDenied(e, est) ==
  /\ config[e].limit # NoLimit
  /\ VelocityDenies(vel[e], config[e].window, config[e].limit, config[e].cooldown, est, now)

\* Faulty: holds in flight are not counted.
BudgetDeniedIgnoringHolds(rows, e, est) == config[e].strict /\ est > config[e].max - SpendNow(rows, e)

BudgetDenied(rows, e, est) ==
  /\ config[e].strict
  /\ est > config[e].max - SpendNow(rows, e) - ReservedNow(rows, e)

TouchedRow(e) ==
  IF config[e].limit = NoLimit THEN vel[e]
  ELSE Touched(vel[e], config[e].window, config[e].cooldown, now)

\* Phase 0: the breaker of an entity over its limit trips; one in cooldown is left alone.
TrippedRow(e) ==
  IF InCooldown(vel[e], config[e].cooldown, now) THEN vel[e]
  ELSE [vel[e] EXCEPT !.tripped = now]

\* A denial: everything but the period resets and the velocity rows is unchanged.
Denied(rows) ==
  /\ ResetPeriods(rows)
  /\ reserved' = [e \in Entity |-> ReservedNow(rows, e)]
  /\ UNCHANGED <<rsv, used, sess, outbox, alarm, job, now, restarts>>

DenySession(rows, s, est) ==
  /\ \E e \in rows : SessionDenied(e, s, est)
  /\ Denied(rows)
  /\ UNCHANGED vel

\* The rows come in the order SQLite returns them, which the query leaves open:
\* `before` are the ones looked at before the first that denies.
DenyVelocity(rows, s, est) ==
  /\ \A e \in rows : ~SessionDenied(e, s, est)
  /\ \E d \in {e \in rows : VelocityDenied(e, est)},
        before \in SUBSET {e \in rows : ~VelocityDenied(e, est)} :
       vel' = [e \in Entity |-> IF e = d THEN TrippedRow(e)
                                ELSE IF e \in before THEN TouchedRow(e) ELSE vel[e]]
  /\ Denied(rows)

DenyBudget(rows, s, est) ==
  /\ \A e \in rows : ~SessionDenied(e, s, est) /\ ~VelocityDenied(e, est)
  /\ \E e \in rows : BudgetDenied(rows, e, est)
  /\ vel' = [e \in Entity |-> IF e \in rows THEN TouchedRow(e) ELSE vel[e]]
  /\ Denied(rows)

Reserve(r, rows, s, est, org) ==
  /\ \A e \in rows : /\ ~SessionDenied(e, s, est)
                     /\ ~VelocityDenied(e, est)
                     /\ ~BudgetDenied(rows, e, est)
  /\ ResetPeriods(rows)
  /\ reserved' = [e \in Entity |-> ReservedNow(rows, e) + (IF e \in rows THEN est ELSE 0)]
  /\ vel' = [e \in Entity |->
       IF e \in rows /\ config[e].limit # NoLimit
       THEN Incremented(vel[e], config[e].window, config[e].cooldown, est, now) ELSE vel[e]]
  /\ rsv' = [rsv EXCEPT ![r] = [amount |-> est, keys |-> rows, expires |-> now + TTL,
                                session |-> s, org |-> org]]
  /\ used' = used \cup {r}
  /\ sess' = [e \in Entity |-> [t \in Session |->
       IF e \in rows /\ t = s /\ config[e].sessionLimit # NoLimit
       THEN [spend |-> sess[e][t].spend + est, seen |-> now] ELSE sess[e][t]]]
  /\ alarm' = EarlierAlarm(now + TTL)
  /\ UNCHANGED <<outbox, job, now, restarts>>

\* A call that matches no row, or carries an invalid estimate, changes nothing.
CheckAndReserve ==
  \E scope \in Scopes, s \in Session \cup {NoSession}, est \in Estimates :
    LET rows == budgets \cap scope IN
    /\ now <= LastCall
    /\ rows # {}
    /\ \/ DenySession(rows, s, est)
       \/ DenyVelocity(rows, s, est)
       \/ DenyBudget(rows, s, est)
       \/ \E r \in Request \ used, org \in OrgFlags : Reserve(r, rows, s, est, org)

-----------------------------------------------------------------------------
(* reconcile and ackPgSync.  A reservation that is gone is "not_found": no  *)
(* change, hence no action.                                                 *)

Reconcile(r, cost) ==
  LET keys == rsv[r].keys
      amount == rsv[r].amount
      synced == cost > 0 /\ rsv[r].org IN
  /\ now <= LastCall
  /\ Live(r)
  /\ spend' = [e \in Entity |-> IF e \in keys \cap budgets THEN spend[e] + cost ELSE spend[e]]
  /\ reserved' = [e \in Entity |-> IF e \in keys \cap budgets
                                   THEN Minus0(reserved[e], amount) ELSE reserved[e]]
  /\ sess' = [e \in Entity |-> [s \in Session |->
       IF e \in keys /\ s = rsv[r].session /\ sess[e][s].seen > 0
       THEN [sess[e][s] EXCEPT !.spend = Minus0(@ + cost, amount)] ELSE sess[e][s]]]
  /\ outbox' = IF synced
               THEN [outbox EXCEPT ![r] = [keys |-> keys, cost |-> cost, attempts |-> 0, next |-> 0]]
               ELSE outbox
  /\ alarm' = IF synced THEN EarlierAlarm(now + Soon) ELSE alarm
  /\ rsv' = Freed({r})
  /\ UNCHANGED <<budgets, config, periodStart, used, vel, job, now, restarts>>

AckPgSync(r) ==
  /\ Pending(r)
  /\ outbox' = [outbox EXCEPT ![r] = NoOutbox]
  /\ UNCHANGED <<ledger, rsv, used, sess, vel, alarm, job, now, restarts>>

-----------------------------------------------------------------------------
(* The methods the dashboard reaches through /internal/budget/invalidate.   *)

\* The velocity row after an upsert: a new window size restarts the counters but
\* leaves tripped_at; no velocity limit deletes the row.
UpsertedRow(vs, c) ==
  CASE c.limit = NoLimit                             -> NoVelocityRow
    [] c.limit # NoLimit /\ ~HasVelocityRow(vs)      -> FreshRow(c.window, now)
    [] c.limit # NoLimit /\ HasVelocityRow(vs) /\ vs.window # c.window
         -> [FreshRow(c.window, now) EXCEPT !.tripped = vs.tripped]
    [] OTHER                                         -> vs

PopulateIfEmpty(e, c, seed, start) ==
  /\ budgets' = budgets \cup {e}
  /\ config' = [config EXCEPT ![e] = c]
  /\ spend' = IF e \in budgets THEN spend ELSE [spend EXCEPT ![e] = seed]
  /\ periodStart' = IF e \in budgets THEN periodStart ELSE [periodStart EXCEPT ![e] = start]
  /\ vel' = [vel EXCEPT ![e] = UpsertedRow(vel[e], c)]
  /\ UNCHANGED <<reserved, rsv, used, sess, outbox, alarm, job, now, restarts>>

RemoveBudget(e) ==
  /\ budgets' = budgets \ {e}
  /\ config' = [config EXCEPT ![e] = SomeConfig]
  /\ spend' = [spend EXCEPT ![e] = 0]
  /\ reserved' = [reserved EXCEPT ![e] = 0]
  /\ periodStart' = [periodStart EXCEPT ![e] = 0]
  /\ vel' = [vel EXCEPT ![e] = NoVelocityRow]
  /\ sess' = [sess EXCEPT ![e] = [s \in Session |-> NoSessionRow]]
  /\ UNCHANGED <<rsv, used, outbox, alarm, job, now, restarts>>

\* Faulty: the other entities of a deleted reservation keep their hold.
ResetSpendOfOne(e) ==
  LET matching == {r \in Request : e \in rsv[r].keys} IN
  /\ rsv' = Freed(matching)
  /\ reserved' = [reserved EXCEPT ![e] = 0]
  /\ spend' = [spend EXCEPT ![e] = 0]
  /\ periodStart' = [periodStart EXCEPT ![e] = IF e \in budgets THEN now ELSE 0]
  /\ UNCHANGED <<vel, sess, budgets, config, used, outbox, alarm, job, now, restarts>>

ResetSpend(e) ==
  LET matching == {r \in Request : e \in rsv[r].keys} IN
  /\ rsv' = Freed(matching)
  /\ reserved' = [x \in Entity |-> IF x = e THEN 0 ELSE Minus0(reserved[x], Held(rsv, matching, x))]
  /\ spend' = [spend EXCEPT ![e] = 0]
  /\ periodStart' = [periodStart EXCEPT ![e] = IF e \in budgets THEN now ELSE 0]
  /\ vel' = [vel EXCEPT ![e] = [@ EXCEPT !.tripped = 0, !.curr = 0, !.prev = 0]]
  /\ sess' = [sess EXCEPT ![e] = [s \in Session |-> NoSessionRow]]
  /\ UNCHANGED <<budgets, config, used, outbox, alarm, job, now, restarts>>

-----------------------------------------------------------------------------
(* alarm().                                                                 *)

Retryable == {r \in Request : Pending(r) /\ outbox[r].next <= now /\ outbox[r].attempts < MaxAttempts}

\* Faulty: writes the entry back as the handler read it, even if it was acknowledged since.
MarkFailedUpsert(X) ==
  [r \in Request |-> IF r \in X
                     THEN [outbox[r] EXCEPT !.keys = budgets, !.attempts = @ + 1,
                                            !.next = now + Backoff[outbox[r].attempts]]
                     ELSE outbox[r]]

\* markRetryFailed on the entries of the requests in X that are still there.
MarkFailed(X) ==
  [r \in Request |-> IF r \in X /\ Pending(r)
                     THEN [outbox[r] EXCEPT !.attempts = @ + 1,
                                            !.next = now + Backoff[outbox[r].attempts]]
                     ELSE outbox[r]]

DropAbandoned(box) == [r \in Request |-> IF box[r].attempts >= MaxAttempts THEN NoOutbox ELSE box[r]]

\* Faulty: looks at the outbox alone.
RescheduleOutboxOnly(at, set) ==
  LET retry == {outbox'[r].next : r \in {q \in Request : /\ outbox'[q].keys # {}
                                                        /\ outbox'[q].attempts < MaxAttempts
                                                        /\ outbox'[q].next > 0}}
  IN  \/ retry = {} /\ alarm' = set
      \/ \E a \in retry : (\A c \in retry : a <= c) /\ alarm' = a

\* Faulty: looks at the reservations alone.
RescheduleHoldsOnly(at, set) ==
  LET expiries == {rsv'[r].expires : r \in {q \in Request : rsv'[q].keys # {}}}
  IN  \/ expiries = {} /\ alarm' = set
      \/ \E a \in expiries : (\A c \in expiries : a <= c) /\ alarm' = a

\* The reschedule at the end of the handler that started at time `at`, over the new
\* contents of the tables; `set` is the alarm some other method set meanwhile, which
\* stays when there is nothing to schedule.  MIN(next_attempt_at) of 0 is falsy.
Reschedule(at, set) ==
  LET expiries == {rsv'[r].expires : r \in {q \in Request : rsv'[q].keys # {}}}
      cleanup  == IF \E e \in Entity, s \in Session : sess'[e][s].seen > 0
                  THEN {at + SessionTTL} ELSE {}
      waiting  == {r \in Request : outbox'[r].keys # {} /\ outbox'[r].attempts < MaxAttempts}
      retry    == IF \E r \in waiting : outbox'[r].next = 0 THEN {}
                  ELSE {outbox'[r].next : r \in waiting}
      candidates == expiries \cup cleanup \cup retry
  IN  \/ candidates = {} /\ alarm' = set
      \/ \E a \in candidates : (\A c \in candidates : a <= c) /\ alarm' = a

\* Up to the first await: expire reservations and reverse their session spend, drop
\* idle sessions, read the retryable outbox entries.
AlarmFire ==
  LET expired == {r \in Request : Live(r) /\ rsv[r].expires <= now} IN
  /\ job.pc = "idle" /\ alarm > 0 /\ alarm <= now
  /\ rsv' = Freed(expired)
  /\ reserved' = [e \in Entity |-> Minus0(reserved[e], Held(rsv, expired, e))]
  /\ sess' = [e \in Entity |-> [s \in Session |->
       IF sess[e][s].seen + SessionTTL < now THEN NoSessionRow
       ELSE [sess[e][s] EXCEPT !.spend = Minus0(@, Held(rsv, InSession(rsv, expired, s), e))]]]
  /\ \/ /\ Retryable = {}
        /\ UNCHANGED <<outbox, job>>
        /\ Reschedule(now, 0)
     \/ \* HYPERDRIVE unavailable: every entry read is marked failed
        /\ Retryable # {}
        /\ outbox' = DropAbandoned(MarkFailed(Retryable))
        /\ UNCHANGED job
        /\ Reschedule(now, 0)
     \/ /\ Retryable # {}
        /\ job' = [pc |-> "syncing", at |-> now, todo |-> Retryable]
        /\ alarm' = 0
        /\ UNCHANGED outbox
  /\ UNCHANGED <<budgets, config, spend, periodStart, used, vel, now, restarts>>

\* updateBudgetSpend for request r has resolved (ok) or thrown.  After the last
\* request the exhausted entries are dropped and the handler waits for the pruning
\* of reconciled_requests.
AlarmSync(r, ok) ==
  /\ job.pc = "syncing" /\ r \in job.todo
  /\ LET box == IF ok THEN [outbox EXCEPT ![r] = NoOutbox] ELSE MarkFailed({r})
         rest == job.todo \ {r}
     IN  IF rest = {}
         THEN /\ outbox' = DropAbandoned(box)
              /\ job' = [job EXCEPT !.pc = "pruning", !.todo = {}]
         ELSE /\ outbox' = box
              /\ job' = [job EXCEPT !.todo = rest]
  /\ UNCHANGED <<ledger, rsv, used, sess, vel, alarm, now, restarts>>

AlarmEnd ==
  /\ job.pc = "pruning"
  /\ UNCHANGED <<ledger, rsv, used, sess, vel, outbox, now, restarts>>
  /\ Reschedule(job.at, alarm)
  /\ job' = Idle

-----------------------------------------------------------------------------
(* The platform.  An evicted object loses its running handler; the alarm of *)
(* a handler that did not finish is delivered again, unless another was set *)
(* meanwhile.  The constructor then schedules one if entries wait without.  *)

Restart ==
  LET kept == IF job.pc # "idle" /\ alarm = 0 THEN now ELSE alarm IN
  /\ restarts < MaxRestarts
  /\ restarts' = restarts + 1
  /\ job' = Idle
  /\ alarm' = IF kept = 0 /\ (\E r \in Request : Pending(r)) THEN now + Soon ELSE kept
  /\ UNCHANGED <<ledger, rsv, used, sess, vel, outbox, now>>

\* Bound: after LastCall the clock only runs on to the next alarm.
Tick ==
  /\ now < LastCall \/ alarm > now
  /\ now' = now + 1
  /\ UNCHANGED <<ledger, rsv, used, sess, vel, outbox, alarm, job, restarts>>

Settle == \E r \in Request : (\E cost \in Costs : Reconcile(r, cost)) \/ AckPgSync(r)

AlarmStep ==
  \/ AlarmFire
  \/ \E r \in Request, ok \in BOOLEAN : AlarmSync(r, ok)
  \/ AlarmEnd

Upsert == \E e \in Entity, c \in Configs, seed \in Seeds, start \in Starts : PopulateIfEmpty(e, c, seed, start)

Admin == Upsert \/ (\E e \in Entity : RemoveBudget(e) \/ ResetSpend(e))

Next == CheckAndReserve \/ Settle \/ Admin \/ AlarmStep \/ Restart \/ Tick

Spec == Init /\ [][Next]_vars

\* The calls that never drop a hold that is still in flight: no budget is removed.
\* (Period resets are ruled out by the constants: see SteadyConfigs.)
NextSteady == CheckAndReserve \/ Settle \/ Upsert \/ (\E e \in Entity : ResetSpend(e))
                \/ AlarmStep \/ Restart \/ Tick

SpecSteady == Init /\ [][NextSteady]_vars

\* The platform delivers an alarm that is due, every wait of the handler ends
\* (Postgres answers or the client times out), and time passes.
Fairness ==
  /\ WF_vars(AlarmFire)
  /\ WF_vars(\E r \in Request, ok \in BOOLEAN : AlarmSync(r, ok))
  /\ WF_vars(AlarmEnd)
  /\ WF_vars(Tick)

FairSpec == Spec /\ Fairness

-----------------------------------------------------------------------------
(* Properties.                                                              *)

Reservation == [amount : Nat, keys : SUBSET Entity, expires : Nat,
                session : Session \cup {NoSession}, org : BOOLEAN]
OutboxRow == [keys : SUBSET Entity, cost : Nat, attempts : Nat, next : Nat]
SessionRow == [spend : Nat, seen : Nat]
Job == [pc : {"idle", "syncing", "pruning"}, at : Nat, todo : SUBSET Request]

\* Type invariant: the columns hold what SQLite's schema declares for them.
TypeOK ==
  /\ budgets \in SUBSET Entity
  /\ config \in [Entity -> Config]
  /\ spend \in [Entity -> Nat]
  /\ reserved \in [Entity -> Nat]
  /\ periodStart \in [Entity -> Nat]
  /\ rsv \in [Request -> Reservation]
  /\ used \in SUBSET Request
  /\ sess \in [Entity -> [Session -> SessionRow]]
  /\ vel \in [Entity -> VelocityState]
  /\ outbox \in [Request -> OutboxRow]
  /\ alarm \in Nat
  /\ job \in Job
  /\ now \in Nat
  /\ restarts \in Nat

\* No capacity leaks: what a budget row reports as reserved is always backed by live
\* reservations, whatever the order of settlements, expiries, resets and removals
\* (a leaked hold would deny requests for ever, since only settling or expiring a
\* reservation gives it back).
NoLeakedHold == \A e \in Entity : reserved[e] <= Held(rsv, Request, e)

\* A live reservation always has an alarm, or the handler is running and will
\* reschedule: checkAndReserve, reconcile and the end of alarm() all set the one alarm of
\* the object, and none may push it past an expiry.  Once an eviction has cut a handler
\* short, an alarm set meanwhile may have replaced its redelivery: then the expiry may
\* be late, by less than one lifetime from now.
AlarmCoversHolds ==
  \A r \in Request : Live(r) =>
    \/ job.pc # "idle"
    \/ /\ alarm > 0
       /\ \/ alarm <= rsv[r].expires
          \/ alarm <= now
          \/ restarts > 0 /\ alarm <= now + TTL

\* A request is in the reservations table or in the outbox, never in both, and in
\* neither before its id exists: its cost is booked once.
BookedOnce == \A r \in Request : /\ ~(Live(r) /\ Pending(r))
                                 /\ Live(r) \/ Pending(r) => r \in used

\* A reservation id never comes back: the tables, whatever order settlements,
\* redeliveries, expiries, resets and evictions come in, step only as the lifecycle of
\* ReservationLifecycle allows, so nothing is booked twice or held again.
Phase == [r \in Request |-> CASE Live(r)                 -> "held"
                              [] ~Live(r) /\ Pending(r)  -> "booked"
                              [] ~Live(r) /\ ~Pending(r) /\ r \in used -> "done"
                              [] OTHER                   -> "none"]
Lifecycle == INSTANCE ReservationLifecycle WITH phase <- Phase
FollowsLifecycle == Lifecycle!Spec

\* While the velocity breaker of an entity is tripped, no reservation on it was made
\* after the trip: neither another entity's recovery, nor a settings upsert, nor the
\* denial of a request halfway through its checks lets one through.
NothingAdmittedWhileTripped ==
  \A r \in Request : \A e \in rsv[r].keys :
    vel[e].tripped > 0 => rsv[r].expires <= vel[e].tripped + TTL

\* Inputs under which the books must close: one setting for every budget, with no
\* reset interval and strict, seeds below the cap, and costs the estimate covers.
SteadyInputs ==
  /\ \E m \in Nat, l \in Nat \cup {NoLimit} :
       /\ \A c \in Configs : c.strict /\ c.interval = 0 /\ c.max = m /\ c.sessionLimit = l
       /\ \A x \in Seeds : x <= m
  /\ \A x \in Costs, y \in Estimates : x <= y
  /\ TTL <= SessionTTL

\* The reserved column is exactly the sum of the live reservations: neither a
\* settlement after an expiry, nor a reset of one entity of a reservation that
\* covers several, is counted twice or missed.
HoldsExact == \A e \in budgets : reserved[e] = Held(rsv, Request, e)

\* A strict_block budget is never overdrawn by calls in flight together: what is
\* spent and what is held stay within max_budget.
NoOverdraft == \A e \in budgets : config[e].strict => spend[e] + reserved[e] <= config[e].max

\* A session's running total covers what its calls hold, and stays within the
\* session limit of the entity.
SessionTotals ==
  \A e \in budgets, s \in Session : config[e].sessionLimit # NoLimit =>
    /\ Held(rsv, InSession(rsv, Request, s), e) <= sess[e][s].spend
    /\ sess[e][s].spend <= config[e].sessionLimit

\* Every hold is given back: settled, reset or, at the latest, expired by the alarm.
HoldsReleased == \A r \in Request : Live(r) ~> ~Live(r)

\* Every entry of the outbox is acknowledged or tried to the end, evictions at any await
\* of the handler included: none is left waiting with attempts to go.
OutboxSettles ==
  \A r \in Request : Pending(r) ~> (~Pending(r) \/ outbox[r].attempts >= MaxAttempts)

\* The promise of the comments in reconcile ("Ensure alarm fires soon for outbox
\* entries") and at the end of alarm() ("Schedule alarm for next outbox retry"):
\* an entry still to be tried has an alarm no later than its retry time or the delay
\* after its settlement.
OutboxAlarmSoon ==
  \A r \in Request : (Pending(r) /\ job.pc = "idle") =>
    alarm > 0 /\ (alarm <= now + Soon \/ alarm <= outbox[r].next)

=============================================================================
