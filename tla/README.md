# NullSpend: a verification of budget enforcement

NullSpend is a proxy in front of the OpenAI, Anthropic and MCP APIs. It admits or denies each
call against budgets, holds the estimated cost while the call runs, and books the real cost when
the provider has answered. This directory holds TLA+ modules of that machinery, TLC runs that
check them on small instances, and TLAPS proofs about them for every instance.

Paths are relative to `src/`. `proxy/` stands for `apps/proxy/src/`.

## 1. Inventory

| Part | Code | State | Operations | What is hard |
|---|---|---|---|---|
| Budget object, one Durable Object per organisation | `proxy/durable-objects/user-budget.ts` | SQLite tables `budgets`, `reservations`, `velocity_state`, `session_spend`, `pg_sync_outbox`; one alarm | `checkAndReserve`, `reconcile`, `ackPgSync`, `populateIfEmpty`, `removeBudget`, `resetSpend`, `alarm` | settlements, expiries and resets reach one reservation in any order; periods end with holds in flight; one alarm for three purposes; other calls run while the alarm waits; eviction |
| pg-sync outbox | `proxy/lib/pg-sync-outbox.ts` | rows with attempts and next retry | insert, ack, mark failed, drop exhausted | retries against acknowledgements |
| Settlement | `proxy/lib/budget-orchestrator.ts`, `budget-do-client.ts`, `reconciliation-queue.ts`, `proxy/queue-handler.ts`, `dlq-handler.ts`, `proxy/lib/budget-spend.ts` | queue messages; Postgres tables `budgets`, `reconciled_requests` | enqueue, deliver, reconcile, write Postgres, ack | at-least-once delivery, lost answers, the alarm racing the worker on one write |
| Budget synchronisation | `app/api/budgets`, `lib/proxy-invalidate.ts`, `proxy/routes/internal.ts` | Postgres `budgets` and the object's copy | create, delete, reset, sync | lost and reordered invalidations |
| Human approval | `lib/actions`, `lib/budgets/increase.ts` | table `actions` | create, approve, reject, expire, mark result | a decision racing the expiry, a budget raised in the same transaction |
| Key cache | `proxy/lib/api-key-auth.ts` | positive and negative entries per isolate | authenticate, invalidate | staleness |
| Webhooks and thresholds | `proxy/lib/webhook-*.ts`, `lib/webhooks` | endpoints, queue | dispatch, deliver, retry | duplicate crossings, delivery at least once |
| Cost events | `proxy/lib/cost-event-queue.ts`, `cost-logger.ts`, `lib/cost-events` | queue, table `cost_events` | enqueue, batch insert, fall back | partial failure of a batch |
| API resilience | `lib/resilience`, `lib/auth` | Redis keys, breaker state | idempotent execution, rate limits, circuit breaker | a retry racing a slow first attempt |
| SDKs, MCP proxy | `packages/sdk`, `packages/mcp-proxy`, `packages/sdk-python` | event queues, cached policy | report, flush, shut down | queue at its limit, shutdown with a batch in flight |
| Calculators, parsers, pages, scripts, docs | the rest | none that matters here | | |

How they interact. The proxy worker calls the object by RPC (`checkAndReserve` before the provider
call, `reconcile` and `ackPgSync` after). After the provider's answer it puts the actual cost on a
Cloudflare Queue, or settles itself when the queue is missing or fails. The consumer calls
`reconcile`, which turns the hold into spend and writes an outbox entry in the same transaction,
then adds the cost to Postgres and deletes the entry. The object's alarm does the last two steps
for the entries nobody acknowledged, expires reservations and drops idle session rows. The
dashboard changes budgets in Postgres and then tells the object through
`/internal/budget/invalidate`, which also empties the key cache of the isolate it happens to reach:
that cache says whether the object is asked at all. Agents propose actions over the dashboard's
API, poll for the decision and report what they did; approving an increase raises a `budgets` row
in the same transaction. The SDK's cost reporter posts batches of cost events to the dashboard,
behind `withIdempotency`.

What makes each part correct:

- *object*: reserved amounts are backed by live reservations, and are given back exactly once;
  strict budgets and session limits hold against all calls in flight; a tripped breaker admits
  nothing; every reservation and every outbox entry has an alarm and ends;
- *settlement*: Postgres counts each settled request once on every entity it covered, and nothing else;
- *synchronisation*: the object ends up enforcing what Postgres says;
- *approval*: an action is resolved once and stays so; increases keep within the cap; only what was
  approved is run, and what is reported is what happened;
- *caches, queues, clients*: what they hold is bounded and delivered, dropped only at a stated limit.

`PROJECT.json` lists every component with its status and every hazard with its line.

## 2. Plan

1. `Velocity`, `UserBudgetDO`: the object. The core: everything else depends on it. *(done)*
2. `ReservationLifecycle`: what the object promises per reservation id; `UserBudgetDO` implements
   it, other modules use it. *(done)*
3. `BudgetSync`: settlement and outbox across worker, queue, object and Postgres, composed with
   `ReservationLifecycle`. *(done)*
4. `VelocityWindow`: how good an estimate the two counters are. *(done, with proofs)*
5. Proofs: type invariant, lifecycle, ledger, sessions, alarm coverage and velocity breaker of
   `UserBudgetDO`; single charging and no loss in `BudgetSync`. *(done, section 6)*
6. `Actions`: human approval, the increase in its transaction, the clients. *(done, with proofs)*
7. `BudgetReplica`, `KeyCache` and their composition `Enforcement`: how a change of a budget comes
   to be enforced. *(done, with proofs)*
8. `CircuitBreaker`. *(done, with proofs)*
9. `Idempotency` and `CostReports`, which puts the SDK's reporter and HTTP client in front of it,
   and `Delivery`, the contract it implements. *(done, with proofs)*
10. Left: period write-backs and spend in the replica; `EventBatcher` and cost tracker of the MCP
    proxy; `PolicyCache`; `CostEventQueue`; `WebhookDelivery`; `PeriodCalendar` (the calendar steps
    of `currentPeriodStart` against a reference).

Every invariant and action property that a run checks is also a theorem (section 6). Worth stating
next: an abstract ledger that `BudgetSync` implements.

## 3. Modules and the code they model

**`Velocity`**: operators on a row of `velocity_state`: rotation, weighted estimate, breaker,
recovery, deferred increment (`user-budget.ts:441-588`). The weight `(w - elapsed) / w` is
multiplied through by `w`, so the model compares exactly where the code uses floating point. The
request counters are only displayed and are left out.

**`UserBudgetDO`**: one variable per table or column, one action per RPC method, three for the alarm.

| Action | Code |
|---|---|
| `CheckAndReserve` = `DenySession`, `DenyVelocity`, `DenyBudget` or `Reserve` | `checkAndReserve`; an early return leaves `transactionSync` normally, so period resets and velocity rows written before it stay |
| `Reconcile`, `AckPgSync` | `reconcile` (hold to spend, session correction, outbox entry, alarm), `ackPgSync` |
| `PopulateIfEmpty`, `RemoveBudget`, `ResetSpend` | the same methods, reached through `routes/internal.ts` |
| `AlarmFire`, `AlarmSync`, `AlarmEnd` | `alarm()` up to its first await, one outbox request's write resolved or rejected, the reschedule |
| `Restart`, `Tick` | eviction and redelivery of the alarm with the constructor's check; the clock |

A Durable Object runs one event at a time and its input gate is closed while it waits for its own
storage, so a method is one step. Only `alarm()` waits for something else: it is split there, and
every other method may run between its steps.

Abstractions. The order in which SQLite returns rows is left open, so `DenyVelocity` may have
touched any subset of the other rows first. Entries that one request has in the outbox (one per
entity) move together: the alarm groups them by request and they get their attempts in the same
statements. Periods have fixed lengths; calendar months are planned separately. An amount is a set
of that many units (`Held`), so a sum of amounts is a cardinality: that makes sums provable.
Redelivery of an interrupted alarm is the platform's; the model delivers it at once, without the
platform's own backoff. `setAlarm` always succeeds: the code tries twice after an admission and then
only logs (`user-budget.ts:661-667`), and once after a settlement (`:792`), so what the alarm promises
(`AlarmCoversHolds`, `HoldsReleased`, `OutboxSettles`) is promised while the object's own storage
works. Methods that only read are left out.

**`ReservationLifecycle`**: none, held, booked, done; no phase comes back.

**`BudgetSync`**: `doBudgetReconcile` split at each await (`CallObject`, `WritePostgres`,
`AckOutbox`), run by any of several workers, directly (`SettleDirectly`) or for a queue message
(`Enqueue`, `Deliver`, `Return`); a call can fail before its effect or lose its answer after it;
`Crash` kills a worker and the queue redelivers; `DeadLetter` is `dlq-handler.ts`. The alarm takes
one outbox entry at a time (`AlarmTakes`, `AlarmWrites`, `AlarmAcks`, `AlarmFails`). Postgres is
`pgRows`, `dedup`, `charged`. The object is only its `ReservationLifecycle`. A send that fails may
have taken effect: then the worker settles and the queue has the message as well.
`UpdateBudgetSpend` is one transaction and one step: which of two concurrent inserts of a dedup key
wins is decided by Postgres' unique constraint, and the statements of `budget-spend.ts:40-89` do not
interleave in the model. The alarm's deletion of dedup records after seven days
(`user-budget.ts:1184`) is left out; the retries of a settlement, by queue and by alarm, are
supposed to have ended by then.

**`VelocityWindow`**: one budget, and two histories that the counters are measured against: what the
check admitted in the last 0, 1, ... `Window` time units (`recent`), and how often counters that stood
for such spend were thrown away in that time, by a recovery, `resetSpend` or `removeBudget`
(`forgotten`).

**`Actions`**: table `actions`, the budgets rows, and clients that are SDKs or MCP proxies.

| Action | Code |
|---|---|
| `BeginResolve`, `LockBudget`, `Commit`, `Rollback`, `RefuseOverdue` | `resolveAction` with the side effect of `approveAction`, split at the two row locks; a throw anywhere takes everything back |
| `SetBudget`, `DeleteBudget` | the dashboard's own edits, which wait for a locked row |
| `Poll`, `ExpireAction`, `BulkExpire`, `Lapse` | `getAction` with its expiry and second read, `bulkExpireActions`, the clock |
| `CreateAction`, `ReplayCreate`, `GiveUp` | creation, which a retry may repeat; `waitForDecision` running out |
| `Send`, `MarkResult`, `NoAnswer`, `Recheck`, `Run` | `proposeAndWait` and `handleGatedCall`: a result call runs on the server late, twice, or unheard; the SDK reads the status again after a 409, the MCP proxy swallows every error |

Clock times are left out: whether `expires_at` of a row has passed is a flag that may be raised at
any moment while the action is pending. That a call replayed from its idempotency record says what
its first run said is the disjunct `repeated` of `MarkResult`. The flag is one for all readers, while
`resolveAction` and `getAction` compare with the app server's clock (`expiration.ts:15`) and
`bulkExpireActions` with the database's: no property depends on who notices first, since the flag
may be raised between any two steps, but skew the other way is not there. The cap of a tier is a
constant, so a plan changed during an increase is not modelled.

**`KeyCache`**: one key in one isolate. A lookup is split into its start (`Miss`, which takes
`now`), the moment Postgres answers (`LookupKeyInDb`) and the moment the answer is stored (`Store`,
with `expiresAt` counted from the first). Times are what is left of an entry, so no clock grows. The key
exists from the start: it is generated by the server, so nobody can ask for it, and leave a negative
entry, before its row is there.
**`BudgetReplica`**: `invalidateProxyCache` and `handleBudgetInvalidation`, each try a process of
its own that goes on when the dashboard has stopped waiting. `Conclude` takes the read-back and the
second upsert (`budget-do-client.ts:208-224`) as one step: they differ only if another change of the
same budget comes between, and such changes are `doubtful` in any case. It carries limits, not spend: what
`reset_spend` does to spend and holds is `ResetSpend` of `UserBudgetDO`.
**`Enforcement`**: both, meeting in Postgres and in the isolate an invalidation reaches.

**`CircuitBreaker`**: calls in flight with their ages; `onSuccess` and `onFailure` look only at the
state, so a call from before the breaker opened may decide a probe. The time since the last failure
is counted up to the reset timeout. `BreakerAssumption` has `Deadline < ResetTimeout`, as the defaults
do (5 s and 30 s); `NULLSPEND_CB_RESET_TIMEOUT_MS` (`lib/auth/session.ts:25`) is not checked
against it, and with a reset timeout below 5 s `OneProbe` is not claimed.

**`Idempotency`**: the tries of a request and the record they share: read, `SET NX`, handler, cache,
poll, the sentinel's 60 s, a process that ends, Redis failing before the handler (open) or after it.
A `SET NX` that fails may have left a sentinel that is nobody's, and a `DEL` that fails leaves the
sentinel to its lifetime.
**`CostReports`**: `CostReporter` (queue, flush in chunks, overflow, shutdown) and `request()` of the
client as the caller of `Idempotency`, whose handler is `insertCostEventsBatch`. A chunk is a
request; tries of a request that no one can tell apart any more, and records nobody will read, are
dropped from the state.

**`Delivery`**: what the reporter and the server promise together, without queue, chunks, tries or
record: where an event is (`ahead`, `waiting`, `sending`, or an outcome) and which are stored.
`CostReports` implements it with `Where` for the first and the events that have rows for the second.
The program learns outcomes from `onDropped`, `onFlushError` and the promise of a request; a failed
event may be stored all the same, a dropped one may not.

**`*_proofs`**: the theorems (section 6).

**`MC*`**: instances. Definitions marked `Faulty` are plausible mistakes in the definition that
follows them; no specification uses them. Substituted for it, each breaks a property, which shows
that the property depends on the code being as it is.

## 4. Runs

| Run | Shows |
|---|---|
| `LedgerPeriods` | two entities with reset intervals and a velocity limit, calls covering one or both, settlements with costs above and below the estimate, budgets created, reset and removed: types, `NoLeakedHold`, `BookedOnce`, `NothingAdmittedWhileTripped`, and the refinement `FollowsLifecycle` |
| `LedgerSteady` | three requests, a session limit, no period reset or removal: `HoldsExact`, `NoOverdraft`, `SessionTotals` |
| `OutboxRetries` | three requests, fairness, Postgres failing at will, an eviction at any await: `HoldsReleased`, `OutboxSettles`, `AlarmCoversHolds` |
| `VelocityWindow` | all alignments of window and first call, resets by hand: `WithinThreeLimits`, at most three times the limit passes the check in one window; `CooldownOutlastsSpend` |
| `Settlement` | two requests sharing an entity, two workers, one budgets row that comes and goes: `ChargedOnce`, `OnlySettledCharged`; with only the alarm fair, `SettledIsCharged`, `SettledReachesPostgres` on the row that stays |
| `ActionDecisions` | an agent and an MCP proxy, two actions, three tries: `LegalTransitions`, `CapHolds`, `RefusedForGood`, `RefusalStands`, `RunsOnlyApproved`, `ReportTrue` |
| `Enforcement` | one budget, two calls of two tries, one lookup: `ConfirmedIsEnforced`, `RevocationBound`, `SkipBound`, `RejectsOnlyRevoked`, `Enforced` |
| `SessionBreaker` | four calls, threshold 3: `OneProbe`, `HalfOpenWaits`, `Recovers` |
| `CostReports` | four events, a queue of two, two tries: `NothingVanishes`, `StoredOnce`, the refinement `KeepsPromise`, `ShutdownReturnsAtLast` |

Runs expected to fail, each a disagreement with a sentence of the repository (`findings`):

| Run | Shows |
|---|---|
| `OutboxAlarm` | a settlement while `alarm()` waits leaves an entry with `next_attempt_at = 0`; the end of the handler reads the minimum as "none", so every retry waits for some other alarm (up to 24 h for session cleanup) |
| `PeriodRollover` | the period reset zeroes `reserved` under live reservations: strict budgets are overdrawn although no call costs more than its estimate |
| `DeadLetters` | the dead-letter consumer omits `orgId`, every later argument is misplaced, the error is swallowed and the message acknowledged |

More behaviours show in the models and have no run of their own:

- A provider answer later than the reservation's 30 s finds `not_found`: the cost is booked nowhere.
- The velocity limit is an estimate: more than the limit can pass within one window although
  `docs/features/budgets.md:182` speaks of any 60-second sliding window. Up to three times: a row
  begins at any time and rotates to a multiple of the window, so its first two windows overlap, each
  admits a full limit, and the third still falls within a window of the first. With resets by hand,
  or a cooldown shorter than the window, once more for each time counters are thrown away.
- Evicted after the last failed attempt and before `deleteAbandonedEntries`
  (`user-budget.ts:1171`), the object keeps an exhausted entry for ever, without the metric:
  `getRetryableEntries` leaves such entries out, and the deletion runs only when it finds others.
- Where a `budgets` row is missing when its charge is written, the dedup record is deleted so that
  the alarm can retry (`budget-spend.ts:60`), but the caller acknowledges the outbox entry: the
  cost is lost when the row comes back. `SettledIsCharged` therefore leaves out such rows.
- The update to `expired` in `resolveAction` is rolled back by the error thrown after it
  (`resolve-action.ts:42-52`): the refused action stays pending until a read or a list expires it,
  although `docs/internal/architecture.md:122` says that `approve` and `reject` do so too.
  `RefusedForGood` shows that no decision can use that.
- Changes of one budget that overlap on their way are not confirmed by their answers: a sync that
  read before a removal may bring the budget back to the object. `ConfirmedIsEnforced` is about
  changes made with no other under way, which is what `known` keeps track of.
- A flush that fails is reported and dropped, not put back. A second call of `shutdown()` during
  the first waits only for the flush in flight (`cost-reporter.ts:115`); the model has the first.

**Bounds.** Time is counted in small units: `TTL` 2, `Soon` 1, `SessionTTL` 2 to 10, backoffs 1 and
2, keeping the code's order (Soon < TTL < SessionTTL; in `LedgerSteady` SessionTTL = TTL, the least
value for which the property is claimed). No call arrives after `LastCall`; the clock then runs on
to the last alarm, so every reservation made is seen to its end. Two entities are enough for the
interactions there are (a reservation covering both, a reset of one, a shared one); two requests
for every race on one reservation or between two, three where holds add up or where an alarm that
one call set replaces the one another relied on (an eviction needs that: with two requests a
covering alarm that comes late is never seen). Two attempts and two
backoffs reach a first failure, a retry and exhaustion. `MaxDeliveries` 2 or 3 gives redelivery and
dead-lettering; two workers give concurrent consumers. `DoubtfulSends` names the request whose send may
fail after its effect, one of the two in `Settlement`; counts of deliveries and attempts are
forgotten with the message or entry they belong to. Requests (object) and workers (settlement)
are interchangeable and their permutations are a symmetry of the safety runs; liveness runs and
step properties of `BudgetSync` use none. `FollowsLifecycle` is symmetric in requests.

`ActionDecisions`: the one budget is enough since locks are per row; two actions are two overlapping
increases, one action created twice by a lost answer, or one per client; a cap of 2 is reached by
two amounts of 1 or one of 2; three tries let a late call overtake two others. `Enforcement`: two
calls give overlapping changes, two tries a late run of the first; every lifetime is 1, which is
enough for an entry to be fresh, stored late, or gone, and `KeyCache` is proved for all of them.
`VelocityWindow`: a window of 4 units and a limit of 8 are the smallest where more than twice the
limit passes; the clock runs over three windows, the estimates 3 and 8 fill a limit or leave a rest,
and two resets by hand may fall into one window.
`SessionBreaker`: three calls to open the breaker and a fourth that is old or a probe; the timers end
before the reset timeout, as in the code (5 s and 30 s). `CostReports`: four events overflow a queue
of two while a flush is in flight; a batch of one makes a flush of several chunks; one event has a
key of its own, and `Unlucky` names the one request on whose behalf Redis, the database or a process
may fail (for the others only the client's patience ends), which keeps the run small without
fixing when it happens.

**Deadlock** is checked except in `Settlement` and `CostReports`: there every message is acknowledged
or every event reported, and the system has nothing left to do. The object always has its clock or another call
in the other runs.

**Fairness.** `UserBudgetDO`: weak fairness of the alarm's three steps and of the clock. The platform
delivers a due alarm at least once; every await in the handler ends, because Postgres answers or
the client times out; whether it succeeds is not assumed. Nothing is assumed of callers, of the
worker or of evictions. `BudgetSync`: weak fairness of the alarm alone. `CircuitBreaker`: time passes,
every call ends because it has a timer, and pages go on asking who the user is, so that some call
becomes the probe; nothing is assumed of the service except what `Recovers` names. `CostReports`: the
drain loop of `shutdown()` goes on, and a request ends at the latest with `requestTimeoutMs`, which
the step `NoAnswer` stands for; nothing is assumed of the server.

## 5. Why the steady instance is a claim of its own

`HoldsExact`, `NoOverdraft` and `SessionTotals` do not hold for every input, nor should they: the
dashboard can lower a cap under live spend, a call can cost more than its estimate (spend is booked
in full), a removed and re-created budget starts from Postgres' spend, and a period that ends drops
holds (`PeriodRollover`). `SpecSteady` and `SteadyInputs` name exactly what is excluded, and
`NoLeakedHold` is the part that survives without them: whatever happens, no capacity is lost.

## 6. Proofs

Every theorem holds for all sets of entities, sessions and (finitely many) requests, all settings and
all bounds, from the assumptions `TablesAssumption`, `NumbersAssumption`, `ConfigsAssumption`,
`SyncAssumption`, `VelocitySettings`, `ActionsAssumption`, `KeyCacheAssumption`, `ReplicaAssumption`,
`BreakerAssumption` and `ReportsAssumption` on the constants alone, plus what the statement names.

| Theorem | Says | Strengthened by |
|---|---|---|
| `TypeCorrect` | `TypeOK` | `JobOK`: an entry the handler read before its await has attempts left. `markRetryFailed` looks up a backoff by the attempts so far; only the handler counts them |
| `BookedAtMostOnce`, `ImplementsLifecycle` | `BookedOnce`; the refinement `FollowsLifecycle` | nothing more: `RowsStep` shows that any step hands out one id, books one hold, or only removes rows |
| `NoCapacityLeaks` | `NoLeakedHold` | `GoneIsZero`: a row that is gone has nothing reserved, or settling after `removeBudget` would leave the amount behind |
| `HoldsAreExact`, `StrictNeverOverdrawn` | `HoldsExact`, `NoOverdraft`, given `SteadyInputs`, of `SpecSteady` | `Books`: exact for entities without a row too, reservations only on existing rows, amounts among the estimates, settings among `Configs` |
| `SessionsWithinLimit` | `SessionTotals`, likewise | `SeenLate`: a session row was seen within a lifetime of every reservation it covers, so idle cleanup never drops a row in use; `Lifetimes` |
| `AlarmAlwaysCovers` | `AlarmCoversHolds` | `Lifetime`: expiries lie ahead by at most `TTL`; `AlarmNear`: an alarm set while the handler waits is at most a lifetime away, which is what is left after an eviction |
| `NothingPassesTheBreaker` | `NothingAdmittedWhileTripped` | `NoLimitNoTrip`: an entity without a limit has no tripped row, since `checkAndReserve` would not look at it |
| `SyncTypeCorrect`, `SingleCharge`, `NoPhantomCharge` | `TypeOK`, `ChargedOnce`, `OnlySettledCharged` of `BudgetSync` | `WorkersOK`, `AlarmOK`, `BookedOK`: whoever is about to write Postgres does so for a request the object booked |
| `NothingLost` | `SettledIsCharged` | `KeptInv`: the rows that do not come and go are there, and whoever is about to delete an entry has written all of it to them |
| `UsesTheLifecycle` of `BudgetSync` | what workers, queue and alarm ask of the object is within `ReservationLifecycle`, which `ImplementsLifecycle` shows of `UserBudgetDO` | `IInv`: whoever acknowledges, or syncs from the alarm, has a request in hand |
| `Typed`, `IncreasesWithinCap`, `LateDecisionsFail`, `RefusalsStand`, `OnlyApprovedRuns`, `ReportsAreTrue`, `TransitionsAreLegal` of `Actions` | its seven properties | `Locks`: a transaction finds the row, and the budget, as they were when it locked them, and no two hold one budget; `ClientOK`, `ActionOK`: only the client that was given an action's id moves it past approved, after it has heard so, and result calls in flight are those it has sent |
| `NeverStuck`, `SingleProbe` of `CircuitBreaker` | `HalfOpenWaits`, `OneProbe` | `OldProbe`: a probe whose result another call decided is older than the time since the breaker opened again, so its timer ends it before the next probe. This needs `Deadline < ResetTimeout` |
| `WindowTyped`, `BurstsAreBounded`, `RecoveriesForgetNothing` of `VelocityWindow` | `TypeOK`, `WithinThreeLimits`, `CooldownOutlastsSpend` | `Counters`: the spend of the last `a` units went through three counters at most, one limit each and one more per time counters were thrown away; through two if the row's window began within them, and through the present one if that window does not begin at a multiple; `WindowEnds`: after the end of the row's window nothing is admitted without a rotation; `TripStops`: nothing is admitted between a trip and its recovery |
| `RevokedKeysExpire`, `BudgetsAreSeen`, `ValidKeysPass` of `KeyCache` | `RevocationBound`, `SkipBound`, `RejectsOnlyRevoked` of `KeySpec` | `Recent`: a lookup's age bounds how long ago its answer stopped being true, and an entry is given what that age leaves of its life; `Stopped` |
| `KeyCacheImplemented`, `CachesStayBounded` of `Enforcement` | the composition implements `KeySpec`; the three guarantees hold of it | what a budget or an invalidation does to the isolate is a step of the cache or none; `hasBudgets` is whether a row is left in Postgres |
| `EnforcementTyped`, `ConfirmedHolds` of `Enforcement` | `TypeOK`, `ConfirmedIsEnforced` | `Alone`: while what is known of a budget is not doubtful, one call at most is about it, so no try of another can still run, however late; `TrustedCalls`: a try of that call that has read knows the row of Postgres, and one that has changed the object has made it equal, so one success is enough and a repetition does no harm; `Quiet` |
| `ChangesAreEnforced` of `Enforcement` | `Enforced` | both invariants, and `ToldInv`: once told, every entry and every lookup in flight of the isolate says what is there |
| `ReportsTyped`, `NoneVanishes` of `CostReports` | `TypeOK`, `NothingVanishes` | `InOrder`: snapshot, queue and events to come are increasing and follow each other, so every chunk has a request of its own; `Placed`: each place of an event excludes the others; `Counted`: rows of an event plus tries that can still insert it are at most `MaxTries` |
| `OnlyOnce` of `CostReports` | `StoredOnce` | `Exclusive`: where nothing failed, only the holder of the sentinel runs the handler; `Remembered`: what was stored has its answer stored, or is about to have, or nobody asks again, so no second try runs the handler |
| `PromiseKept` of `CostReports` | the refinement `KeepsPromise` of `Delivery` | `Truthful`: an answer "ok", given or recorded, has its rows, so `DeliveredIsStored`; `Flow`: a step of the client takes events forward, a request's all alike; `DroppedUnsent`: no request has a dropped event, so the server, however late, inserts none |

A sum of amounts is the cardinality of a set of units; `HeldSplit`, `HeldNone`, `HeldSame` and
`HeldOne` in `UserBudgetDO_proofs` are the facts about it, and `AllHeld` and `RowAdded` in
`Ledger_proofs` what freeing and adding rows do to it.

What may not be guessed from the statements: `OnlyOnce` names the requests with trouble in a history
variable, which is set where the code catches an error after the handler ran, lets a request through
without Redis, or loses the sentinel under a running handler, and nowhere else; a slow client, its
retries, lost answers and a handler that fails are no trouble. `ConfirmedHolds` is about changes that
were not overlapped by another of the same budget (`known` is `"doubtful"` for those that were).

Only model-checked: liveness, since fairness and ENABLED are outside what the prover handles. These are
`HoldsReleased`, `OutboxSettles`, `SettledReachesPostgres`, `Recovers` and `ShutdownReturnsAtLast`. No
module declares a recursive operator; sums are cardinalities because a fold's value for every input
needs induction over data. For the same reason `VelocityWindow` keeps its histories as functions of
an age, which a step shifts, and not as a list of calls to be summed.

## 7. Not modelled

Provider streaming, token counting and pricing are arithmetic on inputs the models take as given.
The pages, SDK adapters, analytics queries, Stripe, Slack and margins do not take part in
enforcement. Rate limits are counters of a library in Redis. The charge to budgets that follows an
ingested cost event is a fire-and-forget loop without retries, which promises nothing to state.
Webhooks are delivered at least once to endpoints outside and nothing in the ledger waits for them.
The parts named in step 10 of the plan are within reach of further modules. Of the calls an SDK
makes, `maxRetryTimeMs` and `onRetry` end a request early like its last try does, and the limit of
16 rounds of the drain loop is never reached, since nothing can be enqueued after `shutdown()`.
