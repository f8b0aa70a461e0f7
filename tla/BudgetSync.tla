----------------------------- MODULE BudgetSync -----------------------------
(***************************************************************************)
(* How the actual cost of a request travels from the proxy worker to the   *)
(* budgets table of Postgres: the settlement is queued or made directly,   *)
(* the consumer calls the Durable Object and then writes Postgres, and the *)
(* object's outbox retries what that write did not acknowledge.            *)
(*                                                                         *)
(* The object is taken at its word: ReservationLifecycle is all this       *)
(* module knows of it, and UserBudgetDO is shown to implement that.  Every *)
(* call can fail before its effect or lose its answer after it; messages   *)
(* are delivered at least once, to any of the consumers.                   *)
(***************************************************************************)
EXTENDS Integers, FiniteSets

CONSTANTS
  Request,        \* reservation ids
  Entity,         \* budget entities
  Worker,         \* concurrent invocations of the worker
  Nobody,         \* no request
  Keys,           \* Keys[r]: the entities the reservation of r covers
  OrgLess,        \* requests whose API key has no org id
  VolatileRows,   \* entities whose budgets row is created and deleted meanwhile
  MaxDeliveries,  \* 1 + max_retries of the queue
  MaxAttempts,    \* MAX_OUTBOX_ATTEMPTS
  MaxEvictions,   \* bound: evictions of the object that are explored
  DoubtfulSends   \* bound: requests whose send to the queue may fail after its effect

ASSUME SyncAssumption ==
  /\ Keys \in [Request -> (SUBSET Entity) \ {{}}]
  /\ OrgLess \subseteq Request
  /\ Nobody \notin Request
  /\ VolatileRows \subseteq Entity
  /\ MaxDeliveries \in Nat \ {0} /\ MaxAttempts \in Nat \ {0} /\ MaxEvictions \in Nat

VARIABLES
  phase,       \* the object's side of each request: ReservationLifecycle
  attempts,    \* outbox: failed attempts of the entry, 0 again once it is acknowledged
  job,         \* alarm(): the request it is syncing, and where it waits
  evictions,
  submitted,   \* requests whose outcome the worker has handed to reconciliation
  billed,      \* of those, the ones with an actual cost above 0
  msg,         \* the settlement message: none, queued, delivered, dead or gone
  deliveries,  \* times it was delivered, 0 again once it is dead or gone
  proc,        \* the invocations of doBudgetReconcile
  pgRows,      \* Postgres: entities with a budgets row
  dedup,       \* Postgres: reconciled_requests
  charged,     \* Postgres: how often the cost of r was added to the spend of e
  settled,     \* history: requests the object has turned into spend
  abandoned    \* history: requests whose outbox entry was given up

objectVars == <<phase, attempts, job, evictions, settled, abandoned>>
queueVars  == <<submitted, billed, msg, deliveries>>
pgVars     == <<pgRows, dedup, charged>>
vars == <<objectVars, queueVars, proc, pgVars>>

Object == INSTANCE ReservationLifecycle

Resting == [pc |-> "idle", req |-> Nobody, queued |-> FALSE]
NoJob == [pc |-> "idle", req |-> Nobody]

Init ==
  /\ Object!Init
  /\ attempts = [r \in Request |-> 0]
  /\ job = NoJob
  /\ evictions = 0
  /\ submitted = {}
  /\ billed = {}
  /\ msg = [r \in Request |-> "none"]
  /\ deliveries = [r \in Request |-> 0]
  /\ proc = [w \in Worker |-> Resting]
  /\ pgRows = Entity
  /\ dedup = {}
  /\ charged = [r \in Request |-> [e \in Entity |-> 0]]
  /\ settled = {}
  /\ abandoned = {}

-----------------------------------------------------------------------------
(* The object's own events: a call reserves, the alarm or a reset releases. *)

Approve(r) ==
  /\ Object!Hold(r)
  /\ UNCHANGED <<attempts, job, evictions, settled, abandoned, queueVars, proc, pgVars>>

Expire(r) ==
  /\ phase[r] = "held"
  /\ Object!Close({r})
  /\ UNCHANGED <<attempts, job, evictions, settled, abandoned, queueVars, proc, pgVars>>

-----------------------------------------------------------------------------
(* reconcileBudgetQueued: once the provider has answered, queue the outcome, *)
(* or settle directly when there is no queue or the send fails.  A worker    *)
(* that dies before this never submits: the hold expires.                    *)

Answered(r, costs) ==
  /\ phase[r] # "none" /\ r \notin submitted
  /\ submitted' = submitted \cup {r}
  /\ billed' = IF costs THEN billed \cup {r} ELSE billed

Enqueue(r, costs) ==
  /\ Answered(r, costs)
  /\ msg' = [msg EXCEPT ![r] = "queued"]
  /\ UNCHANGED <<objectVars, deliveries, proc, pgVars>>

\* A send that failed may have taken effect: then the message comes as well.
SettleDirectly(w, r, costs) ==
  /\ proc[w] = Resting
  /\ Answered(r, costs)
  /\ proc' = IF r \in OrgLess THEN proc
             ELSE [proc EXCEPT ![w] = [pc |-> "do", req |-> r, queued |-> FALSE]]
  /\ \/ UNCHANGED msg
     \/ r \in DoubtfulSends /\ msg' = [msg EXCEPT ![r] = "queued"]
  /\ UNCHANGED <<objectVars, deliveries, pgVars>>

-----------------------------------------------------------------------------
(* The queue: handleReconciliationQueue acks when doBudgetReconcile returned *)
(* "ok" and retries otherwise; after max_retries the message is dead.        *)

Deliver(w, r) ==
  /\ msg[r] \in {"queued", "delivered"} /\ deliveries[r] < MaxDeliveries
  /\ proc[w] = Resting
  /\ deliveries' = [deliveries EXCEPT ![r] = @ + 1]
  /\ IF r \in OrgLess   \* reconcileBudget skips a message without an org id
     THEN msg' = [msg EXCEPT ![r] = "gone"] /\ UNCHANGED proc
     ELSE /\ msg' = [msg EXCEPT ![r] = "delivered"]
          /\ proc' = [proc EXCEPT ![w] = [pc |-> "do", req |-> r, queued |-> TRUE]]
  /\ UNCHANGED <<objectVars, submitted, billed, pgVars>>

Acked(r) == [msg EXCEPT ![r] = "gone"]

Retried(r) == IF msg[r] # "delivered" THEN msg
              ELSE [msg EXCEPT ![r] = IF deliveries[r] < MaxDeliveries THEN "queued" ELSE "dead"]

\* doBudgetReconcile returns in w; only the queue's consumer acts on the status.
Return(w, ok) ==
  /\ proc' = [proc EXCEPT ![w] = Resting]
  /\ msg' = IF ~proc[w].queued THEN msg
            ELSE IF ok THEN Acked(proc[w].req) ELSE Retried(proc[w].req)
  /\ deliveries' = [r \in Request |-> IF msg'[r] \in {"gone", "dead"} THEN 0 ELSE deliveries[r]]
  /\ UNCHANGED <<submitted, billed>>

Crash(w) ==
  /\ proc[w] # Resting
  /\ Return(w, FALSE)
  /\ UNCHANGED <<objectVars, pgVars>>

\* handleDlqQueue passes its arguments to reconcileBudget without the org id: every
\* one after it is a place early, `budgetEntities` is the connection string, and its
\* .map throws inside reconcileBudget, which swallows the error.  (A cost of 0 lands
\* in `reservationId` and skips the call.)  The message is acked; nothing else happens.
DeadLetter(r) ==
  /\ msg[r] = "dead"
  /\ msg' = Acked(r)
  /\ UNCHANGED <<objectVars, submitted, billed, deliveries, proc, pgVars>>

-----------------------------------------------------------------------------
(* doBudgetReconcile, from one await to the next.                            *)

\* UserBudgetDO.reconcile: a held reservation becomes spend, or just ends if it cost
\* nothing; one that is not there any more is "not_found".
ObjectReconciles(r) ==
  \/ /\ phase[r] = "held" /\ r \in billed
     /\ Object!Book(r)
     /\ settled' = settled \cup {r}
     /\ attempts' = [attempts EXCEPT ![r] = 0]
  \/ /\ phase[r] = "held" /\ r \notin billed
     /\ Object!Close({r})
     /\ UNCHANGED <<settled, attempts>>

\* Faulty: "not_found" is taken for a settlement.
NotFoundWrites(w) ==
  /\ phase[proc[w].req] # "held"
  /\ IF proc[w].req \in billed
     THEN proc' = [proc EXCEPT ![w].pc = "pg"] /\ UNCHANGED queueVars
     ELSE Return(w, TRUE)
  /\ UNCHANGED <<phase, settled, attempts>>

\* "not_found": expired or already reconciled, so "ok" and no write.
NotFound(w) ==
  /\ phase[proc[w].req] # "held"
  /\ Return(w, TRUE)
  /\ UNCHANGED <<phase, settled, attempts>>

CallObject(w) ==
  LET r == proc[w].req IN
  /\ proc[w].pc = "do"
  /\ \/ /\ ObjectReconciles(r)
        /\ IF r \in billed
           THEN proc' = [proc EXCEPT ![w].pc = "pg"] /\ UNCHANGED queueVars
           ELSE Return(w, TRUE)
     \/ NotFound(w)
     \/ /\ ObjectReconciles(r)             \* done, but the answer is lost
        /\ Return(w, FALSE)
     \/ /\ Return(w, FALSE)                \* the call failed
        /\ UNCHANGED <<phase, settled, attempts>>
  /\ UNCHANGED <<job, evictions, abandoned, pgVars>>

\* Faulty: the cost is added whether or not the pair is new.
AddAgain(r) ==
  /\ dedup' = dedup \cup ({r} \X (Keys[r] \cap pgRows))
  /\ charged' = [charged EXCEPT ![r] =
                   [e \in Entity |-> IF e \in Keys[r] \cap pgRows THEN @[e] + 1 ELSE @[e]]]
  /\ UNCHANGED pgRows

\* Faulty: a row that is missing stops the others too.
AddIfAllThere(r) ==
  LET new == {e \in Keys[r] : <<r, e>> \notin dedup /\ Keys[r] \subseteq pgRows} IN
  /\ dedup' = dedup \cup ({r} \X new)
  /\ charged' = [charged EXCEPT ![r] =
                   [e \in Entity |-> IF e \in new THEN @[e] + 1 ELSE @[e]]]
  /\ UNCHANGED pgRows

\* updateBudgetSpend, one transaction: a new (request, entity) pair adds the cost to
\* the row; where there is no row the dedup record is deleted again; a known pair is
\* skipped.
UpdateBudgetSpend(r) ==
  LET new == {e \in Keys[r] : <<r, e>> \notin dedup /\ e \in pgRows} IN
  /\ dedup' = dedup \cup ({r} \X new)
  /\ charged' = [charged EXCEPT ![r] =
                   [e \in Entity |-> IF e \in new THEN @[e] + 1 ELSE @[e]]]
  /\ UNCHANGED pgRows

WritePostgres(w) ==
  LET r == proc[w].req IN
  /\ proc[w].pc = "pg"
  /\ \/ /\ UpdateBudgetSpend(r)
        /\ proc' = [proc EXCEPT ![w].pc = "ack"]
        /\ UNCHANGED queueVars
     \/ /\ UpdateBudgetSpend(r) \/ UNCHANGED pgVars   \* "pg_failed", committed or not
        /\ Return(w, FALSE)
  /\ UNCHANGED objectVars

\* ackPgSync deletes the outbox entry; if the call fails the alarm will retry.
AckOutbox(w) ==
  LET r == proc[w].req IN
  /\ proc[w].pc = "ack"
  /\ \/ phase[r] = "booked" /\ Object!Close({r}) /\ attempts' = [attempts EXCEPT ![r] = 0]
     \/ UNCHANGED <<phase, attempts>>
  /\ Return(w, TRUE)
  /\ UNCHANGED <<job, evictions, settled, abandoned, pgVars>>

-----------------------------------------------------------------------------
(* alarm(): one outbox entry at a time.                                      *)

\* Faulty: reads exhausted entries too.
AlarmTakesAny(r) ==
  /\ job = NoJob
  /\ phase[r] = "booked"
  /\ job' = [pc |-> "pg", req |-> r]
  /\ UNCHANGED <<phase, attempts, evictions, settled, abandoned, queueVars, proc, pgVars>>

\* Faulty: one attempt short of the last.
AlarmTakesTooFew(r) ==
  /\ job = NoJob
  /\ phase[r] = "booked" /\ attempts[r] < MaxAttempts - 1
  /\ job' = [pc |-> "pg", req |-> r]
  /\ UNCHANGED <<phase, attempts, evictions, settled, abandoned, queueVars, proc, pgVars>>

AlarmTakes(r) ==
  /\ job = NoJob
  /\ phase[r] = "booked" /\ attempts[r] < MaxAttempts
  /\ job' = [pc |-> "pg", req |-> r]
  /\ UNCHANGED <<phase, attempts, evictions, settled, abandoned, queueVars, proc, pgVars>>

AlarmWrites ==
  /\ job.pc = "pg"
  /\ \/ UpdateBudgetSpend(job.req) /\ job' = [job EXCEPT !.pc = "ack"]
     \/ /\ UpdateBudgetSpend(job.req) \/ UNCHANGED pgVars
        /\ job' = [job EXCEPT !.pc = "failed"]
  /\ UNCHANGED <<phase, attempts, evictions, settled, abandoned, queueVars, proc>>

\* deleteAbandonedEntries runs when the loop is over, so it takes the exhausted entries
\* of this pass and of passes that an eviction cut short; until then they stay.
LoopGoesOnOrEnds(done) ==
  LET exhausted == {x \in Request \ done : phase[x] = "booked" /\ attempts'[x] = MaxAttempts} IN
  \E dropped \in {{}, exhausted} : Object!Close(done \cup dropped)

AlarmAcks ==
  /\ job.pc = "ack"
  /\ job' = NoJob
  /\ attempts' = IF phase[job.req] = "booked" THEN [attempts EXCEPT ![job.req] = 0] ELSE attempts
  /\ UNCHANGED <<evictions, settled, abandoned, queueVars, proc, pgVars>>
  /\ LoopGoesOnOrEnds({r \in {job.req} : phase[r] = "booked"})

\* markRetryFailed: after MaxAttempts the entry is not read again.
AlarmFails ==
  LET r == job.req IN
  /\ job.pc = "failed"
  /\ job' = NoJob
  /\ IF phase[r] # "booked" THEN UNCHANGED <<attempts, abandoned>>
     ELSE /\ attempts' = [attempts EXCEPT ![r] = @ + 1]
          /\ abandoned' = IF attempts'[r] < MaxAttempts THEN abandoned ELSE abandoned \cup {r}
  /\ LoopGoesOnOrEnds({})
  /\ UNCHANGED <<evictions, settled, queueVars, proc, pgVars>>

\* An evicted object forgets its running handler; its alarm is delivered again.
Evict ==
  /\ job # NoJob /\ evictions < MaxEvictions
  /\ evictions' = evictions + 1
  /\ job' = NoJob
  /\ UNCHANGED <<phase, attempts, settled, abandoned, queueVars, proc, pgVars>>

\* The dashboard creates and deletes budgets rows.
ChangeRow(e) ==
  /\ e \in VolatileRows
  /\ pgRows' = IF e \in pgRows THEN pgRows \ {e} ELSE pgRows \cup {e}
  /\ UNCHANGED <<objectVars, queueVars, proc, dedup, charged>>

-----------------------------------------------------------------------------

AlarmNext == (\E r \in Request : AlarmTakes(r)) \/ AlarmWrites \/ AlarmAcks \/ AlarmFails

WorkerNext(w) == CallObject(w) \/ WritePostgres(w) \/ AckOutbox(w)

Next ==
  \/ \E r \in Request : \/ Approve(r) \/ Expire(r) \/ DeadLetter(r)
                        \/ \E costs \in BOOLEAN : Enqueue(r, costs)
  \/ \E w \in Worker, r \in Request : \/ Deliver(w, r)
                                      \/ \E costs \in BOOLEAN : SettleDirectly(w, r, costs)
  \/ \E w \in Worker : WorkerNext(w) \/ Crash(w)
  \/ AlarmNext
  \/ Evict
  \/ \E e \in Entity : ChangeRow(e)

Spec == Init /\ [][Next]_vars

\* The platform keeps delivering the alarm while entries wait, and every wait of the
\* handler ends; nothing is assumed of the workers.
FairSpec == Spec /\ WF_vars(AlarmNext)

-----------------------------------------------------------------------------
(* Properties.                                                               *)

Process == [pc : {"idle", "do", "pg", "ack"}, req : Request \cup {Nobody}, queued : BOOLEAN]

TypeOK ==
  /\ phase \in [Request -> Object!Phases]
  /\ attempts \in [Request -> 0..MaxAttempts]
  /\ job \in [pc : {"idle", "pg", "ack", "failed"}, req : Request \cup {Nobody}]
  /\ evictions \in 0..MaxEvictions
  /\ submitted \in SUBSET Request
  /\ billed \in SUBSET submitted
  /\ msg \in [Request -> {"none", "queued", "delivered", "dead", "gone"}]
  /\ deliveries \in [Request -> 0..MaxDeliveries]
  /\ proc \in [Worker -> Process]
  /\ pgRows \in SUBSET Entity
  /\ dedup \in SUBSET (Request \X Entity)
  /\ charged \in [Request -> [Entity -> Nat]]
  /\ settled \in SUBSET Request
  /\ abandoned \in SUBSET Request

\* budget-spend.ts: "Each (requestId, entityType, entityId) tuple is written exactly
\* once", whatever the consumer, its redeliveries and the alarm do together.
ChargedOnce ==
  \A r \in Request, e \in Entity : charged[r][e] = IF <<r, e>> \in dedup THEN 1 ELSE 0

\* Postgres never counts a request the object let expire, reset or found free: only
\* what the object has booked as spend, and only on the entities it reserved.
OnlySettledCharged ==
  \A r \in Request, e \in Entity :
    <<r, e>> \in dedup => r \in settled /\ r \in billed /\ e \in Keys[r]

\* The outbox loses nothing: once a settled request has left it, every entity of the
\* reservation was charged, or the entry was given up after MaxAttempts.  A budgets row
\* that was away when the write came is not charged, and nothing tries again.
SettledIsCharged ==
  \A r \in settled : phase[r] = "done" =>
    r \in abandoned \/ \A e \in Keys[r] \ VolatileRows : <<r, e>> \in dedup

\* A settled request reaches Postgres, or is given up, even if no worker ever gets
\* there: the outbox needs only the alarm.  (VolatileRows as above.)
SettledReachesPostgres ==
  \A r \in Request :
    r \in settled ~> (r \in abandoned \/ \A e \in Keys[r] \ VolatileRows : <<r, e>> \in dedup)

\* handleDlqQueue: "attempt one final best-effort reconciliation".
DeadLetterReconciles ==
  [][\A r \in Request : (msg[r] = "dead" /\ msg'[r] # "dead") =>
       \E w \in Worker : proc'[w].pc = "do" /\ proc'[w].req = r]_vars

=============================================================================
