------------------------------ MODULE CostReports ------------------------------
(***************************************************************************)
(* How a cost event gets from an agent into Postgres: the queue of the     *)
(* JavaScript SDK (packages/sdk/src/cost-reporter.ts), the retries of its  *)
(* HTTP client, and POST /api/cost-events/batch, which runs in             *)
(* withIdempotency (module Idempotency) and inserts the rows.              *)
(***************************************************************************)
EXTENDS Idempotency, Sequences, FiniteSets

CONSTANTS
  Event,       \* cost events, numbered in the order they happen
  Keyed,       \* those that carry an idempotencyKey of their own
  BatchSize,   \* batchSize
  MaxQueue     \* maxQueueSize

ASSUME ReportsAssumption ==
  /\ Keyed \subseteq Event
  /\ BatchSize \in Nat \ {0} /\ MaxQueue \in Nat \ {0} /\ MaxTries \in Nat \ {0}
  /\ IsFiniteSet(Event) /\ Event = 1..Cardinality(Event) /\ Key = Event

VARIABLES
  fresh,       \* events that have not happened yet
  queue,       \* CostReporter.queue
  snapshot,    \* what doFlush has taken from the queue and not begun to send
  batch,       \* the chunk of each request, {} before it is sent
  current,     \* the request that is being sent, 0 if no flush is in flight
  shut,        \* _isShutDown, and whether shutdown() has returned
  dropped,     \* history: events onDropped was told of
  failed,      \* history: events onFlushError was told of
  delivered,   \* history: events whose request succeeded
  rows         \* rows of cost_events for each event

reporterVars == <<fresh, queue, snapshot, batch, current, shut, dropped, failed, delivered>>
vars == <<idemVars, reporterVars, rows>>

Elements(s) == {s[i] : i \in 1..Len(s)}

Init ==
  /\ IdemInit
  /\ fresh = Event
  /\ queue = <<>> /\ snapshot = <<>>
  /\ batch = [k \in Key |-> {}] /\ current = 0
  /\ shut = "no"
  /\ dropped = {} /\ failed = {} /\ delivered = {}
  /\ rows = [e \in Event |-> 0]

-----------------------------------------------------------------------------
(* CostReporter.                                                             *)

Flushing == current # 0

Smaller(m, n) == IF m < n THEN m ELSE n

\* Faulty: the next chunk begins one event too late.
BeginChunkSkipping(s) ==
  LET k == Cardinality({j \in Key : batch[j] # {}}) + 1
      n == Smaller(BatchSize, Len(s))
  IN
  /\ batch' = [batch EXCEPT ![k] = Elements(SubSeq(s, 1, n))]
  /\ snapshot' = SubSeq(s, n + 2, Len(s))
  /\ current' = k
  /\ SendInstead(current, k, 1)

\* A chunk of s becomes a request with a key of its own, in place of the request before;
\* the rest of s waits.
BeginChunk(s) ==
  LET k == Cardinality({j \in Key : batch[j] # {}}) + 1
      n == Smaller(BatchSize, Len(s))
  IN
  /\ batch' = [batch EXCEPT ![k] = Elements(SubSeq(s, 1, n))]
  /\ snapshot' = SubSeq(s, n + 1, Len(s))
  /\ current' = k
  /\ SendInstead(current, k, 1)

\* Faulty: the queue grows while a flush is in flight.
EnqueueUnbounded(e) ==
  /\ shut = "no" /\ e \in fresh /\ \A d \in fresh : e <= d
  /\ fresh' = fresh \ {e}
  /\ IF Len(queue) + 1 >= BatchSize /\ ~Flushing
     THEN queue' = <<>> /\ BeginChunk(Append(queue, e))
     ELSE queue' = Append(queue, e) /\ UNCHANGED <<batch, snapshot, current, idemVars>>
  /\ UNCHANGED <<shut, dropped, failed, delivered, rows>>

\* The oldest events make place at maxQueueSize; a full batch is sent at once, if no flush
\* is in flight.
Enqueue(e) ==
  LET longer == Append(queue, e)
      excess == IF Len(longer) > MaxQueue THEN Len(longer) - MaxQueue ELSE 0
      kept == SubSeq(longer, excess + 1, Len(longer))
  IN
  /\ shut = "no" /\ e \in fresh /\ \A d \in fresh : e <= d
  /\ fresh' = fresh \ {e}
  /\ dropped' = dropped \cup Elements(SubSeq(longer, 1, excess))
  /\ IF Len(kept) >= BatchSize /\ ~Flushing
     THEN queue' = <<>> /\ BeginChunk(kept)
     ELSE queue' = kept /\ UNCHANGED <<batch, snapshot, current, idemVars>>
  /\ UNCHANGED <<shut, failed, delivered, rows>>

\* Faulty: flush() does nothing once shutdown() has been called.
FlushUnlessShut ==
  /\ shut = "no" /\ ~Flushing /\ queue # <<>>
  /\ queue' = <<>>
  /\ BeginChunk(queue)
  /\ UNCHANGED <<fresh, shut, dropped, failed, delivered, rows>>

\* flush(), called by the timer, by the program, or by shutdown().
Flush ==
  /\ shut # "done" /\ ~Flushing /\ queue # <<>>
  /\ queue' = <<>>
  /\ BeginChunk(queue)
  /\ UNCHANGED <<fresh, shut, dropped, failed, delivered, rows>>

Shutdown ==
  /\ shut = "no"
  /\ shut' = "draining"
  /\ UNCHANGED <<idemVars, fresh, queue, snapshot, batch, current, dropped, failed,
                 delivered, rows>>

\* The drain loop ends: no flush is in flight, and nothing is queued.
ShutdownReturns ==
  /\ shut = "draining" /\ ~Flushing /\ queue = <<>>
  /\ shut' = "done"
  /\ UNCHANGED <<idemVars, fresh, queue, snapshot, batch, current, dropped, failed,
                 delivered, rows>>

-----------------------------------------------------------------------------
(* The client's request().                                                   *)

\* doFlush goes on with the next chunk, or the flush is over.
NextChunk ==
  IF snapshot # <<>> THEN BeginChunk(snapshot)
  ELSE current' = 0 /\ SendInstead(current, 0, 0) /\ UNCHANGED <<batch, snapshot>>

Delivered ==
  /\ delivered' = delivered \cup batch[current]
  /\ NextChunk
  /\ UNCHANGED failed

\* onFlushError; the chunk is not sent again.
GivenUp ==
  /\ failed' = failed \cup batch[current]
  /\ NextChunk
  /\ UNCHANGED delivered

\* The same key and body once more.
Again ==
  IF awaited[current] = MaxTries THEN GivenUp
  ELSE /\ SendInstead(current, current, awaited[current] + 1)
       /\ UNCHANGED <<batch, snapshot, current, failed, delivered>>

Answer == try[current][awaited[current]].answer

Receive ==
  /\ Flushing /\ At(current, awaited[current], "answered")
  /\ \/ Answer = "ok" /\ Delivered
     \/ Answer = "refused" /\ GivenUp
     \/ Answer = "error" /\ Again
  /\ UNCHANGED <<fresh, queue, shut, dropped, rows>>

\* The request or its answer is lost, or takes longer than requestTimeoutMs.
NoAnswer ==
  /\ Flushing
  /\ Again
  /\ UNCHANGED <<fresh, queue, shut, dropped, rows>>

-----------------------------------------------------------------------------
(* POST /api/cost-events/batch.                                              *)

\* ON CONFLICT (request_id, provider) DO NOTHING: an event without a key of its own gets a
\* new request_id in every try.
Inserted(k) == {e \in batch[k] : e \notin Keyed \/ rows[e] = 0}

\* insertCostEventsBatch, in one statement.
InsertCostEventsBatch(k) ==
  rows' = [e \in Event |-> IF e \in Inserted(k) THEN rows[e] + 1 ELSE rows[e]]

Serve(k, t) ==
  /\ \/ Internal(k, t) /\ UNCHANGED rows
     \/ (Execute(k, t) \/ Unconfirmed(k, t)) /\ InsertCostEventsBatch(k)
  /\ UNCHANGED <<awaited, reporterVars>>

Expire(k) == SentinelExpires(k) /\ UNCHANGED <<awaited, reporterVars, rows>>

ClientNext ==
  Flush \/ Shutdown \/ ShutdownReturns \/ Receive \/ NoAnswer \/ \E e \in Event : Enqueue(e)

Next ==
  \/ ClientNext
  \/ \E k \in Key : Expire(k) \/ \E t \in Tries : Serve(k, t)

Spec == Init /\ [][Next]_vars

\* The drain loop goes on, and a request ends at the latest with its timer.
FairSpec ==
  /\ Spec
  /\ WF_vars(shut = "draining" /\ Flush)
  /\ WF_vars(ShutdownReturns)
  /\ WF_vars(NoAnswer)

-----------------------------------------------------------------------------

\* The values each variable may take, and the size of the queue.
TypeOK ==
  /\ IdemTypeOK
  /\ fresh \subseteq Event
  /\ Elements(queue) \cup Elements(snapshot) \subseteq Event
  /\ Len(queue) <= MaxQueue
  /\ batch \in [Key -> SUBSET Event]
  /\ current \in Key \cup {0}
  /\ shut \in {"no", "draining", "done"}
  /\ dropped \cup failed \cup delivered \subseteq Event
  /\ rows \in [Event -> 0..MaxTries]

\* Where an event can be.
Sending == IF Flushing THEN batch[current] ELSE {}
Places == <<fresh, Elements(queue), Elements(snapshot), Sending, delivered, failed, dropped>>

\* Every event is in one place, so that none is lost without onDropped or onFlushError
\* being told, and none is sent in two requests - overflow, enqueues during a flush,
\* several chunks and shutdown together.
NothingVanishes ==
  \A e \in Event : Cardinality({i \in DOMAIN Places : e \in Places[i]}) = 1

\* The reporter, the client's retries and the server keep the promise of Delivery: outcomes are
\* final, what onDropped was told of is never stored, and what the SDK takes for delivered is,
\* also when the answer was replayed from the record.
Where == [e \in Event |-> CASE e \in delivered -> "delivered"
                          [] e \in failed    -> "failed"
                          [] e \in dropped   -> "dropped"
                          [] e \in Sending   -> "sending"
                          [] e \in fresh     -> "ahead"
                          [] OTHER           -> "waiting"]
Promise == INSTANCE Delivery WITH where <- Where, stored <- {e \in Event : rows[e] > 0}
KeepsPromise == Promise!Spec

\* An event is stored once, however often its request is sent, if it has a key of its own
\* or the idempotency record of its request held.
StoredOnce ==
  \A e \in Event :
    rows[e] > 1 => e \notin Keyed /\ \E k \in troubled : e \in batch[k]

\* shutdown() returns, whatever the server does, and by then every event that was enqueued,
\* also behind a flush in flight, has been delivered or reported as failed or dropped.
ShutdownReturnsAtLast ==
  shut = "draining" ~>
    shut = "done" /\ Event \ fresh \subseteq delivered \cup failed \cup dropped

=============================================================================
