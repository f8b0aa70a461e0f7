--------------------------- MODULE BudgetSync_proofs ---------------------------
(***************************************************************************)
(* Theorems about BudgetSync, for every number of requests, entities and   *)
(* workers, and every bound on deliveries, attempts and evictions.         *)
(***************************************************************************)
EXTENDS BudgetSync, TLAPS

\* A worker past the object's answer carries a request the object has booked.
WorkersOK ==
  \A w \in Worker : /\ proc[w].pc # "idle" => proc[w].req \in Request
                    /\ proc[w].pc \in {"pg", "ack"} => proc[w].req \in settled \cap billed

\* The handler syncs a booked request whose attempts are not used up.
AlarmOK ==
  /\ job.pc = "idle" => job = NoJob
  /\ job.pc # "idle" => /\ job.req \in settled \cap billed
                        /\ attempts[job.req] < MaxAttempts

\* Only a settlement with a cost is booked.
BookedOK == \A r \in Request : phase[r] = "booked" => r \in settled /\ r \in billed

IInv == TypeOK /\ WorkersOK /\ AlarmOK /\ BookedOK /\ ChargedOnce /\ OnlySettledCharged

-----------------------------------------------------------------------------

LEMMA SomeAttempts == MaxAttempts \in Nat \ {0}
BY SyncAssumption

LEMMA InitInv == Init => IInv
BY SyncAssumption DEF Init, IInv, TypeOK, WorkersOK, AlarmOK, BookedOK, ChargedOnce, OnlySettledCharged,
   Object!Init, Object!Phases, Process, Resting, NoJob

\* updateBudgetSpend for a booked request keeps what holds of the Postgres tables.
LEMMA UpdateKeepsTables ==
  ASSUME IInv, NEW r \in settled \cap billed, UpdateBudgetSpend(r),
         UNCHANGED <<settled, billed>>
  PROVE  /\ dedup' \in SUBSET (Request \X Entity)
         /\ charged' \in [Request -> [Entity -> Nat]]
         /\ pgRows' \in SUBSET Entity
         /\ ChargedOnce'
         /\ OnlySettledCharged'
<1> DEFINE new == {e \in Keys[r] : <<r, e>> \notin dedup /\ e \in pgRows}
<1>1. r \in Request /\ Keys[r] \in SUBSET Entity /\ new \in SUBSET Entity
  BY SyncAssumption DEF IInv, TypeOK
<1>2. dedup' = dedup \cup ({r} \X new) /\ pgRows' = pgRows
  BY DEF UpdateBudgetSpend
<1>3. \A q \in Request, e \in Entity :
        charged'[q][e] = IF q = r /\ e \in new THEN charged[q][e] + 1 ELSE charged[q][e]
  BY <1>1 DEF UpdateBudgetSpend, IInv, TypeOK
<1>4. charged' \in [Request -> [Entity -> Nat]]
  BY <1>1 DEF UpdateBudgetSpend, IInv, TypeOK
<1>5. \A q \in Request, e \in Entity : <<q, e>> \in dedup' <=> <<q, e>> \in dedup \/ (q = r /\ e \in new)
  BY <1>2
<1>6. ChargedOnce'
  <2> SUFFICES ASSUME NEW q \in Request, NEW e \in Entity
               PROVE  charged'[q][e] = IF <<q, e>> \in dedup' THEN 1 ELSE 0
    BY DEF ChargedOnce
  <2>1. charged[q][e] = IF <<q, e>> \in dedup THEN 1 ELSE 0
    BY DEF ChargedOnce, IInv
  <2>2. q = r /\ e \in new => <<q, e>> \notin dedup
    OBVIOUS
  <2> QED
    BY <1>3, <1>5, <2>1, <2>2
<1>7. OnlySettledCharged'
  BY <1>1, <1>5 DEF OnlySettledCharged, IInv
<1>8. dedup' \in SUBSET (Request \X Entity) /\ pgRows' \in SUBSET Entity
  BY <1>1, <1>2 DEF IInv, TypeOK
<1> QED
  BY <1>4, <1>6, <1>7, <1>8

\* Steps that leave Postgres and the object's history alone keep what is said of them.
LEMMA OtherKeepsTables ==
  ASSUME IInv, UNCHANGED pgVars, settled \subseteq settled', billed \subseteq billed'
  PROVE  ChargedOnce' /\ OnlySettledCharged'
BY DEF IInv, ChargedOnce, OnlySettledCharged, pgVars

\* What a worker does on returning: its process rests, and its message is done with,
\* queued again or dead.
LEMMA ReturnType ==
  ASSUME IInv, NEW w \in Worker, NEW ok \in BOOLEAN, Return(w, ok)
  PROVE  /\ proc' \in [Worker -> Process]
         /\ msg' \in [Request -> {"none", "queued", "delivered", "dead", "gone"}]
         /\ \A v \in Worker : proc'[v] = Resting \/ proc'[v] = proc[v]
         /\ deliveries' \in [Request -> 0..MaxDeliveries] /\ UNCHANGED <<submitted, billed>>
<1>1. Resting \in Process
  BY DEF Resting, Process
<1>2. proc' \in [Worker -> Process] /\ \A v \in Worker : proc'[v] = Resting \/ proc'[v] = proc[v]
  BY <1>1 DEF Return, IInv, TypeOK
<1>3. msg' \in [Request -> {"none", "queued", "delivered", "dead", "gone"}]
  BY DEF Return, Acked, Retried, IInv, TypeOK
<1>4. deliveries' \in [Request -> 0..MaxDeliveries]
  BY SyncAssumption DEF Return, IInv, TypeOK
<1> QED
  BY <1>2, <1>3, <1>4 DEF Return

-----------------------------------------------------------------------------
(* One lemma per group of actions.                                          *)

LEMMA ObjectSteps ==
  ASSUME IInv, NEW r \in Request, Approve(r) \/ Expire(r)
  PROVE  IInv'
<1>1. /\ phase' \in [Request -> Object!Phases]
      /\ \A q \in Request : phase'[q] = "booked" => phase[q] = "booked"
  BY DEF Approve, Expire, Object!Hold, Object!Close, Object!Phases, IInv, TypeOK
<1>2. UNCHANGED <<attempts, job, evictions, settled, abandoned, queueVars, proc, pgVars>>
  BY DEF Approve, Expire
<1>3. ChargedOnce' /\ OnlySettledCharged'
  BY <1>2, OtherKeepsTables DEF queueVars
<1> QED
  BY <1>1, <1>2, <1>3 DEF IInv, TypeOK, WorkersOK, AlarmOK, BookedOK, queueVars, pgVars

LEMMA AnsweredType ==
  ASSUME IInv, NEW r \in Request, NEW costs \in BOOLEAN, Answered(r, costs)
  PROVE  submitted' \in SUBSET Request /\ billed' \in SUBSET submitted' /\ billed \subseteq billed'
BY DEF Answered, IInv, TypeOK

\* Starting doBudgetReconcile in w.
LEMMA StartType ==
  ASSUME IInv, NEW w \in Worker, NEW r \in Request, NEW q \in BOOLEAN,
         proc' = [proc EXCEPT ![w] = [pc |-> "do", req |-> r, queued |-> q]]
  PROVE  /\ proc' \in [Worker -> Process]
         /\ \A v \in Worker : proc'[v] = proc[v] \/ (proc'[v].pc = "do" /\ proc'[v].req = r)
<1>1. [pc |-> "do", req |-> r, queued |-> q] \in Process
  BY DEF Process
<1> QED
  BY <1>1 DEF IInv, TypeOK

LEMMA Submission ==
  ASSUME IInv, NEW r \in Request, NEW costs \in BOOLEAN, Enqueue(r, costs)
  PROVE  IInv'
<1>1. UNCHANGED <<objectVars, deliveries, proc, pgVars>> /\ Answered(r, costs)
  BY DEF Enqueue
<1>2. submitted' \in SUBSET Request /\ billed' \in SUBSET submitted' /\ billed \subseteq billed'
  BY <1>1, AnsweredType
<1>3. msg' \in [Request -> {"none", "queued", "delivered", "dead", "gone"}]
  BY DEF Enqueue, IInv, TypeOK
<1>4. ChargedOnce' /\ OnlySettledCharged'
  BY <1>1, <1>2, OtherKeepsTables DEF objectVars
<1> QED
  BY <1>1, <1>2, <1>3, <1>4 DEF IInv, TypeOK, WorkersOK, AlarmOK, BookedOK, objectVars, pgVars

LEMMA DirectSettlement ==
  ASSUME IInv, NEW w \in Worker, NEW r \in Request, NEW costs \in BOOLEAN,
         SettleDirectly(w, r, costs)
  PROVE  IInv'
<1>1. UNCHANGED <<objectVars, deliveries, pgVars>> /\ Answered(r, costs)
      /\ msg' \in [Request -> {"none", "queued", "delivered", "dead", "gone"}]
  BY DEF SettleDirectly, IInv, TypeOK
<1>2. submitted' \in SUBSET Request /\ billed' \in SUBSET submitted' /\ billed \subseteq billed'
  BY <1>1, AnsweredType
<1>3. /\ proc' \in [Worker -> Process]
      /\ \A v \in Worker : proc'[v] = proc[v] \/ (proc'[v].pc = "do" /\ proc'[v].req = r)
  BY StartType DEF SettleDirectly, IInv, TypeOK
<1>4. ChargedOnce' /\ OnlySettledCharged'
  BY <1>1, <1>2, OtherKeepsTables DEF objectVars
<1> QED
  BY <1>1, <1>2, <1>3, <1>4 DEF IInv, TypeOK, WorkersOK, AlarmOK, BookedOK, objectVars, pgVars

LEMMA Delivery ==
  ASSUME IInv, NEW w \in Worker, NEW r \in Request, Deliver(w, r)
  PROVE  IInv'
<1>1. UNCHANGED <<objectVars, submitted, billed, pgVars>>
  BY DEF Deliver
<1>2. /\ proc' \in [Worker -> Process]
      /\ \A v \in Worker : proc'[v] = proc[v] \/ (proc'[v].pc = "do" /\ proc'[v].req = r)
  BY StartType DEF Deliver, IInv, TypeOK
<1>3. msg' \in [Request -> {"none", "queued", "delivered", "dead", "gone"}]
  BY DEF Deliver, IInv, TypeOK
<1>4. deliveries' \in [Request -> 0..MaxDeliveries]
  <2>1. deliveries[r] \in 0..MaxDeliveries /\ deliveries[r] < MaxDeliveries
    BY DEF Deliver, IInv, TypeOK
  <2>2. deliveries[r] + 1 \in 0..MaxDeliveries
    BY <2>1, SyncAssumption
  <2>3. deliveries' = [deliveries EXCEPT ![r] = deliveries[r] + 1]
    BY DEF Deliver
  <2> QED
    BY <2>2, <2>3 DEF IInv, TypeOK
<1>5. ChargedOnce' /\ OnlySettledCharged'
  BY <1>1, OtherKeepsTables DEF objectVars
<1> QED
  BY <1>1, <1>2, <1>3, <1>4, <1>5 DEF IInv, TypeOK, WorkersOK, AlarmOK, BookedOK, objectVars, pgVars

LEMMA WorkerCrash ==
  ASSUME IInv, NEW w \in Worker, Crash(w)
  PROVE  IInv'
<1>1. UNCHANGED <<objectVars, pgVars>>
  BY DEF Crash
<1>2. /\ proc' \in [Worker -> Process]
      /\ msg' \in [Request -> {"none", "queued", "delivered", "dead", "gone"}]
      /\ \A v \in Worker : proc'[v] = Resting \/ proc'[v] = proc[v]
      /\ deliveries' \in [Request -> 0..MaxDeliveries] /\ UNCHANGED <<submitted, billed>>
  BY ReturnType DEF Crash
<1>3. ChargedOnce' /\ OnlySettledCharged'
  BY <1>1, <1>2, OtherKeepsTables DEF objectVars
<1> QED
  BY <1>1, <1>2, <1>3 DEF IInv, TypeOK, WorkersOK, AlarmOK, BookedOK, Resting, objectVars, pgVars

LEMMA DeadLetters ==
  ASSUME IInv, NEW r \in Request, DeadLetter(r)
  PROVE  IInv'
<1>1. UNCHANGED <<objectVars, submitted, billed, deliveries, proc, pgVars>>
  BY DEF DeadLetter
<1>2. msg' \in [Request -> {"none", "queued", "delivered", "dead", "gone"}]
  BY DEF DeadLetter, Acked, IInv, TypeOK
<1>3. ChargedOnce' /\ OnlySettledCharged'
  BY <1>1, OtherKeepsTables DEF objectVars
<1> QED
  BY <1>1, <1>2, <1>3 DEF IInv, TypeOK, WorkersOK, AlarmOK, BookedOK, objectVars, pgVars

LEMMA ObjectCall ==
  ASSUME IInv, NEW w \in Worker, CallObject(w)
  PROVE  IInv'
<1> DEFINE r == proc[w].req
<1>1. r \in Request /\ proc[w].pc = "do" /\ UNCHANGED <<job, evictions, abandoned, pgVars>>
  BY DEF CallObject, IInv, WorkersOK
<1>2. /\ UNCHANGED <<submitted, billed>> /\ deliveries' \in [Request -> 0..MaxDeliveries]
      /\ msg' \in [Request -> {"none", "queued", "delivered", "dead", "gone"}]
      /\ proc' \in [Worker -> Process]
      /\ \A v \in Worker :
           \/ proc'[v] = Resting
           \/ proc'[v] = proc[v]
           \/ /\ v = w /\ r \in billed /\ ObjectReconciles(r)
              /\ proc'[v] = [proc[v] EXCEPT !.pc = "pg"]
  <2>1. CASE Return(w, TRUE) \/ Return(w, FALSE)
    BY <2>1, ReturnType
  <2>2. CASE r \in billed /\ ObjectReconciles(r)
             /\ proc' = [proc EXCEPT ![w].pc = "pg"] /\ UNCHANGED queueVars
    <3>1. [proc[w] EXCEPT !.pc = "pg"] \in Process
      BY DEF IInv, TypeOK, Process
    <3> QED
      BY <2>2, <3>1 DEF queueVars, IInv, TypeOK
  <2> QED
    BY <2>1, <2>2 DEF CallObject, NotFound
<1>3. \/ ObjectReconciles(r)
      \/ UNCHANGED <<phase, settled, attempts>>
  BY DEF CallObject, NotFound
<1>4. /\ phase' \in [Request -> Object!Phases]
      /\ attempts' \in [Request -> 0..MaxAttempts]
      /\ settled' \in SUBSET Request /\ settled \subseteq settled'
      /\ \A q \in Request : phase'[q] = "booked" =>
           phase[q] = "booked" \/ (q = r /\ r \in billed /\ r \in settled')
      /\ \A q \in Request : attempts'[q] = attempts[q] \/ attempts'[q] = 0
      /\ ObjectReconciles(r) /\ r \in billed => r \in settled'
  <2>0. phase \in [Request -> Object!Phases] /\ attempts \in [Request -> 0..MaxAttempts]
        /\ settled \in SUBSET Request
    BY DEF IInv, TypeOK
  <2>1. CASE UNCHANGED <<phase, settled, attempts>> /\ ~ObjectReconciles(r)
    BY <2>0, <2>1
  <2>2. CASE r \in billed /\ ObjectReconciles(r)
    BY <1>1, <2>0, <2>2, SomeAttempts DEF ObjectReconciles, Object!Book, Object!Phases
  <2>3. CASE r \notin billed /\ ObjectReconciles(r)
    BY <1>1, <2>0, <2>3 DEF ObjectReconciles, Object!Close, Object!Phases
  <2> QED
    BY <1>3, <2>1, <2>2, <2>3
<1>5. ChargedOnce' /\ OnlySettledCharged'
  BY <1>1, <1>2, <1>4, OtherKeepsTables
<1>6. WorkersOK'
  <2> SUFFICES ASSUME NEW v \in Worker
               PROVE  /\ proc'[v].pc # "idle" => proc'[v].req \in Request
                      /\ proc'[v].pc \in {"pg", "ack"} => proc'[v].req \in settled' \cap billed'
    BY DEF WorkersOK
  <2>1. CASE proc'[v] = Resting
    BY <2>1 DEF Resting
  <2>2. CASE proc'[v] = proc[v]
    BY <1>2, <1>4, <2>2 DEF IInv, WorkersOK
  <2>3. CASE v = w /\ r \in billed /\ ObjectReconciles(r) /\ proc'[v] = [proc[v] EXCEPT !.pc = "pg"]
    <3>1. proc'[v].req = r
      BY <2>3 DEF IInv, TypeOK, Process
    <3> QED
      BY <1>1, <1>2, <1>4, <2>3, <3>1
  <2> QED
    BY <1>2, <2>1, <2>2, <2>3
<1>7. AlarmOK'
  BY <1>1, <1>2, <1>4, SomeAttempts DEF IInv, TypeOK, AlarmOK
<1>8. BookedOK'
  BY <1>2, <1>4 DEF IInv, BookedOK
<1> QED
  BY <1>1, <1>2, <1>4, <1>5, <1>6, <1>7, <1>8 DEF IInv, TypeOK, pgVars

LEMMA PostgresWrite ==
  ASSUME IInv, NEW w \in Worker, WritePostgres(w)
  PROVE  IInv'
<1> DEFINE r == proc[w].req
<1>1. r \in settled \cap billed /\ UNCHANGED objectVars
  BY DEF WritePostgres, IInv, WorkersOK
<1>2. /\ UNCHANGED <<submitted, billed>> /\ deliveries' \in [Request -> 0..MaxDeliveries]
      /\ msg' \in [Request -> {"none", "queued", "delivered", "dead", "gone"}]
      /\ proc' \in [Worker -> Process]
      /\ \A v \in Worker :
           \/ proc'[v] = Resting
           \/ proc'[v] = proc[v]
           \/ v = w /\ proc'[v] = [proc[v] EXCEPT !.pc = "ack"]
  <2>1. CASE Return(w, FALSE)
    BY <2>1, ReturnType
  <2>2. CASE proc' = [proc EXCEPT ![w].pc = "ack"] /\ UNCHANGED queueVars
    <3>1. [proc[w] EXCEPT !.pc = "ack"] \in Process
      BY DEF IInv, TypeOK, Process
    <3> QED
      BY <2>2, <3>1 DEF queueVars, IInv, TypeOK
  <2> QED
    BY <2>1, <2>2 DEF WritePostgres
<1>3. /\ dedup' \in SUBSET (Request \X Entity)
      /\ charged' \in [Request -> [Entity -> Nat]]
      /\ pgRows' \in SUBSET Entity
      /\ ChargedOnce' /\ OnlySettledCharged'
  <2>1. CASE UpdateBudgetSpend(r)
    BY <1>1, <1>2, <2>1, UpdateKeepsTables DEF objectVars
  <2>2. CASE UNCHANGED pgVars
    BY <1>1, <1>2, <2>2, OtherKeepsTables DEF objectVars, pgVars, IInv, TypeOK
  <2> QED
    BY <2>1, <2>2 DEF WritePostgres
<1>4. WorkersOK'
  <2> SUFFICES ASSUME NEW v \in Worker
               PROVE  /\ proc'[v].pc # "idle" => proc'[v].req \in Request
                      /\ proc'[v].pc \in {"pg", "ack"} => proc'[v].req \in settled' \cap billed'
    BY DEF WorkersOK
  <2>1. CASE proc'[v] = Resting
    BY <2>1 DEF Resting
  <2>2. CASE proc'[v] = proc[v]
    BY <1>1, <1>2, <2>2 DEF IInv, WorkersOK, objectVars
  <2>3. CASE v = w /\ proc'[v] = [proc[v] EXCEPT !.pc = "ack"]
    <3>1. proc'[v].req = r
      BY <2>3 DEF IInv, TypeOK, Process
    <3> QED
      BY <1>1, <1>2, <3>1 DEF objectVars, IInv, TypeOK
  <2> QED
    BY <1>2, <2>1, <2>2, <2>3
<1> QED
  BY <1>1, <1>2, <1>3, <1>4 DEF IInv, TypeOK, AlarmOK, BookedOK, objectVars

LEMMA Acknowledgement ==
  ASSUME IInv, NEW w \in Worker, AckOutbox(w)
  PROVE  IInv'
<1>1. /\ proc' \in [Worker -> Process]
      /\ msg' \in [Request -> {"none", "queued", "delivered", "dead", "gone"}]
      /\ \A v \in Worker : proc'[v] = Resting \/ proc'[v] = proc[v]
      /\ deliveries' \in [Request -> 0..MaxDeliveries] /\ UNCHANGED <<submitted, billed>>
  BY ReturnType DEF AckOutbox
<1>2. UNCHANGED <<job, evictions, settled, abandoned, pgVars>>
  BY DEF AckOutbox
<1>5. /\ attempts' \in [Request -> 0..MaxAttempts]
      /\ \A q \in Request : attempts'[q] = attempts[q] \/ attempts'[q] = 0
  BY SomeAttempts DEF AckOutbox, IInv, TypeOK
<1>6. AlarmOK'
  BY <1>1, <1>2, <1>5, SomeAttempts DEF IInv, TypeOK, AlarmOK
<1>3. /\ phase' \in [Request -> Object!Phases]
      /\ \A q \in Request : phase'[q] = "booked" => phase[q] = "booked"
  BY DEF AckOutbox, Object!Close, Object!Phases, IInv, TypeOK
<1>4. ChargedOnce' /\ OnlySettledCharged'
  BY <1>1, <1>2, OtherKeepsTables
<1> QED
  BY <1>1, <1>2, <1>3, <1>4, <1>5, <1>6 DEF IInv, TypeOK, WorkersOK, BookedOK, Resting, pgVars

\* The end of a pass of the alarm's loop only closes entries.
LEMMA LoopEnds ==
  ASSUME IInv, NEW done \in SUBSET Request, LoopGoesOnOrEnds(done)
  PROVE  /\ phase' \in [Request -> Object!Phases]
         /\ \A q \in Request : phase'[q] = "booked" => phase[q] = "booked"
BY DEF LoopGoesOnOrEnds, Object!Close, Object!Phases, IInv, TypeOK

LEMMA AlarmSteps ==
  ASSUME IInv, AlarmNext
  PROVE  IInv'
<1>1. ASSUME NEW r \in Request, AlarmTakes(r)
      PROVE  IInv'
  <2>1. job' = [pc |-> "pg", req |-> r] /\ r \in settled \cap billed /\ attempts[r] < MaxAttempts
    BY <1>1 DEF AlarmTakes, IInv, BookedOK
  <2>2. UNCHANGED <<phase, attempts, evictions, settled, abandoned, queueVars, proc, pgVars>>
    BY <1>1 DEF AlarmTakes
  <2>3. ChargedOnce' /\ OnlySettledCharged'
    BY <2>2, OtherKeepsTables DEF queueVars
  <2> QED
    BY <2>1, <2>2, <2>3 DEF IInv, TypeOK, WorkersOK, AlarmOK, BookedOK, queueVars, pgVars
<1>2. CASE AlarmWrites
  <2>1. /\ job.req \in settled \cap billed
        /\ attempts[job.req] < MaxAttempts
        /\ job' \in [pc : {"ack", "failed"}, req : {job.req}]
    <3>1. job.req \in settled \cap billed /\ attempts[job.req] < MaxAttempts
      BY <1>2 DEF AlarmWrites, IInv, AlarmOK
    <3>2. job' = [job EXCEPT !.pc = "ack"] \/ job' = [job EXCEPT !.pc = "failed"]
      BY <1>2 DEF AlarmWrites
    <3>3. job \in [pc : {"idle", "pg", "ack", "failed"}, req : Request \cup {Nobody}]
      BY DEF IInv, TypeOK
    <3> QED
      BY <3>1, <3>2, <3>3
  <2>2. UNCHANGED <<phase, attempts, evictions, settled, abandoned, queueVars, proc>>
    BY <1>2 DEF AlarmWrites
  <2>3. /\ dedup' \in SUBSET (Request \X Entity)
        /\ charged' \in [Request -> [Entity -> Nat]]
        /\ pgRows' \in SUBSET Entity
        /\ ChargedOnce' /\ OnlySettledCharged'
    <3>1. CASE UpdateBudgetSpend(job.req)
      BY <2>1, <2>2, <3>1, UpdateKeepsTables DEF queueVars
    <3>2. CASE UNCHANGED pgVars
      BY <2>2, <3>2, OtherKeepsTables DEF queueVars, pgVars, IInv, TypeOK
    <3> QED
      BY <1>2, <3>1, <3>2 DEF AlarmWrites
  <2> QED
    BY <2>1, <2>2, <2>3 DEF IInv, TypeOK, WorkersOK, AlarmOK, BookedOK, queueVars
<1>3. CASE AlarmAcks
  <2>1. /\ phase' \in [Request -> Object!Phases]
        /\ \A q \in Request : phase'[q] = "booked" => phase[q] = "booked"
    <3>1. {r \in {job.req} : phase[r] = "booked"} \in SUBSET Request
      BY <1>3 DEF AlarmAcks, IInv, TypeOK, AlarmOK
    <3> QED
      BY <1>3, <3>1, LoopEnds DEF AlarmAcks
  <2>2. /\ job' = NoJob /\ UNCHANGED <<evictions, settled, abandoned, queueVars, proc, pgVars>>
        /\ attempts' \in [Request -> 0..MaxAttempts]
    <3>1. /\ job' = NoJob /\ UNCHANGED <<evictions, settled, abandoned, queueVars, proc, pgVars>>
          /\ attempts' = attempts \/ attempts' = [attempts EXCEPT ![job.req] = 0]
      BY <1>3 DEF AlarmAcks
    <3>2. attempts \in [Request -> 0..MaxAttempts] /\ 0 \in 0..MaxAttempts
      BY SomeAttempts DEF IInv, TypeOK
    <3> QED
      BY <3>1, <3>2
  <2>3. ChargedOnce' /\ OnlySettledCharged'
    BY <2>2, OtherKeepsTables DEF queueVars
  <2> QED
    BY <2>1, <2>2, <2>3 DEF IInv, TypeOK, WorkersOK, AlarmOK, BookedOK, NoJob, queueVars, pgVars
<1>4. CASE AlarmFails
  <2>1. /\ phase' \in [Request -> Object!Phases]
        /\ \A q \in Request : phase'[q] = "booked" => phase[q] = "booked"
    BY <1>4, LoopEnds DEF AlarmFails
  <2>2. job' = NoJob /\ UNCHANGED <<evictions, settled, queueVars, proc, pgVars>>
    BY <1>4 DEF AlarmFails
  <2>3. attempts' \in [Request -> 0..MaxAttempts] /\ abandoned' \in SUBSET Request
    <3>1. job.req \in Request /\ attempts[job.req] < MaxAttempts
      BY <1>4 DEF AlarmFails, IInv, TypeOK, AlarmOK
    <3>2. attempts[job.req] + 1 \in 0..MaxAttempts
      BY <3>1, SyncAssumption DEF IInv, TypeOK
    <3>3. attempts' \in [Request -> 0..MaxAttempts]
      BY <1>4, <3>1, <3>2 DEF AlarmFails, IInv, TypeOK
    <3>4. abandoned' \in SUBSET Request
      BY <1>4, <3>1 DEF AlarmFails, IInv, TypeOK
    <3> QED
      BY <3>3, <3>4
  <2>4. ChargedOnce' /\ OnlySettledCharged'
    BY <2>2, OtherKeepsTables DEF queueVars
  <2> QED
    BY <2>1, <2>2, <2>3, <2>4 DEF IInv, TypeOK, WorkersOK, AlarmOK, BookedOK, NoJob, queueVars, pgVars
<1> QED
  BY <1>1, <1>2, <1>3, <1>4 DEF AlarmNext

LEMMA OutsideSteps ==
  ASSUME IInv, Evict \/ (\E e \in Entity : ChangeRow(e)) \/ UNCHANGED vars
  PROVE  IInv'
<1>1. CASE Evict
  <2>1. /\ job' = NoJob /\ evictions' \in 0..MaxEvictions
        /\ UNCHANGED <<phase, attempts, settled, abandoned, queueVars, proc, pgVars>>
    BY <1>1, SyncAssumption DEF Evict, IInv, TypeOK
  <2> QED
    BY <2>1, OtherKeepsTables DEF IInv, TypeOK, WorkersOK, AlarmOK, BookedOK, NoJob, queueVars, pgVars
<1>2. ASSUME NEW e \in Entity, ChangeRow(e)
      PROVE  IInv'
  <2>1. /\ pgRows' \in SUBSET Entity
        /\ UNCHANGED <<objectVars, queueVars, proc, dedup, charged>>
    BY <1>2 DEF ChangeRow, IInv, TypeOK
  <2> QED
    BY <2>1 DEF IInv, TypeOK, WorkersOK, AlarmOK, BookedOK, ChargedOnce, OnlySettledCharged,
                objectVars, queueVars
<1>3. CASE UNCHANGED vars
  BY <1>3 DEF vars, objectVars, queueVars, pgVars, IInv, TypeOK, WorkersOK, AlarmOK, BookedOK,
              ChargedOnce, OnlySettledCharged
<1> QED
  BY <1>1, <1>2, <1>3

LEMMA InvStep ==
  ASSUME IInv, [Next]_vars
  PROVE  IInv'
<1>1. ASSUME NEW r \in Request, DeadLetter(r)
      PROVE  IInv'
  BY <1>1, DeadLetters
<1>2. ASSUME NEW w \in Worker, WorkerNext(w) \/ Crash(w)
      PROVE  IInv'
  BY <1>2, ObjectCall, PostgresWrite, Acknowledgement, WorkerCrash DEF WorkerNext
<1>3. ASSUME NEW r \in Request, NEW costs \in BOOLEAN, Enqueue(r, costs)
      PROVE  IInv'
  BY <1>3, Submission
<1>4. ASSUME NEW w \in Worker, NEW r \in Request, NEW costs \in BOOLEAN,
             SettleDirectly(w, r, costs)
      PROVE  IInv'
  BY <1>4, DirectSettlement
<1>5. ASSUME NEW w \in Worker, NEW r \in Request, Deliver(w, r)
      PROVE  IInv'
  BY <1>5, Delivery
<1>6. CASE \E r \in Request : Approve(r) \/ Expire(r)
  BY <1>6, ObjectSteps
<1>7. CASE AlarmNext
  BY <1>7, AlarmSteps
<1>8. CASE Evict \/ (\E e \in Entity : ChangeRow(e)) \/ UNCHANGED vars
  BY <1>8, OutsideSteps
<1> QED
  BY <1>1, <1>2, <1>3, <1>4, <1>5, <1>6, <1>7, <1>8 DEF Next

LEMMA InvHolds == Spec => []IInv
<1>1. Init => IInv
  BY InitInv
<1>2. IInv /\ [Next]_vars => IInv'
  BY InvStep
<1> QED
  BY <1>1, <1>2, PTL DEF Spec

\* Types: among them, no entry is tried more than MaxAttempts times, which two
\* consumers, the alarm and evictions together could otherwise do.
THEOREM SyncTypeCorrect == Spec => []TypeOK
<1>1. IInv => TypeOK
  BY DEF IInv
<1> QED
  BY <1>1, InvHolds, PTL

\* updateBudgetSpend, run by any number of consumers and by the alarm for the same
\* settlement, adds its cost to each budgets row once.
THEOREM SingleCharge == Spec => []ChargedOnce
<1>1. IInv => ChargedOnce
  BY DEF IInv
<1> QED
  BY <1>1, InvHolds, PTL

\* Postgres is charged only for what the object has booked, on the entities reserved.
THEOREM NoPhantomCharge == Spec => []OnlySettledCharged
<1>1. IInv => OnlySettledCharged
  BY DEF IInv
<1> QED
  BY <1>1, InvHolds, PTL

-----------------------------------------------------------------------------
(* Nothing settled is lost where the budgets row stays.                      *)

Written(r, table) == \A e \in Keys[r] \ VolatileRows : <<r, e>> \in table

\* Whoever is about to acknowledge an entry has seen its write commit, and an entry
\* without attempts left is on record as abandoned.
KeptInv ==
  /\ Entity \ VolatileRows \subseteq pgRows
  /\ \A r \in settled : phase[r] \in {"booked", "done"}
  /\ \A w \in Worker : proc[w].pc = "ack" => Written(proc[w].req, dedup)
  /\ job.pc = "ack" => Written(job.req, dedup)
  /\ \A r \in Request : phase[r] = "booked" /\ attempts[r] >= MaxAttempts => r \in abandoned
  /\ SettledIsCharged

LEMMA InitKept == Init => KeptInv
BY SyncAssumption DEF Init, KeptInv, Resting, NoJob, SettledIsCharged, Object!Init

LEMMA WriteCompletes ==
  ASSUME IInv, KeptInv, NEW r \in settled \cap billed, UpdateBudgetSpend(r)
  PROVE  dedup \subseteq dedup' /\ Written(r, dedup') /\ Entity \ VolatileRows \subseteq pgRows'
BY SyncAssumption DEF UpdateBudgetSpend, Written, KeptInv, IInv, TypeOK

\* Steps after which the object's side and the records of Postgres only grew.
LEMMA GrowingKeeps ==
  ASSUME IInv, KeptInv, UNCHANGED <<phase, attempts, settled, abandoned>>,
         dedup \subseteq dedup', Entity \ VolatileRows \subseteq pgRows',
         \A w \in Worker : proc'[w].pc = "ack" => proc'[w] = proc[w] \/ Written(proc'[w].req, dedup'),
         job'.pc = "ack" => job' = job \/ Written(job'.req, dedup')
  PROVE  KeptInv'
<1>1. \A r : Written(r, dedup) => Written(r, dedup')
  BY DEF Written
<1> QED
  BY <1>1 DEF KeptInv, SettledIsCharged, Written

\* Steps that close, or leave, entries that are written, abandoned or were never settled.
LEMMA ClosingKeeps ==
  ASSUME IInv, KeptInv, UNCHANGED <<settled, pgVars>>, abandoned \subseteq abandoned',
         NEW ended \in SUBSET Request, Object!Close(ended),
         \A r \in ended : r \in settled => Written(r, dedup) \/ r \in abandoned',
         \A r \in Request : phase'[r] = "booked" /\ attempts'[r] >= MaxAttempts => r \in abandoned',
         \A w \in Worker : proc'[w].pc = "ack" => proc'[w] = proc[w],
         job'.pc = "ack" => job' = job
  PROVE  KeptInv'
<1>1. \A r : Written(r, dedup) => Written(r, dedup')
  BY DEF Written, pgVars
<1>2. \A r \in Request : phase'[r] = IF r \in ended THEN "done" ELSE phase[r]
  BY DEF Object!Close
<1>3. settled \in SUBSET Request
  BY DEF IInv, TypeOK
<1>4. \A r \in settled : phase'[r] = "done" =>
        r \in abandoned' \/ \A e \in Keys[r] \ VolatileRows : <<r, e>> \in dedup'
  BY <1>1, <1>2, <1>3 DEF KeptInv, SettledIsCharged, Written
<1> QED
  BY <1>1, <1>2, <1>3, <1>4 DEF KeptInv, SettledIsCharged, pgVars

LEMMA KeptWorker ==
  ASSUME IInv, KeptInv, NEW w \in Worker, WorkerNext(w) \/ Crash(w)
  PROVE  KeptInv'
<1>0. \A ok \in BOOLEAN : Return(w, ok) =>
        \A v \in Worker : proc'[v].pc = "ack" => proc'[v] = proc[v]
  BY ReturnType DEF Resting
<1>1. CASE Crash(w)
  BY <1>0, <1>1, GrowingKeeps DEF Crash, Resting, objectVars, pgVars, KeptInv
<1>2. CASE CallObject(w)
  <2> DEFINE r == proc[w].req
  <2>1. r \in Request /\ UNCHANGED <<job, abandoned, pgVars>>
    BY <1>2 DEF CallObject, IInv, WorkersOK
  <2>2. \A v \in Worker : proc'[v].pc = "ack" => proc'[v] = proc[v]
    <3>1. CASE Return(w, TRUE) \/ Return(w, FALSE)
      BY <1>0, <3>1 DEF Resting
    <3>2. CASE proc' = [proc EXCEPT ![w].pc = "pg"]
      BY <3>2 DEF IInv, TypeOK, Process
    <3> QED
      BY <1>2, <3>1, <3>2 DEF CallObject, NotFound
  <2>3. CASE UNCHANGED <<phase, settled, attempts>>
    BY <2>1, <2>2, <2>3, GrowingKeeps DEF pgVars, KeptInv
  <2>4. CASE phase[r] = "held" /\ Object!Close({r}) /\ UNCHANGED <<settled, attempts>>
    <3>1. r \notin settled
      BY <2>4 DEF KeptInv
    <3>2. \A q \in Request : phase'[q] = "booked" => phase[q] = "booked"
      BY <2>4 DEF Object!Close
    <3> QED
      BY <2>1, <2>2, <2>4, <3>1, <3>2, ClosingKeeps DEF KeptInv
  <2>5. CASE /\ phase[r] = "held" /\ Object!Book(r)
             /\ settled' = settled \cup {r} /\ attempts' = [attempts EXCEPT ![r] = 0]
    <3>1. \A q \in Request : phase'[q] = IF q = r THEN "booked" ELSE phase[q]
      BY <2>1, <2>5 DEF Object!Book, IInv, TypeOK
    <3>2. attempts'[r] = 0 /\ \A q \in Request \ {r} : attempts'[q] = attempts[q]
      BY <2>1, <2>5 DEF IInv, TypeOK
    <3>3. \A q : Written(q, dedup) => Written(q, dedup')
      BY <2>1 DEF Written, pgVars
    <3>4. settled \in SUBSET Request
      BY DEF IInv, TypeOK
    <3>6. SettledIsCharged'
      BY <2>1, <2>5, <3>1, <3>4 DEF SettledIsCharged, KeptInv, pgVars
    <3>7. \A q \in settled' : phase'[q] \in {"booked", "done"}
      BY <2>1, <2>5, <3>1, <3>4 DEF KeptInv
    <3>8. \A q \in Request : phase'[q] = "booked" /\ attempts'[q] >= MaxAttempts => q \in abandoned'
      <4>1. ~(0 >= MaxAttempts)
        BY SyncAssumption
      <4> QED
        BY <2>1, <3>1, <3>2, <4>1 DEF KeptInv
    <3>9. /\ \A v \in Worker : proc'[v].pc = "ack" => Written(proc'[v].req, dedup')
          /\ job'.pc = "ack" => Written(job'.req, dedup')
      BY <2>1, <2>2, <3>3 DEF KeptInv
    <3> QED
      BY <2>1, <3>6, <3>7, <3>8, <3>9 DEF KeptInv, pgVars
  <2> QED
    BY <1>2, <2>3, <2>4, <2>5 DEF CallObject, NotFound, ObjectReconciles
<1>3. CASE WritePostgres(w)
  <2> DEFINE r == proc[w].req
  <2>1. r \in settled \cap billed /\ UNCHANGED objectVars
    BY <1>3 DEF WritePostgres, IInv, WorkersOK
  <2>2. dedup \subseteq dedup' /\ Entity \ VolatileRows \subseteq pgRows' /\ (UpdateBudgetSpend(r) => Written(r, dedup'))
    BY <1>3, <2>1, WriteCompletes DEF WritePostgres, pgVars, KeptInv
  <2>3. \A v \in Worker : proc'[v].pc = "ack" => proc'[v] = proc[v] \/ Written(proc'[v].req, dedup')
    <3>1. CASE Return(w, FALSE)
      BY <1>0, <3>1 DEF Resting
    <3>2. CASE UpdateBudgetSpend(r) /\ proc' = [proc EXCEPT ![w].pc = "ack"]
      <4>1. proc'[w].req = r /\ \A v \in Worker \ {w} : proc'[v] = proc[v]
        BY <3>2 DEF IInv, TypeOK, Process
      <4> QED
        BY <2>2, <3>2, <4>1
    <3> QED
      BY <1>3, <3>1, <3>2 DEF WritePostgres
  <2> QED
    BY <2>1, <2>2, <2>3, GrowingKeeps DEF objectVars
<1>4. CASE AckOutbox(w)
  <2> DEFINE r == proc[w].req
  <2>1. /\ r \in Request /\ Written(r, dedup)
        /\ UNCHANGED <<job, settled, abandoned, pgVars>>
    BY <1>4 DEF AckOutbox, IInv, WorkersOK, KeptInv
  <2>2. \A v \in Worker : proc'[v].pc = "ack" => proc'[v] = proc[v]
    BY <1>0, <1>4 DEF AckOutbox, Resting
  <2>3. CASE UNCHANGED <<phase, attempts>>
    BY <2>1, <2>2, <2>3, GrowingKeeps DEF pgVars, KeptInv
  <2>4. CASE Object!Close({r}) /\ attempts' = [attempts EXCEPT ![r] = 0]
    <3>1. \A q \in Request : phase'[q] = "booked" => phase[q] = "booked" /\ q # r
      BY <2>4 DEF Object!Close
    <3>2. \A q \in Request : q # r => attempts'[q] = attempts[q]
      BY <2>4 DEF IInv, TypeOK
    <3> QED
      BY <2>1, <2>2, <2>4, <3>1, <3>2, ClosingKeeps DEF KeptInv
  <2> QED
    BY <1>4, <2>3, <2>4 DEF AckOutbox
<1> QED
  BY <1>1, <1>2, <1>3, <1>4 DEF WorkerNext

LEMMA KeptAlarm ==
  ASSUME IInv, KeptInv, AlarmNext
  PROVE  KeptInv'
<1>1. ASSUME NEW r \in Request, AlarmTakes(r)
      PROVE  KeptInv'
  BY <1>1, GrowingKeeps DEF AlarmTakes, pgVars, KeptInv
<1>2. CASE AlarmWrites
  <2>1. job.req \in settled \cap billed
    BY <1>2 DEF AlarmWrites, IInv, AlarmOK
  <2>2. /\ UNCHANGED <<phase, attempts, settled, abandoned, proc>>
        /\ dedup \subseteq dedup' /\ Entity \ VolatileRows \subseteq pgRows'
        /\ UpdateBudgetSpend(job.req) => Written(job.req, dedup')
    BY <1>2, <2>1, WriteCompletes DEF AlarmWrites, pgVars, KeptInv
  <2>3. job'.pc = "ack" => Written(job'.req, dedup')
    <3>1. CASE UpdateBudgetSpend(job.req) /\ job' = [job EXCEPT !.pc = "ack"]
      <4>1. job'.req = job.req
        BY <3>1 DEF IInv, TypeOK
      <4> QED
        BY <2>2, <3>1, <4>1 DEF Written
    <3>2. CASE job' = [job EXCEPT !.pc = "failed"]
      BY <3>2 DEF IInv, TypeOK
    <3> QED
      BY <1>2, <3>1, <3>2 DEF AlarmWrites
  <2> QED
    BY <2>2, <2>3, GrowingKeeps
<1>3. CASE AlarmAcks
  <2> DEFINE acked == {r \in {job.req} : phase[r] = "booked"}
             exhausted == {x \in Request \ acked : phase[x] = "booked" /\ attempts'[x] = MaxAttempts}
  <2>1. /\ acked \in SUBSET Request /\ (\A r \in acked : Written(r, dedup))
        /\ job' = NoJob /\ UNCHANGED <<settled, abandoned, proc, pgVars>>
        /\ \A x \in Request : x \notin acked => attempts'[x] = attempts[x]
    BY <1>3 DEF AlarmAcks, IInv, AlarmOK, TypeOK, KeptInv
  <2>2. PICK dropped \in {{}, exhausted} : Object!Close(acked \cup dropped)
    BY <1>3 DEF AlarmAcks, LoopGoesOnOrEnds
  <2>3. \A x \in exhausted : x \in abandoned
    BY <2>1, SyncAssumption DEF KeptInv
  <2>4. \A q \in Request : phase'[q] = "booked" => phase[q] = "booked" /\ q \notin acked
    BY <2>2 DEF Object!Close
  <2>5. acked \cup dropped \in SUBSET Request
    BY <2>1
  <2>6. \A x \in acked \cup dropped : x \in settled => Written(x, dedup) \/ x \in abandoned'
    BY <2>1, <2>3
  <2>7. \A x \in Request : phase'[x] = "booked" /\ attempts'[x] >= MaxAttempts => x \in abandoned'
    BY <2>1, <2>4 DEF KeptInv
  <2> QED
    BY <2>1, <2>2, <2>5, <2>6, <2>7, ClosingKeeps DEF NoJob
<1>4. CASE AlarmFails
  <2> DEFINE r == job.req
             exhausted == {x \in Request : phase[x] = "booked" /\ attempts'[x] = MaxAttempts}
  <2>1. /\ r \in Request /\ attempts[r] < MaxAttempts
        /\ job' = NoJob /\ UNCHANGED <<settled, proc, pgVars>>
    BY <1>4 DEF AlarmFails, IInv, AlarmOK, TypeOK
  <2>2. PICK dropped \in {{}, exhausted} : Object!Close(dropped)
    <3>1. \E dropped \in {{}, exhausted} : Object!Close({} \cup dropped)
      BY <1>4 DEF AlarmFails, LoopGoesOnOrEnds
    <3>2. \A dropped : {} \cup dropped = dropped
      OBVIOUS
    <3> QED
      BY <3>1, <3>2
  <2>3. /\ abandoned \subseteq abandoned'
        /\ \A x \in Request : phase[x] = "booked" /\ attempts'[x] >= MaxAttempts => x \in abandoned'
    <3>1. CASE phase[r] # "booked"
      BY <1>4, <3>1 DEF AlarmFails, KeptInv
    <3>2. CASE phase[r] = "booked"
      <4>1. /\ attempts' = [attempts EXCEPT ![r] = @ + 1]
            /\ abandoned' = IF attempts'[r] < MaxAttempts THEN abandoned ELSE abandoned \cup {r}
        BY <1>4, <3>2 DEF AlarmFails
      <4>2. attempts'[r] = attempts[r] + 1 /\ \A x \in Request \ {r} : attempts'[x] = attempts[x]
        BY <2>1, <4>1 DEF IInv, TypeOK
      <4>3. attempts'[r] \in Int /\ MaxAttempts \in Int
        BY <2>1, <4>2, SyncAssumption DEF IInv, TypeOK
      <4> QED
        BY <4>1, <4>2, <4>3 DEF KeptInv
    <3> QED
      BY <3>1, <3>2
  <2>4. \A q \in Request : phase'[q] = "booked" => phase[q] = "booked"
    BY <2>2 DEF Object!Close
  <2>5. dropped \in SUBSET Request /\ \A x \in dropped : x \in abandoned'
    BY <2>3, SyncAssumption
  <2>6. \A x \in Request : phase'[x] = "booked" /\ attempts'[x] >= MaxAttempts => x \in abandoned'
    BY <2>3, <2>4
  <2> QED
    BY <2>1, <2>2, <2>3, <2>5, <2>6, ClosingKeeps DEF NoJob
<1> QED
  BY <1>1, <1>2, <1>3, <1>4 DEF AlarmNext

LEMMA KeptStep ==
  ASSUME IInv, KeptInv, [Next]_vars
  PROVE  KeptInv'
<1>1. ASSUME NEW w \in Worker, WorkerNext(w) \/ Crash(w)
      PROVE  KeptInv'
  BY <1>1, KeptWorker
<1>2. ASSUME NEW r \in Request, Approve(r)
      PROVE  KeptInv'
  <2>1. \A q \in Request : phase'[q] = IF q = r THEN "held" ELSE phase[q]
    BY <1>2 DEF Approve, Object!Hold, IInv, TypeOK
  <2>2. r \notin settled /\ settled \in SUBSET Request
    BY <1>2 DEF Approve, Object!Hold, KeptInv, IInv, TypeOK
  <2>3. UNCHANGED <<attempts, job, settled, abandoned, proc, pgVars>>
    BY <1>2 DEF Approve
  <2>4. SettledIsCharged'
    BY <2>1, <2>2, <2>3 DEF SettledIsCharged, KeptInv, pgVars
  <2> QED
    BY <2>1, <2>2, <2>3, <2>4 DEF KeptInv, Written, pgVars
<1>3. ASSUME NEW r \in Request, Expire(r)
      PROVE  KeptInv'
  <2>1. r \notin settled /\ \A q \in Request : phase'[q] = "booked" => phase[q] = "booked"
    BY <1>3 DEF Expire, Object!Close, KeptInv
  <2> QED
    BY <1>3, <2>1, ClosingKeeps DEF Expire, KeptInv
<1>4. ASSUME NEW r \in Request, DeadLetter(r) \/ (\E costs \in BOOLEAN : Enqueue(r, costs))
      PROVE  KeptInv'
  BY <1>4, GrowingKeeps DEF DeadLetter, Enqueue, objectVars, pgVars, KeptInv
<1>5. ASSUME NEW w \in Worker, NEW r \in Request,
             Deliver(w, r) \/ (\E costs \in BOOLEAN : SettleDirectly(w, r, costs))
      PROVE  KeptInv'
  <2>1. proc' = proc \/ \E q \in BOOLEAN : proc' = [proc EXCEPT ![w] = [pc |-> "do", req |-> r, queued |-> q]]
    BY <1>5 DEF Deliver, SettleDirectly
  <2>2. \A v \in Worker : proc'[v] = proc[v] \/ proc'[v].pc = "do"
    BY <2>1, StartType
  <2> QED
    BY <1>5, <2>2, GrowingKeeps DEF Deliver, SettleDirectly, objectVars, pgVars, KeptInv
<1>6. CASE AlarmNext
  BY <1>6, KeptAlarm
<1>7. CASE Evict
  BY <1>7, GrowingKeeps DEF Evict, NoJob, pgVars, KeptInv
<1>8. ASSUME NEW e \in Entity, ChangeRow(e)
      PROVE  KeptInv'
  <2>1. Entity \ VolatileRows \subseteq pgRows'
    BY <1>8 DEF ChangeRow, KeptInv
  <2> QED
    BY <1>8, <2>1, GrowingKeeps DEF ChangeRow, objectVars, KeptInv
<1>9. CASE UNCHANGED vars
  BY <1>9, GrowingKeeps DEF vars, objectVars, pgVars, KeptInv
<1> QED
  BY <1>1, <1>2, <1>3, <1>4, <1>5, <1>6, <1>7, <1>8, <1>9 DEF Next

\* The outbox loses nothing: what the object has booked is in Postgres, for every entity
\* whose budgets row stays, before its entry goes, or was tried MaxAttempts times.
THEOREM NothingLost == Spec => []SettledIsCharged
<1>1. Init => IInv /\ KeptInv
  BY InitInv, InitKept
<1>2. IInv /\ KeptInv /\ [Next]_vars => (IInv /\ KeptInv)'
  BY InvStep, KeptStep
<1>3. KeptInv => SettledIsCharged
  BY DEF KeptInv
<1> QED
  BY <1>1, <1>2, <1>3, PTL DEF Spec
-----------------------------------------------------------------------------
(* What workers, queue and alarm ask of the object is within its promise.     *)

LEMMA LifecycleStep == IInv /\ [Next]_vars => [Object!Next]_phase
<1> SUFFICES ASSUME IInv, [Next]_vars PROVE [Object!Next]_phase
  OBVIOUS
<1>1. ASSUME NEW r \in Request, Approve(r) \/ Expire(r) PROVE Object!Next
  BY <1>1 DEF Approve, Expire, Object!Next
<1>2. ASSUME NEW w \in Worker, CallObject(w) PROVE [Object!Next]_phase
  <2>1. proc[w].req \in Request
    BY <1>2 DEF CallObject, IInv, WorkersOK
  <2>2. ObjectReconciles(proc[w].req) \/ phase' = phase
    BY <1>2 DEF CallObject, NotFound
  <2> QED
    BY <2>1, <2>2 DEF ObjectReconciles, Object!Next
<1>3. ASSUME NEW w \in Worker, AckOutbox(w) PROVE [Object!Next]_phase
  <2>1. proc[w].req \in Request
    BY <1>3 DEF AckOutbox, IInv, WorkersOK
  <2> QED
    BY <1>3, <2>1 DEF AckOutbox, Object!Next
<1>4. ASSUME NEW done \in SUBSET Request, LoopGoesOnOrEnds(done) PROVE Object!Next
  <2>1. \E dropped \in SUBSET Request : Object!Close(done \cup dropped)
    BY <1>4 DEF LoopGoesOnOrEnds
  <2> QED
    BY <2>1 DEF Object!Next
<1>5. CASE AlarmAcks
  <2>1. {r \in {job.req} : phase[r] = "booked"} \in SUBSET Request
    BY <1>5 DEF AlarmAcks, IInv, AlarmOK, TypeOK
  <2> QED
    BY <1>4, <1>5, <2>1 DEF AlarmAcks
<1>6. CASE AlarmFails
  BY <1>4, <1>6 DEF AlarmFails
<1>7. ASSUME NEW w \in Worker, WritePostgres(w) \/ Crash(w) PROVE phase' = phase
  BY <1>7 DEF WritePostgres, Crash, objectVars
<1>8. ASSUME NEW r \in Request, DeadLetter(r) \/ \E costs \in BOOLEAN : Enqueue(r, costs)
      PROVE  phase' = phase
  BY <1>8 DEF DeadLetter, Enqueue, objectVars
<1>9. ASSUME NEW w \in Worker, NEW r \in Request,
             Deliver(w, r) \/ \E costs \in BOOLEAN : SettleDirectly(w, r, costs)
      PROVE  phase' = phase
  BY <1>9 DEF Deliver, SettleDirectly, objectVars
<1>10. CASE (\E r \in Request : AlarmTakes(r)) \/ AlarmWrites \/ Evict
  BY <1>10 DEF AlarmTakes, AlarmWrites, Evict
<1>11. ASSUME NEW e \in Entity, ChangeRow(e) PROVE phase' = phase
  BY <1>11 DEF ChangeRow, objectVars
<1>12. CASE UNCHANGED vars
  BY <1>12 DEF vars, objectVars
<1> QED
  BY <1>1, <1>2, <1>3, <1>5, <1>6, <1>7, <1>8, <1>9, <1>10, <1>11, <1>12
     DEF Next, WorkerNext, AlarmNext

\* Redelivered settlements, acknowledgements of entries already gone and an alarm that runs over
\* several entries ask nothing of the object but what ReservationLifecycle allows, which is all
\* that UserBudgetDO is shown to do (doBudgetReconcile, ackPgSync, alarm).
THEOREM UsesTheLifecycle == Spec => Object!Spec
<1>1. Init => Object!Init
  BY DEF Init
<1> QED
  BY <1>1, LifecycleStep, InvHolds, PTL DEF Spec, Object!Spec

=============================================================================
