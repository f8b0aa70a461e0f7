----------------------------- MODULE Idempotency -----------------------------
(***************************************************************************)
(* withIdempotency of the dashboard (lib/resilience/idempotency.ts): tries *)
(* of one request that carry one Idempotency-Key, each run by a server     *)
(* process of its own, and the record they share in Redis.                 *)
(*                                                                         *)
(* What the wrapped handler does is one step, Execute.  The record of a    *)
(* finished request outlives every retry (24 hours).                       *)
(***************************************************************************)
EXTENDS Integers

CONSTANTS
  Key,         \* requests, each with its key
  MaxTries,    \* 1 + maxRetries of the caller
  Unlucky      \* bound: the requests for which Redis, the database or a process may fail

VARIABLES
  record,      \* Redis: "none", the sentinel "processing", or an answer
  try,         \* tries: [pc, lock, answer]; lock is holding the sentinel
  awaited,     \* the try whose answer the caller waits for, 0 if it waits for none
  troubled     \* history: keys on whose behalf Redis, the database or a process failed

idemVars == <<record, try, awaited, troubled>>

Tries == 1..MaxTries
NoTry == [pc |-> "none", lock |-> FALSE, answer |-> "none"]
Answers == {"ok", "refused", "error"}

IdemInit ==
  /\ record = [k \in Key |-> "none"]
  /\ try = [k \in Key |-> [t \in Tries |-> NoTry]]
  /\ awaited = [k \in Key |-> 0]
  /\ troubled = {}

At(k, t, pc) == try[k][t].pc = pc
Goes(k, t, pc) == try' = [try EXCEPT ![k][t].pc = pc]

\* An answer nobody waits for is the end of its try.
Replies(k, t, a) ==
  try' = [try EXCEPT ![k][t] =
            IF awaited[k] = t THEN [pc |-> "answered", lock |-> FALSE, answer |-> a] ELSE NoTry]
Runs(k, t, lock) == try' = [try EXCEPT ![k][t] = [pc |-> "running", lock |-> lock, answer |-> "none"]]
Trouble(k) == k \in Unlucky /\ troubled' = troubled \cup {k}

-----------------------------------------------------------------------------

\* Phase 1: GET.
ReadRecord(k, t) ==
  /\ At(k, t, "begun")
  /\ IF record[k] \in Answers THEN Replies(k, t, record[k])
     ELSE Goes(k, t, IF record[k] = "processing" THEN "polling" ELSE "acquiring")
  /\ UNCHANGED <<record, troubled>>

\* Faulty: SET without NX.
AcquireAnyway(k, t) ==
  /\ At(k, t, "acquiring")
  /\ record' = [record EXCEPT ![k] = "processing"] /\ Runs(k, t, TRUE)
  /\ UNCHANGED troubled

\* Phase 2: SET NX.
Acquire(k, t) ==
  /\ At(k, t, "acquiring")
  /\ IF record[k] = "none"
     THEN record' = [record EXCEPT ![k] = "processing"] /\ Runs(k, t, TRUE)
     ELSE Goes(k, t, "polling") /\ UNCHANGED record
  /\ UNCHANGED troubled

\* Redis is not there, or fails: the handler runs unprotected.  A SET NX that failed may
\* have taken effect, so that the sentinel is nobody's.
FailOpen(k, t) ==
  /\ At(k, t, "begun") \/ At(k, t, "acquiring")
  /\ Runs(k, t, FALSE)
  /\ Trouble(k)
  /\ \/ UNCHANGED record
     \/ /\ At(k, t, "acquiring") /\ record[k] = "none"
        /\ record' = [record EXCEPT ![k] = "processing"]

\* Phase 3.
Execute(k, t) ==
  /\ At(k, t, "running")
  /\ Goes(k, t, "executed")
  /\ UNCHANGED <<record, troubled>>

\* DEL by a try that set the sentinel; errors are ignored.
Released(k, t) ==
  IF ~try[k][t].lock THEN {record}
  ELSE {[record EXCEPT ![k] = "none"]} \cup (IF k \in Unlucky THEN {record} ELSE {})

\* The handler answers 4xx, which is stored as well, or cannot be.
Refuse(k, t) ==
  /\ At(k, t, "running")
  /\ \/ record' = IF try[k][t].lock THEN [record EXCEPT ![k] = "refused"] ELSE record
     \/ k \in Unlucky /\ record' \in Released(k, t)
  /\ Replies(k, t, "refused")
  /\ UNCHANGED troubled

\* Faulty: an answer of 500 is stored as any other.
FailAndCache(k, t) ==
  /\ At(k, t, "running")
  /\ Replies(k, t, "error")
  /\ record' = IF try[k][t].lock THEN [record EXCEPT ![k] = "ok"] ELSE record
  /\ UNCHANGED troubled

\* The handler throws or answers 5xx or 429: the sentinel is deleted, whoever set it.
HandlerFails(k, t) ==
  /\ At(k, t, "running")
  /\ Replies(k, t, "error")
  /\ record' \in Released(k, t)
  /\ UNCHANGED troubled

\* The same, but the effect was there: a commit whose answer was lost.
Unconfirmed(k, t) ==
  /\ At(k, t, "running")
  /\ Replies(k, t, "error")
  /\ record' \in Released(k, t)
  /\ Trouble(k)

\* Phase 4: SET the answer, if this try holds the sentinel.
CacheAnswer(k, t) ==
  /\ At(k, t, "executed")
  /\ record' = IF try[k][t].lock THEN [record EXCEPT ![k] = "ok"] ELSE record
  /\ Replies(k, t, "ok")
  /\ UNCHANGED troubled

\* The SET fails, and the DEL after it may too.
CacheFails(k, t) ==
  /\ At(k, t, "executed") /\ try[k][t].lock
  /\ record' \in Released(k, t)
  /\ Replies(k, t, "ok")
  /\ Trouble(k)

\* pollForCompletion: an answer that another try stored, or 503 in the end.
Poll(k, t) ==
  /\ At(k, t, "polling")
  /\ Replies(k, t, IF record[k] \in Answers THEN record[k] ELSE "error")
  /\ UNCHANGED <<record, troubled>>

\* The request never arrives, or the process that runs it ends.
Vanish(k, t) ==
  /\ k \in Unlucky /\ try[k][t].pc \notin {"none", "answered"}
  /\ try' = [try EXCEPT ![k][t] = NoTry]
  /\ IF At(k, t, "executed") THEN Trouble(k) ELSE UNCHANGED troubled
  /\ UNCHANGED record

\* The sentinel's sixty seconds are over.
SentinelExpires(k) ==
  /\ record[k] = "processing"
  /\ record' = [record EXCEPT ![k] = "none"]
  /\ IF \E t \in Tries : try[k][t].lock THEN Trouble(k) ELSE UNCHANGED troubled
  /\ UNCHANGED try

\* The caller stops waiting for request k, if there is one, and sends try t of request j.
\* A try of a lucky request then ends too, unless it is done but for its answer.  A record
\* that no try of its request will read again is left out of the model.
Abandoned(k, t) ==
  IF t = awaited[k] /\ (At(k, t, "answered") \/ (k \notin Unlucky /\ ~At(k, t, "executed")))
  THEN NoTry ELSE try[k][t]

SendInstead(k, j, t) ==
  LET left == [i \in Key |-> IF i = k THEN [u \in Tries |-> Abandoned(k, u)] ELSE try[i]] IN
  /\ try' = IF j \in Key THEN [left EXCEPT ![j][t].pc = "begun"] ELSE left
  /\ record' = [i \in Key |-> IF i = k /\ j # k /\ \A u \in Tries : left[i][u] = NoTry
                               THEN "none" ELSE record[i]]
  /\ awaited' = [i \in Key |-> IF i = j THEN t ELSE IF i = k THEN 0 ELSE awaited[i]]
  /\ UNCHANGED troubled

\* The steps of a try that are not the handler's effect.
Internal(k, t) ==
  \/ ReadRecord(k, t) \/ Acquire(k, t) \/ FailOpen(k, t) \/ Refuse(k, t) \/ HandlerFails(k, t)
  \/ CacheAnswer(k, t) \/ CacheFails(k, t) \/ Poll(k, t) \/ Vanish(k, t)

-----------------------------------------------------------------------------

\* The values each variable may take.
IdemTypeOK ==
  /\ record \in [Key -> {"none", "processing"} \cup Answers]
  /\ try \in [Key -> [Tries -> [pc : {"none", "begun", "acquiring", "polling", "running", "executed",
                                      "answered"},
                                lock : BOOLEAN, answer : Answers \cup {"none"}]]]
  /\ awaited \in [Key -> 0..MaxTries]
  /\ troubled \subseteq Key

=============================================================================
