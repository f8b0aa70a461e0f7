-------------------------- MODULE CostReports_proofs --------------------------
(***************************************************************************)
(* What CostReports promises for every number of events and tries, every   *)
(* size of batches and of the queue, and every request that may meet with  *)
(* trouble: no event vanishes, what is delivered is stored, and what can   *)
(* be stored once is.                                                      *)
(***************************************************************************)
EXTENDS CostReports, FiniteSetTheorems, SequenceTheorems, TLAPS

-----------------------------------------------------------------------------
(* The line of events: delivered or not, in the order they happened.  It is  *)
(* what makes the next request's key one that there is: the events of        *)
(* request k are numbered k or later.                                        *)

\* How many requests there have been.
Sent == Cardinality({j \in Key : batch[j] # {}})

Increasing(s) == \A i, j \in 1..Len(s) : i < j => s[i] < s[j]
Before(A, B) == \A a \in A, b \in B : a < b

LineTyped ==
  /\ fresh \subseteq Event /\ dropped \subseteq Event /\ failed \subseteq Event
  /\ delivered \subseteq Event
  /\ queue \in Seq(Event) /\ snapshot \in Seq(Event)
  /\ batch \in [Key -> SUBSET Event]
  /\ current \in Key \cup {0}
  /\ shut \in {"no", "draining", "done"}

InOrder ==
  /\ Increasing(queue) /\ Increasing(snapshot)
  /\ Before(Elements(snapshot), Elements(queue) \cup fresh)
  /\ Before(Elements(queue), fresh)
  /\ Before({Sent}, Elements(snapshot) \cup Elements(queue) \cup fresh)

Requests ==
  /\ Sent \in Nat /\ {j \in Key : batch[j] # {}} = 1..Sent
  /\ current # 0 => current = Sent
  /\ current = 0 => snapshot = <<>>
  /\ \A j, k \in Key : batch[j] \cap batch[k] # {} => j = k

\* Every event is in a place, and each place excludes those after it.
PlacedIn(f, q, s, x, d, g, h) == \A e \in Event :
  /\ e \in f \cup q \cup s \cup x \cup d \cup g \cup h
  /\ e \in f => e \notin q \cup s \cup x \cup d \cup g \cup h
  /\ e \in q => e \notin s \cup x \cup d \cup g \cup h
  /\ e \in s => e \notin x \cup d \cup g \cup h
  /\ e \in x => e \notin d \cup g \cup h
  /\ e \in d => e \notin g \cup h
  /\ e \in g => e \notin h

Placed == PlacedIn(fresh, Elements(queue), Elements(snapshot), Sending, delivered, failed, dropped)

Waiting == fresh \cup Elements(queue) \cup Elements(snapshot)

\* An event is in a request only when it no longer waits.
Batched == \A k \in Key : batch[k] \cap Waiting = {}

LineInv ==
  /\ LineTyped /\ InOrder /\ Requests /\ Placed /\ Batched
  /\ Len(queue) <= MaxQueue

-----------------------------------------------------------------------------
(* The tries.                                                                *)

TryType == [pc : {"none", "begun", "acquiring", "polling", "running", "executed", "answered"},
            lock : BOOLEAN, answer : Answers \cup {"none"}]

Recordable == {"none", "processing"} \cup Answers

Awaiting ==
  /\ \A k \in Key : current = k => awaited[k] \in Tries
  /\ \A k \in Key, t \in Tries : current = k /\ t > awaited[k] => try[k][t].pc = "none"
  /\ \A k \in Key : k > Sent => record[k] = "none" /\ \A t \in Tries : try[k][t] = NoTry

MayExecute == {"begun", "acquiring", "running"}

\* Tries that can still execute.
Open(k) == {t \in Tries : try[k][t].pc \in MayExecute
                          \/ (current = k /\ t > awaited[k])}

Counted ==
  /\ rows \in [Event -> Nat]
  /\ \A e \in Event : (\A k \in Key : e \notin batch[k]) => rows[e] = 0
  /\ \A k \in Key : \A e \in batch[k] : rows[e] + Cardinality(Open(k)) <= MaxTries

\* The effect of request k is there.
Stored(k) == \A e \in batch[k] : rows[e] > 0

Succeeded(k) ==
  \/ record[k] = "ok"
  \/ \E t \in Tries : \/ try[k][t].pc = "executed"
                      \/ try[k][t].pc = "answered" /\ try[k][t].answer = "ok"

Truthful == \A k \in Key : Succeeded(k) => Stored(k)

Acting(k, t) == try[k][t].pc \in {"running", "executed"}

\* The sentinel does what it is for.
Exclusive(k) ==
  /\ \A t \in Tries : Acting(k, t) => try[k][t].lock /\ record[k] = "processing"
  /\ \A t, u \in Tries : Acting(k, t) /\ Acting(k, u) => t = u

Begins(k) == \E t \in Tries : try[k][t].pc \in MayExecute

\* What is stored has its answer stored, or is about to, or nobody asks again.
Remembered(k) ==
  (\E e \in batch[k] : rows[e] > 0) =>
    \/ record[k] = "ok"
    \/ \E t \in Tries : try[k][t].pc = "executed"
    \/ current # k /\ ~Begins(k)

Once ==
  /\ \A e \in Keyed : rows[e] <= 1
  /\ \A k \in Key : k \notin troubled =>
       /\ Exclusive(k) /\ Remembered(k)
       /\ \A e \in batch[k] : rows[e] <= 1

\* What the SDK takes for delivered is in cost_events, also when the answer was replayed.
DeliveredIsStored == \A e \in delivered : rows[e] > 0

IInv == LineInv /\ IdemTypeOK /\ Awaiting /\ Counted /\ Truthful /\ Once /\ DeliveredIsStored

-----------------------------------------------------------------------------
(* Sequences of events.                                                      *)

LEMMA Numbers ==
  /\ Cardinality(Event) \in Nat /\ Event = 1..Cardinality(Event) /\ Event \subseteq Nat
  /\ Key = Event /\ 0 \notin Key /\ Keyed \subseteq Event
  /\ BatchSize \in Nat \ {0} /\ MaxQueue \in Nat \ {0} /\ MaxTries \in Nat \ {0}
  /\ Tries \subseteq Nat /\ 1 \in Tries
<1>1. Cardinality(Event) \in Nat
  BY ReportsAssumption, FS_CardinalityType
<1>2. Event \subseteq Nat /\ 0 \notin Event
  <2>1. Event = 1..Cardinality(Event)
    BY ReportsAssumption
  <2> QED
    BY <1>1, <2>1, SMT
<1>3. MaxTries \in Nat \ {0}
  BY ReportsAssumption
<1>4. Tries \subseteq Nat /\ 1 \in Tries
  BY <1>3, SMT DEF Tries
<1> QED
  BY <1>1, <1>2, <1>3, <1>4, ReportsAssumption

LEMMA ElementsFacts ==
  ASSUME NEW s \in Seq(Event)
  PROVE  /\ Elements(s) \subseteq Event /\ Elements(<<>>) = {}
         /\ s # <<>> => Len(s) \in Nat \ {0} /\ s[1] \in Elements(s)
<1>1. Len(s) \in Nat /\ \A i \in 1..Len(s) : s[i] \in Event
  BY LenProperties, ElementOfSeq
<1>2. Elements(s) \subseteq Event
  BY <1>1 DEF Elements
<1>3. Elements(<<>>) = {}
  BY EmptySeq, SMT DEF Elements
<1>4. s # <<>> => Len(s) \in Nat \ {0}
  BY EmptySeq
<1>5. s # <<>> => s[1] \in Elements(s)
  BY <1>4, SMT DEF Elements
<1> QED
  BY <1>2, <1>3, <1>4, <1>5

LEMMA EmptyFacts == /\ <<>> \in Seq(Event) /\ Len(<<>>) = 0 /\ Increasing(<<>>)
                    /\ Elements(<<>>) = {}
<1>1. <<>> \in Seq(Event) /\ Len(<<>>) = 0
  BY EmptySeq
<1>2. Increasing(<<>>)
  BY <1>1, SMT DEF Increasing
<1> QED
  BY <1>1, <1>2, ElementsFacts

\* An increasing sequence cut in two.
LEMMA Cut ==
  ASSUME NEW s \in Seq(Event), Increasing(s), NEW n \in 0..Len(s)
  PROVE  LET a == SubSeq(s, 1, n)
             b == SubSeq(s, n + 1, Len(s))
         IN
         /\ a \in Seq(Event) /\ Len(a) = n /\ b \in Seq(Event) /\ Len(b) = Len(s) - n
         /\ Increasing(a) /\ Increasing(b)
         /\ Elements(s) = Elements(a) \cup Elements(b)
         /\ Before(Elements(a), Elements(b))
         /\ n > 0 => s[1] \in Elements(a) /\ Before({s[1]}, Elements(b))
<1> DEFINE a == SubSeq(s, 1, n)
           b == SubSeq(s, n + 1, Len(s))
<1>1. Len(s) \in Nat /\ \A i \in 1..Len(s) : s[i] \in Event
  BY LenProperties, ElementOfSeq
<1>2. n \in Nat /\ n <= Len(s)
  BY <1>1, SMT
<1>3. /\ a \in Seq(Event) /\ Len(a) = n /\ \A i \in 1..n : a[i] = s[i]
  <2>1. \A i \in 1..n : s[i] \in Event
    BY <1>1, <1>2, SMT
  <2>2. 1 \in Int /\ n \in Int
    BY <1>2, SMT
  <2>3. /\ SubSeq(s, 1, n) \in Seq(Event)
        /\ Len(SubSeq(s, 1, n)) = IF 1 <= n THEN n - 1 + 1 ELSE 0
        /\ \A i \in 1..(n - 1 + 1) : SubSeq(s, 1, n)[i] = s[1 + i - 1]
    BY <2>1, <2>2, SubSeqProperties
  <2>4. (IF 1 <= n THEN n - 1 + 1 ELSE 0) = n /\ 1..(n - 1 + 1) = 1..n
        /\ \A i \in 1..n : 1 + i - 1 = i
    BY <1>2, SMT
  <2> QED
    BY <2>3, <2>4
<1>4. /\ b \in Seq(Event) /\ Len(b) = Len(s) - n
      /\ \A i \in 1..(Len(s) - n) : b[i] = s[i + n]
  <2>1. \A i \in (n + 1)..Len(s) : s[i] \in Event
    BY <1>1, <1>2, SMT
  <2>2. n + 1 \in Int /\ Len(s) \in Int
    BY <1>1, <1>2, SMT
  <2>3. /\ SubSeq(s, n + 1, Len(s)) \in Seq(Event)
        /\ Len(SubSeq(s, n + 1, Len(s))) = IF n + 1 <= Len(s) THEN Len(s) - (n + 1) + 1 ELSE 0
        /\ \A i \in 1..(Len(s) - (n + 1) + 1) : SubSeq(s, n + 1, Len(s))[i] = s[n + 1 + i - 1]
    BY <2>1, <2>2, SubSeqProperties
  <2>4. /\ (IF n + 1 <= Len(s) THEN Len(s) - (n + 1) + 1 ELSE 0) = Len(s) - n
        /\ Len(s) - (n + 1) + 1 = Len(s) - n
        /\ \A i \in 1..(Len(s) - n) : n + 1 + i - 1 = i + n
    BY <1>1, <1>2, SMT
  <2> QED
    BY <2>3, <2>4
<1> HIDE DEF a, b
<1>5. Increasing(a)
  BY <1>1, <1>2, <1>3, SMT DEF Increasing
<1>6. Increasing(b)
  BY <1>1, <1>2, <1>4, SMT DEF Increasing
<1>7. Elements(s) = Elements(a) \cup Elements(b)
  <2>1. ASSUME NEW e \in Elements(s) PROVE e \in Elements(a) \cup Elements(b)
    <3>1. PICK i \in 1..Len(s) : e = s[i]
      BY DEF Elements
    <3>2. CASE i <= n
      BY <1>1, <1>2, <1>3, <3>1, <3>2, SMT DEF Elements
    <3>3. CASE i > n
      <4>1. i - n \in 1..(Len(s) - n) /\ (i - n) + n = i
        BY <1>1, <1>2, <3>3, SMT
      <4>2. e = b[i - n]
        BY <1>4, <3>1, <4>1
      <4> QED
        BY <1>4, <4>1, <4>2 DEF Elements
    <3> QED
      BY <1>2, <3>2, <3>3, SMT
  <2>2. Elements(a) \subseteq Elements(s)
    BY <1>1, <1>2, <1>3, SMT DEF Elements
  <2>3. Elements(b) \subseteq Elements(s)
    <3>1. \A i \in 1..(Len(s) - n) : i + n \in 1..Len(s)
      BY <1>1, <1>2, SMT
    <3> QED
      BY <1>4, <3>1 DEF Elements
  <2> QED
    BY <2>1, <2>2, <2>3
<1>8. Before(Elements(a), Elements(b))
  <2> SUFFICES ASSUME NEW x \in Elements(a), NEW y \in Elements(b) PROVE x < y
    BY DEF Before
  <2>1. PICK i \in 1..n : x = s[i]
    BY <1>3 DEF Elements
  <2>2. PICK j \in 1..(Len(s) - n) : y = s[j + n]
    BY <1>4 DEF Elements
  <2>3. i \in 1..Len(s) /\ j + n \in 1..Len(s) /\ i < j + n
    BY <1>1, <1>2, SMT
  <2> QED
    BY <2>1, <2>2, <2>3 DEF Increasing
<1>9. n > 0 => s[1] \in Elements(a)
  <2>1. n > 0 => 1 \in 1..n
    BY <1>2, SMT
  <2> QED
    BY <1>3, <2>1 DEF Elements
<1>10. n > 0 => Before({s[1]}, Elements(b))
  BY <1>8, <1>9 DEF Before
<1> QED
  BY <1>3, <1>4, <1>5, <1>6, <1>7, <1>8, <1>9, <1>10 DEF a, b

LEMMA Appended ==
  ASSUME NEW s \in Seq(Event), Increasing(s), NEW e \in Event, Before(Elements(s), {e}),
         NEW a, a = Append(s, e)
  PROVE  /\ a \in Seq(Event) /\ Len(a) = Len(s) + 1 /\ a # <<>>
         /\ Increasing(a) /\ Elements(a) = Elements(s) \cup {e}
<1>1. Len(s) \in Nat
  BY LenProperties
<1>2. /\ a \in Seq(Event) /\ Len(a) = Len(s) + 1 /\ a # <<>>
      /\ \A i \in 1..Len(s) : a[i] = s[i]
      /\ a[Len(s) + 1] = e
  BY AppendProperties
<1>3. Increasing(a)
  <2> SUFFICES ASSUME NEW i \in 1..Len(a), NEW j \in 1..Len(a), i < j PROVE a[i] < a[j]
    BY DEF Increasing
  <2>1. i \in 1..Len(s) /\ (j \in 1..Len(s) \/ j = Len(s) + 1)
    BY <1>1, <1>2, SMT
  <2>2. CASE j \in 1..Len(s)
    BY <1>2, <2>1, <2>2 DEF Increasing
  <2>3. CASE j = Len(s) + 1
    BY <1>2, <2>1, <2>3 DEF Before, Elements
  <2> QED
    BY <2>1, <2>2, <2>3
<1>4. Elements(a) = Elements(s) \cup {e}
  <2>1. 1..Len(a) = (1..Len(s)) \cup {Len(s) + 1}
    BY <1>1, <1>2, SMT
  <2> QED
    BY <1>2, <2>1 DEF Elements
<1> QED
  BY <1>2, <1>3, <1>4

-----------------------------------------------------------------------------
(* The line.                                                                 *)

\* The next chunk of s becomes the next request.
LEMMA Chunk ==
  ASSUME LineTyped, Requests, NEW s \in Seq(Event), s # <<>>, Increasing(s),
         Before({Sent}, Elements(s)), BeginChunk(s)
  PROVE  \E C \in SUBSET Event :
           /\ C # {} /\ C \cup Elements(snapshot)' = Elements(s) /\ C \cap Elements(snapshot)' = {}
           /\ Sent + 1 \in Key /\ Sent' = Sent + 1 /\ current' = Sent + 1
           /\ batch[Sent + 1] = {} /\ batch' = [batch EXCEPT ![Sent + 1] = C]
           /\ batch' \in [Key -> SUBSET Event]
           /\ {j \in Key : batch'[j] # {}} = 1..(Sent + 1)
           /\ snapshot' \in Seq(Event) /\ Increasing(snapshot)'
           /\ Before({Sent + 1}, Elements(snapshot)')
           /\ SendInstead(current, Sent + 1, 1)
<1> DEFINE n == Smaller(BatchSize, Len(s))
           a == SubSeq(s, 1, n)
           C == Elements(a)
           k == Sent + 1
<1>1. /\ batch' = [batch EXCEPT ![k] = C] /\ snapshot' = SubSeq(s, n + 1, Len(s))
      /\ current' = k /\ SendInstead(current, k, 1)
  BY DEF BeginChunk, Sent
<1>2. Len(s) \in Nat \ {0} /\ s[1] \in Elements(s) /\ s[1] \in Event
  BY ElementsFacts
<1>3. n \in 1..Len(s)
  BY <1>2, Numbers, SMT DEF Smaller
<1>4. n \in 0..Len(s) /\ n > 0
  BY <1>2, <1>3, SMT
<1> HIDE DEF n
<1>5. /\ a \in Seq(Event) /\ snapshot' \in Seq(Event) /\ Increasing(snapshot')
      /\ Elements(s) = C \cup Elements(snapshot') /\ Before(C, Elements(snapshot'))
      /\ s[1] \in C /\ Before({s[1]}, Elements(snapshot'))
  BY <1>1, <1>4, Cut
<1>6. C \subseteq Event /\ Elements(snapshot') \subseteq Event
  BY <1>5, ElementsFacts
<1> HIDE DEF a, C
<1>7. C \cap Elements(snapshot') = {}
  <2>1. \A e \in C \cap Elements(snapshot') : e \in Nat /\ e < e
    BY <1>5, <1>6, Numbers DEF Before
  <2> QED
    BY <2>1, SMT
<1>8. Sent \in Nat /\ {j \in Key : batch[j] # {}} = 1..Sent
  BY DEF Requests
<1>9. Sent < s[1]
  BY <1>2 DEF Before
<1>10. k \in Key
  <2>1. Key = 1..Cardinality(Event) /\ Event = 1..Cardinality(Event) /\ Cardinality(Event) \in Nat
    BY Numbers
  <2> QED
    BY <1>2, <1>8, <1>9, <2>1, SMT
<1>11. batch[k] = {}
  <2>1. k \notin 1..Sent
    BY <1>8, SMT
  <2> QED
    BY <1>8, <1>10, <2>1
<1>12. batch' \in [Key -> SUBSET Event]
  BY <1>1, <1>6 DEF LineTyped
<1>13. {j \in Key : batch'[j] # {}} = 1..k
  <2>1. {j \in Key : batch'[j] # {}} = {j \in Key : batch[j] # {}} \cup {k}
    BY <1>1, <1>5, <1>10 DEF LineTyped
  <2>2. 1..k = (1..Sent) \cup {k}
    BY <1>8, SMT
  <2> QED
    BY <1>8, <2>1, <2>2
<1>14. Sent' = k
  <2>1. 1 \in Int /\ k \in Int /\ ~(1 > k) /\ k - 1 + 1 = k
    BY <1>8, SMT
  <2>2. Cardinality(1..k) = k
    BY <2>1, FS_Interval
  <2> QED
    BY <1>13, <2>2 DEF Sent
<1>15. Before({k}, Elements(snapshot'))
  <2> SUFFICES ASSUME NEW e \in Elements(snapshot') PROVE k < e
    BY DEF Before
  <2>1. s[1] < e /\ e \in Nat /\ s[1] \in Nat
    BY <1>2, <1>5, <1>6, Numbers DEF Before
  <2> QED
    BY <1>8, <1>9, <2>1, SMT
<1> QED
  BY <1>1, <1>5, <1>6, <1>7, <1>10, <1>11, <1>12, <1>13, <1>14, <1>15

LEMMA LineInit == Init => LineInv
<1> SUFFICES ASSUME Init PROVE LineInv
  OBVIOUS
<1>1. /\ fresh = Event /\ queue = <<>> /\ snapshot = <<>> /\ batch = [k \in Key |-> {}]
      /\ current = 0 /\ shut = "no" /\ dropped = {} /\ failed = {} /\ delivered = {}
  BY DEF Init
<1>2. Elements(queue) = {} /\ Elements(snapshot) = {} /\ Sending = {}
  BY <1>1, EmptyFacts DEF Sending, Flushing
<1>3. {j \in Key : batch[j] # {}} = {} /\ 1..0 = {}
  BY <1>1, SMT
<1>4. Sent = 0
  BY <1>3, FS_EmptySet DEF Sent
<1>5. LineTyped
  BY <1>1, EmptyFacts DEF LineTyped
<1>6. InOrder
  <2>1. \A e \in Event : 0 < e
    BY Numbers, SMT
  <2> QED
    BY <1>1, <1>2, <1>4, <2>1, EmptyFacts DEF InOrder, Before
<1>7. Requests
  BY <1>1, <1>3, <1>4 DEF Requests
<1>8. Placed
  BY <1>1, <1>2 DEF Placed, PlacedIn
<1>9. Batched
  BY <1>1 DEF Batched
<1>10. Len(queue) <= MaxQueue
  BY <1>1, EmptyFacts, Numbers, SMT
<1> QED
  BY <1>5, <1>6, <1>7, <1>8, <1>9, <1>10 DEF LineInv

LEMMA LineStutter ==
  ASSUME LineInv, UNCHANGED <<fresh, queue, snapshot, batch, current, dropped, failed, delivered>>,
         shut' \in {"no", "draining", "done"}
  PROVE  LineInv' /\ Sent' = Sent
<1>1. /\ Sent' = Sent /\ Sending' = Sending
      /\ Elements(queue)' = Elements(queue) /\ Elements(snapshot)' = Elements(snapshot)
      /\ Increasing(queue)' = Increasing(queue) /\ Increasing(snapshot)' = Increasing(snapshot)
  BY DEF Sent, Sending, Flushing, Elements, Increasing
<1>2. LineTyped'
  BY DEF LineInv, LineTyped
<1>3. InOrder'
  BY <1>1 DEF LineInv, InOrder, Before
<1>4. Requests'
  BY <1>1 DEF LineInv, Requests
<1>5. Placed'
  BY <1>1 DEF LineInv, Placed
<1>6. Batched'
  BY <1>1 DEF LineInv, Batched, Waiting
<1> QED
  BY <1>1, <1>2, <1>3, <1>4, <1>5, <1>6 DEF LineInv

\* A chunk becomes request Sent + 1.
NewRequest ==
  /\ Sent + 1 \in Key /\ Sent' = Sent + 1 /\ current' = Sent + 1
  /\ batch' \in [Key -> SUBSET Event] /\ batch[Sent + 1] = {}
  /\ \A j \in Key : j # Sent + 1 => batch'[j] = batch[j] /\ batch'[Sent + 1] \cap batch[j] = {}
  /\ SendInstead(current, Sent + 1, 1)

\* No chunk does: the present request goes on, is sent again, or was the last of its flush.
SameRequests ==
  /\ Sent' = Sent /\ batch' = batch
  /\ \/ current' = current /\ UNCHANGED idemVars
     \/ /\ current' = current /\ current # 0 /\ awaited[current] # MaxTries
        /\ SendInstead(current, current, awaited[current] + 1)
     \/ current' = 0 /\ SendInstead(current, 0, 0)

\* Events leave their places for s, and s for a request and for snapshot.
LEMMA ChunkLine ==
  ASSUME LineInv, NEW s \in Seq(Event), s # <<>>, Increasing(s), BeginChunk(s),
         fresh' \subseteq Event, queue' \in Seq(Event), Increasing(queue'), Len(queue') <= MaxQueue,
         dropped' \subseteq Event, failed' \subseteq Event, delivered' \subseteq Event,
         shut' \in {"no", "draining", "done"},
         fresh' \cup Elements(queue') \cup Elements(s) \subseteq Waiting,
         Before(Elements(s), Elements(queue') \cup fresh'), Before(Elements(queue'), fresh'),
         PlacedIn(fresh', Elements(queue'), Elements(s), {}, delivered', failed', dropped')
  PROVE  LineInv' /\ NewRequest
<1> DEFINE k == Sent + 1
<1>1. LineTyped /\ Requests /\ Before({Sent}, Waiting)
  BY DEF LineInv, InOrder, Waiting, Before
<1>2. Before({Sent}, Elements(s))
  BY <1>1 DEF Before
<1>3. PICK C \in SUBSET Event :
        /\ C # {} /\ C \cup Elements(snapshot)' = Elements(s) /\ C \cap Elements(snapshot)' = {}
        /\ k \in Key /\ Sent' = k /\ current' = k
        /\ batch[k] = {} /\ batch' = [batch EXCEPT ![k] = C] /\ batch' \in [Key -> SUBSET Event]
        /\ {j \in Key : batch'[j] # {}} = 1..k
        /\ snapshot' \in Seq(Event) /\ Increasing(snapshot)'
        /\ Before({k}, Elements(snapshot)')
        /\ SendInstead(current, k, 1)
  BY <1>1, <1>2, Chunk
<1>4. Elements(queue)' = Elements(queue') /\ Elements(snapshot)' = Elements(snapshot')
      /\ Increasing(queue)' = Increasing(queue') /\ Increasing(snapshot)' = Increasing(snapshot')
  OBVIOUS
<1>5. Sent \in Nat /\ k \in Nat
  BY <1>1, SMT DEF Requests
<1>6. batch'[k] = C /\ \A j \in Key : j # k => batch'[j] = batch[j]
  BY <1>1, <1>3 DEF LineTyped
<1>7. \A j \in Key : batch[j] \cap C = {}
  BY <1>3 DEF LineInv, Batched
<1>8. LineTyped'
  BY <1>3, <1>4 DEF LineTyped
<1>9. InOrder'
  <2>1. PICK c \in C : TRUE
    BY <1>3
  <2>2. Sent < c /\ c \in Nat /\ c \in Elements(s)
    BY <1>2, <1>3, Numbers DEF Before
  <2>3. ASSUME NEW e \in Elements(queue') \cup fresh' PROVE k < e
    <3>1. c < e /\ e \in Nat
      BY <1>1, <2>2, Numbers, ElementsFacts DEF Before
    <3> QED
      BY <1>5, <2>2, <3>1, SMT
  <2>4. Before({k}, Elements(snapshot') \cup Elements(queue') \cup fresh')
    BY <1>3, <1>4, <2>3 DEF Before
  <2>5. Before(Elements(snapshot'), Elements(queue') \cup fresh')
    BY <1>3, <1>4 DEF Before
  <2> HIDE DEF k
  <2> QED
    BY <1>3, <1>4, <2>4, <2>5 DEF InOrder, Before
<1>10. \A e \in C : e \notin fresh' \cup Elements(queue') \cup Elements(snapshot')
  <2>1. ASSUME NEW e \in C, e \in fresh' \cup Elements(queue') PROVE FALSE
    <3>1. e < e /\ e \in Nat
      BY <1>3, <2>1, Numbers DEF Before
    <3> QED
      BY <3>1, SMT
  <2> QED
    BY <1>3, <1>4, <2>1
<1>11. Requests'
  <2>1. k # 0
    BY <1>5, SMT
  <2>2. \A i, j \in Key : batch'[i] \cap batch'[j] # {} => i = j
    BY <1>1, <1>6, <1>7 DEF Requests
  <2> QED
    BY <1>3, <1>5, <2>1, <2>2 DEF Requests
<1>12. Sending' = C
  <2>1. k # 0
    BY <1>5, SMT
  <2> QED
    BY <1>3, <1>6, <2>1 DEF Sending, Flushing
<1>13. Placed'
  <2>1. PlacedIn(fresh', Elements(queue'), Elements(snapshot'), C, delivered', failed', dropped')
    BY <1>3, <1>4 DEF PlacedIn
  <2> QED
    BY <1>4, <1>12, <2>1 DEF Placed
<1>14. Batched'
  <2> SUFFICES ASSUME NEW j \in Key
               PROVE  batch'[j] \cap (fresh' \cup Elements(queue') \cup Elements(snapshot')) = {}
    BY <1>4 DEF Batched, Waiting
  <2>1. CASE j = k
    BY <1>6, <1>10, <2>1
  <2>2. CASE j # k
    BY <1>3, <1>4, <1>6, <2>2 DEF LineInv, Batched
  <2> QED
    BY <2>1, <2>2
<1>15. NewRequest
  BY <1>3, <1>6, <1>7 DEF NewRequest
<1> QED
  BY <1>8, <1>9, <1>11, <1>13, <1>14, <1>15 DEF LineInv

\* Events move without a new request.
LEMMA PlainLine ==
  ASSUME LineInv, UNCHANGED batch, current' = current \/ current' = 0,
         current' = 0 => snapshot' = <<>>,
         fresh' \subseteq Event, queue' \in Seq(Event), Increasing(queue'), Len(queue') <= MaxQueue,
         snapshot' = snapshot,
         dropped' \subseteq Event, failed' \subseteq Event, delivered' \subseteq Event,
         shut' \in {"no", "draining", "done"},
         fresh' \cup Elements(queue') \subseteq fresh \cup Elements(queue),
         Before(Elements(queue'), fresh'),
         PlacedIn(fresh', Elements(queue'), Elements(snapshot), Sending', delivered', failed', dropped')
  PROVE  LineInv' /\ Sent' = Sent
<1>1. /\ Elements(queue)' = Elements(queue') /\ Elements(snapshot)' = Elements(snapshot)
      /\ Increasing(queue)' = Increasing(queue') /\ Increasing(snapshot)' = Increasing(snapshot)
      /\ Sent' = Sent
  BY DEF Elements, Increasing, Sent
<1>2. LineTyped'
  BY DEF LineInv, LineTyped
<1>3. InOrder'
  BY <1>1 DEF LineInv, InOrder, Before
<1>4. Requests'
  BY <1>1 DEF LineInv, Requests
<1>5. Placed'
  BY <1>1 DEF Placed
<1>6. Batched'
  BY <1>1 DEF LineInv, Batched, Waiting
<1> QED
  BY <1>1, <1>2, <1>3, <1>4, <1>5, <1>6 DEF LineInv

\* While no flush is in flight, nothing is between the queue and the events done with.
LEMMA NotFlushing ==
  ASSUME LineInv, current = 0
  PROVE  snapshot = <<>> /\ Elements(snapshot) = {} /\ Sending = {}
  BY EmptyFacts DEF LineInv, Requests, Sending, Flushing

\* How events move: what is dropped was queued, and the events of a request are done with
\* together, before the next begins.
Flow ==
  /\ fresh' \subseteq fresh
  /\ dropped \subseteq dropped' /\ dropped' \subseteq dropped \cup Elements(queue)
  /\ \/ delivered' = delivered /\ failed' = failed /\ (Sending' = Sending \/ Sending = {})
     \/ /\ delivered' = delivered \cup Sending /\ failed' = failed
        /\ current # 0 /\ At(current, awaited[current], "answered") /\ Answer = "ok"
     \/ delivered' = delivered /\ failed' = failed \cup Sending

LEMMA EnqueueLine ==
  ASSUME LineInv, NEW e \in Event, Enqueue(e)
  PROVE  /\ LineInv' /\ rows' = rows /\ Flow
         /\ NewRequest \/ SameRequests
<1> DEFINE longer == Append(queue, e)
           excess == IF Len(longer) > MaxQueue THEN Len(longer) - MaxQueue ELSE 0
           lost == SubSeq(longer, 1, excess)
           kept == SubSeq(longer, excess + 1, Len(longer))
<1>1. /\ e \in fresh /\ \A d \in fresh : e <= d
      /\ fresh' = fresh \ {e} /\ dropped' = dropped \cup Elements(lost)
      /\ IF Len(kept) >= BatchSize /\ ~Flushing
         THEN queue' = <<>> /\ BeginChunk(kept)
         ELSE queue' = kept /\ UNCHANGED <<batch, snapshot, current, idemVars>>
      /\ UNCHANGED <<shut, failed, delivered, rows>>
  BY DEF Enqueue
<1>2. /\ LineTyped /\ Increasing(queue) /\ Before(Elements(queue), fresh)
      /\ Before(Elements(snapshot), Elements(queue) \cup fresh) /\ Placed
      /\ queue \in Seq(Event) /\ fresh \subseteq Event
  BY DEF LineInv, LineTyped, InOrder
<1>3. Before(Elements(queue), {e})
  BY <1>1, <1>2 DEF Before
<1>4. /\ longer \in Seq(Event) /\ Len(longer) = Len(queue) + 1
      /\ Increasing(longer) /\ Elements(longer) = Elements(queue) \cup {e}
  BY <1>2, <1>3, Appended
<1>5. Len(longer) \in Nat
  BY <1>4, LenProperties
<1> HIDE DEF longer
<1>6. excess \in 0..Len(longer) /\ Len(longer) - excess <= MaxQueue
  BY <1>5, Numbers, SMT
<1> HIDE DEF excess
<1>7. /\ kept \in Seq(Event) /\ Len(kept) = Len(longer) - excess /\ Increasing(kept)
      /\ lost \in Seq(Event)
      /\ Elements(longer) = Elements(lost) \cup Elements(kept)
      /\ Before(Elements(lost), Elements(kept))
  BY <1>4, <1>6, Cut
<1>8. Elements(lost) \subseteq Event /\ Elements(kept) \subseteq Event
  BY <1>7, ElementsFacts
<1> HIDE DEF lost, kept
<1>9. Elements(lost) \cap Elements(kept) = {}
  <2>1. \A d \in Elements(lost) \cap Elements(kept) : d \in Nat /\ d < d
    BY <1>7, <1>8, Numbers DEF Before
  <2> QED
    BY <2>1, SMT
<1>10. Before(Elements(kept), fresh')
  <2> SUFFICES ASSUME NEW a \in Elements(kept), NEW d \in fresh \ {e} PROVE a < d
    BY <1>1 DEF Before
  <2>1. a \in Elements(queue) => a < d
    BY <1>2 DEF Before
  <2>2. e < d
    BY <1>1, <1>2, Numbers, SMT
  <2> QED
    BY <1>4, <1>7, <2>1, <2>2
<1>11. /\ fresh' \subseteq Event /\ dropped' \subseteq Event /\ failed' \subseteq Event
       /\ delivered' \subseteq Event /\ shut' \in {"no", "draining", "done"}
  BY <1>1, <1>2, <1>8 DEF LineTyped
<1>12. PlacedIn(fresh', Elements(kept), Elements(snapshot), Sending, delivered', failed', dropped')
  BY <1>1, <1>2, <1>4, <1>7, <1>9 DEF Placed, PlacedIn
<1>13. Elements(lost) \subseteq Elements(queue)
  <2>1. Len(kept) # 0
    BY <1>4, <1>5, <1>6, <1>7, Numbers, LenProperties, SMT DEF excess
  <2>2. PICK d \in Elements(kept) : TRUE
    BY <1>7, <2>1, EmptyFacts, ElementsFacts
  <2>3. e \in Elements(lost) => e < d
    BY <1>7, <2>2 DEF Before
  <2>4. d = e \/ d < e
    BY <1>3, <1>4, <1>7, <2>2 DEF Before
  <2>5. e \notin Elements(lost)
    BY <1>8, <2>2, <2>3, <2>4, Numbers, SMT
  <2> QED
    BY <1>4, <1>7, <2>5
<1>14. Sending' = Sending \/ Sending = {} => Flow
  BY <1>1, <1>13 DEF Flow
<1>15. CASE Len(kept) >= BatchSize /\ ~Flushing
  <2>1. queue' = <<>> /\ BeginChunk(kept)
    BY <1>1, <1>15
  <2>2. kept # <<>>
    BY <1>15, EmptyFacts, Numbers, SMT
  <2>3. Elements(snapshot) = {} /\ Sending = {}
    BY <1>15, NotFlushing DEF Flushing
  <2>4. /\ queue' \in Seq(Event) /\ Increasing(queue') /\ Len(queue') <= MaxQueue
        /\ Elements(queue') = {}
    BY <2>1, EmptyFacts, Numbers, SMT
  <2>5. fresh' \cup Elements(queue') \cup Elements(kept) \subseteq Waiting
    BY <1>1, <1>4, <1>7, <2>4 DEF Waiting
  <2>6. Before(Elements(kept), Elements(queue') \cup fresh') /\ Before(Elements(queue'), fresh')
    BY <1>10, <2>4 DEF Before
  <2>7. PlacedIn(fresh', Elements(queue'), Elements(kept), {}, delivered', failed', dropped')
    BY <1>12, <2>3, <2>4 DEF PlacedIn
  <2>8. LineInv' /\ NewRequest
    BY <1>7, <1>11, <2>1, <2>2, <2>4, <2>5, <2>6, <2>7, ChunkLine
  <2> QED
    BY <1>1, <1>14, <2>3, <2>8
<1>16. CASE ~(Len(kept) >= BatchSize /\ ~Flushing)
  <2>1. queue' = kept /\ UNCHANGED <<batch, snapshot, current, idemVars>>
    BY <1>1, <1>16
  <2>2. Sending' = Sending /\ (current' = 0 => snapshot' = <<>>)
    BY <2>1 DEF Sending, Flushing, LineInv, Requests
  <2>3. Elements(queue') = Elements(kept) /\ Len(queue') <= MaxQueue
    BY <1>6, <1>7, <2>1
  <2>4. fresh' \cup Elements(queue') \subseteq fresh \cup Elements(queue)
    BY <1>1, <1>4, <1>7, <2>3
  <2>5. PlacedIn(fresh', Elements(queue'), Elements(snapshot), Sending', delivered', failed', dropped')
    BY <1>12, <2>2, <2>3
  <2>6. LineInv' /\ Sent' = Sent
    BY <1>7, <1>10, <1>11, <2>1, <2>2, <2>3, <2>4, <2>5, PlainLine
  <2>7. SameRequests
    BY <2>1, <2>6 DEF SameRequests
  <2> QED
    BY <1>1, <1>14, <2>2, <2>6, <2>7
<1> QED
  BY <1>15, <1>16

LEMMA FlushLine ==
  ASSUME LineInv, Flush
  PROVE  LineInv' /\ rows' = rows /\ Flow /\ NewRequest
<1>1. /\ current = 0 /\ queue # <<>> /\ queue' = <<>> /\ BeginChunk(queue)
      /\ UNCHANGED <<fresh, shut, dropped, failed, delivered, rows>>
  BY DEF Flush, Flushing
<1>2. /\ queue \in Seq(Event) /\ Increasing(queue) /\ Before(Elements(queue), fresh) /\ Placed
      /\ fresh' \subseteq Event /\ dropped' \subseteq Event /\ failed' \subseteq Event
      /\ delivered' \subseteq Event /\ shut' \in {"no", "draining", "done"}
  BY <1>1 DEF LineInv, LineTyped, InOrder
<1>3. /\ queue' \in Seq(Event) /\ Increasing(queue') /\ Len(queue') <= MaxQueue
      /\ Elements(queue') = {}
  BY <1>1, EmptyFacts, Numbers, SMT
<1>4. Elements(snapshot) = {} /\ Sending = {}
  BY <1>1, NotFlushing
<1>5. fresh' \cup Elements(queue') \cup Elements(queue) \subseteq Waiting
  BY <1>1, <1>3 DEF Waiting
<1>6. Before(Elements(queue), Elements(queue') \cup fresh') /\ Before(Elements(queue'), fresh')
  BY <1>1, <1>2, <1>3 DEF Before
<1>7. PlacedIn(fresh', Elements(queue'), Elements(queue), {}, delivered', failed', dropped')
  BY <1>1, <1>2, <1>3, <1>4 DEF Placed, PlacedIn
<1>8. LineInv' /\ NewRequest
  BY <1>1, <1>2, <1>3, <1>5, <1>6, <1>7, ChunkLine
<1> QED
  BY <1>1, <1>4, <1>8 DEF Flow

LEMMA ShutdownLine ==
  ASSUME LineInv, Shutdown \/ ShutdownReturns
  PROVE  LineInv' /\ rows' = rows /\ Flow /\ SameRequests
<1>1. /\ UNCHANGED <<fresh, queue, snapshot, batch, current, dropped, failed, delivered>>
      /\ shut' \in {"no", "draining", "done"} /\ UNCHANGED <<idemVars, rows>>
  BY DEF Shutdown, ShutdownReturns
<1>2. LineInv' /\ Sent' = Sent
  BY <1>1, LineStutter
<1>3. Sending' = Sending
  BY <1>1 DEF Sending, Flushing
<1> QED
  BY <1>1, <1>2, <1>3 DEF SameRequests, Flow

\* The events of the request are done with, and the flush goes on.
LEMMA NextChunkLine ==
  ASSUME LineInv, current # 0, NextChunk, UNCHANGED <<fresh, queue, shut, dropped>>,
         \/ delivered' = delivered \cup batch[current] /\ failed' = failed
         \/ failed' = failed \cup batch[current] /\ delivered' = delivered
  PROVE  LineInv' /\ (NewRequest \/ SameRequests)
<1>1. LineTyped /\ InOrder /\ Requests /\ Placed /\ current \in Key /\ Sending = batch[current]
  BY DEF LineInv, LineTyped, Sending, Flushing
<1>2. batch[current] \subseteq Event
  BY <1>1 DEF LineTyped
<1>3. /\ queue \in Seq(Event) /\ Increasing(queue) /\ snapshot \in Seq(Event) /\ Increasing(snapshot)
      /\ Before(Elements(queue), fresh) /\ Before(Elements(snapshot), Elements(queue) \cup fresh)
  BY <1>1 DEF LineTyped, InOrder
<1>4. /\ fresh' \subseteq Event /\ dropped' \subseteq Event /\ failed' \subseteq Event
      /\ delivered' \subseteq Event /\ shut' \in {"no", "draining", "done"}
      /\ queue' \in Seq(Event) /\ Len(queue') <= MaxQueue
  BY <1>1, <1>2 DEF LineTyped, LineInv
<1>5. PlacedIn(fresh', Elements(queue), Elements(snapshot), {}, delivered', failed', dropped')
  BY <1>1 DEF Placed, PlacedIn
<1>6. Elements(queue') = Elements(queue) /\ Increasing(queue') = Increasing(queue)
  OBVIOUS
<1>7. CASE snapshot # <<>>
  <2>1. BeginChunk(snapshot)
    BY <1>7 DEF NextChunk
  <2>2. fresh' \cup Elements(queue') \cup Elements(snapshot) \subseteq Waiting
    BY DEF Waiting
  <2> QED
    BY <1>3, <1>4, <1>5, <1>6, <1>7, <2>1, <2>2, ChunkLine
<1>8. CASE snapshot = <<>>
  <2>1. current' = 0 /\ SendInstead(current, 0, 0) /\ UNCHANGED <<batch, snapshot>>
    BY <1>8 DEF NextChunk
  <2>2. Sending' = {}
    BY <2>1 DEF Sending, Flushing
  <2>3. LineInv' /\ Sent' = Sent
    BY <1>3, <1>4, <1>5, <1>6, <1>8, <2>1, <2>2, PlainLine
  <2> QED
    BY <2>1, <2>3 DEF SameRequests
<1> QED
  BY <1>7, <1>8

LEMMA AgainLine ==
  ASSUME LineInv, current # 0, Again, UNCHANGED <<fresh, queue, shut, dropped>>
  PROVE  LineInv' /\ Flow /\ (NewRequest \/ SameRequests)
<1>1. CASE awaited[current] = MaxTries
  <2>1. failed' = failed \cup batch[current] /\ delivered' = delivered /\ NextChunk
    BY <1>1 DEF Again, GivenUp
  <2>2. Sending = batch[current]
    BY DEF Sending, Flushing
  <2> QED
    BY <2>1, <2>2, NextChunkLine DEF Flow
<1>2. CASE awaited[current] # MaxTries
  <2>1. /\ SendInstead(current, current, awaited[current] + 1)
        /\ UNCHANGED <<batch, snapshot, current, failed, delivered>>
    BY <1>2 DEF Again
  <2>2. LineInv' /\ Sent' = Sent
    BY <2>1, LineStutter DEF LineInv, LineTyped
  <2>3. Sending' = Sending
    BY <2>1 DEF Sending, Flushing
  <2> QED
    BY <1>2, <2>1, <2>2, <2>3 DEF SameRequests, Flow
<1> QED
  BY <1>1, <1>2

\* What the client does to the line, and what the requests see of it.
LEMMA ClientLine ==
  ASSUME LineInv, ClientNext
  PROVE  /\ LineInv' /\ rows' = rows /\ Flow
         /\ NewRequest \/ SameRequests
<1>1. CASE Flush \/ Shutdown \/ ShutdownReturns
  BY <1>1, FlushLine, ShutdownLine
<1>2. CASE \E e \in Event : Enqueue(e)
  BY <1>2, EnqueueLine
<1>3. CASE NoAnswer
  BY <1>3, AgainLine DEF NoAnswer, Flushing
<1>4. CASE Receive
  <2>1. /\ current # 0 /\ At(current, awaited[current], "answered")
        /\ UNCHANGED <<fresh, queue, shut, dropped, rows>>
    BY <1>4 DEF Receive, Flushing
  <2>2. Sending = batch[current]
    BY <2>1 DEF Sending, Flushing
  <2>3. CASE Answer = "ok" /\ Delivered
    <3>1. delivered' = delivered \cup batch[current] /\ failed' = failed /\ NextChunk
      BY <2>3 DEF Delivered
    <3> QED
      BY <2>1, <2>3, <2>2, <3>1, NextChunkLine DEF Flow
  <2>4. CASE GivenUp
    <3>1. failed' = failed \cup batch[current] /\ delivered' = delivered /\ NextChunk
      BY <2>4 DEF GivenUp
    <3> QED
      BY <2>1, <2>2, <3>1, NextChunkLine DEF Flow
  <2>5. CASE Again
    BY <2>1, <2>5, AgainLine
  <2> QED
    BY <1>4, <2>3, <2>4, <2>5 DEF Receive
<1> QED
  BY <1>1, <1>2, <1>3, <1>4 DEF ClientNext

-----------------------------------------------------------------------------
(* What the client does to the tries.                                        *)

LEMMA NoTryFacts == NoTry \in TryType /\ NoTry.pc = "none"
  BY SMT DEF NoTry, TryType

LEMMA RecordableFacts ==
  /\ "none" \in Recordable /\ "processing" \in Recordable /\ Answers \subseteq Recordable
  /\ "ok" \in Answers /\ "refused" \in Answers /\ "error" \in Answers
  BY DEF Recordable, Answers

LEMMA TypeOfTries ==
  IdemTypeOK <=> /\ record \in [Key -> Recordable]
                 /\ try \in [Key -> [Tries -> TryType]]
                 /\ awaited \in [Key -> 0..MaxTries]
                 /\ troubled \subseteq Key
  BY DEF IdemTypeOK, TryType, Recordable

LEMMA SendFacts ==
  ASSUME IdemTypeOK, NEW c \in Key \cup {0}, NEW j \in Key \cup {0}, NEW t \in 0..MaxTries,
         j \in Key => t \in Tries, SendInstead(c, j, t)
  PROVE  /\ IdemTypeOK' /\ troubled' = troubled
         /\ \A i \in Key : awaited'[i] = IF i = j THEN t ELSE IF i = c THEN 0 ELSE awaited[i]
         /\ \A i \in Key, u \in Tries :
              /\ IF i = j /\ u = t THEN try'[i][u].pc = "begun"
                 ELSE try'[i][u] \in {NoTry, try[i][u]}
              /\ try[i][u].pc = "executed" => (i = j /\ u = t) \/ try'[i][u] = try[i][u]
         /\ \A i \in Key : \/ record'[i] = record[i]
                           \/ /\ record'[i] = "none" /\ i = c /\ i # j
                              /\ \A u \in Tries : try'[i][u] = NoTry
<1> DEFINE left == [i \in Key |-> IF i = c THEN [u \in Tries |-> Abandoned(c, u)] ELSE try[i]]
<1>1. /\ try' = IF j \in Key THEN [left EXCEPT ![j][t].pc = "begun"] ELSE left
      /\ record' = [i \in Key |-> IF i = c /\ j # c /\ \A u \in Tries : left[i][u] = NoTry
                                  THEN "none" ELSE record[i]]
      /\ awaited' = [i \in Key |-> IF i = j THEN t ELSE IF i = c THEN 0 ELSE awaited[i]]
      /\ troubled' = troubled
  BY DEF SendInstead
<1>2. try \in [Key -> [Tries -> TryType]]
  BY TypeOfTries
<1>3. \A i \in Key, u \in Tries :
        left[i][u] = IF i = c THEN Abandoned(c, u) ELSE try[i][u]
  OBVIOUS
<1>4. \A i \in Key, u \in Tries :
        /\ left[i][u] \in {NoTry, try[i][u]} /\ left[i][u] \in TryType
        /\ try[i][u].pc = "executed" => left[i][u] = try[i][u]
  BY <1>2, <1>3, NoTryFacts DEF Abandoned, At
<1>5. left \in [Key -> [Tries -> TryType]]
  <2>1. \A i \in Key : left[i] \in [Tries -> TryType]
    BY <1>2, <1>4
  <2> QED
    BY <2>1
<1> HIDE DEF left
<1>6. /\ try' \in [Key -> [Tries -> TryType]]
      /\ \A i \in Key, u \in Tries :
           IF i = j /\ u = t THEN try'[i][u].pc = "begun" ELSE try'[i][u] = left[i][u]
  <2>1. CASE j \in Key
    <3> DEFINE x == [left[j][t] EXCEPT !.pc = "begun"]
    <3>1. t \in Tries /\ left[j][t] \in TryType
      BY <1>4, <2>1
    <3>2. x \in TryType /\ x.pc = "begun"
      BY <3>1, SMT DEF TryType
    <3>3. try' = [left EXCEPT ![j] = [left[j] EXCEPT ![t] = x]]
      BY <1>1, <1>5, <2>1, <3>1
    <3> HIDE DEF x
    <3> QED
      BY <1>5, <2>1, <3>1, <3>2, <3>3
  <2>2. CASE j \notin Key
    BY <1>1, <1>5, <2>2
  <2> QED
    BY <2>1, <2>2
<1>7. /\ awaited' \in [Key -> 0..MaxTries]
      /\ \A i \in Key : awaited'[i] = IF i = j THEN t ELSE IF i = c THEN 0 ELSE awaited[i]
  <2>1. 0 \in 0..MaxTries
    BY Numbers, SMT
  <2>2. awaited \in [Key -> 0..MaxTries]
    BY TypeOfTries
  <2> QED
    BY <1>1, <2>1, <2>2
<1>8. /\ record' \in [Key -> Recordable]
      /\ \A i \in Key : \/ record'[i] = record[i]
                        \/ /\ record'[i] = "none" /\ i = c /\ i # j
                           /\ \A u \in Tries : left[i][u] = NoTry
  BY <1>1, TypeOfTries, RecordableFacts
<1>9. IdemTypeOK'
  BY <1>1, <1>6, <1>7, <1>8, TypeOfTries DEF IdemTypeOK, TryType, Recordable
<1> QED
  BY <1>1, <1>4, <1>6, <1>7, <1>8, <1>9

\* Fewer tries that can execute.
LEMMA FewerOpen ==
  ASSUME NEW S, NEW T, S \subseteq T, T \subseteq Tries
  PROVE  /\ Cardinality(S) \in Nat /\ Cardinality(T) \in Nat
         /\ Cardinality(S) <= Cardinality(T) /\ Cardinality(T) <= MaxTries
<1>1. IsFiniteSet(Tries) /\ Cardinality(Tries) = MaxTries
  <2>1. 1 \in Int /\ MaxTries \in Int /\ ~(1 > MaxTries) /\ MaxTries - 1 + 1 = MaxTries
    BY Numbers, SMT
  <2>2. IsFiniteSet(1..MaxTries) /\ Cardinality(1..MaxTries) = MaxTries
    BY <2>1, FS_Interval
  <2> QED
    BY <2>2 DEF Tries
<1>2. IsFiniteSet(T) /\ Cardinality(T) <= MaxTries
  BY <1>1, FS_Subset
<1>3. IsFiniteSet(S) /\ Cardinality(S) <= Cardinality(T)
  BY <1>2, FS_Subset
<1> QED
  BY <1>2, <1>3, FS_CardinalityType


\* The client turns from its request to the next one, to the next try, or to nothing.
Turns(j, t) ==
  \/ j = 0 /\ t = 0 /\ Sent' = Sent /\ batch' = batch
  \/ j = current /\ j # 0 /\ t = awaited[j] + 1 /\ Sent' = Sent /\ batch' = batch
  \/ /\ j = Sent + 1 /\ t = 1 /\ Sent' = Sent + 1
     /\ \A i \in Key : i # j => batch'[i] = batch[i] /\ batch'[j] \cap batch[i] = {}
     /\ batch[j] = {}

\* The requests that keep their events, and a new one.
Kept(i, j, t) == batch'[i] = batch[i] /\ (i = j => i = current /\ t > awaited[i])
Begun(i, j) ==
  /\ i = j /\ batch[i] = {} /\ record[i] = "none" /\ \A u \in Tries : try[i][u] = NoTry
  /\ \A e \in batch'[i] : rows[e] = 0

LEMMA TurnFacts ==
  ASSUME IInv, NEW j \in Key \cup {0}, NEW t \in 0..MaxTries, j \in Key => t \in Tries, Turns(j, t),
         batch' \in [Key -> SUBSET Event]
  PROVE  /\ \A i \in Key : Kept(i, j, t) \/ Begun(i, j)
         /\ j \in Key => \A u \in Tries : u >= t => try[j][u].pc = "none"
         /\ \A i \in Key : i > Sent' => i > Sent /\ i # j
         /\ t \in Nat
<1>1. /\ Sent \in Nat /\ (current # 0 => current = Sent) /\ current \in Key \cup {0}
      /\ awaited \in [Key -> 0..MaxTries] /\ t \in Nat /\ Key \subseteq Nat /\ Tries \subseteq Nat
      /\ \A i \in Key : awaited[i] \in Nat
  <2>1. awaited \in [Key -> 0..MaxTries] /\ \A n \in 0..MaxTries : n \in Nat
    BY Numbers, TypeOfTries, SMT DEF IInv
  <2> QED
    BY <2>1, Numbers DEF IInv, LineInv, LineTyped, Requests
<1>2. CASE j = 0 /\ t = 0 /\ Sent' = Sent /\ batch' = batch
  BY <1>1, <1>2, Numbers DEF Kept
<1>3. CASE j = current /\ j # 0 /\ t = awaited[j] + 1 /\ Sent' = Sent /\ batch' = batch
  <2>1. j \in Key /\ j = Sent
    BY <1>1, <1>3
  <2>2. t > awaited[j] /\ \A u \in Tries : u >= t => u > awaited[j]
    BY <1>1, <1>3, <2>1, SMT
  <2>3. \A u \in Tries : u >= t => try[j][u].pc = "none"
    BY <1>3, <2>1, <2>2 DEF IInv, Awaiting
  <2>4. \A i \in Key : i > Sent' => i > Sent /\ i # j
    BY <1>1, <1>3, <2>1, SMT
  <2> QED
    BY <1>1, <1>3, <2>1, <2>2, <2>3, <2>4 DEF Kept
<1>4. CASE /\ j = Sent + 1 /\ t = 1 /\ Sent' = Sent + 1
           /\ \A i \in Key : i # j => batch'[i] = batch[i] /\ batch'[j] \cap batch[i] = {}
           /\ batch[j] = {}
  <2>0. j \in Nat \ {0} /\ j > Sent /\ \A i \in Nat : i > Sent + 1 => i > Sent /\ i # Sent + 1
    BY <1>1, <1>4, SMT
  <2>1. j \in Key /\ j > Sent /\ \A i \in Key : i > Sent' => i > Sent /\ i # j
    BY <1>1, <1>4, <2>0
  <2>2. record[j] = "none" /\ \A u \in Tries : try[j][u] = NoTry
    BY <2>1 DEF IInv, Awaiting
  <2>3. \A e \in batch'[j] : e \in Event /\ \A i \in Key : e \notin batch[i]
    BY <1>4, <2>1
  <2>4. \A e \in batch'[j] : rows[e] = 0
    BY <2>3 DEF IInv, Counted
  <2> QED
    BY <1>1, <1>4, <2>1, <2>2, <2>4, NoTryFacts DEF Kept, Begun
<1> QED
  BY <1>2, <1>3, <1>4 DEF Turns

LEMMA Turned ==
  ASSUME IInv, NEW j \in Key \cup {0}, NEW t \in 0..MaxTries, j \in Key => t \in Tries, Turns(j, t),
         SendInstead(current, j, t), current' = j, rows' = rows, batch' \in [Key -> SUBSET Event]
  PROVE  IdemTypeOK' /\ Awaiting' /\ Counted' /\ Truthful' /\ Once'
<1>1. /\ \A i \in Key : Kept(i, j, t) \/ Begun(i, j)
      /\ j \in Key => \A u \in Tries : u >= t => try[j][u].pc = "none"
      /\ \A i \in Key : i > Sent' => i > Sent /\ i # j
      /\ t \in Nat
  BY TurnFacts
<1>2. /\ IdemTypeOK' /\ troubled' = troubled
      /\ \A i \in Key : awaited'[i] = IF i = j THEN t ELSE IF i = current THEN 0 ELSE awaited[i]
      /\ \A i \in Key, u \in Tries :
           /\ IF i = j /\ u = t THEN try'[i][u].pc = "begun"
              ELSE try'[i][u] \in {NoTry, try[i][u]}
           /\ try[i][u].pc = "executed" => (i = j /\ u = t) \/ try'[i][u] = try[i][u]
      /\ \A i \in Key : \/ record'[i] = record[i]
                        \/ /\ record'[i] = "none" /\ i = current /\ i # j
                           /\ \A u \in Tries : try'[i][u] = NoTry
  BY SendFacts DEF IInv, LineInv, LineTyped
<1>3. \A i \in Key, u \in Tries : try'[i][u].pc \in {"running", "executed", "answered"} =>
                                    try'[i][u] = try[i][u]
  BY <1>2, NoTryFacts
<1>4. \A u \in Tries : u \in Nat /\ u >= u /\ (u > t => u >= t)
  <2>1. \A u \in Nat : u >= u /\ (u > t => u >= t)
    BY <1>1, SMT
  <2> QED
    BY <2>1, Numbers
<1>5. Awaiting'
  <2>1. ASSUME NEW k \in Key, current' = k PROVE awaited'[k] \in Tries
    BY <1>2, <2>1
  <2>2. ASSUME NEW k \in Key, NEW u \in Tries, current' = k, u > awaited'[k]
        PROVE  try'[k][u].pc = "none"
    <3>1. k = j /\ u > t
      BY <1>2, <2>2
    <3>2. try[k][u].pc = "none" /\ u # t
      BY <1>1, <1>4, <3>1
    <3> QED
      BY <1>2, <3>1, <3>2, NoTryFacts
  <2>3. ASSUME NEW k \in Key, k > Sent'
        PROVE  record'[k] = "none" /\ \A u \in Tries : try'[k][u] = NoTry
    <3>1. k # j /\ record[k] = "none" /\ \A u \in Tries : try[k][u] = NoTry
      BY <1>1, <2>3 DEF IInv, Awaiting
    <3> QED
      BY <1>2, <3>1
  <2> QED
    BY <2>1, <2>2, <2>3 DEF Awaiting
<1>6. Counted'
  <2>1. \A e \in Event : (\A k \in Key : e \notin batch'[k]) => rows'[e] = 0
    BY <1>1 DEF IInv, Counted, Kept, Begun
  <2>2. ASSUME NEW k \in Key, NEW e \in batch'[k] PROVE rows'[e] + Cardinality(Open(k)') <= MaxTries
    <3>0. rows[e] \in Nat /\ Open(k)' \subseteq Tries /\ Open(k) \subseteq Tries
      BY DEF IInv, Counted, Open, MayExecute
    <3>1. CASE Kept(k, j, t)
      <4>1. ASSUME NEW u \in Open(k)' PROVE u \in Open(k)
        <5>1. u \in Tries /\ u \in Nat
          BY <1>4 DEF Open, MayExecute
        <5>2. CASE k = j /\ u >= t
          <6>1. k = current /\ t > awaited[k] /\ awaited[k] \in Nat
            <7>1. awaited[k] \in 0..MaxTries
              BY TypeOfTries DEF IInv
            <7> QED
              BY <3>1, <5>2, <7>1, SMT DEF Kept
          <6>2. u > awaited[k]
            BY <1>1, <5>1, <5>2, <6>1, SMT
          <6> QED
            BY <5>1, <6>1, <6>2 DEF Open, MayExecute
        <5>3. CASE ~(k = j /\ u >= t)
          <6>1. ~(k = j /\ u = t)
            BY <1>4, <5>1, <5>3
          <6>2. ~(current' = k /\ u > awaited'[k])
            BY <1>2, <1>4, <5>1, <5>3
          <6>3. try'[k][u].pc \in MayExecute
            BY <6>2 DEF Open, MayExecute
          <6>4. try'[k][u] = try[k][u]
            BY <1>2, <5>1, <6>1, <6>3, NoTryFacts DEF MayExecute
          <6> QED
            BY <5>1, <6>3, <6>4 DEF Open, MayExecute
        <5> QED
          BY <5>2, <5>3
      <4>2. /\ Cardinality(Open(k)') \in Nat /\ Cardinality(Open(k)) \in Nat
            /\ Cardinality(Open(k)') <= Cardinality(Open(k))
        BY <3>0, <4>1, FewerOpen
      <4>3. rows[e] + Cardinality(Open(k)) <= MaxTries
        BY <3>1 DEF IInv, Counted, Kept
      <4> QED
        BY <3>0, <4>2, <4>3, Numbers, SMT
    <3>2. CASE Begun(k, j)
      <4>1. rows'[e] = 0
        BY <3>2 DEF Begun
      <4>2. Cardinality(Open(k)') \in Nat /\ Cardinality(Open(k)') <= MaxTries
        BY <3>0, FewerOpen
      <4> QED
        BY <4>1, <4>2, SMT
    <3> QED
      BY <1>1, <3>1, <3>2
  <2> QED
    BY <2>1, <2>2 DEF IInv, Counted
<1>7. Truthful'
  <2> SUFFICES ASSUME NEW k \in Key, Succeeded(k)' PROVE Stored(k)'
    BY DEF Truthful
  <2>1. Succeeded(k)
    BY <1>2, <1>3 DEF Succeeded
  <2>2. ~Begun(k, j)
    BY <2>1, NoTryFacts DEF Begun, Succeeded
  <2>3. batch'[k] = batch[k]
    BY <1>1, <2>2 DEF Kept
  <2> QED
    BY <2>1, <2>3 DEF IInv, Truthful, Stored
<1>8. Once'
  <2>1. ASSUME NEW k \in Key, k \notin troubled'
        PROVE  Exclusive(k)' /\ Remembered(k)' /\ \A e \in batch'[k] : rows'[e] <= 1
    <3>0. Exclusive(k) /\ Remembered(k) /\ \A e \in batch[k] : rows[e] <= 1
      BY <1>2, <2>1 DEF IInv, Once
    <3>1. Exclusive(k)'
      <4>1. ASSUME NEW u \in Tries, Acting(k, u)'
            PROVE  /\ Acting(k, u) /\ try'[k][u] = try[k][u] /\ record'[k] = record[k]
        <5>1. try'[k][u] = try[k][u]
          BY <1>3, <4>1 DEF Acting
        <5>2. try'[k][u] # NoTry
          BY <4>1, NoTryFacts DEF Acting
        <5> QED
          BY <1>2, <4>1, <5>1, <5>2 DEF Acting
      <4> QED
        BY <3>0, <4>1 DEF Exclusive
    <3>2. Remembered(k)'
      <4> SUFFICES ASSUME NEW e \in batch'[k], rows[e] > 0
                   PROVE  \/ record'[k] = "ok"
                          \/ \E u \in Tries : try'[k][u].pc = "executed"
                          \/ current' # k /\ ~Begins(k)'
        BY DEF Remembered
      <4>1. Kept(k, j, t)
        <5>1. Begun(k, j) => rows[e] = 0 /\ ~(0 > 0)
          BY SMT DEF Begun
        <5> QED
          BY <1>1, <5>1
      <4>2. \/ record[k] = "ok"
            \/ \E u \in Tries : try[k][u].pc = "executed"
            \/ current # k /\ ~Begins(k)
        BY <3>0, <4>1 DEF Remembered, Kept
      <4>3. CASE record[k] = "ok"
        <5>1. \/ record'[k] = "ok"
              \/ k = current /\ k # j /\ \A u \in Tries : try'[k][u] = NoTry
          BY <1>2, <4>3
        <5> QED
          BY <5>1, NoTryFacts DEF Begins, MayExecute
      <4>4. CASE \E u \in Tries : try[k][u].pc = "executed"
        <5>1. PICK u \in Tries : try[k][u].pc = "executed"
          BY <4>4
        <5>2. ~(k = j /\ u = t)
          BY <1>1, <1>4, <5>1
        <5> QED
          BY <1>2, <5>1, <5>2
      <4>5. CASE current # k /\ ~Begins(k)
        <5>1. k # j
          BY <4>1, <4>5 DEF Kept
        <5>2. ~Begins(k)'
          BY <1>2, <4>5, <5>1, NoTryFacts DEF Begins, MayExecute
        <5> QED
          BY <5>1, <5>2
      <4> QED
        BY <4>2, <4>3, <4>4, <4>5
    <3>3. \A e \in batch'[k] : rows'[e] <= 1
      <4>1. Begun(k, j) => \A e \in batch'[k] : rows[e] <= 1
        <5>1. 0 <= 1
          BY SMT
        <5> QED
          BY <5>1 DEF Begun
      <4> QED
        BY <1>1, <3>0, <4>1 DEF Kept
    <3> QED
      BY <3>1, <3>2, <3>3
  <2>2. \A e \in Keyed : rows'[e] <= 1
    BY DEF IInv, Once
  <2> QED
    BY <2>1, <2>2 DEF Once
<1> QED
  BY <1>2, <1>5, <1>6, <1>7, <1>8

LEMMA RestStutter ==
  ASSUME IInv, UNCHANGED <<idemVars, rows, batch, current>>, Sent' = Sent
  PROVE  IdemTypeOK' /\ Awaiting' /\ Counted' /\ Truthful' /\ Once'
<1>1. /\ record' = record /\ try' = try /\ awaited' = awaited /\ troubled' = troubled
      /\ rows' = rows /\ batch' = batch /\ current' = current
  BY DEF idemVars
<1>2. IdemTypeOK' /\ Awaiting'
  BY <1>1 DEF IInv, IdemTypeOK, Awaiting
<1>3. \A k \in Key : Open(k)' = Open(k)
  BY <1>1 DEF Open, MayExecute
<1>4. Counted'
  BY <1>1, <1>3 DEF IInv, Counted
<1>5. Truthful'
  BY <1>1 DEF IInv, Truthful, Succeeded, Stored
<1>6. Once'
  BY <1>1 DEF IInv, Once, Exclusive, Acting, Remembered, Begins, MayExecute
<1> QED
  BY <1>2, <1>4, <1>5, <1>6

\* What is taken for delivered is stored by then.
LEMMA TakenForDelivered ==
  ASSUME IInv, Flow
  PROVE  \A e \in delivered' : rows[e] > 0
<1>1. CASE delivered' = delivered
  BY <1>1 DEF IInv, DeliveredIsStored
<1>2. CASE /\ delivered' = delivered \cup Sending /\ current # 0
           /\ At(current, awaited[current], "answered") /\ Answer = "ok"
  <2>1. current \in Key /\ awaited[current] \in Tries /\ Sending = batch[current]
    BY <1>2 DEF IInv, Awaiting, LineInv, LineTyped, Sending, Flushing
  <2>2. Succeeded(current)
    BY <1>2, <2>1 DEF Succeeded, At, Answer
  <2>3. Stored(current)
    BY <2>1, <2>2 DEF IInv, Truthful
  <2> QED
    BY <1>2, <2>1, <2>3 DEF IInv, DeliveredIsStored, Stored
<1> QED
  BY <1>1, <1>2 DEF Flow

LEMMA ClientStep ==
  ASSUME IInv, ClientNext
  PROVE  IInv'
<1>1. LineInv' /\ rows' = rows /\ Flow /\ (NewRequest \/ SameRequests)
  BY ClientLine DEF IInv
<1>2. batch' \in [Key -> SUBSET Event] /\ current \in Key \cup {0}
  BY <1>1 DEF LineInv, LineTyped, IInv
<1>3. IdemTypeOK' /\ Awaiting' /\ Counted' /\ Truthful' /\ Once'
  <2>0. 0 \in 0..MaxTries /\ 1 \in 0..MaxTries
    BY Numbers, SMT
  <2>1. CASE NewRequest
    <3>1. Sent + 1 \in Key /\ 1 \in Tries /\ SendInstead(current, Sent + 1, 1)
          /\ current' = Sent + 1 /\ Turns(Sent + 1, 1)
      BY <2>1, Numbers DEF NewRequest, Turns
    <3> QED
      BY <1>1, <1>2, <2>0, <3>1, Turned
  <2>2. CASE current' = 0 /\ SendInstead(current, 0, 0) /\ Sent' = Sent /\ batch' = batch
    <3>1. 0 \notin Key /\ Turns(0, 0)
      BY <2>2, Numbers DEF Turns
    <3> QED
      BY <1>1, <1>2, <2>0, <2>2, <3>1, Turned
  <2>3. CASE /\ current' = current /\ current # 0 /\ awaited[current] # MaxTries
             /\ SendInstead(current, current, awaited[current] + 1)
             /\ Sent' = Sent /\ batch' = batch
    <3>1. current \in Key /\ awaited[current] \in Tries
      BY <1>2, <2>3 DEF IInv, Awaiting
    <3>2. awaited[current] + 1 \in Tries /\ awaited[current] + 1 \in 0..MaxTries
      BY <2>3, <3>1, Numbers, SMT DEF Tries
    <3>3. Turns(current, awaited[current] + 1)
      BY <2>3 DEF Turns
    <3> QED
      BY <1>1, <1>2, <2>3, <3>1, <3>2, <3>3, Turned
  <2>4. CASE current' = current /\ UNCHANGED idemVars /\ Sent' = Sent /\ batch' = batch
    BY <1>1, <2>4, RestStutter
  <2> QED
    BY <1>1, <2>1, <2>2, <2>3, <2>4 DEF SameRequests
<1>4. DeliveredIsStored'
  BY <1>1, TakenForDelivered DEF DeliveredIsStored
<1> QED
  BY <1>1, <1>3, <1>4 DEF IInv

-----------------------------------------------------------------------------
(* What the server does to one try and to the record.                        *)

OneTry(k, t, x, y) ==
  /\ try' = [try EXCEPT ![k] = [try[k] EXCEPT ![t] = x]]
  /\ record' = [record EXCEPT ![k] = y]
  /\ troubled' \in {troubled, troubled \cup {k}}
  /\ UNCHANGED <<batch, current, awaited>> /\ Sent' = Sent

\* A success that can be told comes from one before.
Grounded(k, x, y) ==
  y = "ok" \/ x.pc = "executed" \/ (x.pc = "answered" /\ x.answer = "ok") => Succeeded(k)

LEMMA OneTryFacts ==
  ASSUME IdemTypeOK, NEW k \in Key, NEW t \in Tries, NEW x \in TryType,
         NEW y \in Recordable, OneTry(k, t, x, y)
  PROVE  /\ IdemTypeOK' /\ troubled \subseteq troubled' /\ troubled' \subseteq troubled \cup {k}
         /\ awaited' = awaited /\ batch' = batch /\ current' = current /\ Sent' = Sent
         /\ \A i \in Key, u \in Tries : try'[i][u] = IF i = k /\ u = t THEN x ELSE try[i][u]
         /\ \A i \in Key : record'[i] = IF i = k THEN y ELSE record[i]
<1>1. try \in [Key -> [Tries -> TryType]] /\ troubled \subseteq Key
      /\ record \in [Key -> Recordable]
  BY TypeOfTries
<1> DEFINE row == [try[k] EXCEPT ![t] = x]
<1>2. row \in [Tries -> TryType] /\ \A u \in Tries : row[u] = IF u = t THEN x ELSE try[k][u]
  BY <1>1
<1>3. try' = [try EXCEPT ![k] = row]
  BY DEF OneTry
<1> HIDE DEF row
<1>4. /\ try' \in [Key -> [Tries -> TryType]]
      /\ \A i \in Key, u \in Tries : try'[i][u] = IF i = k /\ u = t THEN x ELSE try[i][u]
  BY <1>1, <1>2, <1>3
<1>5. /\ record' \in [Key -> Recordable]
      /\ \A i \in Key : record'[i] = IF i = k THEN y ELSE record[i]
  BY <1>1 DEF OneTry
<1>6. IdemTypeOK'
  BY <1>1, <1>4, <1>5 DEF IdemTypeOK, TryType, Recordable, OneTry
<1> QED
  BY <1>4, <1>5, <1>6 DEF OneTry

\* What every step of a try leaves: the order of tries, and the others' records.
LEMMA OneTryAwaiting ==
  ASSUME IInv, NEW k \in Key, NEW t \in Tries, NEW x \in TryType,
         NEW y \in Recordable, OneTry(k, t, x, y),
         ~(k > Sent), x.pc = "none" \/ try[k][t].pc # "none"
  PROVE  Awaiting'
<1>1. /\ awaited' = awaited /\ batch' = batch /\ current' = current /\ Sent' = Sent
      /\ \A i \in Key, u \in Tries : try'[i][u] = IF i = k /\ u = t THEN x ELSE try[i][u]
      /\ \A i \in Key : record'[i] = IF i = k THEN y ELSE record[i]
  BY OneTryFacts DEF IInv
<1>2. \A i \in Key, u \in Tries : try[i][u].pc = "none" => try'[i][u].pc = "none"
  BY <1>1
<1>3. \A i \in Key : i > Sent => i # k
  OBVIOUS
<1> QED
  BY <1>1, <1>2, <1>3 DEF IInv, Awaiting

\* A step that is not the handler's effect.
LEMMA OtherStep ==
  ASSUME IInv, NEW k \in Key, NEW t \in Tries, NEW x \in TryType,
         NEW y \in Recordable, OneTry(k, t, x, y),
         ~(k > Sent), x.pc = "none" \/ try[k][t].pc # "none",
         x.pc \in MayExecute => try[k][t].pc \in MayExecute,
         Grounded(k, x, y),
         k \in troubled' \/ (Exclusive(k) /\ Remembered(k) => Exclusive(k)' /\ Remembered(k)'),
         rows' = rows
  PROVE  IdemTypeOK' /\ Awaiting' /\ Counted' /\ Truthful' /\ Once'
<1>1. /\ IdemTypeOK' /\ troubled \subseteq troubled' /\ troubled' \subseteq troubled \cup {k}
      /\ awaited' = awaited /\ batch' = batch /\ current' = current /\ Sent' = Sent
      /\ \A i \in Key, u \in Tries : try'[i][u] = IF i = k /\ u = t THEN x ELSE try[i][u]
      /\ \A i \in Key : record'[i] = IF i = k THEN y ELSE record[i]
  BY OneTryFacts DEF IInv
<1>2. Awaiting'
  BY OneTryAwaiting
<1>3. Counted'
  <2>1. ASSUME NEW i \in Key, NEW e \in batch'[i] PROVE rows'[e] + Cardinality(Open(i)') <= MaxTries
    <3>1. Open(i)' \subseteq Open(i)
      BY <1>1 DEF Open, MayExecute
    <3>2. rows[e] \in Nat /\ Open(i) \subseteq Tries
          /\ rows[e] + Cardinality(Open(i)) <= MaxTries
      BY <1>1, <2>1 DEF IInv, Counted, LineInv, LineTyped, Open, MayExecute
    <3>3. /\ Cardinality(Open(i)') \in Nat /\ Cardinality(Open(i)) \in Nat
          /\ Cardinality(Open(i)') <= Cardinality(Open(i))
      BY <3>1, <3>2, FewerOpen
    <3>4. rows'[e] = rows[e] /\ MaxTries \in Nat
      BY Numbers
    <3> QED
      BY <3>2, <3>3, <3>4, SMT
  <2> QED
    BY <1>1, <2>1 DEF IInv, Counted
<1>4. Truthful'
  <2> SUFFICES ASSUME NEW i \in Key, Succeeded(i)' PROVE Stored(i)'
    BY DEF Truthful
  <2>1. Succeeded(i)
    BY <1>1 DEF Succeeded, Grounded
  <2> QED
    BY <1>1, <2>1 DEF IInv, Truthful, Stored
<1>5. Once'
  <2>1. ASSUME NEW i \in Key, i \notin troubled'
        PROVE  Exclusive(i)' /\ Remembered(i)' /\ \A e \in batch'[i] : rows'[e] <= 1
    <3>1. Exclusive(i) /\ Remembered(i) /\ \A e \in batch[i] : rows[e] <= 1
      BY <1>1, <2>1 DEF IInv, Once
    <3>2. CASE i = k
      BY <1>1, <2>1, <3>1, <3>2
    <3>3. CASE i # k
      BY <1>1, <3>1, <3>3 DEF Exclusive, Acting, Remembered, Begins, MayExecute
    <3> QED
      BY <3>2, <3>3
  <2> QED
    BY <2>1 DEF IInv, Once
<1> QED
  BY <1>1, <1>2, <1>3, <1>4, <1>5

\* Where the sentinel did what it is for, a handler that runs is alone, and has stored nothing.
LEMMA Alone ==
  ASSUME NEW k \in Key, NEW t \in Tries, Exclusive(k), Remembered(k), try[k][t].pc = "running"
  PROVE  /\ try[k][t].lock /\ record[k] = "processing"
         /\ \A u \in Tries : Acting(k, u) => u = t
         /\ ~\E e \in batch[k] : rows[e] > 0
<1>1. Acting(k, t)
  BY DEF Acting
<1>2. try[k][t].lock /\ record[k] = "processing" /\ \A u \in Tries : Acting(k, u) => u = t
  BY <1>1 DEF Exclusive
<1>3. ~\E u \in Tries : try[k][u].pc = "executed"
  BY <1>2 DEF Acting
<1> QED
  BY <1>2, <1>3 DEF Remembered, Begins, MayExecute

\* The effect.
LEMMA EffectStep ==
  ASSUME IInv, NEW k \in Key, NEW t \in Tries, NEW x \in TryType,
         NEW y \in Recordable, OneTry(k, t, x, y),
         try[k][t].pc = "running", x.pc \in {"executed", "answered", "none"}, y = "ok" => Succeeded(k),
         \/ k \in troubled'
         \/ x.pc = "executed" /\ x.lock = try[k][t].lock /\ y = record[k],
         InsertCostEventsBatch(k)
  PROVE  /\ IdemTypeOK' /\ Awaiting' /\ Counted' /\ Truthful' /\ Once'
         /\ \A e \in Event : rows[e] > 0 => rows'[e] > 0
<1>1. /\ IdemTypeOK' /\ troubled \subseteq troubled' /\ troubled' \subseteq troubled \cup {k}
      /\ awaited' = awaited /\ batch' = batch /\ current' = current /\ Sent' = Sent
      /\ \A i \in Key, u \in Tries : try'[i][u] = IF i = k /\ u = t THEN x ELSE try[i][u]
      /\ \A i \in Key : record'[i] = IF i = k THEN y ELSE record[i]
  BY OneTryFacts DEF IInv
<1>2. /\ rows \in [Event -> Nat] /\ batch \in [Key -> SUBSET Event]
      /\ \A i \in Key : batch[i] \cap batch[k] # {} => i = k
  BY DEF IInv, Counted, LineInv, LineTyped, Requests
<1>3. \A e \in Event : rows'[e] = IF e \in batch[k] /\ (e \notin Keyed \/ rows[e] = 0)
                                  THEN rows[e] + 1 ELSE rows[e]
  BY DEF InsertCostEventsBatch, Inserted
<1>4. /\ rows' \in [Event -> Nat]
      /\ \A e \in Event : /\ rows[e] \in Nat /\ rows'[e] \in Nat
                          /\ rows'[e] = rows[e] \/ rows'[e] = rows[e] + 1
                          /\ e \notin batch[k] => rows'[e] = rows[e]
                          /\ e \in batch[k] => rows'[e] > 0
                          /\ rows[e] > 0 => rows'[e] > 0
  <2>1. \A n \in Nat : n + 1 \in Nat /\ n + 1 > 0 /\ (n # 0 => n > 0)
    BY SMT
  <2>2. rows' \in [Event -> Nat]
    BY <1>2, <2>1 DEF InsertCostEventsBatch
  <2> QED
    BY <1>2, <1>3, <2>1, <2>2
<1>5. \A i \in Key : i # k => \A e \in batch[i] : e \in Event /\ rows'[e] = rows[e]
  BY <1>2, <1>4
<1>6. Awaiting'
  <2>1. k > Sent => try[k][t].pc = "none"
    BY NoTryFacts DEF IInv, Awaiting
  <2> QED
    BY <2>1, OneTryAwaiting
<1>7. Counted'
  <2>1. ASSUME NEW i \in Key, NEW e \in batch'[i] PROVE rows'[e] + Cardinality(Open(i)') <= MaxTries
    <3>1. /\ e \in Event /\ rows[e] \in Nat /\ rows'[e] \in Nat /\ MaxTries \in Nat
          /\ rows'[e] = rows[e] \/ rows'[e] = rows[e] + 1
          /\ Open(i) \subseteq Tries /\ rows[e] + Cardinality(Open(i)) <= MaxTries
      BY <1>1, <1>2, <1>4, <2>1, Numbers DEF IInv, Counted, Open, MayExecute
    <3>2. CASE i # k
      <4>1. Open(i)' = Open(i) /\ rows'[e] = rows[e]
        BY <1>1, <1>5, <2>1, <3>2 DEF Open, MayExecute
      <4> QED
        BY <3>1, <4>1
    <3>3. CASE i = k
      <4>1. t \in Open(k) /\ t \notin Open(k)' /\ Open(k)' \subseteq Open(k)
        <5>1. t \in Open(k)
          BY DEF Open, MayExecute
        <5>2. \A u \in Tries : current = k /\ u > awaited[k] => try[k][u].pc = "none"
          BY DEF IInv, Awaiting
        <5> QED
          BY <1>1, <5>1, <5>2 DEF Open, MayExecute
      <4>2. /\ Cardinality(Open(k)') \in Nat /\ Cardinality(Open(k)) \in Nat
            /\ Cardinality(Open(k)') + 1 <= Cardinality(Open(k))
        <5>1. Open(k)' \subseteq Open(k) \ {t} /\ Open(k) \ {t} \subseteq Tries
          BY <3>1, <3>3, <4>1
        <5>2. /\ Cardinality(Open(k)') \in Nat /\ Cardinality(Open(k) \ {t}) \in Nat
              /\ Cardinality(Open(k)') <= Cardinality(Open(k) \ {t})
          BY <5>1, FewerOpen
        <5>3. IsFiniteSet(Open(k))
          <6>1. IsFiniteSet(1..MaxTries)
            BY FS_Interval, Numbers, SMT
          <6> QED
            BY <3>1, <3>3, <6>1, FS_Subset DEF Tries
        <5>4. /\ Cardinality(Open(k) \ {t}) = Cardinality(Open(k)) - 1
              /\ Cardinality(Open(k)) \in Nat
          BY <4>1, <5>3, FS_RemoveElement, FS_CardinalityType
        <5> QED
          BY <5>2, <5>4, SMT
      <4> QED
        BY <3>1, <3>3, <4>2, SMT
    <3> QED
      BY <3>2, <3>3
  <2>2. ASSUME NEW e \in Event, \A i \in Key : e \notin batch'[i] PROVE rows'[e] = 0
    BY <1>1, <1>4, <2>2 DEF IInv, Counted
  <2> QED
    BY <1>4, <2>1, <2>2 DEF Counted
<1>8. Truthful'
  <2> SUFFICES ASSUME NEW i \in Key, Succeeded(i)' PROVE Stored(i)'
    BY DEF Truthful
  <2>1. CASE i = k
    BY <1>1, <1>2, <1>4, <2>1 DEF Stored
  <2>2. CASE i # k
    <3>1. Succeeded(i)
      BY <1>1, <2>2 DEF Succeeded
    <3> QED
      BY <1>1, <1>5, <2>2, <3>1 DEF IInv, Truthful, Stored
  <2> QED
    BY <2>1, <2>2
<1>9. Once'
  <2>1. ASSUME NEW i \in Key, i \notin troubled'
        PROVE  Exclusive(i)' /\ Remembered(i)' /\ \A e \in batch'[i] : rows'[e] <= 1
    <3>1. Exclusive(i) /\ Remembered(i) /\ \A e \in batch[i] : rows[e] <= 1
      BY <1>1, <2>1 DEF IInv, Once
    <3>2. CASE i = k
      <4>1. /\ try[k][t].lock /\ record[k] = "processing"
            /\ \A u \in Tries : Acting(k, u) => u = t
            /\ ~\E e \in batch[k] : rows[e] > 0
        BY <3>1, <3>2, Alone
      <4>2. x.pc = "executed" /\ x.lock /\ y = "processing"
        BY <2>1, <3>2, <4>1
      <4>3. \A u \in Tries : Acting(k, u)' => u = t
        BY <1>1, <4>1 DEF Acting
      <4>4. Exclusive(k)'
        BY <1>1, <4>2, <4>3 DEF Exclusive
      <4>5. Remembered(k)'
        BY <1>1, <4>2 DEF Remembered
      <4>6. \A e \in batch'[k] : rows'[e] <= 1
        <5>1. \A n, m \in Nat : ~(n > 0) /\ (m = n \/ m = n + 1) => m <= 1
          BY SMT
        <5> QED
          BY <1>1, <1>2, <1>4, <4>1, <5>1
      <4> QED
        BY <3>2, <4>4, <4>5, <4>6
    <3>3. CASE i # k
      <4>1. /\ \A u \in Tries : try'[i][u] = try[i][u]
            /\ record'[i] = record[i] /\ batch'[i] = batch[i] /\ current' = current
            /\ \A e \in batch[i] : rows'[e] = rows[e]
        BY <1>1, <1>5, <3>3
      <4>2. Exclusive(i)'
        BY <3>1, <4>1 DEF Exclusive, Acting
      <4>3. Remembered(i)'
        BY <3>1, <4>1 DEF Remembered, Begins, MayExecute
      <4> QED
        BY <3>1, <4>1, <4>2, <4>3
    <3> QED
      BY <3>2, <3>3
  <2>2. ASSUME NEW e \in Keyed PROVE rows'[e] <= 1
    <3>1. e \in Event /\ rows[e] \in Nat /\ rows[e] <= 1
      BY <1>2, Numbers DEF IInv, Once
    <3>2. rows'[e] = rows[e] \/ (rows[e] = 0 /\ rows'[e] = rows[e] + 1)
      BY <1>3, <3>1
    <3> QED
      BY <3>1, <3>2, SMT
  <2> QED
    BY <2>1, <2>2 DEF Once
<1> QED
  BY <1>1, <1>4, <1>6, <1>7, <1>8, <1>9

-----------------------------------------------------------------------------
(* The steps of the server, one by one.                                      *)

LEMMA GoesStep ==
  ASSUME IdemTypeOK, NEW k \in Key, NEW t \in Tries,
         NEW pc \in {"acquiring", "polling", "executed"}, Goes(k, t, pc)
  PROVE  \E x \in TryType : /\ x.pc = pc /\ x.lock = try[k][t].lock
                            /\ try' = [try EXCEPT ![k] = [try[k] EXCEPT ![t] = x]]
<1> DEFINE x == [try[k][t] EXCEPT !.pc = pc]
<1>1. try \in [Key -> [Tries -> TryType]]
  BY TypeOfTries
<1>2. try[k][t] \in TryType
  BY <1>1
<1>3. x \in TryType /\ x.pc = pc /\ x.lock = try[k][t].lock
  BY <1>2, SMT DEF TryType
<1>4. try' = [try EXCEPT ![k] = [try[k] EXCEPT ![t] = x]]
  BY <1>1 DEF Goes
<1> QED
  BY <1>3, <1>4

LEMMA RepliesStep ==
  ASSUME IdemTypeOK, NEW k \in Key, NEW t \in Tries, NEW a \in Answers, Replies(k, t, a)
  PROVE  \E x \in TryType : /\ x.pc = "none" \/ (x.pc = "answered" /\ x.answer = a)
                            /\ try' = [try EXCEPT ![k] = [try[k] EXCEPT ![t] = x]]
<1> DEFINE x == IF awaited[k] = t THEN [pc |-> "answered", lock |-> FALSE, answer |-> a] ELSE NoTry
<1>1. [pc |-> "answered", lock |-> FALSE, answer |-> a] \in TryType
  BY SMT DEF TryType, Answers
<1>2. x \in TryType /\ (x.pc = "none" \/ (x.pc = "answered" /\ x.answer = a))
  BY <1>1, NoTryFacts
<1>3. try' = [try EXCEPT ![k] = [try[k] EXCEPT ![t] = x]]
  BY TypeOfTries DEF Replies
<1> QED
  BY <1>2, <1>3

LEMMA RunsStep ==
  ASSUME IdemTypeOK, NEW k \in Key, NEW t \in Tries, NEW b \in BOOLEAN, Runs(k, t, b)
  PROVE  \E x \in TryType : /\ x.pc = "running" /\ x.lock = b
                            /\ try' = [try EXCEPT ![k] = [try[k] EXCEPT ![t] = x]]
<1>1. [pc |-> "running", lock |-> b, answer |-> "none"] \in TryType
  BY Zenon DEF TryType
<1>2. try' = [try EXCEPT ![k] = [try[k] EXCEPT ![t] = [pc |-> "running", lock |-> b, answer |-> "none"]]]
  BY TypeOfTries DEF Runs
<1> QED
  BY <1>1, <1>2

Rest == IdemTypeOK' /\ Awaiting' /\ Counted' /\ Truthful' /\ Once'

\* A step that gives up or goes on leaves what the sentinel has achieved.
LEMMA Harmless ==
  ASSUME IdemTypeOK, NEW k \in Key, NEW t \in Tries, NEW x \in TryType,
         NEW y \in Recordable, OneTry(k, t, x, y), y = record[k],
         rows' = rows, x.pc \notin {"running", "executed"}, try[k][t].pc # "executed",
         x.pc \in MayExecute => try[k][t].pc \in MayExecute, Exclusive(k), Remembered(k)
  PROVE  Exclusive(k)' /\ Remembered(k)'
<1>2. /\ batch' = batch /\ current' = current /\ record'[k] = record[k]
      /\ \A u \in Tries : try'[k][u] = IF u = t THEN x ELSE try[k][u]
  BY OneTryFacts
<1>3. \A u \in Tries : Acting(k, u)' => Acting(k, u) /\ try'[k][u] = try[k][u]
  BY <1>2 DEF Acting
<1>4. Exclusive(k)'
  BY <1>2, <1>3 DEF Exclusive
<1>5. \A u \in Tries : try[k][u].pc = "executed" => try'[k][u].pc = "executed"
  BY <1>2
<1>6. Begins(k)' => Begins(k)
  BY <1>2 DEF Begins, MayExecute
<1> QED
  BY <1>2, <1>4, <1>5, <1>6 DEF Remembered

\* After the one handler that ran has ended without an effect, whatever happens to the record.
LEMMA Ended ==
  ASSUME IdemTypeOK, NEW k \in Key, NEW t \in Tries, NEW x \in TryType,
         NEW y \in Recordable, OneTry(k, t, x, y),
         rows' = rows, x.pc \notin {"running", "executed"}, try[k][t].pc = "running",
         Exclusive(k), Remembered(k)
  PROVE  Exclusive(k)' /\ Remembered(k)'
<1>1. /\ batch' = batch /\ \A u \in Tries : try'[k][u] = IF u = t THEN x ELSE try[k][u]
  BY OneTryFacts
<1>2. (\A u \in Tries : Acting(k, u) => u = t) /\ ~\E e \in batch[k] : rows[e] > 0
  BY Alone
<1>3. \A u \in Tries : ~Acting(k, u)'
  BY <1>1, <1>2 DEF Acting
<1>4. Exclusive(k)'
  BY <1>3 DEF Exclusive
<1> QED
  BY <1>1, <1>2, <1>4 DEF Remembered

LEMMA Present ==
  ASSUME IInv, NEW k \in Key
  PROVE  /\ ~(k > Sent) \/ (record[k] = "none" /\ \A t \in Tries : try[k][t].pc = "none")
         /\ record[k] \in Recordable
         /\ record = [record EXCEPT ![k] = record[k]]
<1>1. record \in [Key -> Recordable]
  BY TypeOfTries DEF IInv
<1> QED
  BY <1>1, NoTryFacts DEF IInv, Awaiting

\* A try reads the record, or polls it.
LEMMA ReadStep ==
  ASSUME IInv, NEW k \in Key, NEW t \in Tries, ReadRecord(k, t) \/ Poll(k, t), rows' = rows,
         UNCHANGED <<batch, current, awaited>>, Sent' = Sent
  PROVE  Rest
<1>1. /\ try[k][t].pc \in {"begun", "polling"} /\ record' = record /\ troubled' = troubled
  BY DEF ReadRecord, Poll, At
<1>2. ~(k > Sent) /\ record[k] \in Recordable
      /\ record' = [record EXCEPT ![k] = record[k]]
  BY <1>1, Present
<1>3. PICK x \in TryType :
        /\ \/ x.pc \in {"none", "polling"}
           \/ x.pc = "answered" /\ (x.answer = "ok" => record[k] = "ok")
           \/ x.pc = "acquiring" /\ try[k][t].pc = "begun"
        /\ try' = [try EXCEPT ![k] = [try[k] EXCEPT ![t] = x]]
  <2>1. "error" \in Answers /\ "error" # "ok"
    BY DEF Answers
  <2>2. CASE record[k] \in Answers /\ Replies(k, t, record[k])
    BY <2>2, RepliesStep DEF IInv
  <2>3. CASE Replies(k, t, "error")
    BY <2>1, <2>3, RepliesStep DEF IInv
  <2>4. CASE Goes(k, t, "polling")
    BY <2>4, GoesStep DEF IInv
  <2>5. CASE Goes(k, t, "acquiring") /\ try[k][t].pc = "begun"
    BY <2>5, GoesStep DEF IInv
  <2> QED
    BY <2>2, <2>3, <2>4, <2>5 DEF ReadRecord, Poll, At
<1>4. OneTry(k, t, x, record[k])
  BY <1>1, <1>2, <1>3 DEF OneTry
<1>5. Grounded(k, x, record[k])
  BY <1>3 DEF Grounded, Succeeded
<1>6. /\ x.pc \notin {"running", "executed"} /\ try[k][t].pc \notin {"executed", "none"}
      /\ x.pc \in MayExecute => try[k][t].pc \in MayExecute
  BY <1>1, <1>3 DEF MayExecute
<1>7. Exclusive(k) /\ Remembered(k) => Exclusive(k)' /\ Remembered(k)'
  BY <1>2, <1>4, <1>6, Harmless DEF IInv
<1> QED
  BY <1>2, <1>4, <1>5, <1>6, <1>7, OtherStep DEF Rest

LEMMA AcquireStep ==
  ASSUME IInv, NEW k \in Key, NEW t \in Tries, Acquire(k, t), rows' = rows,
         UNCHANGED <<batch, current, awaited>>, Sent' = Sent
  PROVE  Rest
<1>1. try[k][t].pc = "acquiring" /\ troubled' = troubled
  BY DEF Acquire, At
<1>2. ~(k > Sent) /\ record[k] \in Recordable
      /\ record = [record EXCEPT ![k] = record[k]]
  BY <1>1, Present
<1>3. CASE record[k] = "none"
  <2>1. record' = [record EXCEPT ![k] = "processing"] /\ Runs(k, t, TRUE)
    BY <1>3 DEF Acquire
  <2>2. PICK x \in TryType : /\ x.pc = "running" /\ x.lock = TRUE
                             /\ try' = [try EXCEPT ![k] = [try[k] EXCEPT ![t] = x]]
    BY <2>1, RunsStep DEF IInv
  <2>3. OneTry(k, t, x, "processing")
    BY <1>1, <2>1, <2>2 DEF OneTry
  <2>4. Grounded(k, x, "processing") /\ (x.pc \in MayExecute => try[k][t].pc \in MayExecute)
    BY <1>1, <2>2 DEF Grounded, MayExecute
  <2>5. ASSUME Exclusive(k), Remembered(k) PROVE Exclusive(k)' /\ Remembered(k)'
    <3>1. /\ batch' = batch /\ record'[k] = "processing"
          /\ \A u \in Tries : try'[k][u] = IF u = t THEN x ELSE try[k][u]
      BY <2>3, OneTryFacts, RecordableFacts DEF IInv
    <3>2. \A u \in Tries : ~Acting(k, u)
      BY <1>3, <2>5 DEF Exclusive
    <3>3. \A u \in Tries : Acting(k, u)' => u = t
      BY <3>1, <3>2 DEF Acting
    <3>4. Exclusive(k)'
      BY <2>2, <3>1, <3>3 DEF Exclusive
    <3>5. ~\E e \in batch[k] : rows[e] > 0
      BY <1>1, <1>3, <2>5, <3>2 DEF Remembered, Begins, Acting, MayExecute
    <3> QED
      BY <3>1, <3>4, <3>5 DEF Remembered
  <2> QED
    BY <1>1, <1>2, <2>3, <2>4, <2>5, OtherStep, RecordableFacts DEF Rest
<1>4. CASE record[k] # "none"
  <2>1. Goes(k, t, "polling") /\ record' = record
    BY <1>4 DEF Acquire
  <2>2. PICK x \in TryType : /\ x.pc = "polling"
                             /\ try' = [try EXCEPT ![k] = [try[k] EXCEPT ![t] = x]]
    BY <2>1, GoesStep DEF IInv
  <2>3. OneTry(k, t, x, record[k])
    BY <1>1, <1>2, <2>1, <2>2 DEF OneTry
  <2>4. Grounded(k, x, record[k]) /\ (x.pc \in MayExecute => try[k][t].pc \in MayExecute)
    BY <2>2 DEF Grounded, MayExecute, Succeeded
  <2>5. Exclusive(k) /\ Remembered(k) => Exclusive(k)' /\ Remembered(k)'
    BY <1>1, <1>2, <2>2, <2>3, <2>4, Harmless DEF IInv
  <2> QED
    BY <1>1, <1>2, <2>3, <2>4, <2>5, OtherStep DEF Rest
<1> QED
  BY <1>3, <1>4

\* The handler runs although Redis is not there, answers 4xx, or fails.
LEMMA HandlerStep ==
  ASSUME IInv, NEW k \in Key, NEW t \in Tries,
         FailOpen(k, t) \/ Refuse(k, t) \/ HandlerFails(k, t), rows' = rows,
         UNCHANGED <<batch, current, awaited>>, Sent' = Sent
  PROVE  Rest
<1>1. try[k][t].pc \in MayExecute /\ "refused" \in Answers /\ "error" \in Answers
  BY DEF FailOpen, Refuse, HandlerFails, At, MayExecute, Answers
<1>2. ~(k > Sent) /\ record[k] \in Recordable
      /\ record = [record EXCEPT ![k] = record[k]]
  BY <1>1, Present DEF MayExecute
<1>3. CASE FailOpen(k, t)
  <2>1. troubled' = troubled \cup {k} /\ Runs(k, t, FALSE)
    BY <1>3 DEF FailOpen, Trouble
  <2>2. PICK x \in TryType : /\ x.pc = "running" /\ x.lock = FALSE
                             /\ try' = [try EXCEPT ![k] = [try[k] EXCEPT ![t] = x]]
    BY <2>1, RunsStep DEF IInv
  <2>3. PICK y \in Recordable :
          /\ y = "ok" => record[k] = "ok"
          /\ record' = [record EXCEPT ![k] = y]
    <3>1. record' = record \/ record' = [record EXCEPT ![k] = "processing"]
      BY <1>3 DEF FailOpen
    <3> QED
      BY <1>2, <3>1, RecordableFacts
  <2>4. OneTry(k, t, x, y)
    BY <2>1, <2>2, <2>3 DEF OneTry
  <2>5. Grounded(k, x, y)
    BY <2>2, <2>3 DEF Grounded, Succeeded
  <2> QED
    BY <1>1, <1>2, <2>1, <2>4, <2>5, OtherStep DEF Rest, MayExecute
<1>4. CASE Refuse(k, t) \/ HandlerFails(k, t)
  <2>1. try[k][t].pc = "running" /\ troubled' = troubled
    BY <1>4 DEF Refuse, HandlerFails, At
  <2>2. PICK x \in TryType : /\ x.pc = "none" \/ (x.pc = "answered" /\ x.answer # "ok")
                             /\ try' = [try EXCEPT ![k] = [try[k] EXCEPT ![t] = x]]
    <3>1. CASE Replies(k, t, "refused")
      BY <1>1, <3>1, RepliesStep DEF IInv
    <3>2. CASE Replies(k, t, "error")
      BY <1>1, <3>2, RepliesStep DEF IInv
    <3> QED
      BY <1>4, <3>1, <3>2 DEF Refuse, HandlerFails
  <2>3. PICK y \in Recordable :
          /\ y = "ok" => record[k] = "ok"
          /\ record' = [record EXCEPT ![k] = y]
    <3>1. \/ record' = record \/ record' = [record EXCEPT ![k] = "refused"]
          \/ record' = [record EXCEPT ![k] = "none"]
      BY <1>4 DEF Refuse, HandlerFails, Released
    <3> QED
      BY <1>1, <1>2, <3>1, RecordableFacts
  <2>4. OneTry(k, t, x, y)
    BY <2>1, <2>2, <2>3 DEF OneTry
  <2>5. Grounded(k, x, y) /\ x.pc \notin {"running", "executed"} /\ x.pc \notin MayExecute
    BY <2>2, <2>3 DEF Grounded, Succeeded, MayExecute
  <2>6. Exclusive(k) /\ Remembered(k) => Exclusive(k)' /\ Remembered(k)'
    BY <2>1, <2>4, <2>5, Ended DEF IInv
  <2> QED
    BY <1>2, <2>1, <2>4, <2>5, <2>6, OtherStep DEF Rest
<1> QED
  BY <1>3, <1>4

\* The answer is stored, or the SET fails.
LEMMA CacheStep ==
  ASSUME IInv, NEW k \in Key, NEW t \in Tries, CacheAnswer(k, t) \/ CacheFails(k, t), rows' = rows,
         UNCHANGED <<batch, current, awaited>>, Sent' = Sent
  PROVE  Rest
<1>1. try[k][t].pc = "executed" /\ Replies(k, t, "ok") /\ "ok" \in Answers /\ Succeeded(k)
  BY DEF CacheAnswer, CacheFails, At, Answers, Succeeded
<1>2. ~(k > Sent) /\ record[k] \in Recordable
      /\ record = [record EXCEPT ![k] = record[k]]
  BY <1>1, Present
<1>3. PICK x \in TryType : /\ x.pc \in {"none", "answered"}
                           /\ try' = [try EXCEPT ![k] = [try[k] EXCEPT ![t] = x]]
  BY <1>1, RepliesStep DEF IInv
<1>4. PICK y \in Recordable :
        /\ record' = [record EXCEPT ![k] = y]
        /\ CacheAnswer(k, t) /\ try[k][t].lock => y = "ok"
  <2>1. CASE CacheAnswer(k, t)
    BY <1>1, <1>2, <2>1, RecordableFacts DEF CacheAnswer
  <2>2. CASE CacheFails(k, t) /\ ~CacheAnswer(k, t)
    <3>1. record' = record \/ record' = [record EXCEPT ![k] = "none"]
      BY <2>2 DEF CacheFails, Released
    <3> QED
      BY <1>2, <2>2, <3>1, RecordableFacts
  <2> QED
    BY <2>1, <2>2
<1>5. troubled' \in {troubled, troubled \cup {k}} /\ (k \notin troubled' => CacheAnswer(k, t))
  BY DEF CacheAnswer, CacheFails, Trouble
<1>6. OneTry(k, t, x, y)
  BY <1>3, <1>4, <1>5 DEF OneTry
<1>7. Grounded(k, x, y) /\ x.pc \notin MayExecute
  BY <1>1, <1>3 DEF Grounded, MayExecute
<1>8. ASSUME k \notin troubled', Exclusive(k), Remembered(k) PROVE Exclusive(k)' /\ Remembered(k)'
  <2>1. /\ record'[k] = y /\ \A u \in Tries : try'[k][u] = IF u = t THEN x ELSE try[k][u]
    BY <1>6, OneTryFacts DEF IInv
  <2>2. try[k][t].lock /\ \A u \in Tries : Acting(k, u) => u = t
    BY <1>1, <1>8 DEF Exclusive, Acting
  <2>3. \A u \in Tries : ~Acting(k, u)'
    BY <1>3, <2>1, <2>2 DEF Acting
  <2>4. record'[k] = "ok"
    BY <1>4, <1>5, <1>8, <2>1, <2>2
  <2> QED
    BY <2>3, <2>4 DEF Exclusive, Remembered
<1> QED
  BY <1>1, <1>2, <1>6, <1>7, <1>8, OtherStep DEF Rest

LEMMA VanishStep ==
  ASSUME IInv, NEW k \in Key, NEW t \in Tries, Vanish(k, t), rows' = rows,
         UNCHANGED <<batch, current, awaited>>, Sent' = Sent
  PROVE  Rest
<1>1. /\ try[k][t].pc # "none" /\ try' = [try EXCEPT ![k][t] = NoTry] /\ record' = record
      /\ troubled' \in {troubled, troubled \cup {k}}
      /\ try[k][t].pc = "executed" => k \in troubled'
  BY DEF Vanish, Trouble, At
<1>2. ~(k > Sent) /\ record[k] \in Recordable
      /\ record = [record EXCEPT ![k] = record[k]]
  BY <1>1, Present
<1>3. NoTry \in TryType /\ NoTry.pc = "none"
  BY NoTryFacts
<1>4. OneTry(k, t, NoTry, record[k])
  BY <1>1, <1>2, TypeOfTries DEF OneTry, IInv
<1>5. Grounded(k, NoTry, record[k]) /\ NoTry.pc \notin MayExecute \cup {"running", "executed"}
  BY <1>3 DEF Grounded, Succeeded, MayExecute
<1>6. k \notin troubled' /\ Exclusive(k) /\ Remembered(k) => Exclusive(k)' /\ Remembered(k)'
  BY <1>1, <1>2, <1>3, <1>4, <1>5, Harmless DEF IInv
<1> QED
  BY <1>2, <1>3, <1>4, <1>5, <1>6, OtherStep DEF Rest

LEMMA ExpireStep ==
  ASSUME IInv, NEW k \in Key, SentinelExpires(k), rows' = rows,
         UNCHANGED <<batch, current, awaited>>, Sent' = Sent
  PROVE  Rest
<1>1. /\ record[k] = "processing" /\ record' = [record EXCEPT ![k] = "none"] /\ try' = try
      /\ troubled' \in {troubled, troubled \cup {k}}
      /\ k \notin troubled' => \A u \in Tries : ~try[k][u].lock
  BY DEF SentinelExpires, Trouble
<1>2. ~(k > Sent) /\ 1 \in Tries
  BY <1>1, Present, Numbers
<1>3. try[k][1] \in TryType /\ try = [try EXCEPT ![k] = [try[k] EXCEPT ![1] = try[k][1]]]
  BY <1>2, TypeOfTries DEF IInv
<1>4. OneTry(k, 1, try[k][1], "none")
  BY <1>1, <1>3 DEF OneTry
<1>5. Grounded(k, try[k][1], "none")
  BY <1>2 DEF Grounded, Succeeded
<1>6. ASSUME k \notin troubled', Exclusive(k), Remembered(k) PROVE Exclusive(k)' /\ Remembered(k)'
  <2>1. \A u \in Tries : ~Acting(k, u)
    BY <1>1, <1>6 DEF Exclusive
  <2>2. Exclusive(k)'
    BY <1>1, <2>1 DEF Exclusive, Acting
  <2>3. Remembered(k)'
    BY <1>1, <1>6 DEF Remembered, Begins, MayExecute
  <2> QED
    BY <2>2, <2>3
<1> QED
  BY <1>2, <1>3, <1>4, <1>5, <1>6, OtherStep, RecordableFacts DEF Rest

\* The rows are inserted, and the process knows it or not.
LEMMA InsertStep ==
  ASSUME IInv, NEW k \in Key, NEW t \in Tries, Execute(k, t) \/ Unconfirmed(k, t),
         InsertCostEventsBatch(k), UNCHANGED <<batch, current, awaited>>, Sent' = Sent
  PROVE  Rest /\ \A e \in Event : rows[e] > 0 => rows'[e] > 0
<1>1. try[k][t].pc = "running" /\ "error" \in Answers
  BY DEF Execute, Unconfirmed, At, Answers
<1>2. record[k] \in Recordable
      /\ record = [record EXCEPT ![k] = record[k]]
  BY Present
<1>3. CASE Execute(k, t)
  <2>1. Goes(k, t, "executed") /\ record' = record /\ troubled' = troubled
    BY <1>3 DEF Execute
  <2>2. PICK x \in TryType : /\ x.pc = "executed" /\ x.lock = try[k][t].lock
                             /\ try' = [try EXCEPT ![k] = [try[k] EXCEPT ![t] = x]]
    BY <2>1, GoesStep DEF IInv
  <2>3. OneTry(k, t, x, record[k])
    BY <1>2, <2>1, <2>2 DEF OneTry
  <2>4. record[k] = "ok" => Succeeded(k)
    BY DEF Succeeded
  <2> QED
    BY <1>1, <1>2, <2>2, <2>3, <2>4, EffectStep DEF Rest
<1>4. CASE Unconfirmed(k, t)
  <2>1. Replies(k, t, "error") /\ record' \in Released(k, t) /\ troubled' = troubled \cup {k}
    BY <1>4 DEF Unconfirmed, Trouble
  <2>2. PICK x \in TryType : /\ x.pc \in {"none", "answered"}
                             /\ try' = [try EXCEPT ![k] = [try[k] EXCEPT ![t] = x]]
    BY <1>1, <2>1, RepliesStep DEF IInv
  <2>3. PICK y \in Recordable :
          (y = "ok" => record[k] = "ok") /\ record' = [record EXCEPT ![k] = y]
    <3>1. record' = record \/ record' = [record EXCEPT ![k] = "none"]
      BY <2>1 DEF Released
    <3> QED
      BY <1>2, <3>1, RecordableFacts
  <2>4. OneTry(k, t, x, y)
    BY <2>1, <2>2, <2>3 DEF OneTry
  <2>5. (y = "ok" => Succeeded(k)) /\ k \in troubled'
    BY <2>1, <2>3 DEF Succeeded
  <2> QED
    BY <1>1, <2>2, <2>4, <2>5, EffectStep DEF Rest
<1> QED
  BY <1>3, <1>4

LEMMA ServeStep ==
  ASSUME IInv, NEW k \in Key, NEW t \in Tries, Serve(k, t)
  PROVE  IInv'
<1>1. /\ UNCHANGED <<fresh, queue, snapshot, batch, current, dropped, failed, delivered>>
      /\ shut' = shut /\ UNCHANGED <<batch, current, awaited>> /\ delivered' = delivered
  BY DEF Serve, reporterVars
<1>2. LineInv' /\ Sent' = Sent
  BY <1>1, LineStutter DEF IInv, LineInv, LineTyped
<1>3. CASE Internal(k, t) /\ rows' = rows
  <2>1. Rest
    BY <1>1, <1>2, <1>3, ReadStep, AcquireStep, HandlerStep, CacheStep, VanishStep DEF Internal
  <2> QED
    BY <1>1, <1>2, <1>3, <2>1 DEF Rest, IInv, DeliveredIsStored
<1>4. CASE (Execute(k, t) \/ Unconfirmed(k, t)) /\ InsertCostEventsBatch(k)
  <2>1. Rest /\ \A e \in Event : rows[e] > 0 => rows'[e] > 0
    BY <1>1, <1>2, <1>4, InsertStep
  <2>2. DeliveredIsStored'
    BY <1>1, <2>1 DEF IInv, DeliveredIsStored, LineInv, LineTyped
  <2> QED
    BY <1>2, <2>1, <2>2 DEF Rest, IInv
<1> QED
  BY <1>3, <1>4 DEF Serve

LEMMA ExpiryStep ==
  ASSUME IInv, NEW k \in Key, Expire(k)
  PROVE  IInv'
<1>1. /\ UNCHANGED <<fresh, queue, snapshot, batch, current, dropped, failed, delivered>>
      /\ shut' = shut /\ UNCHANGED <<batch, current, awaited>> /\ delivered' = delivered
      /\ rows' = rows /\ SentinelExpires(k)
  BY DEF Expire, reporterVars
<1>2. LineInv' /\ Sent' = Sent
  BY <1>1, LineStutter DEF IInv, LineInv, LineTyped
<1>3. Rest
  BY <1>1, <1>2, ExpireStep
<1> QED
  BY <1>1, <1>2, <1>3 DEF Rest, IInv, DeliveredIsStored

-----------------------------------------------------------------------------
(* The invariant.                                                            *)

LEMMA InitInv == Init => IInv
<1> SUFFICES ASSUME Init PROVE IInv
  OBVIOUS
<1>1. /\ record = [k \in Key |-> "none"] /\ try = [k \in Key |-> [t \in Tries |-> NoTry]]
      /\ awaited = [k \in Key |-> 0] /\ troubled = {}
      /\ batch = [k \in Key |-> {}] /\ current = 0 /\ delivered = {}
      /\ rows = [e \in Event |-> 0]
  BY DEF Init, IdemInit
<1>2. LineInv
  BY LineInit
<1>3. IdemTypeOK
  <2>1. 0 \in 0..MaxTries
    BY Numbers, SMT
  <2> QED
    BY <1>1, <2>1, NoTryFacts, TypeOfTries, RecordableFacts
<1>4. Awaiting
  BY <1>1, NoTryFacts, Numbers DEF Awaiting
<1>5. Counted
  <2>1. 0 \in Nat
    BY SMT
  <2> QED
    BY <1>1, <2>1 DEF Counted
<1>6. Truthful
  BY <1>1, NoTryFacts DEF Truthful, Succeeded
<1>7. Once
  <2>1. 0 <= 1
    BY SMT
  <2> QED
    BY <1>1, <2>1, Numbers, NoTryFacts DEF Once, Exclusive, Acting, Remembered
<1>8. DeliveredIsStored
  BY <1>1 DEF DeliveredIsStored
<1> QED
  BY <1>2, <1>3, <1>4, <1>5, <1>6, <1>7, <1>8 DEF IInv

LEMMA StepInv == IInv /\ [Next]_vars => IInv'
<1> SUFFICES ASSUME IInv, [Next]_vars PROVE IInv'
  OBVIOUS
<1>1. CASE ClientNext
  BY <1>1, ClientStep
<1>2. CASE \E k \in Key : Expire(k) \/ \E t \in Tries : Serve(k, t)
  BY <1>2, ExpiryStep, ServeStep
<1>3. CASE UNCHANGED vars
  <2>1. /\ UNCHANGED <<fresh, queue, snapshot, batch, current, dropped, failed, delivered>>
        /\ shut' = shut /\ UNCHANGED <<idemVars, rows, batch, current>> /\ delivered' = delivered
        /\ rows' = rows
    BY <1>3 DEF vars, reporterVars
  <2>2. LineInv' /\ Sent' = Sent
    BY <2>1, LineStutter DEF IInv, LineInv, LineTyped
  <2>3. IdemTypeOK' /\ Awaiting' /\ Counted' /\ Truthful' /\ Once'
    BY <2>1, <2>2, RestStutter
  <2> QED
    BY <2>1, <2>2, <2>3 DEF IInv, DeliveredIsStored
<1> QED
  BY <1>1, <1>2, <1>3 DEF Next

THEOREM Inductive == Spec => []IInv
<1> QED
  BY InitInv, StepInv, PTL DEF Spec

-----------------------------------------------------------------------------

\* The variables keep their types and the queue its bound, and no event has more rows than its
\* request has tries (CostReporter, withIdempotency, insertCostEventsBatch).
THEOREM ReportsTyped == Spec => []TypeOK
<1>1. IInv => TypeOK
  <2> SUFFICES ASSUME IInv PROVE TypeOK
    OBVIOUS
  <2>1. LineTyped /\ Len(queue) <= MaxQueue /\ IdemTypeOK /\ Counted
    BY DEF IInv, LineInv
  <2>2. Elements(queue) \subseteq Event /\ Elements(snapshot) \subseteq Event
    BY <2>1, ElementsFacts DEF LineTyped
  <2>3. rows \in [Event -> 0..MaxTries]
    <3>1. ASSUME NEW e \in Event PROVE rows[e] \in 0..MaxTries
      <4>1. rows[e] \in Nat /\ MaxTries \in Nat
        BY <2>1, Numbers DEF Counted
      <4>2. CASE \A k \in Key : e \notin batch[k]
        <5>1. rows[e] = 0
          BY <2>1, <4>2 DEF Counted
        <5> QED
          BY <4>1, <5>1, SMT
      <4>3. CASE \E k \in Key : e \in batch[k]
        <5>1. PICK k \in Key : e \in batch[k]
          BY <4>3
        <5>2. rows[e] + Cardinality(Open(k)) <= MaxTries
          BY <2>1, <5>1 DEF Counted
        <5>3. Open(k) \subseteq Tries
          BY DEF Open, MayExecute
        <5>4. Cardinality(Open(k)) \in Nat
          BY <5>3, FewerOpen
        <5> QED
          BY <4>1, <5>2, <5>4, SMT
      <4> QED
        BY <4>2, <4>3
    <3> QED
      BY <2>1, <3>1 DEF Counted
  <2> QED
    BY <2>1, <2>2, <2>3 DEF TypeOK, LineTyped
<1> QED
  BY <1>1, Inductive, PTL

\* No event is lost unreported, and none is in two places (enqueue, doFlush, shutdown).
THEOREM NoneVanishes == Spec => []NothingVanishes
<1>1. IInv => NothingVanishes
  <2> SUFFICES ASSUME IInv PROVE NothingVanishes
    OBVIOUS
  <2> SUFFICES ASSUME NEW e \in Event PROVE Cardinality({i \in DOMAIN Places : e \in Places[i]}) = 1
    BY DEF NothingVanishes
  <2>1. /\ DOMAIN Places = 1..7
        /\ Places[1] = fresh /\ Places[2] = Elements(queue) /\ Places[3] = Elements(snapshot)
        /\ Places[4] = Sending /\ Places[5] = delivered /\ Places[6] = failed
        /\ Places[7] = dropped
    BY DEF Places
  <2>2. 1..7 = {1, 2, 3, 4, 5, 6, 7}
    BY SMT
  <2>3. \E n \in 1..7 : {i \in DOMAIN Places : e \in Places[i]} = {n}
    <3>1. PlacedIn(Places[1], Places[2], Places[3], Places[4], Places[5], Places[6], Places[7])
      BY <2>1 DEF IInv, LineInv, Placed
    <3>2. /\ \E n \in {1, 2, 3, 4, 5, 6, 7} : e \in Places[n]
          /\ e \in Places[1] => \A i \in {2, 3, 4, 5, 6, 7} : e \notin Places[i]
          /\ e \in Places[2] => \A i \in {3, 4, 5, 6, 7} : e \notin Places[i]
          /\ e \in Places[3] => \A i \in {4, 5, 6, 7} : e \notin Places[i]
          /\ e \in Places[4] => \A i \in {5, 6, 7} : e \notin Places[i]
          /\ e \in Places[5] => \A i \in {6, 7} : e \notin Places[i]
          /\ e \in Places[6] => e \notin Places[7]
      BY <3>1 DEF PlacedIn
    <3>3. \A i, n \in {1, 2, 3, 4, 5, 6, 7} : e \in Places[i] /\ e \in Places[n] => i = n
      BY <3>2
    <3> QED
      BY <2>1, <2>2, <3>2, <3>3
  <2> QED
    BY <2>3, FS_Singleton
<1> QED
  BY <1>1, Inductive, PTL

\* An event is stored once, however often its request is sent, if it has a key of its own or
\* nothing befell the record of its request (withIdempotency, insertCostEventsBatch).
THEOREM OnlyOnce == Spec => []StoredOnce
<1>1. IInv => StoredOnce
  <2> SUFFICES ASSUME IInv PROVE StoredOnce
    OBVIOUS
  <2> SUFFICES ASSUME NEW e \in Event, rows[e] > 1
               PROVE  e \notin Keyed /\ \E k \in troubled : e \in batch[k]
    BY DEF StoredOnce
  <2>1. rows[e] \in Nat /\ ~(rows[e] <= 1) /\ rows[e] # 0
    <3>1. rows[e] \in Nat
      BY DEF IInv, Counted
    <3> QED
      BY <3>1, SMT
  <2>2. PICK k \in Key : e \in batch[k]
    BY <2>1 DEF IInv, Counted
  <2> QED
    BY <2>1, <2>2 DEF IInv, Once
<1> QED
  BY <1>1, Inductive, PTL
-----------------------------------------------------------------------------
(* The reporter, the client's retries and the server keep the promise of     *)
(* Delivery.  What the server is about to insert was sent: the events of a   *)
(* request neither wait nor were dropped.                                    *)

DroppedUnsent == \A k \in Key : batch[k] \cap dropped = {}

LEMMA DroppedStep == IInv /\ IInv' /\ DroppedUnsent /\ [Next]_vars => DroppedUnsent'
<1> SUFFICES ASSUME IInv, IInv', DroppedUnsent, [Next]_vars PROVE DroppedUnsent'
  OBVIOUS
<1>1. CASE ClientNext
  <2>1. Flow /\ (NewRequest \/ SameRequests)
    BY <1>1, ClientLine DEF IInv
  <2>2. ASSUME NEW k \in Key, batch'[k] = batch[k] PROVE batch'[k] \cap dropped' = {}
    BY <2>1, <2>2 DEF Flow, DroppedUnsent, IInv, LineInv, Batched, Waiting
  <2>3. CASE NewRequest
    <3>1. batch'[Sent + 1] = Sending' /\ batch'[Sent + 1] \subseteq Event
      BY <2>3, Numbers DEF NewRequest, Sending, Flushing
    <3>2. batch'[Sent + 1] \cap dropped' = {}
      BY <3>1 DEF IInv, LineInv, Placed, PlacedIn
    <3> QED
      BY <2>2, <2>3, <3>2 DEF NewRequest, DroppedUnsent
  <2> QED
    BY <2>1, <2>2, <2>3 DEF SameRequests, DroppedUnsent
<1>2. CASE ~ClientNext
  <2>1. UNCHANGED <<batch, dropped>>
    BY <1>2 DEF Next, Expire, Serve, reporterVars, vars
  <2> QED
    BY <2>1 DEF DroppedUnsent
<1> QED
  BY <1>1, <1>2

LEMMA DroppedInit == Init => DroppedUnsent
  BY DEF Init, DroppedUnsent

\* Where says what the reporter's places say.
Located == \A e \in Event :
  /\ Where[e] \in Promise!Stations
  /\ Where[e] = "ahead" <=> e \in fresh
  /\ Where[e] = "waiting" <=> e \in Elements(queue) \cup Elements(snapshot)
  /\ Where[e] = "sending" <=> e \in Sending
  /\ Where[e] = "delivered" <=> e \in delivered
  /\ Where[e] = "failed" <=> e \in failed
  /\ Where[e] = "dropped" <=> e \in dropped

LEMMA LocatedLine == Placed => Located
<1> SUFFICES ASSUME Placed, NEW e \in Event
    PROVE  /\ Where[e] \in Promise!Stations
           /\ Where[e] = "ahead" <=> e \in fresh
           /\ Where[e] = "waiting" <=> e \in Elements(queue) \cup Elements(snapshot)
           /\ Where[e] = "sending" <=> e \in Sending
           /\ Where[e] = "delivered" <=> e \in delivered
           /\ Where[e] = "failed" <=> e \in failed
           /\ Where[e] = "dropped" <=> e \in dropped
  BY DEF Located
<1>1. Where[e] = CASE e \in delivered -> "delivered"
                   [] e \in failed    -> "failed"
                   [] e \in dropped   -> "dropped"
                   [] e \in Sending   -> "sending"
                   [] e \in fresh     -> "ahead"
                   [] OTHER           -> "waiting"
  BY DEF Where
<1>2. /\ e \in fresh \cup Elements(queue) \cup Elements(snapshot) \cup Sending
              \cup delivered \cup failed \cup dropped
      /\ e \in fresh => e \notin Elements(queue) \cup Elements(snapshot) \cup Sending
                                   \cup delivered \cup failed \cup dropped
      /\ e \in Elements(queue) => e \notin Elements(snapshot) \cup Sending \cup delivered
                                             \cup failed \cup dropped
      /\ e \in Elements(snapshot) => e \notin Sending \cup delivered \cup failed \cup dropped
      /\ e \in Sending => e \notin delivered \cup failed \cup dropped
      /\ e \in delivered => e \notin failed \cup dropped
      /\ e \in failed => e \notin dropped
  BY DEF Placed, PlacedIn
<1>3. CASE e \in delivered
  BY <1>1, <1>2, <1>3 DEF Promise!Stations
<1>4. CASE e \in failed
  BY <1>1, <1>2, <1>4 DEF Promise!Stations
<1>5. CASE e \in dropped
  BY <1>1, <1>2, <1>5 DEF Promise!Stations
<1>6. CASE e \in Sending
  BY <1>1, <1>2, <1>6 DEF Promise!Stations
<1>7. CASE e \in fresh
  BY <1>1, <1>2, <1>7 DEF Promise!Stations
<1>8. CASE e \in Elements(queue) \cup Elements(snapshot)
  BY <1>1, <1>2, <1>8 DEF Promise!Stations
<1> QED
  BY <1>2, <1>3, <1>4, <1>5, <1>6, <1>7, <1>8

LEMMA LocatedInv == IInv => Located
  BY LocatedLine DEF IInv, LineInv

LEMMA ClientMoves ==
  ASSUME IInv, IInv', Located, Located', ClientNext
  PROVE  Promise!Move
<1>1. Flow /\ rows' = rows
  BY ClientLine DEF IInv
<1>2. PlacedIn(fresh, Elements(queue), Elements(snapshot), Sending, delivered, failed, dropped)
  BY DEF IInv, LineInv, Placed
<1>3. PlacedIn(fresh', Elements(queue)', Elements(snapshot)', Sending', delivered', failed', dropped')
  BY DEF IInv, LineInv, Placed
<1>4. Sending \subseteq Event /\ delivered' \subseteq Event
  BY DEF IInv, LineInv, LineTyped, Sending, Flushing
<1>5. Where' \in [Event -> Promise!Stations]
  <2>1. Where' = [e \in Event |-> Where'[e]]
    BY DEF Where
  <2> QED
    BY <2>1 DEF Located
<1>6. ASSUME NEW e \in Event PROVE Where'[e] = Where[e] \/ <<Where[e], Where'[e]>> \in Promise!Forward
  <2>1. CASE e \in fresh
    <3>1. e \notin delivered' \cup failed' \cup dropped'
      BY <1>1, <1>2, <2>1 DEF Flow, PlacedIn
    <3>2. Where[e] = "ahead" /\ Where'[e] \in {"ahead", "waiting", "sending"}
      BY <2>1, <3>1 DEF Located, Promise!Stations
    <3> QED
      BY <3>2 DEF Promise!Forward
  <2>2. CASE e \in Elements(queue) \cup Elements(snapshot)
    <3>1. e \notin delivered' \cup failed' \cup fresh'
      BY <1>1, <1>2, <2>2 DEF Flow, PlacedIn
    <3>2. Where[e] = "waiting" /\ Where'[e] \in {"waiting", "sending", "dropped"}
      BY <2>2, <3>1 DEF Located, Promise!Stations
    <3> QED
      BY <3>2 DEF Promise!Forward
  <2>3. CASE e \in Sending
    <3>1. e \in Sending' \cup delivered' \cup failed'
      BY <1>1, <2>3 DEF Flow
    <3>2. Where[e] = "sending" /\ Where'[e] \in {"sending", "delivered", "failed"}
      BY <2>3, <3>1 DEF Located
    <3> QED
      BY <3>2 DEF Promise!Forward
  <2>4. CASE e \in delivered \cup failed \cup dropped
    BY <1>1, <2>4 DEF Flow, Located
  <2> QED
    BY <1>2, <2>1, <2>2, <2>3, <2>4 DEF PlacedIn
<1>7. ASSUME NEW e \in Event, Where'[e] = "delivered" PROVE e \in {d \in Event : rows[d] > 0}
  <2>1. e \in delivered'
    BY <1>7 DEF Located
  <2> QED
    BY <1>1, <2>1, TakenForDelivered
<1>8. Promise!Being("sending") = Sending
  BY <1>4 DEF Promise!Being, Located
<1>9. \/ \A d \in Sending : d \in Sending'
      \/ \A d \in Sending : d \in delivered'
      \/ \A d \in Sending : d \in failed'
  BY <1>1 DEF Flow
<1>10. ASSUME NEW d \in Sending, NEW e \in Sending PROVE Where'[d] = Where'[e]
  BY <1>4, <1>9 DEF Located
<1>11. ASSUME NEW d \in Sending, NEW e \in Event \ Sending, Where'[e] = "sending"
       PROVE  Where'[d] # "sending"
  <2>1. e \in Sending' /\ Sending' # Sending /\ Sending # {}
    BY <1>11 DEF Located
  <2>2. d \in delivered' \cup failed'
    BY <1>1, <2>1 DEF Flow
  <2> QED
    BY <1>4, <2>2 DEF Located
<1>12. {d \in Event : rows'[d] > 0} = {d \in Event : rows[d] > 0}
  BY <1>1
<1> QED
  BY <1>5, <1>6, <1>7, <1>8, <1>10, <1>11, <1>12 DEF Promise!Move

LEMMA ServerInserts ==
  ASSUME IInv, DroppedUnsent, Located, ~ClientNext, Next
  PROVE  Promise!Insert \/ UNCHANGED <<Where, {e \in Event : rows[e] > 0}>>
<1>1. UNCHANGED <<fresh, queue, snapshot, batch, current, dropped, failed, delivered>>
  BY DEF Next, Expire, Serve, reporterVars
<1>2. Where' = Where
  BY <1>1 DEF Where, Sending, Flushing
<1>3. CASE rows' = rows
  BY <1>2, <1>3
<1>4. ASSUME NEW k \in Key, InsertCostEventsBatch(k) PROVE Promise!Insert
  <2>1. rows \in [Event -> Nat]
    BY DEF IInv, Counted
  <2>2. ASSUME NEW e \in Event
        PROVE  /\ rows[e] > 0 => rows'[e] > 0
               /\ rows'[e] > 0 => rows[e] > 0 \/ e \in batch[k]
    <3>1. rows[e] \in Nat /\ rows'[e] = IF e \in Inserted(k) THEN rows[e] + 1 ELSE rows[e]
      BY <1>4, <2>1 DEF InsertCostEventsBatch
    <3>2. e \in Inserted(k) => e \in batch[k]
      BY DEF Inserted
    <3> QED
      BY <3>1, <3>2, SMT
  <2>3. ASSUME NEW e \in Event, e \in batch[k] PROVE Where[e] \in {"sending", "delivered", "failed"}
    <3>1. e \notin fresh \cup Elements(queue) \cup Elements(snapshot) \cup dropped
      BY <2>3 DEF IInv, LineInv, Batched, Waiting, DroppedUnsent
    <3> QED
      BY <3>1 DEF Located, Promise!Stations
  <2>4. {e \in Event : rows[e] > 0} \subseteq {e \in Event : rows'[e] > 0}
    BY <2>2
  <2>5. {e \in Event : rows'[e] > 0} \subseteq
          {e \in Event : rows[e] > 0} \cup Promise!Being("sending") \cup Promise!Being("delivered")
                                      \cup Promise!Being("failed")
    BY <2>2, <2>3 DEF Promise!Being
  <2> QED
    BY <1>2, <2>4, <2>5 DEF Promise!Insert
<1>5. rows' = rows \/ \E k \in Key : InsertCostEventsBatch(k)
  BY DEF Next, Expire, Serve
<1> QED
  BY <1>3, <1>4, <1>5

LEMMA PromiseStep ==
  IInv /\ IInv' /\ Located /\ Located' /\ DroppedUnsent /\ [Next]_vars =>
    [Promise!Next]_<<Where, {e \in Event : rows[e] > 0}>>
<1> SUFFICES ASSUME IInv, IInv', Located, Located', DroppedUnsent, [Next]_vars
             PROVE  [Promise!Next]_<<Where, {e \in Event : rows[e] > 0}>>
  OBVIOUS
<1>1. CASE ClientNext
  BY <1>1, ClientMoves DEF Promise!Next
<1>2. CASE ~ClientNext /\ Next
  BY <1>2, ServerInserts DEF Promise!Next
<1>3. CASE UNCHANGED vars
  <2>1. UNCHANGED <<reporterVars, rows>>
    BY <1>3 DEF vars
  <2> QED
    BY <2>1 DEF reporterVars, Where, Sending, Flushing
<1> QED
  BY <1>1, <1>2, <1>3

LEMMA PromiseInit == Init => Promise!Init
<1> SUFFICES ASSUME Init PROVE Promise!Init
  OBVIOUS
<1>1. /\ fresh = Event /\ current = 0 /\ dropped = {} /\ failed = {} /\ delivered = {}
      /\ rows = [e \in Event |-> 0]
  BY DEF Init
<1>2. Where = [e \in Event |-> "ahead"]
  BY <1>1 DEF Where, Sending, Flushing
<1>3. {e \in Event : rows[e] > 0} = {}
  <2>1. ~(0 > 0)
    BY SMT
  <2> QED
    BY <1>1, <2>1
<1> QED
  BY <1>2, <1>3 DEF Promise!Init

\* CostReporter, withIdempotency and insertCostEventsBatch together implement Delivery: outcomes
\* are final and the same for a whole request, requests do not overlap, what is taken for
\* delivered is stored, and what was dropped never is.
THEOREM PromiseKept == Spec => KeepsPromise
<1>1. Spec => []DroppedUnsent
  BY DroppedInit, DroppedStep, Inductive, PTL DEF Spec
<1>2. Spec => []Located
  BY LocatedInv, Inductive, PTL
<1> QED
  BY <1>1, <1>2, Inductive, PromiseInit, PromiseStep, PTL DEF Spec, KeepsPromise, Promise!Spec

=============================================================================
