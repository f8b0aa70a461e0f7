-------------------------- MODULE Enforcement_proofs --------------------------
(***************************************************************************)
(* How old an answer of the key cache can be, that the budget object holds *)
(* what was confirmed, and what the two make of a request: for every set   *)
(* of budgets, calls and requests, every number of tries and every life of *)
(* an entry.                                                               *)
(***************************************************************************)
EXTENDS Enforcement, TLAPS

-----------------------------------------------------------------------------
(* The key cache.  expiresAt counts from a moment before the query, so the   *)
(* age of a lookup bounds how long ago its answer stopped being true         *)
(* (Recent); an entry is given what its age leaves of PosMax, and loses it   *)
(* as fast as the answer grows older.                                        *)

\* The clocks stand while there is nothing to measure.
Stopped == (~revoked => sinceRevoked = 0) /\ (~hasBudgets => sinceNone = 0)

\* A lookup that has an answer is at least as old as the change that made it wrong.
RecentAnswer(q) ==
  q.pc = "read" =>
    /\ q.valid /\ revoked => sinceRevoked <= q.age
    /\ ~q.valid => revoked
    /\ ~q.has /\ hasBudgets => sinceNone <= q.age

Recent == \A r \in Request : RecentAnswer(request[r])

KeyInv == KeyTypeOK /\ Stopped /\ Recent /\ RevocationBound /\ SkipBound /\ RejectsOnlyRevoked

-----------------------------------------------------------------------------

LEMMA IdleFacts == Idle \in RequestType /\ Idle.pc = "idle"
  BY KeyCacheAssumption, SMT DEF Idle, RequestType

LEMMA NoEntryFacts == NoEntry \in [left : 0..PosMax, has : BOOLEAN] /\ NoEntry.left = 0
  BY KeyCacheAssumption, SMT DEF NoEntry

LEMMA KeyInitInv == KeyInit => KeyInv
<1> SUFFICES ASSUME KeyInit PROVE KeyInv
  OBVIOUS
<1>1. request \in [Request -> RequestType] /\ \A r \in Request : request[r].pc = "idle"
  BY IdleFacts DEF KeyInit
<1>2. 0 \in 0..PosMax /\ 0 \in 0..NegTTL
  BY KeyCacheAssumption, SMT
<1>3. KeyTypeOK
  BY <1>1, <1>2, NoEntryFacts, Zenon DEF KeyInit, KeyTypeOK
<1>4. Stopped /\ Recent
  BY <1>1 DEF KeyInit, Stopped, Recent, RecentAnswer
<1>5. RevocationBound /\ SkipBound /\ RejectsOnlyRevoked
  BY NoEntryFacts, SMT DEF KeyInit, RevocationBound, SkipBound, RejectsOnlyRevoked
<1> QED
  BY <1>3, <1>4, <1>5 DEF KeyInv

\* Replacing one request by one with a recent answer.
LEMMA Replaced ==
  ASSUME KeyTypeOK, Recent, NEW r \in Request, NEW q \in RequestType, RecentAnswer(q),
         request' = [request EXCEPT ![r] = q],
         UNCHANGED <<revoked, hasBudgets, timeVars>>
  PROVE  request' \in [Request -> RequestType] /\ Recent'
<1>1. request' \in [Request -> RequestType]
  BY DEF KeyTypeOK
<1>2. \A p \in Request : RecentAnswer(request'[p])
  BY DEF KeyTypeOK, Recent
<1>3. Recent'
  BY <1>2 DEF Recent, RecentAnswer, timeVars
<1> QED
  BY <1>1, <1>3

LEMMA MissInv ==
  ASSUME KeyInv, NEW r \in Request, Miss(r)
  PROVE  KeyInv'
<1> DEFINE q == [request[r] EXCEPT !.pc = "asking"]
<1>1. request[r] \in RequestType
  BY DEF KeyInv, KeyTypeOK
<1>2. q \in RequestType /\ q.pc = "asking"
  BY <1>1, SMT DEF RequestType
<1>3. request' = [request EXCEPT ![r] = q] /\ UNCHANGED <<revoked, hasBudgets, timeVars>>
  BY DEF Miss
<1>4. RecentAnswer(q)
  BY <1>2 DEF RecentAnswer
<1>5. request' \in [Request -> RequestType] /\ Recent'
  BY <1>2, <1>3, <1>4, Replaced DEF KeyInv
<1> QED
  BY <1>5 DEF Miss, KeyInv, KeyTypeOK, Stopped, RevocationBound, SkipBound, RejectsOnlyRevoked, timeVars

LEMMA LookupInv ==
  ASSUME KeyInv, NEW r \in Request, LookupKeyInDb(r)
  PROVE  KeyInv'
<1> DEFINE q == [request[r] EXCEPT !.pc = "read", !.valid = ~revoked, !.has = hasBudgets]
<1>1. request[r] \in RequestType /\ revoked \in BOOLEAN /\ hasBudgets \in BOOLEAN
  BY DEF KeyInv, KeyTypeOK
<1>2. q \in RequestType /\ q.pc = "read" /\ q.valid = ~revoked /\ q.has = hasBudgets
  BY <1>1, Zenon DEF RequestType
<1>3. request' = [request EXCEPT ![r] = q] /\ UNCHANGED <<revoked, hasBudgets, timeVars>>
  BY DEF LookupKeyInDb
<1>4. RecentAnswer(q)
  BY <1>1, <1>2 DEF RecentAnswer
<1>5. request' \in [Request -> RequestType] /\ Recent'
  BY <1>2, <1>3, <1>4, Replaced DEF KeyInv
<1> QED
  BY <1>5 DEF LookupKeyInDb, KeyInv, KeyTypeOK, Stopped, RevocationBound, SkipBound, RejectsOnlyRevoked, timeVars

LEMMA IdleInv ==
  ASSUME KeyInv, NEW r \in Request, request' = [request EXCEPT ![r] = Idle],
         UNCHANGED <<revoked, hasBudgets, timeVars>>
  PROVE  request' \in [Request -> RequestType] /\ Recent'
<1>1. RecentAnswer(Idle)
  BY IdleFacts DEF RecentAnswer
<1> QED
  BY <1>1, IdleFacts, Replaced DEF KeyInv

LEMMA FailsInv ==
  ASSUME KeyInv, NEW r \in Request, LookupFails(r)
  PROVE  KeyInv'
<1>1. request' \in [Request -> RequestType] /\ Recent'
  BY IdleInv DEF LookupFails
<1> QED
  BY <1>1 DEF LookupFails, KeyInv, KeyTypeOK, Stopped, RevocationBound, SkipBound, RejectsOnlyRevoked, timeVars

\* What an entry has left when it is stored.
LEMMA RemainingFacts ==
  ASSUME NEW ttl \in Nat, NEW age \in Nat
  PROVE  /\ Remaining(ttl, age) \in 0..ttl
         /\ Remaining(ttl, age) > 0 => Remaining(ttl, age) + age = ttl
  BY SMT DEF Remaining

LEMMA StoreInv ==
  ASSUME KeyInv, NEW r \in Request, Store(r)
  PROVE  KeyInv'
<1>1. request' \in [Request -> RequestType] /\ Recent'
  BY IdleInv DEF Store
<1>2. /\ request[r].pc = "read" /\ request[r].age \in Nat
      /\ request[r].valid \in BOOLEAN /\ request[r].has \in BOOLEAN
      /\ RecentAnswer(request[r])
  BY KeyCacheAssumption, SMT DEF KeyInv, KeyTypeOK, RequestType, Recent, Store
<1>3. UNCHANGED <<revoked, hasBudgets, sinceRevoked, sinceNone>>
  BY DEF Store, timeVars
<1>4. CASE request[r].valid
  <2>1. PICK ttl \in PosMin..PosMax :
          positive' = [left |-> Remaining(ttl, request[r].age), has |-> request[r].has]
    BY <1>4 DEF Store
  <2>2. negative' = negative
    BY <1>4 DEF Store
  <2>3. ttl \in Nat /\ ttl <= PosMax
    BY KeyCacheAssumption, SMT
  <2>4. /\ positive'.left \in 0..ttl
        /\ positive'.left > 0 => positive'.left + request[r].age = ttl
    BY <1>2, <2>1, <2>3, RemainingFacts
  <2>5. positive' \in [left : 0..PosMax, has : BOOLEAN] /\ positive'.has = request[r].has
    <3>1. positive'.left \in 0..PosMax
      BY <2>3, <2>4, KeyCacheAssumption, SMT
    <3> QED
      BY <1>2, <2>1, <3>1
  <2>6. KeyTypeOK'
    BY <1>1, <1>3, <2>2, <2>5 DEF KeyInv, KeyTypeOK
  <2>7. sinceRevoked \in Nat /\ sinceNone \in Nat /\ positive'.left \in Nat
    BY <2>3, <2>4, KeyCacheAssumption, SMT DEF KeyInv, KeyTypeOK
  <2>8. RevocationBound'
    <3> SUFFICES ASSUME revoked', positive'.left > 0 PROVE sinceRevoked' + positive'.left <= PosMax
      BY DEF RevocationBound
    <3>1. sinceRevoked <= request[r].age
      BY <1>2, <1>3, <1>4 DEF RecentAnswer
    <3> QED
      BY <1>2, <1>3, <2>3, <2>4, <2>7, <3>1, KeyCacheAssumption, SMT
  <2>9. SkipBound'
    <3> SUFFICES ASSUME hasBudgets', positive'.left > 0, ~positive'.has
                 PROVE  sinceNone' + positive'.left <= PosMax
      BY DEF SkipBound
    <3>1. sinceNone <= request[r].age
      BY <1>2, <1>3, <2>5 DEF RecentAnswer
    <3> QED
      BY <1>2, <1>3, <2>3, <2>4, <2>7, <3>1, KeyCacheAssumption, SMT
  <2> QED
    BY <1>1, <1>3, <2>2, <2>6, <2>8, <2>9 DEF KeyInv, Stopped, RejectsOnlyRevoked
<1>5. CASE ~request[r].valid
  <2>1. negative' = Remaining(NegTTL, request[r].age) /\ positive' = positive
    BY <1>5 DEF Store
  <2>2. negative' \in 0..NegTTL
    BY <1>2, <2>1, RemainingFacts, KeyCacheAssumption
  <2>3. revoked'
    BY <1>2, <1>3, <1>5 DEF RecentAnswer
  <2> QED
    BY <1>1, <1>3, <2>1, <2>2, <2>3 DEF KeyInv, KeyTypeOK, Stopped, RevocationBound, SkipBound, RejectsOnlyRevoked
<1> QED
  BY <1>4, <1>5

\* Evictions, invalidations and recycling only take entries away.
LEMMA DropInv ==
  ASSUME KeyInv, Evict \/ InvalidateAuthCacheForOwner \/ Recycle
  PROVE  KeyInv'
<1>1. UNCHANGED <<revoked, hasBudgets, sinceRevoked, sinceNone>>
  BY DEF Evict, InvalidateAuthCacheForOwner, Recycle, timeVars
<1>2. positive' = positive \/ positive' = NoEntry
  BY DEF Evict, InvalidateAuthCacheForOwner, Recycle
<1>3. negative' = negative \/ negative' = 0
  BY DEF Evict, InvalidateAuthCacheForOwner, Recycle
<1>4. request' = request \/ request' = [r \in Request |-> Idle]
  BY DEF Evict, InvalidateAuthCacheForOwner, Recycle
<1>5. request' \in [Request -> RequestType] /\ Recent'
  <2>1. CASE request' = request
    BY <1>1, <2>1 DEF KeyInv, KeyTypeOK, Recent, RecentAnswer
  <2>2. CASE request' = [r \in Request |-> Idle]
    BY <2>2, IdleFacts DEF Recent, RecentAnswer
  <2> QED
    BY <1>4, <2>1, <2>2
<1>6. KeyTypeOK'
  <2>1. negative' \in 0..NegTTL
    BY <1>3, KeyCacheAssumption, SMT DEF KeyInv, KeyTypeOK
  <2> QED
    BY <1>1, <1>2, <1>5, <2>1, NoEntryFacts DEF KeyInv, KeyTypeOK
<1>7. RevocationBound' /\ SkipBound'
  <2>1. CASE positive' = positive
    BY <1>1, <2>1 DEF KeyInv, RevocationBound, SkipBound
  <2>2. CASE positive' = NoEntry
    <3>1. ~(positive'.left > 0)
      BY <2>2, NoEntryFacts, SMT
    <3> QED
      BY <3>1 DEF RevocationBound, SkipBound
  <2> QED
    BY <1>2, <2>1, <2>2
<1>8. RejectsOnlyRevoked'
  <2>1. ~(0 > 0)
    BY SMT
  <2> QED
    BY <1>1, <1>3, <2>1 DEF KeyInv, RejectsOnlyRevoked
<1> QED
  BY <1>1, <1>5, <1>6, <1>7, <1>8 DEF KeyInv, Stopped

LEMMA RevokeInv ==
  ASSUME KeyInv, Revoke
  PROVE  KeyInv'
<1>1. /\ ~revoked /\ revoked' = TRUE /\ sinceRevoked' = sinceRevoked /\ sinceRevoked = 0
      /\ UNCHANGED <<hasBudgets, sinceNone, positive, negative, request>>
  BY DEF Revoke, cacheVars, KeyInv, Stopped
<1>2. KeyTypeOK' /\ Stopped'
  BY <1>1 DEF KeyInv, KeyTypeOK, Stopped
<1>3. Recent'
  <2> SUFFICES ASSUME NEW r \in Request PROVE RecentAnswer(request[r])'
    BY <1>1 DEF Recent
  <2>1. request[r].age \in Nat
    BY KeyCacheAssumption, SMT DEF KeyInv, KeyTypeOK, RequestType
  <2>2. 0 <= request[r].age
    BY <2>1, SMT
  <2> QED
    BY <1>1, <2>2 DEF KeyInv, Recent, RecentAnswer
<1>4. RevocationBound' /\ SkipBound' /\ RejectsOnlyRevoked'
  <2>1. 0 + positive.left <= PosMax
    BY KeyCacheAssumption, SMT DEF KeyInv, KeyTypeOK
  <2> QED
    BY <1>1, <2>1 DEF KeyInv, RevocationBound, SkipBound, RejectsOnlyRevoked
<1> QED
  BY <1>2, <1>3, <1>4 DEF KeyInv

LEMMA ChangeInv ==
  ASSUME KeyInv, NEW b \in BOOLEAN, ChangeBudgets(b)
  PROVE  KeyInv'
<1>1. /\ hasBudgets' = b /\ sinceNone' = IF b THEN sinceNone ELSE 0
      /\ UNCHANGED <<revoked, sinceRevoked, positive, negative, request>>
  BY DEF ChangeBudgets, cacheVars
<1>2. sinceNone' = sinceNone \/ sinceNone' = 0
  BY <1>1
<1>3. KeyTypeOK' /\ Stopped'
  <2>1. sinceNone' \in 0..PosMax
    BY <1>2, KeyCacheAssumption, SMT DEF KeyInv, KeyTypeOK
  <2> QED
    BY <1>1, <2>1 DEF KeyInv, KeyTypeOK, Stopped
<1>4. hasBudgets' => sinceNone' = IF hasBudgets THEN sinceNone ELSE 0
  BY <1>1 DEF KeyInv, Stopped
<1>5. Recent'
  <2> SUFFICES ASSUME NEW r \in Request PROVE RecentAnswer(request[r])'
    BY <1>1 DEF Recent
  <2>1. request[r].age \in Nat
    BY KeyCacheAssumption, SMT DEF KeyInv, KeyTypeOK, RequestType
  <2>2. 0 <= request[r].age
    BY <2>1, SMT
  <2> QED
    BY <1>1, <1>4, <2>2 DEF KeyInv, Recent, RecentAnswer
<1>6. RevocationBound' /\ SkipBound' /\ RejectsOnlyRevoked'
  <2>1. 0 + positive.left <= PosMax
    BY KeyCacheAssumption, SMT DEF KeyInv, KeyTypeOK
  <2> QED
    BY <1>1, <1>4, <2>1 DEF KeyInv, RevocationBound, SkipBound, RejectsOnlyRevoked
<1> QED
  BY <1>3, <1>5, <1>6 DEF KeyInv

\* The two clocks that are compared stop at the same value.
LEMMA OlderFacts ==
  ASSUME NEW m \in 0..PosMax, NEW n \in 0..PosMax
  PROVE  /\ Older(m) \in 0..PosMax /\ Older(m) <= m + 1
         /\ m <= n => Older(m) <= Older(n)
  BY KeyCacheAssumption, SMT DEF Older, Earlier

LEMMA TickInv ==
  ASSUME KeyInv, Tick
  PROVE  KeyInv'
<1>1. /\ revoked \in BOOLEAN /\ hasBudgets \in BOOLEAN
      /\ sinceRevoked \in 0..PosMax /\ sinceNone \in 0..PosMax
      /\ positive \in [left : 0..PosMax, has : BOOLEAN] /\ negative \in 0..NegTTL
  BY DEF KeyInv, KeyTypeOK
<1>2. revoked' = revoked /\ hasBudgets' = hasBudgets
  BY DEF Tick
<1>3. /\ sinceRevoked' = IF revoked THEN Older(sinceRevoked) ELSE 0
      /\ sinceNone' = IF hasBudgets THEN Older(sinceNone) ELSE 0
  BY DEF Tick
<1>4. sinceRevoked' \in 0..PosMax /\ sinceNone' \in 0..PosMax
  <2>1. 0 \in 0..PosMax
    BY KeyCacheAssumption, SMT
  <2> QED
    BY <1>1, <1>3, <2>1, OlderFacts
<1>5. ASSUME NEW r \in Request
      PROVE  /\ request'[r] \in RequestType
             /\ RecentAnswer(request[r])'
  <2>1. request[r] \in RequestType /\ RecentAnswer(request[r])
    BY DEF KeyInv, KeyTypeOK, Recent
  <2>2. CASE request[r].pc = "idle"
    <3>1. request'[r] = Idle
      BY <2>2 DEF Tick
    <3> QED
      BY <3>1, IdleFacts DEF RecentAnswer
  <2>3. CASE request[r].pc # "idle"
    <3>1. request'[r] = [request[r] EXCEPT !.age = Older(@)]
      BY <2>3 DEF Tick
    <3>2. request[r].age \in 0..PosMax
      BY <2>1 DEF RequestType
    <3>3. Older(request[r].age) \in 0..PosMax
      BY <3>2, OlderFacts
    <3>4. /\ request'[r] \in RequestType
          /\ request'[r].age = Older(request[r].age)
          /\ request'[r].pc = request[r].pc
          /\ request'[r].valid = request[r].valid /\ request'[r].has = request[r].has
      BY <2>1, <3>1, <3>3 DEF RequestType
    <3>5. sinceRevoked <= request[r].age => Older(sinceRevoked) <= Older(request[r].age)
      BY <1>1, <3>2, OlderFacts
    <3>6. sinceNone <= request[r].age => Older(sinceNone) <= Older(request[r].age)
      BY <1>1, <3>2, OlderFacts
    <3> QED
      BY <1>2, <1>3, <2>1, <3>4, <3>5, <3>6 DEF RecentAnswer
  <2> QED
    BY <2>2, <2>3
<1>6. request' \in [Request -> RequestType]
  BY <1>5 DEF Tick
<1>7. Recent'
  BY <1>5 DEF Recent
<1>8. positive' \in [left : 0..PosMax, has : BOOLEAN]
  <2>1. CASE positive.left > 1
    <3>1. positive' = [positive EXCEPT !.left = @ - 1] /\ positive.left - 1 \in 0..PosMax
      BY <1>1, <2>1, KeyCacheAssumption, SMT DEF Tick
    <3> QED
      BY <1>1, <3>1
  <2>2. CASE ~(positive.left > 1)
    BY <2>2, NoEntryFacts DEF Tick
  <2> QED
    BY <2>1, <2>2
<1>9. positive'.left > 0 => positive.left > 0 /\ positive'.left = positive.left - 1 /\ positive'.has = positive.has
  <2>1. CASE positive.left > 1
    <3>1. positive' = [positive EXCEPT !.left = @ - 1]
      BY <2>1 DEF Tick
    <3>2. positive'.left = positive.left - 1 /\ positive'.has = positive.has
      BY <1>1, <3>1
    <3>3. positive.left > 0
      BY <1>1, <2>1, SMT
    <3> QED
      BY <3>2, <3>3
  <2>2. CASE ~(positive.left > 1)
    <3>1. positive'.left = 0
      BY <2>2, NoEntryFacts DEF Tick
    <3> QED
      BY <3>1, SMT
  <2> QED
    BY <2>1, <2>2
<1>10. negative' \in 0..NegTTL /\ (negative' > 0 => negative > 0)
  BY <1>1, KeyCacheAssumption, SMT DEF Tick, Less
<1>11. KeyTypeOK'
  BY <1>1, <1>2, <1>4, <1>6, <1>8, <1>10 DEF KeyTypeOK
<1>12. Stopped'
  BY <1>2, <1>3 DEF Stopped
<1>13. Older(sinceRevoked) <= sinceRevoked + 1 /\ Older(sinceNone) <= sinceNone + 1
  BY <1>1, OlderFacts
<1>14. Older(sinceRevoked) \in Int /\ Older(sinceNone) \in Int /\ positive.left \in Int
       /\ sinceRevoked \in Int /\ sinceNone \in Int
  BY <1>1, OlderFacts, KeyCacheAssumption, SMT
<1>15. RevocationBound'
  <2> SUFFICES ASSUME revoked', positive'.left > 0 PROVE sinceRevoked' + positive'.left <= PosMax
    BY DEF RevocationBound
  <2>1. sinceRevoked + positive.left <= PosMax
    BY <1>2, <1>9 DEF KeyInv, RevocationBound
  <2> QED
    BY <1>2, <1>3, <1>9, <1>13, <1>14, <2>1, KeyCacheAssumption, SMT
<1>16. SkipBound'
  <2> SUFFICES ASSUME hasBudgets', positive'.left > 0, ~positive'.has
               PROVE  sinceNone' + positive'.left <= PosMax
    BY DEF SkipBound
  <2>1. sinceNone + positive.left <= PosMax
    BY <1>2, <1>9 DEF KeyInv, SkipBound
  <2> QED
    BY <1>2, <1>3, <1>9, <1>13, <1>14, <2>1, KeyCacheAssumption, SMT
<1>17. RejectsOnlyRevoked'
  BY <1>2, <1>10 DEF KeyInv, RejectsOnlyRevoked
<1> QED
  BY <1>7, <1>11, <1>12, <1>15, <1>16, <1>17 DEF KeyInv

LEMMA StutterInv ==
  ASSUME KeyInv, UNCHANGED keyVars
  PROVE  KeyInv'
  BY DEF KeyInv, keyVars, timeVars, cacheVars, KeyTypeOK, Stopped, Recent, RecentAnswer,
         RevocationBound, SkipBound, RejectsOnlyRevoked

LEMMA KeyStepInv == KeyInv /\ [KeyNext]_keyVars => KeyInv'
<1> SUFFICES ASSUME KeyInv, [KeyNext]_keyVars PROVE KeyInv'
  OBVIOUS
<1>1. CASE \E r \in Request : Authenticate(r)
  BY <1>1, MissInv, LookupInv, FailsInv, StoreInv DEF Authenticate
<1>2. CASE Evict \/ InvalidateAuthCacheForOwner \/ Recycle
  BY <1>2, DropInv
<1>3. CASE Revoke \/ Tick
  BY <1>3, RevokeInv, TickInv
<1>4. CASE \E b \in BOOLEAN : ChangeBudgets(b)
  BY <1>4, ChangeInv
<1>5. CASE UNCHANGED keyVars
  BY <1>5, StutterInv
<1> QED
  BY <1>1, <1>2, <1>3, <1>4, <1>5 DEF KeyNext

LEMMA KeyInductive == KeySpec => []KeyInv
  BY KeyInitInv, KeyStepInv, PTL DEF KeySpec

\* A revoked key is accepted from the cache for at most PosMax.
THEOREM RevokedKeysExpire == KeySpec => []RevocationBound
<1>1. KeyInv => RevocationBound
  BY DEF KeyInv
<1> QED
  BY <1>1, KeyInductive, PTL

\* Budgets are passed over for at most PosMax.
THEOREM BudgetsAreSeen == KeySpec => []SkipBound
<1>1. KeyInv => SkipBound
  BY DEF KeyInv
<1> QED
  BY <1>1, KeyInductive, PTL

\* A key that has not been revoked is never rejected from the cache.
THEOREM ValidKeysPass == KeySpec => []RejectsOnlyRevoked
<1>1. KeyInv => RejectsOnlyRevoked
  BY DEF KeyInv
<1> QED
  BY <1>1, KeyInductive, PTL

-----------------------------------------------------------------------------
(* The replica.  A change whose confirmation means something is alone: no    *)
(* other call is about its budget.  Then a try that has read knows the row   *)
(* of Postgres, and one that has changed the object has made it equal.       *)

\* What a call says of Postgres and the object, by its action.
Serves(action, row, copy) ==
  /\ action = "sync" => row # NoRow
  /\ action = "remove" => row = NoRow
  /\ action = "reset_spend" => copy = row

\* What a try of it says, by how far it came.
Honest(x, action, row, copy) ==
  /\ x.pc \in {"read", "upserted"} => action = "sync" /\ x.seen = row
  /\ x.pc \in {"upserted", "changed", "done"} => copy = row

Faithful(k) ==
  LET b == call[k].budget IN
  /\ Serves(call[k].action, postgres[b], object[b])
  /\ \A t \in Try : Honest(handler[k][t], call[k].action, postgres[b], object[b])

About(k, b) == call[k].budget = b
Trusted(b) == known[b] # "doubtful"

Alone == \A b \in Budget : Trusted(b) =>
           \A k \in Call, j \in Call : About(k, b) /\ About(j, b) => k = j

TrustedCalls == \A b \in Budget, k \in Call : Trusted(b) /\ About(k, b) => Faithful(k)

Quiet == \A k \in Call :
  /\ About(k, NoRow) => call[k] = NoCall /\ \A t \in Try : handler[k][t] = NoHandler
  /\ call[k].pc = "waiting" => call[k].try \in Try

ReplicaInv == ReplicaTypeOK /\ Quiet /\ Alone /\ TrustedCalls /\ ConfirmedIsEnforced

-----------------------------------------------------------------------------

LEMMA Blank == /\ NoRow \in Row /\ NoRow \notin Budget
               /\ NoHandler \in HandlerType /\ NoHandler.pc = "none" /\ NoHandler.seen = NoRow
               /\ NoCall \in CallType /\ NoCall.pc = "ended" /\ NoCall.budget = NoRow
  BY ReplicaAssumption, SMT DEF Row, NoHandler, HandlerType, NoCall, CallType

LEMMA Stages ==
  ASSUME NEW pc \in {"none", "begun", "read", "upserted", "changed", "done"}
  PROVE  /\ [NoHandler EXCEPT !.pc = pc] \in HandlerType
         /\ [NoHandler EXCEPT !.pc = pc].pc = pc
  BY Blank, SMT DEF HandlerType, NoHandler, Row

LEMMA ReplicaInitInv == ReplicaInit => ReplicaInv
<1> SUFFICES ASSUME ReplicaInit PROVE ReplicaInv
  OBVIOUS
<1>1. ReplicaTypeOK
  BY Blank DEF ReplicaInit, ReplicaTypeOK
<1>2. \A k \in Call : call[k] = NoCall /\ \A t \in Try : handler[k][t] = NoHandler
  BY DEF ReplicaInit
<1>3. Quiet /\ Alone /\ TrustedCalls
  BY <1>2, Blank DEF Quiet, Alone, TrustedCalls, About
<1>4. ConfirmedIsEnforced
  BY DEF ReplicaInit, ConfirmedIsEnforced
<1> QED
  BY <1>1, <1>3, <1>4 DEF ReplicaInv

\* A call and its tries after a step: gone, or still about what they were.
Continues(k, c, h) ==
  \/ c = NoCall /\ \A t \in Try : h[t] = NoHandler
  \/ /\ c.budget = call[k].budget /\ c.action = call[k].action
     /\ c.budget \in Budget
     /\ c.pc = "waiting" => c.try \in Try

\* A step of one call: it may change the object for its own budget, and a confirmation may
\* be taken note of where the object agrees.
LEMMA CallStep ==
  ASSUME ReplicaInv, NEW k \in Call, NEW c \in CallType, NEW h \in [Try -> HandlerType],
         call' = [call EXCEPT ![k] = c], handler' = [handler EXCEPT ![k] = h],
         postgres' = postgres, Continues(k, c, h),
         object' \in [Budget -> Row],
         \A b \in Budget : ~About(k, b) => object'[b] = object[b],
         known' \in [Budget -> {"confirmed", "sent", "doubtful"}],
         \A b \in Budget : Trusted(b)' => Trusted(b),
         \A b \in Budget : known'[b] = "confirmed" /\ known[b] # "confirmed" =>
                             object[b] = postgres[b],
         \A b \in Budget : Trusted(b) /\ About(k, b) =>
           /\ object[b] = postgres[b] => object'[b] = postgres[b]
           /\ \A t \in Try : \/ h[t] \in {NoHandler, handler[k][t]}
                             \/ Honest(h[t], call[k].action, postgres[b], object'[b])
  PROVE  ReplicaInv'
<1>1. ReplicaTypeOK'
  BY DEF ReplicaInv, ReplicaTypeOK
<1>2. /\ call'[k] = c /\ handler'[k] = h
      /\ \A j \in Call : j # k => call'[j] = call[j] /\ handler'[j] = handler[j]
  BY DEF ReplicaInv, ReplicaTypeOK
<1>3. \A b \in Budget, j \in Call : About(j, b)' => About(j, b)
  BY <1>2, Blank DEF About, Continues
<1>4. Quiet'
  <2> SUFFICES ASSUME NEW j \in Call
               PROVE  /\ About(j, NoRow)' => call'[j] = NoCall /\ \A t \in Try : handler'[j][t] = NoHandler
                      /\ call'[j].pc = "waiting" => call'[j].try \in Try
    BY DEF Quiet
  <2>1. CASE j # k
    BY <1>2, <2>1 DEF ReplicaInv, Quiet, About
  <2>2. CASE j = k
    BY <1>2, <2>2, Blank DEF About, Continues
  <2> QED
    BY <2>1, <2>2
<1>5. Alone'
  BY <1>3 DEF ReplicaInv, Alone
<1>6. TrustedCalls'
  <2> SUFFICES ASSUME NEW b \in Budget, NEW j \in Call, Trusted(b)', About(j, b)'
               PROVE  Faithful(j)'
    BY DEF TrustedCalls
  <2>1. Trusted(b) /\ About(j, b) /\ Faithful(j)
    BY <1>3 DEF ReplicaInv, TrustedCalls
  <2>2. CASE j # k
    <3>1. ~About(k, b)
      BY <2>1, <2>2 DEF ReplicaInv, Alone
    <3> QED
      BY <1>2, <2>1, <2>2, <3>1 DEF Faithful, About
  <2>3. CASE j = k
    <3>1. c.budget = b /\ c.action = call[k].action /\ call[k].budget = b
      BY <1>2, <2>1, <2>3, Blank DEF Continues, About
    <3>2. Serves(c.action, postgres[b], object'[b])
      BY <2>1, <2>3, <3>1 DEF Faithful, Serves, About
    <3>3. ASSUME NEW t \in Try
          PROVE  Honest(h[t], c.action, postgres[b], object'[b])
      <4>1. Honest(handler[k][t], c.action, postgres[b], object[b])
        BY <2>1, <2>3, <3>1 DEF Faithful
      <4>2. Honest(NoHandler, c.action, postgres[b], object'[b])
        BY Blank DEF Honest
      <4>3. h[t] = handler[k][t] => Honest(h[t], c.action, postgres[b], object'[b])
        BY <2>1, <2>3, <4>1 DEF Honest
      <4> QED
        BY <2>1, <2>3, <3>1, <4>2, <4>3
    <3> QED
      BY <1>2, <2>3, <3>1, <3>2, <3>3 DEF Faithful
  <2> QED
    BY <2>2, <2>3
<1>7. ConfirmedIsEnforced'
  <2> SUFFICES ASSUME NEW b \in Budget, known'[b] = "confirmed" PROVE object'[b] = postgres[b]
    BY DEF ConfirmedIsEnforced
  <2>1. object[b] = postgres[b]
    BY DEF ReplicaInv, ConfirmedIsEnforced
  <2>2. Trusted(b)
    BY DEF Trusted
  <2> QED
    BY <2>1, <2>2
<1> QED
  BY <1>1, <1>4, <1>5, <1>6, <1>7 DEF ReplicaInv

\* A step of the handlers of one call alone.
LEMMA HandlerOnly ==
  ASSUME ReplicaInv, NEW k \in Call, call[k].budget \in Budget,
         NEW h \in [Try -> HandlerType], handler' = [handler EXCEPT ![k] = h],
         UNCHANGED <<postgres, call, known>>,
         object' \in [Budget -> Row],
         \A b \in Budget : ~About(k, b) => object'[b] = object[b],
         \A b \in Budget : Trusted(b) /\ About(k, b) =>
           /\ object[b] = postgres[b] => object'[b] = postgres[b]
           /\ \A t \in Try : \/ h[t] \in {NoHandler, handler[k][t]}
                             \/ Honest(h[t], call[k].action, postgres[b], object'[b])
  PROVE  ReplicaInv'
<1>1. call[k] \in CallType /\ call' = [call EXCEPT ![k] = call[k]]
  BY DEF ReplicaInv, ReplicaTypeOK
<1>2. Continues(k, call[k], h)
  BY DEF ReplicaInv, Quiet, Continues
<1>3. \A b \in Budget : Trusted(b)' => Trusted(b)
  BY DEF Trusted
<1>4. known' \in [Budget -> {"confirmed", "sent", "doubtful"}]
  BY DEF ReplicaInv, ReplicaTypeOK
<1> QED
  BY <1>1, <1>2, <1>3, <1>4, CallStep

\* What is left of a call the dashboard is through with.
LEMMA ClosedFacts ==
  ASSUME ReplicaInv, NEW k \in Call, NEW h \in [Try -> HandlerType], call[k].budget \in Budget
  PROVE  \E c \in CallType : Closed(k, h) = [call EXCEPT ![k] = c] /\ Continues(k, c, h)
<1>1. call[k] \in CallType
  BY DEF ReplicaInv, ReplicaTypeOK
<1>2. CASE \A t \in Try : h[t] = NoHandler
  <2>1. Closed(k, h) = [call EXCEPT ![k] = NoCall]
    BY <1>2 DEF Closed
  <2> QED
    BY <1>2, <2>1, Blank DEF Continues
<1>3. CASE ~\A t \in Try : h[t] = NoHandler
  <2> DEFINE c == [call[k] EXCEPT !.pc = "ended", !.try = 0]
  <2>1. Closed(k, h) = [call EXCEPT ![k] = c]
    BY <1>3 DEF Closed
  <2>2. 0 \in 0..MaxTries
    BY ReplicaAssumption, SMT
  <2>3. c \in CallType /\ c.pc = "ended" /\ c.budget = call[k].budget /\ c.action = call[k].action
    BY <1>1, <2>2, Zenon DEF CallType
  <2>4. Continues(k, c, h)
    BY <2>3 DEF Continues
  <2> QED
    BY <2>1, <2>3, <2>4
<1> QED
  BY <1>2, <1>3

LEMMA UnansweredFacts ==
  ASSUME ReplicaInv, NEW k \in Call
  PROVE  /\ Unanswered(k) \in [Try -> HandlerType]
         /\ \A t \in Try : Unanswered(k)[t] \in {NoHandler, handler[k][t]}
  BY Blank DEF ReplicaInv, ReplicaTypeOK, Unanswered

\* A try that is under way belongs to a call about a budget.
LEMMA TryHasBudget ==
  ASSUME ReplicaInv, NEW k \in Call, NEW t \in Try, handler[k][t].pc # "none"
  PROVE  /\ call[k] \in CallType /\ call[k].budget \in Budget
         /\ handler[k] \in [Try -> HandlerType] /\ handler[k][t] \in HandlerType
<1>1. call[k] \in CallType /\ handler[k] \in [Try -> HandlerType]
  BY DEF ReplicaInv, ReplicaTypeOK
<1>2. call[k].budget # NoRow
  BY Blank DEF ReplicaInv, Quiet, About
<1>3. call[k].budget \in Budget \cup {NoRow}
  BY <1>1 DEF CallType
<1> QED
  BY <1>1, <1>2, <1>3

LEMMA AwaitedHasBudget ==
  ASSUME ReplicaInv, NEW k \in Call, call[k].pc = "waiting"
  PROVE  /\ call[k] \in CallType /\ call[k].budget \in Budget
         /\ call[k].try \in Try /\ handler[k] \in [Try -> HandlerType]
<1>1. call[k] \in CallType /\ handler[k] \in [Try -> HandlerType] /\ call[k].try \in Try
  BY DEF ReplicaInv, ReplicaTypeOK, Quiet
<1>2. call[k].budget # NoRow
  BY Blank DEF ReplicaInv, Quiet, About
<1>3. call[k].budget \in Budget \cup {NoRow}
  BY <1>1 DEF CallType
<1> QED
  BY <1>1, <1>2, <1>3

LEMMA AnsweredInv ==
  ASSUME ReplicaInv, NEW k \in Call, Answered(k)
  PROVE  ReplicaInv'
<1> DEFINE b == call[k].budget
           h == Unanswered(k)
<1>1. /\ call[k].pc = "waiting" /\ handler[k][call[k].try].pc = "done"
      /\ call' = Closed(k, h) /\ handler' = [handler EXCEPT ![k] = h]
      /\ known' = [known EXCEPT ![b] = IF @ = "sent" THEN "confirmed" ELSE @]
      /\ postgres' = postgres /\ object' = object
  BY DEF Answered
<1>2. b \in Budget /\ call[k].try \in Try
  BY <1>1, AwaitedHasBudget
<1>3. /\ h \in [Try -> HandlerType]
      /\ \A t \in Try : h[t] \in {NoHandler, handler[k][t]}
  BY UnansweredFacts
<1>4. PICK c \in CallType : Closed(k, h) = [call EXCEPT ![k] = c] /\ Continues(k, c, h)
  BY <1>2, <1>3, ClosedFacts
<1>5. /\ known' \in [Budget -> {"confirmed", "sent", "doubtful"}]
      /\ \A e \in Budget : known'[e] # known[e] => e = b /\ known[e] = "sent"
  BY <1>1, <1>2 DEF ReplicaInv, ReplicaTypeOK
<1>6. \A e \in Budget : Trusted(e)' => Trusted(e)
  BY <1>5 DEF Trusted
<1>7. \A e \in Budget : known'[e] = "confirmed" /\ known[e] # "confirmed" => object[e] = postgres[e]
  <2> SUFFICES ASSUME NEW e \in Budget, known'[e] = "confirmed", known[e] # "confirmed"
               PROVE  object[e] = postgres[e]
    OBVIOUS
  <2>1. e = b /\ Trusted(b)
    BY <1>5 DEF Trusted
  <2>2. Faithful(k)
    BY <1>2, <2>1 DEF ReplicaInv, TrustedCalls, About
  <2> QED
    BY <1>1, <1>2, <2>1, <2>2 DEF Faithful, Honest
<1>8. object' \in [Budget -> Row]
  BY <1>1 DEF ReplicaInv, ReplicaTypeOK
<1> HIDE DEF b, h
<1> QED
  BY <1>1, <1>3, <1>4, <1>5, <1>6, <1>7, <1>8, CallStep

LEMMA AbandonInv ==
  ASSUME ReplicaInv, NEW k \in Call, Abandon(k)
  PROVE  ReplicaInv'
<1> DEFINE h == Unanswered(k)
<1>1. /\ call[k].pc = "waiting" /\ call' = Closed(k, h) /\ handler' = [handler EXCEPT ![k] = h]
      /\ UNCHANGED <<postgres, object, known>>
  BY DEF Abandon
<1>2. call[k].budget \in Budget
  BY <1>1, AwaitedHasBudget
<1>3. /\ h \in [Try -> HandlerType]
      /\ \A t \in Try : h[t] \in {NoHandler, handler[k][t]}
  BY UnansweredFacts
<1>4. PICK c \in CallType : Closed(k, h) = [call EXCEPT ![k] = c] /\ Continues(k, c, h)
  BY <1>2, <1>3, ClosedFacts
<1>5. /\ known' \in [Budget -> {"confirmed", "sent", "doubtful"}]
      /\ object' \in [Budget -> Row] /\ \A e \in Budget : Trusted(e)' => Trusted(e)
  BY <1>1 DEF ReplicaInv, ReplicaTypeOK, Trusted
<1> HIDE DEF h
<1> QED
  BY <1>1, <1>3, <1>4, <1>5, CallStep

LEMMA RetryInv ==
  ASSUME ReplicaInv, NEW k \in Call, Retry(k)
  PROVE  ReplicaInv'
<1> DEFINE next == call[k].try + 1
           h == [Unanswered(k) EXCEPT ![next] = Begun]
           c == [call[k] EXCEPT !.try = next]
<1>1. /\ call[k].pc = "waiting" /\ call[k].try < MaxTries
      /\ call' = [call EXCEPT ![k] = c] /\ handler' = [handler EXCEPT ![k] = h]
      /\ UNCHANGED <<postgres, object, known>>
  BY DEF Retry
<1>2. call[k] \in CallType /\ call[k].budget \in Budget /\ call[k].try \in Try
  BY <1>1, AwaitedHasBudget
<1>3. next \in Try /\ next \in 0..MaxTries
  BY <1>1, <1>2, ReplicaAssumption, SMT DEF Try
<1>4. c \in CallType /\ c.budget = call[k].budget /\ c.action = call[k].action /\ c.try = next
  BY <1>2, <1>3, SMT DEF CallType
<1>5. Begun \in HandlerType /\ Begun.pc = "begun"
  BY Stages DEF Begun
<1>6. /\ h \in [Try -> HandlerType]
      /\ \A t \in Try : h[t] \in {NoHandler, handler[k][t]} \/ h[t] = Begun
  BY <1>3, <1>5, UnansweredFacts
<1>7. \A a, row, copy : Honest(Begun, a, row, copy)
  BY <1>5 DEF Honest
<1>8. Continues(k, c, h)
  BY <1>2, <1>3, <1>4 DEF Continues
<1>9. /\ known' \in [Budget -> {"confirmed", "sent", "doubtful"}]
      /\ object' \in [Budget -> Row] /\ \A e \in Budget : Trusted(e)' => Trusted(e)
  BY <1>1 DEF ReplicaInv, ReplicaTypeOK, Trusted
<1> HIDE DEF h, c, next
<1>10. \A b \in Budget : Trusted(b) /\ About(k, b) =>
         /\ object[b] = postgres[b] => object'[b] = postgres[b]
         /\ \A t \in Try : \/ h[t] \in {NoHandler, handler[k][t]}
                           \/ Honest(h[t], call[k].action, postgres[b], object'[b])
  BY <1>1, <1>6, <1>7
<1> QED
  BY <1>1, <1>4, <1>6, <1>8, <1>9, <1>10, CallStep

\* The end of a try nobody waits for, or that failed.
LEMMA EndsInv ==
  ASSUME ReplicaInv, NEW k \in Call, NEW t \in Try, handler[k][t].pc # "none",
         Ends(k, t), UNCHANGED <<postgres, known>>, object' \in [Budget -> Row],
         \A b \in Budget : ~About(k, b) => object'[b] = object[b],
         \A b \in Budget : Trusted(b) /\ About(k, b) /\ object[b] = postgres[b] =>
                             object'[b] = postgres[b]
  PROVE  ReplicaInv'
<1> DEFINE h == [handler[k] EXCEPT ![t] = NoHandler]
<1>1. /\ call[k] \in CallType /\ call[k].budget \in Budget
      /\ handler[k] \in [Try -> HandlerType]
  BY TryHasBudget
<1>2. /\ h \in [Try -> HandlerType]
      /\ \A u \in Try : h[u] \in {NoHandler, handler[k][u]}
  BY <1>1, Blank
<1>3. /\ handler' = [handler EXCEPT ![k] = h]
      /\ call' = IF call[k].pc = "ended" THEN Closed(k, h) ELSE call
  BY DEF Ends
<1> HIDE DEF h
<1>4. \A b \in Budget : Trusted(b) /\ About(k, b) =>
        /\ object[b] = postgres[b] => object'[b] = postgres[b]
        /\ \A u \in Try : \/ h[u] \in {NoHandler, handler[k][u]}
                          \/ Honest(h[u], call[k].action, postgres[b], object'[b])
  BY <1>2
<1>5. CASE call[k].pc = "ended"
  <2>1. PICK c \in CallType : Closed(k, h) = [call EXCEPT ![k] = c] /\ Continues(k, c, h)
    BY <1>1, <1>2, ClosedFacts
  <2>2. /\ known' \in [Budget -> {"confirmed", "sent", "doubtful"}]
        /\ \A e \in Budget : Trusted(e)' => Trusted(e)
    BY DEF ReplicaInv, ReplicaTypeOK, Trusted
  <2>3. call' = [call EXCEPT ![k] = c] /\ handler' = [handler EXCEPT ![k] = h]
    BY <1>3, <1>5, <2>1
  <2> QED
    BY <1>2, <1>4, <2>1, <2>2, <2>3, CallStep
<1>6. CASE call[k].pc # "ended"
  <2>1. UNCHANGED call /\ handler' = [handler EXCEPT ![k] = h]
    BY <1>3, <1>6
  <2> QED
    BY <1>1, <1>2, <1>4, <2>1, HandlerOnly
<1> QED
  BY <1>5, <1>6

LEMMA FailInv ==
  ASSUME ReplicaInv, NEW k \in Call, NEW t \in Try, Fail(k, t)
  PROVE  ReplicaInv'
<1>1. /\ handler[k][t].pc # "none" /\ Ends(k, t)
      /\ UNCHANGED <<postgres, object, known>>
  BY DEF Fail
<1>2. object' \in [Budget -> Row]
  BY <1>1 DEF ReplicaInv, ReplicaTypeOK
<1> QED
  BY <1>1, <1>2, EndsInv

\* A step of a handler that goes to another stage.
LEMMA StageInv ==
  ASSUME ReplicaInv, NEW k \in Call, NEW t \in Try, handler[k][t].pc # "none",
         NEW x \in HandlerType, handler' = [handler EXCEPT ![k] = [handler[k] EXCEPT ![t] = x]],
         UNCHANGED <<postgres, call, known>>,
         object' \in [Budget -> Row],
         \A b \in Budget : ~About(k, b) => object'[b] = object[b],
         \A b \in Budget : Trusted(b) /\ About(k, b) =>
           /\ object[b] = postgres[b] => object'[b] = postgres[b]
           /\ Honest(x, call[k].action, postgres[b], object'[b])
  PROVE  ReplicaInv'
<1> DEFINE h == [handler[k] EXCEPT ![t] = x]
<1>1. call[k].budget \in Budget /\ handler[k] \in [Try -> HandlerType]
  BY TryHasBudget
<1>2. h \in [Try -> HandlerType] /\ \A u \in Try : h[u] = handler[k][u] \/ h[u] = x
  BY <1>1
<1>3. \A b \in Budget : Trusted(b) /\ About(k, b) =>
        /\ object[b] = postgres[b] => object'[b] = postgres[b]
        /\ \A u \in Try : \/ h[u] \in {NoHandler, handler[k][u]}
                          \/ Honest(h[u], call[k].action, postgres[b], object'[b])
  BY <1>2
<1>4. handler' = [handler EXCEPT ![k] = h]
  OBVIOUS
<1> HIDE DEF h
<1> QED
  BY <1>1, <1>2, <1>3, <1>4, HandlerOnly

LEMMA GoesFacts ==
  ASSUME ReplicaInv, NEW k \in Call, NEW t \in Try,
         NEW pc \in {"none", "begun", "read", "upserted", "changed", "done"}, Goes(k, t, pc)
  PROVE  handler' = [handler EXCEPT ![k] = [handler[k] EXCEPT ![t] = [NoHandler EXCEPT !.pc = pc]]]
  BY DEF ReplicaInv, ReplicaTypeOK, Goes

\* A try that has seen the change through has nothing to say but that the object agrees.
LEMMA ChangedIsHonest ==
  ASSUME NEW pc \in {"changed", "done"}, NEW a, NEW row
  PROVE  Honest([NoHandler EXCEPT !.pc = pc], a, row, row)
  BY Stages DEF Honest

LEMMA RemoveBudgetInv ==
  ASSUME ReplicaInv, NEW k \in Call, NEW t \in Try, RemoveBudget(k, t)
  PROVE  ReplicaInv'
<1> DEFINE x == [NoHandler EXCEPT !.pc = "changed"]
<1>1. /\ handler[k][t].pc = "begun" /\ call[k].action = "remove"
      /\ object' = [object EXCEPT ![call[k].budget] = NoRow]
      /\ Goes(k, t, "changed") /\ UNCHANGED <<postgres, call, known>>
  BY DEF RemoveBudget, At
<1>2. handler' = [handler EXCEPT ![k] = [handler[k] EXCEPT ![t] = x]] /\ x \in HandlerType
  BY <1>1, GoesFacts, Stages
<1>3. /\ object' \in [Budget -> Row]
      /\ \A b \in Budget : IF About(k, b) THEN object'[b] = NoRow ELSE object'[b] = object[b]
  BY <1>1, Blank DEF ReplicaInv, ReplicaTypeOK, About
<1>4. \A b \in Budget : Trusted(b) /\ About(k, b) => postgres[b] = NoRow
  BY <1>1 DEF ReplicaInv, TrustedCalls, Faithful, Serves, About
<1>5. \A b \in Budget : Trusted(b) /\ About(k, b) =>
        /\ object'[b] = postgres[b]
        /\ Honest(x, call[k].action, postgres[b], object'[b])
  BY <1>3, <1>4, ChangedIsHonest
<1> HIDE DEF x
<1> QED
  BY <1>1, <1>2, <1>3, <1>5, StageInv

LEMMA ResetSpendInv ==
  ASSUME ReplicaInv, NEW k \in Call, NEW t \in Try, ResetSpend(k, t)
  PROVE  ReplicaInv'
<1> DEFINE x == [NoHandler EXCEPT !.pc = "changed"]
<1>1. /\ handler[k][t].pc = "begun" /\ call[k].action = "reset_spend"
      /\ Goes(k, t, "changed") /\ UNCHANGED <<postgres, object, call, known>>
  BY DEF ResetSpend, At
<1>2. handler' = [handler EXCEPT ![k] = [handler[k] EXCEPT ![t] = x]] /\ x \in HandlerType
  BY <1>1, GoesFacts, Stages
<1>3. object' \in [Budget -> Row]
  BY <1>1 DEF ReplicaInv, ReplicaTypeOK
<1>4. \A b \in Budget : Trusted(b) /\ About(k, b) => object[b] = postgres[b]
  BY <1>1 DEF ReplicaInv, TrustedCalls, Faithful, Serves, About
<1>5. \A b \in Budget : Trusted(b) /\ About(k, b) =>
        Honest(x, call[k].action, postgres[b], object'[b])
  BY <1>1, <1>4, ChangedIsHonest
<1> HIDE DEF x
<1> QED
  BY <1>1, <1>2, <1>3, <1>5, StageInv

LEMMA LookupBudgetsInv ==
  ASSUME ReplicaInv, NEW k \in Call, NEW t \in Try, LookupBudgetsForDO(k, t)
  PROVE  ReplicaInv'
<1> DEFINE x == [pc |-> "read", seen |-> postgres[call[k].budget]]
<1>1. /\ handler[k][t].pc = "begun" /\ call[k].action = "sync"
      /\ handler' = [handler EXCEPT ![k][t] = x]
      /\ UNCHANGED <<postgres, object, call, known>>
  BY DEF LookupBudgetsForDO, At
<1>2. call[k].budget \in Budget
  BY <1>1, TryHasBudget
<1>3. x \in HandlerType /\ x.pc = "read" /\ x.seen = postgres[call[k].budget]
  BY <1>2, SMT DEF ReplicaInv, ReplicaTypeOK, HandlerType
<1>4. /\ object' \in [Budget -> Row]
      /\ handler' = [handler EXCEPT ![k] = [handler[k] EXCEPT ![t] = x]]
  BY <1>1 DEF ReplicaInv, ReplicaTypeOK
<1>5. \A b \in Budget : Trusted(b) /\ About(k, b) =>
        Honest(x, call[k].action, postgres[b], object'[b])
  BY <1>1, <1>3 DEF Honest, About
<1> HIDE DEF x
<1> QED
  BY <1>1, <1>3, <1>4, <1>5, StageInv

LEMMA UpsertInv ==
  ASSUME ReplicaInv, NEW k \in Call, NEW t \in Try, Upsert(k, t)
  PROVE  ReplicaInv'
<1> DEFINE seen == handler[k][t].seen
           b == call[k].budget
<1>1. /\ handler[k][t].pc = "read" /\ UNCHANGED <<postgres, call, known>>
      /\ object' = IF seen = NoRow THEN object ELSE [object EXCEPT ![b] = seen]
      /\ IF seen = NoRow THEN Goes(k, t, "changed")
         ELSE handler' = [handler EXCEPT ![k][t].pc = "upserted"]
  BY DEF Upsert, At
<1>2. b \in Budget /\ handler[k] \in [Try -> HandlerType] /\ handler[k][t] \in HandlerType
  BY <1>1, TryHasBudget
<1>3. seen \in Row
  BY <1>2 DEF HandlerType
<1>4. Trusted(b) => call[k].action = "sync" /\ seen = postgres[b] /\ postgres[b] # NoRow
  BY <1>1, <1>2 DEF ReplicaInv, TrustedCalls, Faithful, Honest, Serves, About
<1>5. CASE seen = NoRow
  <2> DEFINE x == [NoHandler EXCEPT !.pc = "changed"]
  <2>1. handler' = [handler EXCEPT ![k] = [handler[k] EXCEPT ![t] = x]] /\ x \in HandlerType
    BY <1>1, <1>5, GoesFacts, Stages
  <2>2. object' = object /\ object' \in [Budget -> Row]
    BY <1>1, <1>5 DEF ReplicaInv, ReplicaTypeOK
  <2>3. \A e \in Budget : ~(Trusted(e) /\ About(k, e))
    BY <1>4, <1>5 DEF About
  <2> HIDE DEF x
  <2> QED
    BY <1>1, <2>1, <2>2, <2>3, StageInv
<1>6. CASE seen # NoRow
  <2> DEFINE x == [handler[k][t] EXCEPT !.pc = "upserted"]
  <2>1. handler' = [handler EXCEPT ![k] = [handler[k] EXCEPT ![t] = x]]
    BY <1>1, <1>6 DEF ReplicaInv, ReplicaTypeOK
  <2>2. x \in HandlerType /\ x.pc = "upserted" /\ x.seen = seen
    BY <1>2, SMT DEF HandlerType
  <2>3. /\ object' \in [Budget -> Row]
        /\ \A e \in Budget : IF About(k, e) THEN object'[e] = seen ELSE object'[e] = object[e]
    BY <1>1, <1>2, <1>3, <1>6 DEF ReplicaInv, ReplicaTypeOK, About
  <2>4. \A e \in Budget : Trusted(e) /\ About(k, e) =>
          /\ object'[e] = postgres[e]
          /\ Honest(x, call[k].action, postgres[e], object'[e])
    BY <1>4, <2>2, <2>3 DEF Honest, About
  <2> HIDE DEF x
  <2> QED
    BY <1>1, <2>1, <2>2, <2>3, <2>4, StageInv
<1> QED
  BY <1>5, <1>6

LEMMA ConcludeInv ==
  ASSUME ReplicaInv, NEW k \in Call, NEW t \in Try, Conclude(k, t)
  PROVE  ReplicaInv'
<1> DEFINE b == call[k].budget
           missing == At(k, t, "upserted") /\ object[b] = NoRow
<1>1. /\ handler[k][t].pc \in {"upserted", "changed"} /\ UNCHANGED <<postgres, known>>
      /\ object' = IF missing THEN [object EXCEPT ![b] = handler[k][t].seen] ELSE object
      /\ IF Awaited(k, t) THEN Goes(k, t, "done") /\ UNCHANGED call ELSE Ends(k, t)
  BY DEF Conclude, At
<1>2. b \in Budget /\ handler[k][t] \in HandlerType
  BY <1>1, TryHasBudget
<1>3. handler[k][t].seen \in Row
  BY <1>2 DEF HandlerType
<1>4. Trusted(b) => /\ object[b] = postgres[b]
                    /\ missing => handler[k][t].seen = postgres[b]
  BY <1>1, <1>2 DEF ReplicaInv, TrustedCalls, Faithful, Honest, About, At
<1>5. /\ object' \in [Budget -> Row]
      /\ \A e \in Budget : ~About(k, e) => object'[e] = object[e]
      /\ \A e \in Budget : Trusted(e) /\ About(k, e) => object'[e] = postgres[e]
  BY <1>1, <1>2, <1>3, <1>4 DEF ReplicaInv, ReplicaTypeOK, About
<1>6. CASE Awaited(k, t)
  <2> DEFINE x == [NoHandler EXCEPT !.pc = "done"]
  <2>1. handler' = [handler EXCEPT ![k] = [handler[k] EXCEPT ![t] = x]] /\ x \in HandlerType
    BY <1>1, <1>6, GoesFacts, Stages
  <2>2. \A e \in Budget : Trusted(e) /\ About(k, e) =>
          Honest(x, call[k].action, postgres[e], object'[e])
    BY <1>5, ChangedIsHonest
  <2>3. UNCHANGED call
    BY <1>1, <1>6
  <2> HIDE DEF x
  <2> QED
    BY <1>1, <1>5, <2>1, <2>2, <2>3, StageInv
<1>7. CASE ~Awaited(k, t)
  BY <1>1, <1>5, <1>7, EndsInv
<1> QED
  BY <1>6, <1>7

\* A change that is doubtful leaves nothing to show for its budget; any other one is alone.
LEMMA ChangeInvariant ==
  ASSUME ReplicaInv, NEW k \in Call, NEW b \in Budget,
         NEW action \in {"sync", "remove", "reset_spend"}, NEW row \in Row,
         action = "sync" => row # NoRow,
         action = "remove" => row = NoRow,
         action = "reset_spend" => row = postgres[b],
         Change(k, b, action, row)
  PROVE  ReplicaInv'
<1> DEFINE c == [pc |-> "waiting", action |-> action, budget |-> b, try |-> 1]
           h == [t \in Try |-> IF t = 1 THEN Begun ELSE NoHandler]
<1>1. /\ call[k] = NoCall /\ object' = object
      /\ postgres' = [postgres EXCEPT ![b] = row]
      /\ call' = [call EXCEPT ![k] = c] /\ handler' = [handler EXCEPT ![k] = h]
      /\ known' = [known EXCEPT ![b] = IF Doubtful(b, action) THEN "doubtful" ELSE "sent"]
  BY DEF Change
<1>2. 1 \in Try /\ 1 \in 0..MaxTries
  BY ReplicaAssumption, SMT DEF Try
<1>3. c \in CallType /\ c.pc = "waiting" /\ c.action = action /\ c.budget = b /\ c.try = 1
  BY <1>2, SMT DEF CallType
<1>4. Begun \in HandlerType /\ Begun.pc = "begun"
  BY Stages DEF Begun
<1>5. h \in [Try -> HandlerType] /\ \A t \in Try : h[t] \in {Begun, NoHandler}
  BY <1>4, Blank
<1>6. \A t \in Try : \A a, p, o : Honest(h[t], a, p, o)
  BY <1>4, <1>5, Blank DEF Honest
<1> HIDE DEF c, h
<1>7. ReplicaTypeOK'
  BY <1>1, <1>3, <1>5 DEF ReplicaInv, ReplicaTypeOK
<1>8. /\ call'[k] = c /\ handler'[k] = h
      /\ \A j \in Call : j # k => call'[j] = call[j] /\ handler'[j] = handler[j]
      /\ postgres'[b] = row /\ \A e \in Budget : e # b => postgres'[e] = postgres[e]
      /\ known'[b] = IF Doubtful(b, action) THEN "doubtful" ELSE "sent"
      /\ \A e \in Budget : e # b => known'[e] = known[e]
  BY <1>1 DEF ReplicaInv, ReplicaTypeOK
<1>9. Quiet'
  <2> SUFFICES ASSUME NEW j \in Call
               PROVE  /\ About(j, NoRow)' => call'[j] = NoCall /\ \A t \in Try : handler'[j][t] = NoHandler
                      /\ call'[j].pc = "waiting" => call'[j].try \in Try
    BY DEF Quiet
  <2>1. CASE j # k
    BY <1>8, <2>1 DEF ReplicaInv, Quiet, About
  <2>2. CASE j = k
    BY <1>2, <1>3, <1>8, <2>2, Blank DEF About
  <2> QED
    BY <2>1, <2>2
<1>10. Trusted(b)' => /\ \A j \in Call : ~About(j, b)
                      /\ action = "reset_spend" => object[b] = postgres[b]
  BY <1>8 DEF Trusted, Doubtful, UnderWay, About, ReplicaInv, ConfirmedIsEnforced
<1>11. \A e \in Budget : e # b => (Trusted(e)' <=> Trusted(e))
  BY <1>8 DEF Trusted
<1>12. \A e \in Budget, j \in Call : About(j, e)' <=> IF j = k THEN e = b ELSE About(j, e)
  BY <1>3, <1>8 DEF About
<1>13. \A e \in Budget : ~About(k, e)
  BY <1>1, Blank DEF About
<1>14. Alone'
  BY <1>10, <1>11, <1>12, <1>13 DEF ReplicaInv, Alone
<1>15. TrustedCalls'
  <2> SUFFICES ASSUME NEW e \in Budget, NEW j \in Call, Trusted(e)', About(j, e)'
               PROVE  Faithful(j)'
    BY DEF TrustedCalls
  <2>1. CASE j = k
    <3>1. e = b
      BY <1>12, <2>1
    <3>2. Serves(action, row, object[b])
      BY <1>10, <3>1 DEF Serves
    <3> QED
      BY <1>1, <1>3, <1>6, <1>8, <2>1, <3>1, <3>2 DEF Faithful
  <2>2. CASE j # k
    <3>1. About(j, e) /\ e # b
      BY <1>10, <1>12, <2>2
    <3>2. Faithful(j)
      BY <1>11, <3>1 DEF ReplicaInv, TrustedCalls
    <3> QED
      BY <1>1, <1>8, <2>2, <3>1, <3>2 DEF Faithful, About
  <2> QED
    BY <2>1, <2>2
<1>16. ConfirmedIsEnforced'
  BY <1>1, <1>8 DEF ReplicaInv, ConfirmedIsEnforced
<1> QED
  BY <1>7, <1>9, <1>14, <1>15, <1>16 DEF ReplicaInv

LEMMA DashboardInv ==
  ASSUME ReplicaInv, DashboardChange
  PROVE  ReplicaInv'
<1>1. PICK k \in Call, b \in Budget :
        (\E m \in Limits : SetBudget(k, b, m)) \/ DeleteBudget(k, b) \/ ResetBudget(k, b)
  BY DEF DashboardChange
<1>2. CASE \E m \in Limits : SetBudget(k, b, m)
  BY <1>2, ReplicaAssumption, ChangeInvariant DEF SetBudget, Row
<1>3. CASE DeleteBudget(k, b)
  BY <1>3, Blank, ChangeInvariant DEF DeleteBudget
<1>4. CASE ResetBudget(k, b)
  <2>1. postgres[b] \in Row
    BY DEF ReplicaInv, ReplicaTypeOK
  <2> QED
    BY <1>4, <2>1, ChangeInvariant DEF ResetBudget
<1> QED
  BY <1>1, <1>2, <1>3, <1>4

LEMMA QuietlyInv ==
  ASSUME ReplicaInv, Quietly
  PROVE  ReplicaInv'
<1>1. PICK k \in Call :
        Answered(k) \/ Retry(k) \/ Abandon(k) \/ \E t \in Try : HandlerStep(k, t)
  BY DEF Quietly
<1>2. CASE Answered(k) \/ Retry(k) \/ Abandon(k)
  BY <1>2, AnsweredInv, RetryInv, AbandonInv
<1>3. CASE \E t \in Try : HandlerStep(k, t)
  BY <1>3, RemoveBudgetInv, ResetSpendInv, LookupBudgetsInv, UpsertInv, FailInv DEF HandlerStep
<1> QED
  BY <1>1, <1>2, <1>3

LEMMA ReplicaStutter ==
  ASSUME ReplicaInv, UNCHANGED replicaVars
  PROVE  ReplicaInv'
  BY DEF ReplicaInv, replicaVars, ReplicaTypeOK, Quiet, Alone, TrustedCalls, Faithful, About,
         Trusted, ConfirmedIsEnforced

-----------------------------------------------------------------------------
(* Both together.                                                            *)

\* An identity that was asked for after the last change of hasBudgets says what is there.
ToldInv ==
  told =>
    /\ \A r \in Request : request[r].pc = "read" => request[r].has = hasBudgets
    /\ positive.left > 0 => positive.has = hasBudgets

EnforcementInv ==
  /\ ReplicaInv /\ KeyInv /\ told \in BOOLEAN
  /\ hasBudgets = HasBudgets
  /\ ToldInv

\* What each step is to the key cache.
LEMMA KeyStep ==
  ASSUME [Next]_vars
  PROVE  [KeyNext]_keyVars
<1>1. CASE Edit
  <2>1. HasBudgets' \in BOOLEAN
    BY DEF HasBudgets
  <2> QED
    BY <1>1, <2>1 DEF Edit, KeyNext
<1>2. CASE Carry
  BY <1>2 DEF Carry
<1>3. CASE Isolate
  BY <1>3 DEF Isolate, KeyNext
<1>4. CASE \E k \in Call, t \in Try : ConcludeHere(k, t) \/ ConcludeElsewhere(k, t)
  BY <1>4 DEF ConcludeHere, ConcludeElsewhere, KeyNext
<1>5. CASE \E r \in Request : AuthenticateHere(r)
  BY <1>5 DEF AuthenticateHere, KeyNext
<1>6. CASE UNCHANGED vars
  BY <1>6 DEF vars
<1> QED
  BY <1>1, <1>2, <1>3, <1>4, <1>5, <1>6 DEF Next

\* What each step is to the replica.
LEMMA ReplicaStep ==
  ASSUME ReplicaInv, [Next]_vars
  PROVE  ReplicaInv'
<1>1. CASE Edit
  BY <1>1, DashboardInv DEF Edit
<1>2. CASE Carry
  BY <1>2, QuietlyInv DEF Carry
<1>3. CASE \E k \in Call, t \in Try : ConcludeHere(k, t) \/ ConcludeElsewhere(k, t)
  BY <1>3, ConcludeInv DEF ConcludeHere, ConcludeElsewhere
<1>4. CASE Isolate \/ (\E r \in Request : AuthenticateHere(r)) \/ UNCHANGED vars
  BY <1>4, ReplicaStutter DEF Isolate, AuthenticateHere, vars
<1> QED
  BY <1>1, <1>2, <1>3, <1>4 DEF Next

\* Only changes on the dashboard touch the table.
LEMMA TableStep ==
  ASSUME hasBudgets = HasBudgets, [Next]_vars
  PROVE  hasBudgets' = HasBudgets'
<1>1. CASE Edit
  BY <1>1 DEF Edit, ChangeBudgets
<1>2. CASE Carry
  <2>1. postgres' = postgres
    BY <1>2 DEF Carry, Quietly, Answered, Retry, Abandon, HandlerStep, RemoveBudget, ResetSpend,
                LookupBudgetsForDO, Upsert, Fail
  <2> QED
    BY <1>2, <2>1 DEF Carry, keyVars, HasBudgets
<1>3. CASE \E k \in Call, t \in Try : ConcludeHere(k, t) \/ ConcludeElsewhere(k, t)
  BY <1>3 DEF ConcludeHere, ConcludeElsewhere, Conclude, InvalidateAuthCacheForOwner, keyVars,
              HasBudgets
<1>4. CASE Isolate
  BY <1>4 DEF Isolate, replicaVars, Evict, Recycle, Revoke, Tick, HasBudgets
<1>5. CASE \E r \in Request : AuthenticateHere(r)
  BY <1>5 DEF AuthenticateHere, replicaVars, Authenticate, Miss, LookupKeyInDb, LookupFails, Store,
              HasBudgets
<1>6. CASE UNCHANGED vars
  BY <1>6 DEF vars, replicaVars, keyVars, HasBudgets
<1> QED
  BY <1>1, <1>2, <1>3, <1>4, <1>5, <1>6 DEF Next

LEMMA ToldStep ==
  ASSUME EnforcementInv, [Next]_vars
  PROVE  ToldInv'
<1>1. /\ request \in [Request -> RequestType] /\ positive \in [left : 0..PosMax, has : BOOLEAN]
  BY DEF EnforcementInv, KeyInv, KeyTypeOK
<1>2. CASE Edit
  <2>1. UNCHANGED <<positive, request>> /\ told' = (told /\ hasBudgets' = hasBudgets)
    BY <1>2 DEF Edit, ChangeBudgets, cacheVars
  <2> QED
    BY <2>1 DEF EnforcementInv, ToldInv
<1>3. CASE Carry \/ (\E k \in Call, t \in Try : ConcludeElsewhere(k, t)) \/ UNCHANGED vars
  <2>1. UNCHANGED <<positive, request, hasBudgets, told>>
    BY <1>3 DEF Carry, ConcludeElsewhere, vars, keyVars, cacheVars
  <2> QED
    BY <2>1 DEF EnforcementInv, ToldInv
<1>4. CASE \E k \in Call, t \in Try : ConcludeHere(k, t)
  <2>1. /\ positive'.left = 0 /\ UNCHANGED <<request, hasBudgets>>
        /\ told' = (told \/ ~StaleLookup)
    BY <1>4, NoEntryFacts DEF ConcludeHere, InvalidateAuthCacheForOwner
  <2>2. \A r \in Request : told' /\ request[r].pc = "read" => request[r].has = hasBudgets
    BY <2>1 DEF EnforcementInv, ToldInv, StaleLookup
  <2> QED
    BY <2>1, <2>2 DEF ToldInv
<1>5. CASE Isolate
  <2>1. told' = told /\ hasBudgets' = hasBudgets
    BY <1>5 DEF Isolate, Evict, Recycle, Revoke, Tick
  <2>2. \A r \in Request : request'[r].pc = "read" =>
          request[r].pc = "read" /\ request'[r].has = request[r].has
    <3>1. CASE Tick
      <4> SUFFICES ASSUME NEW r \in Request, request'[r].pc = "read"
                   PROVE  request[r].pc = "read" /\ request'[r].has = request[r].has
        OBVIOUS
      <4>1. request'[r] = IF request[r].pc = "idle" THEN Idle
                          ELSE [request[r] EXCEPT !.age = Older(@)]
        BY <3>1 DEF Tick
      <4> QED
        BY <1>1, <4>1, IdleFacts, SMT DEF RequestType
    <3>2. CASE Recycle
      BY <3>2, IdleFacts DEF Recycle
    <3>3. CASE Evict \/ Revoke
      BY <3>3 DEF Evict, Revoke, cacheVars
    <3> QED
      BY <1>5, <3>1, <3>2, <3>3 DEF Isolate
  <2>3. positive'.left > 0 => positive.left > 0 /\ positive'.has = positive.has
    <3>1. CASE Tick
      <4>1. positive' = IF positive.left > 1 THEN [positive EXCEPT !.left = @ - 1] ELSE NoEntry
        BY <3>1 DEF Tick
      <4> QED
        BY <1>1, <4>1, NoEntryFacts, SMT
    <3>2. CASE Recycle \/ Evict \/ Revoke
      BY <3>2, NoEntryFacts, SMT DEF Recycle, Evict, Revoke, cacheVars
    <3> QED
      BY <1>5, <3>1, <3>2 DEF Isolate
  <2> QED
    BY <2>1, <2>2, <2>3 DEF EnforcementInv, ToldInv
<1>6. CASE \E r \in Request : AuthenticateHere(r)
  <2>1. PICK r \in Request : AuthenticateHere(r)
    BY <1>6
  <2>2. told' = told /\ hasBudgets' = hasBudgets
    BY <2>1 DEF AuthenticateHere, Authenticate, Miss, LookupKeyInDb, LookupFails, Store
  <2>3. CASE Miss(r) \/ LookupFails(r)
    <3>1. \A p \in Request : request'[p].pc = "read" => request'[p] = request[p]
      BY <1>1, <2>3, IdleFacts, SMT DEF Miss, LookupFails, RequestType
    <3>2. UNCHANGED positive
      BY <2>3 DEF Miss, LookupFails
    <3> QED
      BY <2>2, <3>1, <3>2 DEF EnforcementInv, ToldInv
  <2>4. CASE LookupKeyInDb(r)
    <3> DEFINE q == [request[r] EXCEPT !.pc = "read", !.valid = ~revoked, !.has = hasBudgets]
    <3>1. request' = [request EXCEPT ![r] = q] /\ UNCHANGED positive
      BY <2>4 DEF LookupKeyInDb
    <3>2. revoked \in BOOLEAN /\ hasBudgets \in BOOLEAN
      BY DEF EnforcementInv, KeyInv, KeyTypeOK
    <3>3. q.has = hasBudgets
      BY <1>1, <3>2, Zenon DEF RequestType
    <3> HIDE DEF q
    <3>4. \A p \in Request : request'[p] = request[p] \/ request'[p].has = hasBudgets
      BY <1>1, <3>1, <3>3
    <3> QED
      BY <2>2, <3>1, <3>4 DEF EnforcementInv, ToldInv
  <2>5. CASE Store(r)
    <3>1. request[r].pc = "read" /\ request' = [request EXCEPT ![r] = Idle]
      BY <2>5 DEF Store
    <3>2. \A p \in Request : request'[p].pc = "read" => request'[p] = request[p]
      BY <1>1, <3>1, IdleFacts
    <3>3. positive' = positive \/ positive'.has = request[r].has
      BY <2>5 DEF Store
    <3> QED
      BY <2>2, <3>1, <3>2, <3>3 DEF EnforcementInv, ToldInv
  <2> QED
    BY <2>1, <2>3, <2>4, <2>5 DEF AuthenticateHere, Authenticate
<1> QED
  BY <1>2, <1>3, <1>4, <1>5, <1>6 DEF Next

LEMMA EnforcementInit == Init => EnforcementInv
<1> SUFFICES ASSUME Init PROVE EnforcementInv
  OBVIOUS
<1>1. ReplicaInv /\ KeyInv
  BY ReplicaInitInv, KeyInitInv DEF Init
<1>2. hasBudgets = HasBudgets
  BY DEF Init, ReplicaInit, KeyInit, HasBudgets
<1> QED
  BY <1>1, <1>2 DEF Init, EnforcementInv, ToldInv

LEMMA EnforcementStep == EnforcementInv /\ [Next]_vars => EnforcementInv'
<1> SUFFICES ASSUME EnforcementInv, [Next]_vars PROVE EnforcementInv'
  OBVIOUS
<1>1. ReplicaInv' /\ KeyInv'
  BY ReplicaStep, KeyStep, KeyStepInv DEF EnforcementInv
<1>2. hasBudgets' = HasBudgets' /\ ToldInv'
  BY TableStep, ToldStep DEF EnforcementInv
<1>3. told' \in BOOLEAN
  BY DEF EnforcementInv, Next, Edit, Carry, Isolate, ConcludeHere, ConcludeElsewhere,
         AuthenticateHere, vars
<1> QED
  BY <1>1, <1>2, <1>3 DEF EnforcementInv

LEMMA EnforcementInductive == Spec => []EnforcementInv
  BY EnforcementInit, EnforcementStep, PTL DEF Spec

\* The tables, the calls, their tries and the caches keep their types, and no call is tried
\* more than MAX_RETRIES times again.
THEOREM EnforcementTyped == Spec => []TypeOK
<1>1. EnforcementInv => TypeOK
  BY DEF EnforcementInv, ReplicaInv, KeyInv, TypeOK
<1> QED
  BY <1>1, EnforcementInductive, PTL

\* Whatever tries of invalidateProxyCache are late, lost or run twice, the budget object has
\* the limits of Postgres for every budget whose last change was confirmed on its own.
THEOREM ConfirmedHolds == Spec => []ConfirmedIsEnforced
<1>1. EnforcementInv => ConfirmedIsEnforced
  BY DEF EnforcementInv, ReplicaInv
<1> QED
  BY <1>1, EnforcementInductive, PTL

\* What happens to budgets is, for the key cache of an isolate, nothing it does not expect:
\* the theorems about KeySpec hold of it here.
THEOREM KeyCacheImplemented == Spec => KeySpec
<1>1. Init => KeyInit
  BY DEF Init
<1>2. [Next]_vars => [KeyNext]_keyVars
  BY KeyStep
<1> QED
  BY <1>1, <1>2, PTL DEF Spec, KeySpec

\* Whatever happens to budgets and to calls, a cache bounds revocation and oversight by PosMax,
\* and rejects no key that is good.
THEOREM CachesStayBounded == Spec => [](RevocationBound /\ SkipBound /\ RejectsOnlyRevoked)
<1>1. KeyInv => RevocationBound /\ SkipBound /\ RejectsOnlyRevoked
  BY DEF KeyInv
<1> QED
  BY <1>1, KeyCacheImplemented, KeyInductive, PTL

\* A request of an isolate that had PosMax to forget, or was told by handleBudgetInvalidation
\* while no lookup held an older answer, is judged by the limits of Postgres.
THEOREM ChangesAreEnforced == Spec => []Enforced
<1>1. EnforcementInv => Enforced
  <2> SUFFICES ASSUME EnforcementInv, hasBudgets, sinceNone = PosMax \/ told,
                      NEW b \in Budget, known[b] = "confirmed"
               PROVE  Limit(b) = postgres[b]
    BY DEF Enforced
  <2>1. object[b] = postgres[b]
    BY DEF EnforcementInv, ReplicaInv, ConfirmedIsEnforced
  <2>2. positive \in [left : 0..PosMax, has : BOOLEAN]
    BY DEF EnforcementInv, KeyInv, KeyTypeOK
  <2>3. CASE sinceNone = PosMax
    <3>1. positive.left > 0 /\ ~positive.has => sinceNone + positive.left <= PosMax
      BY DEF EnforcementInv, KeyInv, SkipBound
    <3>2. ~(positive.left > 0 /\ ~positive.has)
      BY <2>2, <2>3, <3>1, KeyCacheAssumption, SMT
    <3> QED
      BY <2>1, <3>2 DEF Limit
  <2>4. CASE told
    <3>1. ~(positive.left > 0 /\ ~positive.has)
      BY <2>4 DEF EnforcementInv, ToldInv
    <3> QED
      BY <2>1, <3>1 DEF Limit
  <2> QED
    BY <2>3, <2>4
<1> QED
  BY <1>1, EnforcementInductive, PTL

=============================================================================
