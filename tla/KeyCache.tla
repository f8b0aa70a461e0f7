------------------------------- MODULE KeyCache -------------------------------
(***************************************************************************)
(* authenticateApiKey of the proxy (apps/proxy/src/lib/api-key-auth.ts):   *)
(* what one isolate remembers of one API key, while the key is revoked and *)
(* the budgets of its organisation come and go in Postgres.                *)
(*                                                                         *)
(* Times are relative: left is expiresAt - now, and an entry with nothing  *)
(* left is one that is not there, since the code deletes it when it looks. *)
(***************************************************************************)
EXTENDS Integers, FiniteSets

CONSTANTS
  Request,     \* requests in flight at the isolate
  PosMin,      \* shortest and longest life of a positive entry: POSITIVE_TTL_MS
  PosMax,      \*   with its jitter
  NegTTL       \* NEGATIVE_TTL_MS

ASSUME KeyCacheAssumption ==
  /\ PosMin \in Nat /\ PosMax \in Nat \ {0} /\ PosMin <= PosMax
  /\ NegTTL \in Nat \ {0}

VARIABLES
  revoked,     \* api_keys.revoked_at is set
  sinceRevoked,\* history: for how long, counted up to PosMax
  hasBudgets,  \* the organisation has a row in budgets
  sinceNone,   \* history: for how long it has had one, counted up to PosMax
  positive,    \* positiveCache: [left, has], has the remembered has_budgets
  negative,    \* negativeCache: what is left of the entry
  request      \* requests waiting for lookupKeyInDb

cacheVars == <<positive, negative, request>>
timeVars == <<sinceRevoked, sinceNone>>
keyVars == <<revoked, hasBudgets, timeVars, cacheVars>>

Earlier(s, t) == IF s < t THEN s ELSE t

Idle == [pc |-> "idle", age |-> 0, valid |-> FALSE, has |-> FALSE]
NoEntry == [left |-> 0, has |-> FALSE]

KeyInit ==
  /\ revoked = FALSE /\ sinceRevoked = 0
  /\ hasBudgets = FALSE /\ sinceNone = 0
  /\ positive = NoEntry
  /\ negative = 0
  /\ request = [r \in Request |-> Idle]

-----------------------------------------------------------------------------

\* Neither cache answers: now is taken, and the query sent.
Miss(r) ==
  /\ request[r].pc = "idle"
  /\ positive.left = 0 /\ negative = 0
  /\ request' = [request EXCEPT ![r].pc = "asking"]
  /\ UNCHANGED <<revoked, hasBudgets, timeVars, positive, negative>>

\* Postgres runs the query: one row for a key that is not revoked, with has_budgets.
LookupKeyInDb(r) ==
  /\ request[r].pc = "asking"
  /\ request' = [request EXCEPT ![r].pc = "read", ![r].valid = ~revoked, ![r].has = hasBudgets]
  /\ UNCHANGED <<revoked, hasBudgets, timeVars, positive, negative>>

\* Faulty: a query that failed is remembered like a key that was not found.
FailAsNotFound(r) ==
  /\ request[r].pc \in {"asking", "read"}
  /\ request' = [request EXCEPT ![r] = Idle]
  /\ negative' = NegTTL
  /\ UNCHANGED <<revoked, hasBudgets, timeVars, positive>>

\* The query, or its answer, fails: an exception, and nothing is remembered.
LookupFails(r) ==
  /\ request[r].pc \in {"asking", "read"}
  /\ request' = [request EXCEPT ![r] = Idle]
  /\ UNCHANGED <<revoked, hasBudgets, timeVars, positive, negative>>

Remaining(ttl, age) == IF age < ttl THEN ttl - age ELSE 0

\* Faulty: the entry lives from the moment it is stored.
StoreFromNow(r) ==
  /\ request[r].pc = "read"
  /\ request' = [request EXCEPT ![r] = Idle]
  /\ IF request[r].valid
     THEN /\ \E ttl \in PosMin..PosMax : positive' = [left |-> ttl, has |-> request[r].has]
          /\ UNCHANGED negative
     ELSE negative' = NegTTL /\ UNCHANGED positive
  /\ UNCHANGED <<revoked, hasBudgets, timeVars>>

\* The answer arrives.  expiresAt counts from the now of Miss, before the query.
Store(r) ==
  /\ request[r].pc = "read"
  /\ request' = [request EXCEPT ![r] = Idle]
  /\ IF request[r].valid
     THEN /\ \E ttl \in PosMin..PosMax :
               positive' = [left |-> Remaining(ttl, request[r].age), has |-> request[r].has]
          /\ UNCHANGED negative
     ELSE /\ negative' = Remaining(NegTTL, request[r].age)
          /\ UNCHANGED positive
  /\ UNCHANGED <<revoked, hasBudgets, timeVars>>

\* evictIfNeeded, when entries of other keys fill a map.
Evict ==
  /\ \/ positive.left > 0 /\ positive' = NoEntry /\ UNCHANGED negative
     \/ negative > 0 /\ negative' = 0 /\ UNCHANGED positive
  /\ UNCHANGED <<revoked, hasBudgets, timeVars, request>>

\* invalidateAuthCacheForOwner: only positive entries carry an owner.
InvalidateAuthCacheForOwner ==
  /\ positive' = NoEntry
  /\ UNCHANGED <<revoked, hasBudgets, timeVars, negative, request>>

\* The isolate is recycled.
Recycle ==
  /\ positive' = NoEntry
  /\ negative' = 0
  /\ request' = [r \in Request |-> Idle]
  /\ UNCHANGED <<revoked, hasBudgets, timeVars>>

-----------------------------------------------------------------------------
(* The world outside the isolate.                                            *)

\* DELETE /api/keys/:id.  No invalidation is sent.
Revoke ==
  /\ ~revoked
  /\ revoked' = TRUE
  /\ UNCHANGED <<sinceRevoked, hasBudgets, sinceNone, cacheVars>>

\* A budget is created, or the last one deleted.
ChangeBudgets(b) ==
  /\ hasBudgets' = b
  /\ sinceNone' = IF b THEN sinceNone ELSE 0
  /\ UNCHANGED <<revoked, sinceRevoked, cacheVars>>

Older(n) == Earlier(n + 1, PosMax)
Less(n) == IF n > 0 THEN n - 1 ELSE 0

Tick ==
  /\ sinceRevoked' = IF revoked THEN Older(sinceRevoked) ELSE 0
  /\ sinceNone' = IF hasBudgets THEN Older(sinceNone) ELSE 0
  /\ positive' = IF positive.left > 1 THEN [positive EXCEPT !.left = @ - 1] ELSE NoEntry
  /\ negative' = Less(negative)
  /\ request' = [r \in Request |->
       IF request[r].pc = "idle" THEN Idle ELSE [request[r] EXCEPT !.age = Older(@)]]
  /\ UNCHANGED <<revoked, hasBudgets>>

Authenticate(r) == Miss(r) \/ LookupKeyInDb(r) \/ LookupFails(r) \/ Store(r)

KeyNext ==
  \/ \E r \in Request : Authenticate(r)
  \/ Evict \/ InvalidateAuthCacheForOwner \/ Recycle
  \/ Revoke \/ Tick
  \/ \E b \in BOOLEAN : ChangeBudgets(b)

KeySpec == KeyInit /\ [][KeyNext]_keyVars

-----------------------------------------------------------------------------

RequestType == [pc : {"idle", "asking", "read"}, age : 0..PosMax, valid : BOOLEAN, has : BOOLEAN]

\* The values each variable may take.
KeyTypeOK ==
  /\ revoked \in BOOLEAN /\ hasBudgets \in BOOLEAN
  /\ sinceRevoked \in 0..PosMax /\ sinceNone \in 0..PosMax
  /\ positive \in [left : 0..PosMax, has : BOOLEAN]
  /\ negative \in 0..NegTTL
  /\ request \in [Request -> RequestType]

\* A revoked key is accepted from the cache for at most PosMax after it was revoked,
\* however long the lookup that stored it took to return: what is left of the entry and
\* the time since the revocation never add up to more.
\* docs/api-reference/authentication.md:40 gives that bound as ~130 seconds.
RevocationBound == revoked /\ positive.left > 0 => sinceRevoked + positive.left <= PosMax

\* A budget is passed over (hasBudgets of the cached identity is false) only if at some
\* moment of the last PosMax the organisation had none, also when no invalidation reaches
\* the isolate, or a lookup that read before the change stores its answer after it.
SkipBound ==
  hasBudgets /\ positive.left > 0 /\ ~positive.has => sinceNone + positive.left <= PosMax

\* A key that has not been revoked is never rejected from the cache, whatever failed.
RejectsOnlyRevoked == negative > 0 => revoked

=============================================================================
