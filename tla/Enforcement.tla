------------------------------ MODULE Enforcement ------------------------------
(***************************************************************************)
(* Whether a budget is enforced: the copies of it that stand between the   *)
(* dashboard and a request of an agent.  BudgetReplica carries a change to *)
(* the budget object; the key cache of an isolate says whether the object  *)
(* is asked at all.  They meet in Postgres, which lookups of either read   *)
(* (hasBudgets of KeyCache says whether the table has a row), and in the   *)
(* isolate that happens to handle an invalidation.                         *)
(***************************************************************************)
EXTENDS BudgetReplica, KeyCache

VARIABLE told     \* history: an invalidation of the present budgets reached this isolate

vars == <<replicaVars, keyVars, told>>

HasBudgets == \E b \in Budget : postgres[b] # NoRow

Init == ReplicaInit /\ KeyInit /\ told = FALSE

\* A change on the dashboard.
Edit ==
  /\ DashboardChange
  /\ ChangeBudgets(HasBudgets')
  /\ told' = (told /\ hasBudgets' = hasBudgets)

\* Steps of a call that leave the caches alone.
Carry == Quietly /\ UNCHANGED <<keyVars, told>>

\* Lookups in flight that have read what no longer holds.
StaleLookup == \E r \in Request : request[r].pc = "read" /\ request[r].has # hasBudgets

\* handleBudgetInvalidation ends in this isolate,
ConcludeHere(k, t) ==
  /\ Conclude(k, t)
  /\ InvalidateAuthCacheForOwner
  /\ told' = (told \/ ~StaleLookup)

\* or in another one.
ConcludeElsewhere(k, t) == Conclude(k, t) /\ UNCHANGED <<keyVars, told>>

AuthenticateHere(r) == Authenticate(r) /\ UNCHANGED <<replicaVars, told>>

Isolate ==
  /\ UNCHANGED <<replicaVars, told>>
  /\ Evict \/ Recycle \/ Revoke \/ Tick

\* checkBudget, for a request whose identity comes from the cache: the object is asked
\* only if the identity has budgets.
Limit(b) == IF positive.left > 0 /\ ~positive.has THEN NoRow ELSE object[b]

Next ==
  \/ Edit \/ Carry \/ Isolate
  \/ \E k \in Call, t \in Try : ConcludeHere(k, t) \/ ConcludeElsewhere(k, t)
  \/ \E r \in Request : AuthenticateHere(r)

Spec == Init /\ [][Next]_vars

-----------------------------------------------------------------------------

\* The values each variable may take.
TypeOK ==
  /\ ReplicaTypeOK /\ KeyTypeOK /\ told \in BOOLEAN
  /\ hasBudgets = HasBudgets

\* Once the organisation has had a budget for PosMax, or an invalidation has reached the
\* isolate while no lookup held an older answer, a request of this isolate is judged by the
\* limits of Postgres for every budget whose last change is confirmed.  Nothing less is
\* enough: a confirmed change alone may be passed over for up to PosMax.
Enforced ==
  hasBudgets /\ (sinceNone = PosMax \/ told) =>
    \A b \in Budget : known[b] = "confirmed" => Limit(b) = postgres[b]

=============================================================================
