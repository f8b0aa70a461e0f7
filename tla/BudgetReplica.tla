----------------------------- MODULE BudgetReplica -----------------------------
(***************************************************************************)
(* How a change of a budgets row on the dashboard reaches the budget       *)
(* object: the routes commit in Postgres, then invalidateProxyCache calls  *)
(* the proxy, without being waited for, and again after a failure or five  *)
(* seconds; each call that arrives runs handleBudgetInvalidation, in       *)
(* whatever isolate, also after the dashboard has stopped waiting for it.  *)
(***************************************************************************)
EXTENDS Integers, FiniteSets

CONSTANTS
  Budget,      \* entities with a budget, of one organisation
  Limits,      \* max_budget_microdollars
  NoRow,
  Call,        \* invalidateProxyCache calls in progress at one time
  MaxTries     \* 1 + MAX_RETRIES

ASSUME ReplicaAssumption == NoRow \notin Limits \cup Budget /\ MaxTries \in Nat \ {0}

VARIABLES
  postgres,    \* the budgets table
  object,      \* the budgets table of the object
  call,        \* the dashboard's side of each call
  handler,     \* the proxy's side of each try of each call
  known        \* history: what is known of the last change of each budget

replicaVars == <<postgres, object, call, handler, known>>

Try == 1..MaxTries
NoCall == [pc |-> "ended", action |-> "sync", budget |-> NoRow, try |-> 0]
NoHandler == [pc |-> "none", seen |-> NoRow]
Begun == [NoHandler EXCEPT !.pc = "begun"]

ReplicaInit ==
  /\ postgres = [b \in Budget |-> NoRow]
  /\ object = [b \in Budget |-> NoRow]
  /\ call = [k \in Call |-> NoCall]
  /\ handler = [k \in Call |-> [t \in Try |-> NoHandler]]
  /\ known = [b \in Budget |-> "confirmed"]

UnderWay(b) == \E k \in Call : call[k].budget = b

\* A change whose confirmation says nothing: calls about the same budget overlap, or the
\* call carries no limits and those of the last one may never have arrived.
Doubtful(b, action) == UnderWay(b) \/ (action = "reset_spend" /\ known[b] # "confirmed")

-----------------------------------------------------------------------------
(* The dashboard.                                                            *)

\* The transaction of a route commits, and the call is begun.
Change(k, b, action, row) ==
  /\ call[k] = NoCall
  /\ postgres' = [postgres EXCEPT ![b] = row]
  /\ call' = [call EXCEPT ![k] = [pc |-> "waiting", action |-> action, budget |-> b, try |-> 1]]
  /\ handler' = [handler EXCEPT ![k] = [t \in Try |-> IF t = 1 THEN Begun ELSE NoHandler]]
  /\ known' = [known EXCEPT ![b] = IF Doubtful(b, action) THEN "doubtful" ELSE "sent"]
  /\ UNCHANGED object

\* POST /api/budgets, and an approved increase: the action is "sync".
SetBudget(k, b, m) == Change(k, b, "sync", m)

\* DELETE /api/budgets/:id
DeleteBudget(k, b) == postgres[b] # NoRow /\ Change(k, b, "remove", NoRow)

\* POST /api/budgets/:id.  Spend is not part of this model.
ResetBudget(k, b) == postgres[b] # NoRow /\ Change(k, b, "reset_spend", postgres[b])

\* An answer that comes too late is not looked at.
Unanswered(k) ==
  [t \in Try |-> IF handler[k][t].pc = "done" THEN NoHandler ELSE handler[k][t]]

\* The dashboard is through with a call; of its tries h may still be running.
Closed(k, h) ==
  [call EXCEPT ![k] = IF \A t \in Try : h[t] = NoHandler THEN NoCall
                      ELSE [@ EXCEPT !.pc = "ended", !.try = 0]]

\* The answer to the present try arrives.
Answered(k) ==
  /\ call[k].pc = "waiting"
  /\ handler[k][call[k].try].pc = "done"
  /\ call' = Closed(k, Unanswered(k))
  /\ handler' = [handler EXCEPT ![k] = Unanswered(k)]
  /\ known' = [known EXCEPT ![call[k].budget] = IF @ = "sent" THEN "confirmed" ELSE @]
  /\ UNCHANGED <<postgres, object>>

\* Faulty: a try too many.
RetryOnceMore(k) ==
  LET next == call[k].try + 1 IN
  /\ call[k].pc = "waiting" /\ call[k].try <= MaxTries
  /\ call' = [call EXCEPT ![k].try = next]
  /\ handler' = [handler EXCEPT ![k] = [t \in Try |-> IF t = next THEN Begun ELSE Unanswered(k)[t]]]
  /\ UNCHANGED <<postgres, object, known>>

\* An error, or no answer in five seconds, whatever became of the try.
Retry(k) ==
  LET next == call[k].try + 1 IN
  /\ call[k].pc = "waiting" /\ call[k].try < MaxTries
  /\ call' = [call EXCEPT ![k].try = next]
  /\ handler' = [handler EXCEPT ![k] = [Unanswered(k) EXCEPT ![next] = Begun]]
  /\ UNCHANGED <<postgres, object, known>>

\* The last try failed, or the dashboard's process ended before: nobody tries again.
Abandon(k) ==
  /\ call[k].pc = "waiting"
  /\ call' = Closed(k, Unanswered(k))
  /\ handler' = [handler EXCEPT ![k] = Unanswered(k)]
  /\ UNCHANGED <<postgres, object, known>>

-----------------------------------------------------------------------------
(* The proxy: handleBudgetInvalidation.                                      *)

Awaited(k, t) == call[k].pc = "waiting" /\ call[k].try = t
At(k, t, pc) == handler[k][t].pc = pc
Goes(k, t, pc) == handler' = [handler EXCEPT ![k][t] = [NoHandler EXCEPT !.pc = pc]]

\* A try is over, and nothing waits for it.
Ends(k, t) ==
  LET rest == [handler[k] EXCEPT ![t] = NoHandler] IN
  /\ handler' = [handler EXCEPT ![k] = rest]
  /\ call' = IF call[k].pc = "ended" THEN Closed(k, rest) ELSE call

RemoveBudget(k, t) ==
  /\ At(k, t, "begun") /\ call[k].action = "remove"
  /\ object' = [object EXCEPT ![call[k].budget] = NoRow]
  /\ Goes(k, t, "changed")
  /\ UNCHANGED <<postgres, call, known>>

ResetSpend(k, t) ==
  /\ At(k, t, "begun") /\ call[k].action = "reset_spend"
  /\ Goes(k, t, "changed")
  /\ UNCHANGED <<postgres, object, call, known>>

LookupBudgetsForDO(k, t) ==
  /\ At(k, t, "begun") /\ call[k].action = "sync"
  /\ handler' = [handler EXCEPT ![k][t] = [pc |-> "read", seen |-> postgres[call[k].budget]]]
  /\ UNCHANGED <<postgres, object, call, known>>

\* doBudgetUpsertEntities; with nothing to upsert it returns at once.
Upsert(k, t) ==
  LET seen == handler[k][t].seen IN
  /\ At(k, t, "read")
  /\ object' = IF seen = NoRow THEN object ELSE [object EXCEPT ![call[k].budget] = seen]
  /\ IF seen = NoRow THEN Goes(k, t, "changed")
     ELSE handler' = [handler EXCEPT ![k][t].pc = "upserted"]
  /\ UNCHANGED <<postgres, call, known>>

\* After an upsert the state is read back, and what is missing upserted once more; then
\* the positive entries of this isolate go, and the call is answered.
Conclude(k, t) ==
  LET b == call[k].budget
      missing == At(k, t, "upserted") /\ object[b] = NoRow
  IN
  /\ At(k, t, "upserted") \/ At(k, t, "changed")
  /\ object' = IF missing THEN [object EXCEPT ![b] = handler[k][t].seen] ELSE object
  /\ IF Awaited(k, t) THEN Goes(k, t, "done") /\ UNCHANGED call ELSE Ends(k, t)
  /\ UNCHANGED <<postgres, known>>

\* Faulty: a lookup that fails finds no budgets.
FailQuietly(k, t) ==
  /\ At(k, t, "begun")
  /\ Goes(k, t, "changed")
  /\ UNCHANGED <<postgres, object, call, known>>

\* Postgres or the object throws, or the call never arrives.
Fail(k, t) ==
  /\ handler[k][t].pc \notin {"none", "done"}
  /\ Ends(k, t)
  /\ UNCHANGED <<postgres, object, known>>

DashboardChange ==
  \E k \in Call, b \in Budget :
    (\E m \in Limits : SetBudget(k, b, m)) \/ DeleteBudget(k, b) \/ ResetBudget(k, b)

HandlerStep(k, t) ==
  \/ RemoveBudget(k, t) \/ ResetSpend(k, t) \/ LookupBudgetsForDO(k, t)
  \/ Upsert(k, t) \/ Fail(k, t)

Quietly ==
  \E k \in Call :
    Answered(k) \/ Retry(k) \/ Abandon(k) \/ \E t \in Try : HandlerStep(k, t)

-----------------------------------------------------------------------------

Row == Limits \cup {NoRow}
CallType == [pc : {"waiting", "ended"}, action : {"sync", "remove", "reset_spend"},
             budget : Budget \cup {NoRow}, try : 0..MaxTries]
HandlerType == [pc : {"none", "begun", "read", "upserted", "changed", "done"}, seen : Row]

\* The values each variable may take.
ReplicaTypeOK ==
  /\ postgres \in [Budget -> Row]
  /\ object \in [Budget -> Row]
  /\ call \in [Call -> CallType]
  /\ handler \in [Call -> [Try -> HandlerType]]
  /\ known \in [Budget -> {"confirmed", "sent", "doubtful"}]

\* A change that the proxy has confirmed, and that was made when no earlier call about the
\* same budget was under way, is what the object enforces - until the next change, and
\* whatever tries of the same call still run or ran twice.  Where changes overlap the code
\* promises nothing: a sync that read before a removal may bring the budget back.
ConfirmedIsEnforced == \A b \in Budget : known[b] = "confirmed" => object[b] = postgres[b]

=============================================================================
