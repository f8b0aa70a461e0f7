------------------------------- MODULE Actions -------------------------------
(***************************************************************************)
(* Human approval of actions: the rows of table actions, the decisions of  *)
(* the dashboard (lib/actions), the budget increase an approval carries    *)
(* out in the same transaction (lib/budgets/increase.ts), and the clients  *)
(* that propose an action, poll for the decision, act on it and report     *)
(* (proposeAndWait of the JavaScript SDK, gateToolCall of the MCP proxy).  *)
(*                                                                         *)
(* A transaction that holds row locks is split where it waits, so that     *)
(* what does not lock - a read, an edit of another row - runs in between.  *)
(* A call of a client may run on the server after the client has stopped   *)
(* waiting for it, or twice, when the client sends it again.               *)
(***************************************************************************)
EXTENDS Integers, FiniteSets

CONSTANTS
  Action,      \* ids of the rows of table actions
  Entity,      \* budget entities
  Client,      \* agents: one proposal each
  Gates,       \* clients that are MCP proxies; the others use the SDK
  Nothing,     \* no action, no entity
  Amounts,     \* increases that can be approved, in units of the cap
  Limits,      \* limits the dashboard can set
  Cap,         \* spendCapMicrodollars of the tier
  MaxTries     \* 1 + maxRetries of the SDK

ASSUME ActionsAssumption ==
  /\ Gates \subseteq Client
  /\ Nothing \notin Action \cup Entity
  /\ IsFiniteSet(Action)
  /\ Cap \in Nat /\ Amounts \subseteq Nat \ {0} /\ Limits \subseteq 0..Cap
  /\ MaxTries \in Nat \ {0}

VARIABLES
  status,      \* column status; "absent" is no row
  owner,       \* the client that proposed the action
  target,      \* the entity a budget_increase is for, Nothing for a tool call
  overdue,     \* actions whose expires_at has passed
  tx,          \* the transaction of resolveAction that holds the lock of the row
  refused,     \* history: actions a decision was refused for having expired
  rows,        \* entities with a budgets row
  limit,       \* column max_budget_microdollars
  pc,          \* where each client is
  mine,        \* the action id the client was given
  tries,       \* times it has sent its present call
  flight,      \* markResult calls sent and not yet run by the server
  report,      \* outcome of the callback or of the tool call
  runs         \* times the callback or the tool was run

tableVars  == <<status, owner, target, overdue, refused>>
budgetVars == <<rows, limit>>
clientVars == <<pc, mine, tries, flight, report, runs>>
vars == <<tableVars, tx, budgetVars, clientVars>>

Statuses == {"pending", "approved", "rejected", "expired", "executing", "executed", "failed"}

AllowedTransitions ==
  [s \in Statuses |-> CASE s = "pending"   -> {"approved", "rejected", "expired"}
                        [] s = "approved"  -> {"executing"}
                        [] s = "executing" -> {"executed", "failed"}
                        [] OTHER           -> {}]

CanTransitionStatus(from, to) == to \in AllowedTransitions[from]

NoTx == [pc |-> "none", to |-> "pending", amount |-> 0]

\* Rows that a transaction in progress has locked.
RowLocked(a) == tx[a].pc # "none"
BudgetLocked(e) == \E a \in Action : tx[a].pc = "budget" /\ target[a] = e

Results == {"executing", "executed", "failed"}

Init ==
  /\ status = [a \in Action |-> "absent"]
  /\ owner = [a \in Action |-> Nothing]
  /\ target = [a \in Action |-> Nothing]
  /\ overdue = {}
  /\ refused = {}
  /\ tx = [a \in Action |-> NoTx]
  /\ rows = {}
  /\ limit = [e \in Entity |-> 0]
  /\ pc = [c \in Client |-> "creating"]
  /\ mine = [c \in Client |-> Nothing]
  /\ tries = [c \in Client |-> 0]
  /\ flight = [c \in Client |-> [s \in Results |-> 0]]
  /\ report = [c \in Client |-> "none"]
  /\ runs = [c \in Client |-> 0]

-----------------------------------------------------------------------------
(* Decisions: resolveAction, with the side effect approveAction gives it.    *)

Undecided(a) == status[a] = "pending" /\ ~RowLocked(a)

\* Faulty: the time of the row is not looked at.
BeginResolveLate(a, to, amount) ==
  /\ Undecided(a)
  /\ CanTransitionStatus(status[a], to)
  /\ tx' = [tx EXCEPT ![a] = [pc |-> "row", to |-> to, amount |-> amount]]
  /\ UNCHANGED <<tableVars, budgetVars, clientVars>>

\* SELECT ... FOR UPDATE, the two checks, and the UPDATE that the commit makes visible.
BeginResolve(a, to, amount) ==
  /\ Undecided(a) /\ a \notin overdue
  /\ CanTransitionStatus(status[a], to)
  /\ tx' = [tx EXCEPT ![a] = [pc |-> "row", to |-> to, amount |-> amount]]
  /\ UNCHANGED <<tableVars, budgetVars, clientVars>>

\* isActionExpired: the row is updated and ActionExpiredError thrown, in one
\* transaction, so the error takes the update back.
RefuseOverdue(a) ==
  /\ Undecided(a) /\ a \in overdue
  /\ refused' = refused \cup {a}
  /\ UNCHANGED <<status, owner, target, overdue, tx, budgetVars, clientVars>>

NeedsIncrease(a) == tx[a].to = "approved" /\ target[a] # Nothing

\* Faulty: SELECT without FOR UPDATE.
LockBudgetShared(a) ==
  /\ tx[a].pc = "row" /\ NeedsIncrease(a)
  /\ target[a] \in rows
  /\ limit[target[a]] + tx[a].amount <= Cap
  /\ tx' = [tx EXCEPT ![a].pc = "budget"]
  /\ UNCHANGED <<tableVars, budgetVars, clientVars>>

\* executeBudgetIncrease: lock the budgets row, then check the new total against the
\* cap.  No row, or a total above the cap, throws: see Rollback.
LockBudget(a) ==
  /\ tx[a].pc = "row" /\ NeedsIncrease(a)
  /\ target[a] \in rows /\ ~BudgetLocked(target[a])
  /\ limit[target[a]] + tx[a].amount <= Cap
  /\ tx' = [tx EXCEPT ![a].pc = "budget"]
  /\ UNCHANGED <<tableVars, budgetVars, clientVars>>

\* Whatever throws, or a lost connection, takes back the whole transaction, the
\* approval included.
Rollback(a) ==
  /\ RowLocked(a)
  /\ tx' = [tx EXCEPT ![a] = NoTx]
  /\ UNCHANGED <<tableVars, budgetVars, clientVars>>

Commit(a) ==
  /\ RowLocked(a)
  /\ NeedsIncrease(a) => tx[a].pc = "budget"
  /\ status' = [status EXCEPT ![a] = tx[a].to]
  /\ limit' = IF NeedsIncrease(a) THEN [limit EXCEPT ![target[a]] = @ + tx[a].amount] ELSE limit
  /\ tx' = [tx EXCEPT ![a] = NoTx]
  /\ UNCHANGED <<owner, target, overdue, refused, rows, clientVars>>

-----------------------------------------------------------------------------
(* The dashboard's own edits of a budgets row, and the passing of time.      *)

\* POST /api/budgets: an upsert, which waits for a row that is locked.
SetBudget(e, m) ==
  /\ ~BudgetLocked(e)
  /\ rows' = rows \cup {e}
  /\ limit' = [limit EXCEPT ![e] = m]
  /\ UNCHANGED <<tableVars, tx, clientVars>>

DeleteBudget(e) ==
  /\ e \in rows /\ ~BudgetLocked(e)
  /\ rows' = rows \ {e}
  /\ limit' = [limit EXCEPT ![e] = 0]
  /\ UNCHANGED <<tableVars, tx, clientVars>>

\* expires_at of a passes.
Lapse(a) ==
  /\ status[a] = "pending" /\ a \notin overdue
  /\ overdue' = overdue \cup {a}
  /\ UNCHANGED <<status, owner, target, refused, tx, budgetVars, clientVars>>

\* bulkExpireActions, before a list is read.
BulkExpire ==
  LET late == {a \in overdue : status[a] = "pending"} IN
  /\ late # {} /\ \A a \in late : ~RowLocked(a)
  /\ status' = [a \in Action |-> IF a \in late THEN "expired" ELSE status[a]]
  /\ UNCHANGED <<owner, target, overdue, refused, tx, budgetVars, clientVars>>

-----------------------------------------------------------------------------
(* Clients: propose, and poll until the action is no longer pending.         *)

Owned(c) == {a \in Action : status[a] # "absent" /\ owner[a] = c}

Goes(c, where) == pc' = [pc EXCEPT ![c] = where]

\* POST /api/actions.  A retry of a call whose answer was lost inserts another row when
\* the idempotency record of the first is gone, or was never written.
CreateAction(c, a, e) ==
  /\ pc[c] = "creating" /\ Cardinality(Owned(c)) < MaxTries
  /\ status[a] = "absent"
  /\ c \in Gates => e = Nothing
  /\ \A b \in Owned(c) : target[b] = e
  /\ status' = [status EXCEPT ![a] = "pending"]
  /\ owner' = [owner EXCEPT ![a] = c]
  /\ target' = [target EXCEPT ![a] = e]
  /\ \/ mine' = [mine EXCEPT ![c] = a] /\ Goes(c, "waiting")
     \/ UNCHANGED <<pc, mine>>
  /\ UNCHANGED <<overdue, refused, tx, budgetVars, tries, flight, report, runs>>

\* The retry finds the stored answer of an earlier one.
ReplayCreate(c, a) ==
  /\ pc[c] = "creating" /\ a \in Owned(c)
  /\ mine' = [mine EXCEPT ![c] = a]
  /\ Goes(c, "waiting")
  /\ UNCHANGED <<tableVars, tx, budgetVars, tries, flight, report, runs>>

\* The call fails, or the time the client waits for a decision runs out.
GiveUp(c) ==
  /\ pc[c] \in {"creating", "waiting"}
  /\ Goes(c, "gone")
  /\ UNCHANGED <<tableVars, tx, budgetVars, mine, tries, flight, report, runs>>

\* Faulty: only a rejection stops the client.
HearsRejection(c, s) == Goes(c, IF s = "rejected" THEN "refused" ELSE "marking")

Hears(c, s) == Goes(c, IF s = "approved" THEN "marking" ELSE "refused")

\* getAction, first read: a pending row whose time has passed is to be expired.
Poll(c) ==
  LET a == mine[c] IN
  /\ pc[c] = "waiting"
  /\ IF status[a] # "pending" THEN Hears(c, status[a]) ELSE a \in overdue /\ Goes(c, "expiring")
  /\ UNCHANGED <<tableVars, tx, budgetVars, mine, tries, flight, report, runs>>

\* Faulty: the UPDATE does not look at the status again.
ExpireWhateverStatus(c) ==
  LET a == mine[c] IN
  /\ pc[c] = "expiring" /\ ~RowLocked(a)
  /\ status' = [status EXCEPT ![a] = "expired"]
  /\ Hears(c, "expired")
  /\ UNCHANGED <<owner, target, overdue, refused, tx, budgetVars, mine, tries, flight, report, runs>>

\* Faulty: the row is not read again when the UPDATE found nothing to do.
ExpireWithoutRefresh(c) ==
  LET a == mine[c] IN
  /\ pc[c] = "expiring" /\ ~RowLocked(a)
  /\ status' = IF status[a] = "pending" THEN [status EXCEPT ![a] = "expired"] ELSE status
  /\ Hears(c, "expired")
  /\ UNCHANGED <<owner, target, overdue, refused, tx, budgetVars, mine, tries, flight, report, runs>>

\* expireAction waits for the lock, then updates the row if it is still pending; if not,
\* getAction reads it again.
ExpireAction(c) ==
  LET a == mine[c] IN
  /\ pc[c] = "expiring" /\ ~RowLocked(a)
  /\ IF status[a] = "pending"
     THEN status' = [status EXCEPT ![a] = "expired"] /\ Hears(c, "expired")
     ELSE Hears(c, status[a]) /\ UNCHANGED status
  /\ UNCHANGED <<owner, target, overdue, refused, tx, budgetVars, mine, tries, flight, report, runs>>

-----------------------------------------------------------------------------
(* Clients: mark the action as executing, run it, report the outcome.        *)

\* Faulty: the outcome that is reported is always success.
CallExecuted(c) == IF pc[c] = "marking" THEN "executing" ELSE "executed"

Call(c) == IF pc[c] = "marking" THEN "executing" ELSE report[c]

\* Faulty: nothing counts the retries.
SendAgain(c) ==
  /\ pc[c] \in {"marking", "reporting"}
  /\ tries' = [tries EXCEPT ![c] = @ + 1]
  /\ flight' = [flight EXCEPT ![c][Call(c)] = @ + 1]
  /\ UNCHANGED <<tableVars, tx, budgetVars, pc, mine, report, runs>>

\* A call is sent for the first time, or again.
Send(c) ==
  /\ pc[c] \in {"marking", "reporting"} /\ tries[c] < MaxTries
  /\ tries' = [tries EXCEPT ![c] = @ + 1]
  /\ flight' = [flight EXCEPT ![c][Call(c)] = @ + 1]
  /\ UNCHANGED <<tableVars, tx, budgetVars, pc, mine, report, runs>>

\* Where a client goes when its present call has returned.
Proceeds(c) == Goes(c, IF pc[c] \in {"marking", "rechecking"} THEN "running" ELSE "gone")

\* The SDK asks again for the status before it takes a conflict for an error; a failure
\* to report "failed" is swallowed, and the MCP proxy swallows every one.
Conflict(c) ==
  IF c \in Gates \/ Call(c) = "failed" THEN Proceeds(c)
  ELSE Goes(c, IF pc[c] = "marking" THEN "rechecking" ELSE "gone")

Fails(c) == IF c \in Gates THEN Proceeds(c) ELSE Goes(c, "gone")

\* The server runs a markResult call, in one transaction.  Its answer reaches the client,
\* if that is still what the client waits for, or is lost.  A call that an earlier one
\* with the same idempotency key has already carried out may be answered from its record.
MarkResult(c, s) ==
  LET a == mine[c]
      may == CanTransitionStatus(status[a], s)
      repeated == status[a] = s \/ (s = "executing" /\ status[a] \in {"executed", "failed"})
      awaited == pc[c] \in {"marking", "reporting"} /\ Call(c) = s
  IN
  /\ flight[c][s] > 0
  /\ flight' = [flight EXCEPT ![c][s] = @ - 1]
  /\ status' = IF may THEN [status EXCEPT ![a] = s] ELSE status
  /\ \/ awaited /\ (may \/ repeated) /\ Proceeds(c)
     \/ awaited /\ ~may /\ Conflict(c)
     \/ UNCHANGED pc
  /\ UNCHANGED <<owner, target, overdue, refused, tx, budgetVars, mine, tries, report, runs>>

\* Every try was lost or failed.
NoAnswer(c) ==
  /\ pc[c] \in {"marking", "reporting"} /\ tries[c] > 0
  /\ Fails(c)
  /\ UNCHANGED <<tableVars, tx, budgetVars, mine, tries, flight, report, runs>>

\* After a conflict: proceed if the row says what the lost answer would have said.
Recheck(c) ==
  /\ pc[c] = "rechecking"
  /\ \/ status[mine[c]] = "executing" /\ Proceeds(c)
     \/ Goes(c, "gone")   \* it is not, or the read fails
  /\ UNCHANGED <<tableVars, tx, budgetVars, mine, tries, flight, report, runs>>

Run(c, outcome) ==
  /\ pc[c] = "running"
  /\ runs' = [runs EXCEPT ![c] = @ + 1]
  /\ report' = [report EXCEPT ![c] = outcome]
  /\ tries' = [tries EXCEPT ![c] = 0]
  /\ Goes(c, "reporting")
  /\ UNCHANGED <<tableVars, tx, budgetVars, mine, flight>>

-----------------------------------------------------------------------------

Decide(a) ==
  \/ \E to \in {"approved", "rejected"}, amount \in Amounts : BeginResolve(a, to, amount)
  \/ RefuseOverdue(a) \/ LockBudget(a) \/ Rollback(a) \/ Commit(a)

ClientNext(c) ==
  \/ \E a \in Action : ReplayCreate(c, a) \/ \E e \in Entity \cup {Nothing} : CreateAction(c, a, e)
  \/ GiveUp(c) \/ Poll(c) \/ ExpireAction(c) \/ Send(c) \/ NoAnswer(c) \/ Recheck(c)
  \/ \E s \in Results : MarkResult(c, s)
  \/ \E outcome \in {"executed", "failed"} : Run(c, outcome)

Next ==
  \/ \E a \in Action : Decide(a) \/ Lapse(a)
  \/ BulkExpire
  \/ \E e \in Entity : DeleteBudget(e) \/ \E m \in Limits : SetBudget(e, m)
  \/ \E c \in Client : ClientNext(c)

Spec == Init /\ [][Next]_vars

-----------------------------------------------------------------------------
(* Properties.                                                               *)

\* The values each variable may take.
TypeOK ==
  /\ status \in [Action -> Statuses \cup {"absent"}]
  /\ owner \in [Action -> Client \cup {Nothing}]
  /\ target \in [Action -> Entity \cup {Nothing}]
  /\ overdue \subseteq Action /\ refused \subseteq Action
  /\ tx \in [Action -> [pc : {"none", "row", "budget"}, to : Statuses, amount : Nat]]
  /\ rows \subseteq Entity
  /\ limit \in [Entity -> Nat]
  /\ pc \in [Client -> {"creating", "waiting", "expiring", "refused", "marking", "rechecking",
                        "running", "reporting", "gone"}]
  /\ mine \in [Client -> Action \cup {Nothing}]
  /\ tries \in [Client -> 0..MaxTries]
  /\ flight \in [Client -> [Results -> 0..MaxTries]]
  /\ report \in [Client -> {"none", "executed", "failed"}]
  /\ runs \in [Client -> 0..1]

\* Decisions, expiry by readers and by lists, and results that arrive late or twice take
\* an action only along ALLOWED_TRANSITIONS: no answer once given is ever taken back.
LegalTransitions ==
  [][\A a \in Action :
       status'[a] # status[a] =>
         \/ status[a] = "absent" /\ status'[a] = "pending"
         \/ status[a] # "absent" /\ status'[a] \in AllowedTransitions[status[a]]]_vars

\* Increases approved at the same time, each within the cap of the tier when it is
\* checked, never take a budget above the cap together, whatever else edits the row.
CapHolds == \A e \in Entity : limit[e] <= Cap

\* Once a decision has been refused because the action had expired, no later decision,
\* and none that was under way, approves or rejects it.
RefusedForGood == \A a \in refused : status[a] \in {"pending", "expired"}

\* A client that was told it may not proceed will find the action rejected or expired,
\* also when its poll expired the action while a person was approving it.
RefusalStands ==
  \A c \in Client : pc[c] = "refused" => status[mine[c]] \in {"rejected", "expired"}

\* The callback or the tool is run only for an action a person has approved, and that
\* stays so while it runs.
RunsOnlyApproved ==
  \A c \in Client :
    runs[c] > 0 => status[mine[c]] \in {"approved", "executing", "executed", "failed"}

\* An action the dashboard shows as executed or failed was run once, by the client it was
\* created for, with that outcome.
ReportTrue ==
  \A a \in Action :
    status[a] \in {"executed", "failed"} =>
      /\ mine[owner[a]] = a
      /\ runs[owner[a]] = 1
      /\ report[owner[a]] = status[a]

=============================================================================
