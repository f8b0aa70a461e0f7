---------------------------- MODULE Actions_proofs ----------------------------
(***************************************************************************)
(* The properties of Actions, for any number of actions, budgets, clients  *)
(* and retries, any cap and any amounts.                                   *)
(*                                                                         *)
(* What decides is, on the side of the tables, that the transaction which  *)
(* holds a lock finds the row as it was when it took it (Locks), and on    *)
(* the side of the clients that an action is moved past "approved" only by *)
(* the one client that was given its id, and only once that client has     *)
(* heard that it was approved (ClientOK, ActionOK).                        *)
(***************************************************************************)
EXTENDS Actions, TLAPS

TableTypes ==
  /\ status \in [Action -> Statuses \cup {"absent"}]
  /\ owner \in [Action -> Client \cup {Nothing}]
  /\ target \in [Action -> Entity \cup {Nothing}]
  /\ overdue \subseteq Action /\ refused \subseteq Action
  /\ tx \in [Action -> [pc : {"none", "row", "budget"}, to : Statuses, amount : Nat]]
  /\ rows \subseteq Entity
  /\ limit \in [Entity -> Nat]

Places == {"creating", "waiting", "expiring", "refused", "marking", "rechecking",
           "running", "reporting", "gone"}

ClientTypes ==
  /\ pc \in [Client -> Places]
  /\ mine \in [Client -> Action \cup {Nothing}]
  /\ tries \in [Client -> 0..MaxTries]
  /\ flight \in [Client -> [Results -> 0..MaxTries]]
  /\ report \in [Client -> {"none", "executed", "failed"}]
  /\ runs \in [Client -> 0..1]

\* A transaction that holds the lock of an action found it pending and in time; one that
\* also holds the lock of a budget found room for its amount, and is the only one.
Locks ==
  /\ \A a \in Action : RowLocked(a) =>
       /\ status[a] = "pending" /\ a \notin refused
       /\ tx[a].to \in {"approved", "rejected"}
  /\ \A a \in Action : tx[a].pc = "budget" =>
       /\ NeedsIncrease(a) /\ target[a] \in Entity
       /\ limit[target[a]] + tx[a].amount <= Cap
  /\ \A a, b \in Action :
       tx[a].pc = "budget" /\ tx[b].pc = "budget" /\ target[a] = target[b] => a = b

\* A refused action is overdue, and so never taken up again.
RefusedOverdue == refused \subseteq overdue /\ RefusedForGood

TableInv == TableTypes /\ Locks /\ CapHolds /\ RefusedOverdue

-----------------------------------------------------------------------------

\* Places where a client has not heard of an approval.
Early == {"creating", "waiting", "expiring", "refused"}
Granted == {"approved", "executing", "executed", "failed"}
Marked == {"executing", "executed", "failed"}
Outcomes == {"executed", "failed"}

\* What holds of one client.
ClientOK(c) ==
  /\ pc[c] \in Places \ {"creating", "gone"} => mine[c] \in Action
  /\ mine[c] \in Action => owner[mine[c]] = c /\ status[mine[c]] # "absent"
  /\ pc[c] \in Early => runs[c] = 0 /\ \A s \in Results : flight[c][s] = 0
  /\ pc[c] \in {"marking", "rechecking", "running"} =>
       runs[c] = 0 /\ \A s \in Outcomes : flight[c][s] = 0
  /\ pc[c] = "marking" => flight[c]["executing"] <= tries[c]
  /\ pc[c] = "reporting" =>
       report[c] \in Outcomes /\ runs[c] = 1 /\ flight[c][report[c]] <= tries[c]
  /\ \A s \in Outcomes : flight[c][s] > 0 => runs[c] = 1 /\ report[c] = s
  /\ (pc[c] \in {"marking", "rechecking", "running", "reporting"} \/ runs[c] > 0
      \/ \E s \in Results : flight[c][s] > 0)
     => mine[c] \in Action /\ status[mine[c]] \in Granted
  /\ pc[c] = "refused" => status[mine[c]] \in {"rejected", "expired"}

\* What holds of one action.
ActionOK(a) ==
  /\ status[a] # "absent" => owner[a] \in Client
  /\ status[a] \in Marked => mine[owner[a]] = a /\ pc[owner[a]] \notin Early
  /\ status[a] \in Outcomes => runs[owner[a]] = 1 /\ report[owner[a]] = status[a]

ClientInv == ClientTypes /\ (\A c \in Client : ClientOK(c)) /\ \A a \in Action : ActionOK(a)

IInv == TableInv /\ ClientInv

-----------------------------------------------------------------------------

LEMMA InitInv == Init => IInv
<1> SUFFICES ASSUME Init PROVE IInv
  OBVIOUS
<1>1. TableTypes
  BY DEF Init, TableTypes, NoTx, Statuses
<1>2. Locks /\ CapHolds /\ RefusedOverdue
  BY ActionsAssumption DEF Init, Locks, RowLocked, NoTx, CapHolds, RefusedOverdue, RefusedForGood
<1>3. ClientTypes
  BY ActionsAssumption DEF Init, ClientTypes, Places
<1>4. ASSUME NEW c \in Client PROVE ClientOK(c)
  BY ActionsAssumption DEF Init, ClientOK, Places, Early, Results, Outcomes
<1>5. ASSUME NEW a \in Action PROVE ActionOK(a)
  BY DEF Init, ActionOK, Marked, Outcomes
<1> QED
  BY <1>1, <1>2, <1>3, <1>4, <1>5 DEF IInv, TableInv, ClientInv

\* Of the columns of the tables, a client's steps change status alone, and only of rows
\* that no transaction holds.
LEMMA TablesByStatus ==
  ASSUME TableInv, UNCHANGED <<owner, target, overdue, refused, tx, budgetVars>>,
         status' \in [Action -> Statuses \cup {"absent"}],
         \A a \in Action : status'[a] # status[a] =>
            ~RowLocked(a) /\ (a \in refused => status'[a] \in {"pending", "expired"})
  PROVE  TableInv'
<1>1. TableTypes'
  BY DEF TableInv, TableTypes, budgetVars
<1>2. Locks'
  BY DEF TableInv, TableTypes, Locks, RowLocked, NeedsIncrease, budgetVars
<1>3. CapHolds' /\ RefusedOverdue'
  BY DEF TableInv, TableTypes, CapHolds, RefusedOverdue, RefusedForGood, budgetVars
<1> QED
  BY <1>1, <1>2, <1>3 DEF TableInv

LEMMA AmountsNat == \A m \in Amounts : m \in Nat
  BY ActionsAssumption

LEMMA LimitsNat == \A m \in Limits : m \in Nat /\ m <= Cap
  BY ActionsAssumption

LEMMA TransitionsTo ==
  \A s, t \in Statuses :
    t \in AllowedTransitions[s] <=>
      \/ s = "pending" /\ t \in {"approved", "rejected", "expired"}
      \/ s = "approved" /\ t = "executing"
      \/ s = "executing" /\ t \in Outcomes
  BY DEF AllowedTransitions, Statuses, Outcomes

\* Decisions keep what holds of the tables.
LEMMA DecideTables ==
  ASSUME TableInv, NEW a \in Action, Decide(a)
  PROVE  TableInv'
<1> USE DEF TableInv
<1>1. ASSUME NEW to \in {"approved", "rejected"}, NEW amount \in Amounts, BeginResolve(a, to, amount)
      PROVE  TableInv'
  <2>1. amount \in Nat /\ to \in Statuses /\ a \notin refused
    BY <1>1, AmountsNat DEF BeginResolve, RefusedOverdue, Statuses
  <2>2. TableTypes'
    BY <1>1, <2>1 DEF BeginResolve, TableTypes, tableVars, budgetVars
  <2>3. Locks'
    BY <1>1, <2>1 DEF BeginResolve, TableTypes, Locks, Undecided, RowLocked, NeedsIncrease, tableVars, budgetVars
  <2>4. CapHolds' /\ RefusedOverdue'
    BY <1>1 DEF BeginResolve, CapHolds, RefusedOverdue, RefusedForGood, tableVars, budgetVars
  <2> QED
    BY <2>2, <2>3, <2>4
<1>2. CASE RefuseOverdue(a)
  <2>1. TableTypes'
    BY <1>2 DEF RefuseOverdue, TableTypes, budgetVars
  <2>2. Locks'
    BY <1>2 DEF RefuseOverdue, TableTypes, Locks, Undecided, RowLocked, NeedsIncrease, budgetVars
  <2>3. CapHolds' /\ RefusedOverdue'
    BY <1>2 DEF RefuseOverdue, CapHolds, RefusedOverdue, RefusedForGood, Undecided, budgetVars
  <2> QED
    BY <2>1, <2>2, <2>3
<1>3. CASE LockBudget(a)
  <2>1. TableTypes'
    BY <1>3 DEF LockBudget, TableTypes, tableVars, budgetVars
  <2>2. tx' = [tx EXCEPT ![a].pc = "budget"] /\ UNCHANGED <<status, target, refused, limit>>
    BY <1>3 DEF LockBudget, tableVars, budgetVars
  <2>3. target[a] \in Entity
    BY <1>3 DEF LockBudget, TableTypes
  <2>4. \A b \in Action : RowLocked(b)' <=> RowLocked(b)
    BY <1>3, <2>2 DEF LockBudget, TableTypes, RowLocked
  <2>5. \A b \in Action : tx'[b].to = tx[b].to /\ tx'[b].amount = tx[b].amount
    BY <2>2 DEF TableTypes
  <2>6. \A b \in Action : tx'[b].pc = "budget" => b = a \/ tx[b].pc = "budget"
    BY <2>2 DEF TableTypes
  <2>7. \A b \in Action : tx[b].pc = "budget" => target[b] # target[a]
    BY <1>3 DEF LockBudget, BudgetLocked
  <2>8. Locks'
    BY <1>3, <2>2, <2>3, <2>4, <2>5, <2>6, <2>7 DEF LockBudget, Locks, NeedsIncrease
  <2>9. CapHolds' /\ RefusedOverdue'
    BY <1>3 DEF LockBudget, CapHolds, RefusedOverdue, RefusedForGood, tableVars, budgetVars
  <2> QED
    BY <2>1, <2>8, <2>9
<1>4. CASE Rollback(a)
  <2>1. NoTx \in [pc : {"none", "row", "budget"}, to : Statuses, amount : Nat] /\ NoTx.pc = "none"
    BY DEF NoTx, Statuses
  <2>2. TableTypes'
    BY <1>4, <2>1 DEF Rollback, TableTypes, tableVars, budgetVars
  <2>3. Locks'
    BY <1>4, <2>1 DEF Rollback, TableTypes, Locks, RowLocked, NeedsIncrease, tableVars, budgetVars
  <2>4. CapHolds' /\ RefusedOverdue'
    BY <1>4 DEF Rollback, CapHolds, RefusedOverdue, RefusedForGood, tableVars, budgetVars
  <2> QED
    BY <2>2, <2>3, <2>4
<1>5. CASE Commit(a)
  <2>1. NoTx \in [pc : {"none", "row", "budget"}, to : Statuses, amount : Nat] /\ NoTx.pc = "none"
    BY DEF NoTx, Statuses
  <2>2. /\ status' = [status EXCEPT ![a] = tx[a].to]
        /\ tx' = [tx EXCEPT ![a] = NoTx]
        /\ UNCHANGED <<owner, target, overdue, refused, rows>>
        /\ limit' = IF NeedsIncrease(a) THEN [limit EXCEPT ![target[a]] = @ + tx[a].amount] ELSE limit
        /\ a \notin refused /\ tx[a].to \in Statuses /\ tx[a].amount \in Nat
    BY <1>5 DEF Commit, Locks, TableTypes
  <2>3. NeedsIncrease(a) => /\ target[a] \in Entity /\ limit[target[a]] + tx[a].amount <= Cap
                            /\ tx[a].pc = "budget"
    BY <1>5 DEF Commit, Locks
  <2>4. limit' \in [Entity -> Nat] /\ \A e \in Entity : limit'[e] # limit[e] =>
           limit'[e] <= Cap /\ NeedsIncrease(a) /\ e = target[a]
    BY <2>2, <2>3 DEF TableTypes
  <2>5. TableTypes'
    BY <2>1, <2>2, <2>4 DEF TableTypes
  <2>6. \A b \in Action : b # a => tx'[b] = tx[b] /\ status'[b] = status[b]
    BY <2>2 DEF TableTypes
  <2>7. tx'[a].pc = "none"
    BY <2>1, <2>2 DEF TableTypes
  <2>8. \A b \in Action : tx'[b].pc = "budget" =>
          b # a /\ target[b] \in Entity /\ limit'[target[b]] = limit[target[b]]
    BY <2>2, <2>3, <2>4, <2>6, <2>7 DEF Locks
  <2>9. Locks'
    BY <2>2, <2>6, <2>7, <2>8 DEF Locks, RowLocked, NeedsIncrease
  <2>10. CapHolds' /\ RefusedOverdue'
    BY <2>2, <2>4, <2>6 DEF CapHolds, RefusedOverdue, RefusedForGood
  <2> QED
    BY <2>5, <2>9, <2>10
<1> QED
  BY <1>1, <1>2, <1>3, <1>4, <1>5 DEF Decide

\* So do the dashboard's edits, and the passing of time.
LEMMA EditTables ==
  ASSUME TableInv,
         \/ \E a \in Action : Lapse(a)
         \/ BulkExpire
         \/ \E e \in Entity : DeleteBudget(e) \/ \E m \in Limits : SetBudget(e, m)
  PROVE  TableInv'
<1>1. ASSUME NEW a \in Action, Lapse(a) PROVE TableInv'
  <2>1. TableTypes'
    BY <1>1 DEF TableInv, Lapse, TableTypes, budgetVars
  <2>2. Locks' /\ CapHolds' /\ RefusedOverdue'
    BY <1>1 DEF TableInv, Lapse, TableTypes, Locks, RowLocked, NeedsIncrease, CapHolds, RefusedOverdue,
                RefusedForGood, budgetVars
  <2> QED
    BY <2>1, <2>2 DEF TableInv
<1>2. CASE BulkExpire
  BY <1>2, TablesByStatus DEF BulkExpire, TableInv, TableTypes, Statuses, RowLocked
<1>3. ASSUME NEW e \in Entity, NEW m \in Nat, m <= Cap, ~BudgetLocked(e),
             limit' = [limit EXCEPT ![e] = m], rows' \subseteq Entity,
             UNCHANGED <<tableVars, tx>>
      PROVE  TableInv'
  <2>1. TableTypes'
    BY <1>3 DEF TableInv, TableTypes, tableVars
  <2>2. \A a \in Action : tx[a].pc = "budget" =>
          target[a] \in Entity /\ limit'[target[a]] = limit[target[a]]
    BY <1>3 DEF TableInv, TableTypes, Locks, BudgetLocked
  <2>3. Locks'
    BY <1>3, <2>2 DEF TableInv, Locks, RowLocked, NeedsIncrease, tableVars
  <2>4. CapHolds' /\ RefusedOverdue'
    BY <1>3 DEF TableInv, TableTypes, CapHolds, RefusedOverdue, RefusedForGood, tableVars
  <2> QED
    BY <2>1, <2>3, <2>4 DEF TableInv
<1>4. ASSUME NEW e \in Entity, DeleteBudget(e) PROVE TableInv'
  <2>1. /\ ~BudgetLocked(e) /\ limit' = [limit EXCEPT ![e] = 0] /\ rows' \subseteq Entity
        /\ UNCHANGED <<tableVars, tx>>
    BY <1>4 DEF DeleteBudget, TableInv, TableTypes
  <2>2. 0 \in Nat /\ 0 <= Cap
    BY ActionsAssumption
  <2> QED
    BY <1>3, <2>1, <2>2
<1>5. ASSUME NEW e \in Entity, NEW m \in Limits, SetBudget(e, m) PROVE TableInv'
  BY <1>3, <1>5, LimitsNat DEF SetBudget, TableInv, TableTypes
<1> QED
  BY <1>1, <1>2, <1>4, <1>5

-----------------------------------------------------------------------------

\* An action that a step leaves alone, or takes from pending to a decision.
Mild(a) ==
  /\ owner'[a] = owner[a]
  /\ status'[a] # status[a] => status[a] = "pending" /\ status'[a] \in {"approved", "rejected", "expired"}

\* A client that a step leaves alone.
Kept(d) ==
  /\ pc'[d] = pc[d] /\ mine'[d] = mine[d] /\ tries'[d] = tries[d]
  /\ flight'[d] = flight[d] /\ report'[d] = report[d] /\ runs'[d] = runs[d]

LEMMA KeptOK ==
  ASSUME NEW d \in Client, ClientOK(d), Kept(d),
         \A a \in Action : owner[a] = d /\ status[a] # "absent" => Mild(a)
  PROVE  ClientOK(d)'
<1>1. mine[d] \in Action =>
        /\ owner'[mine[d]] = d /\ status'[mine[d]] # "absent"
        /\ status[mine[d]] # "pending" => status'[mine[d]] = status[mine[d]]
  BY DEF ClientOK, Mild
<1>2. pc[d] = "refused" => mine[d] \in Action
  BY DEF ClientOK, Places
<1> QED
  BY <1>1, <1>2 DEF ClientOK, Kept, Granted

\* A step of client c that decides actions at most.
LEMMA ClientStep ==
  ASSUME ClientInv, NEW c \in Client, ClientTypes', ClientOK(c)',
         \A a \in Action : Mild(a),
         \A d \in Client : d # c => Kept(d),
         (\E a \in Action : owner[a] = c /\ status[a] \in Marked) =>
            /\ mine'[c] = mine[c] /\ pc'[c] \notin Early
            /\ runs[c] = 1 => runs'[c] = 1 /\ report'[c] = report[c]
  PROVE  ClientInv'
<1>1. ASSUME NEW d \in Client PROVE ClientOK(d)'
  BY <1>1, KeptOK DEF ClientInv
<1>2. ASSUME NEW a \in Action PROVE ActionOK(a)'
  <2>1. ActionOK(a) /\ Mild(a)
    BY DEF ClientInv
  <2>2. CASE status'[a] = status[a]
    BY <2>1, <2>2 DEF ActionOK, Mild, Kept, Marked, Outcomes
  <2>3. CASE status'[a] # status[a]
    BY <2>1, <2>3 DEF ActionOK, Mild, Marked, Outcomes
  <2> QED
    BY <2>2, <2>3
<1> QED
  BY <1>1, <1>2 DEF ClientInv

\* No action of a client that has not heard of an approval is marked.
LEMMA EarlyUnmarked ==
  ASSUME ClientInv, NEW c \in Client, pc[c] \in Early
  PROVE  ~\E a \in Action : owner[a] = c /\ status[a] \in Marked
  BY DEF ClientInv, ActionOK

\* Steps of the dashboard and of time leave every client alone.
LEMMA QuietStep ==
  ASSUME ClientInv, UNCHANGED clientVars, \A a \in Action : Mild(a)
  PROVE  ClientInv'
<1>1. \A d \in Client : Kept(d)
  BY DEF clientVars, Kept
<1>2. ClientTypes'
  BY DEF ClientInv, ClientTypes, clientVars
<1>3. ASSUME NEW d \in Client PROVE ClientOK(d)'
  BY <1>1, <1>3, KeptOK DEF ClientInv
<1>4. ASSUME NEW a \in Action PROVE ActionOK(a)'
  <2>1. ActionOK(a) /\ Mild(a)
    BY DEF ClientInv
  <2> QED
    BY <2>1 DEF ActionOK, Mild, Marked, Outcomes, clientVars
<1> QED
  BY <1>2, <1>3, <1>4 DEF ClientInv

LEMMA DecideClients ==
  ASSUME TableInv, ClientInv, NEW a \in Action, Decide(a)
  PROVE  ClientInv'
<1>1. UNCHANGED clientVars
  BY DEF Decide, BeginResolve, RefuseOverdue, LockBudget, Rollback, Commit
<1>2. CASE Commit(a)
  <2>1. status[a] = "pending" /\ tx[a].to \in {"approved", "rejected"}
    BY <1>2 DEF Commit, TableInv, Locks
  <2>2. status' = [status EXCEPT ![a] = tx[a].to] /\ UNCHANGED owner
    BY <1>2 DEF Commit
  <2>3. \A b \in Action : Mild(b)
    BY <2>1, <2>2 DEF TableInv, TableTypes, Mild
  <2> QED
    BY <1>1, <2>3, QuietStep
<1>3. CASE ~Commit(a)
  <2>1. UNCHANGED <<status, owner>>
    BY <1>3 DEF Decide, BeginResolve, RefuseOverdue, LockBudget, Rollback, tableVars
  <2>2. \A b \in Action : Mild(b)
    BY <2>1 DEF Mild
  <2> QED
    BY <1>1, <2>2, QuietStep
<1> QED
  BY <1>2, <1>3

LEMMA EditClients ==
  ASSUME TableInv, ClientInv,
         \/ \E a \in Action : Lapse(a)
         \/ BulkExpire
         \/ \E e \in Entity : DeleteBudget(e) \/ \E m \in Limits : SetBudget(e, m)
  PROVE  ClientInv'
<1>1. UNCHANGED <<owner, clientVars>>
  BY DEF Lapse, BulkExpire, DeleteBudget, SetBudget, tableVars
<1>2. \A b \in Action : status'[b] # status[b] => status[b] = "pending" /\ status'[b] = "expired"
  BY DEF Lapse, BulkExpire, DeleteBudget, SetBudget, tableVars
<1>3. \A b \in Action : Mild(b)
  BY <1>1, <1>2 DEF Mild
<1> QED
  BY <1>1, <1>3, QuietStep

-----------------------------------------------------------------------------

\* What a client hears of an action that is no longer pending is where it goes.
LEMMA HearsOK ==
  ASSUME TableInv, ClientInv, NEW c \in Client, pc[c] \in {"waiting", "expiring"},
         NEW s \in Statuses, s # "pending", Hears(c, s),
         status'[mine[c]] = s, \A a \in Action : Mild(a),
         UNCHANGED <<mine, tries, flight, report, runs>>
  PROVE  ClientInv'
<1>1. mine[c] \in Action /\ owner[mine[c]] = c /\ status[mine[c]] # "absent"
  BY DEF ClientInv, ClientOK, Places
<1>2. pc[c] \in Early /\ ~\E a \in Action : owner[a] = c /\ status[a] \in Marked
  BY EarlyUnmarked DEF Early
<1>3. s \in {"approved", "rejected", "expired"}
  BY <1>1, <1>2 DEF Mild, Marked, Statuses
<1>4. pc' = [pc EXCEPT ![c] = IF s = "approved" THEN "marking" ELSE "refused"]
  BY DEF Hears, Goes
<1>5. ClientTypes'
  BY <1>4 DEF ClientInv, ClientTypes, Places
<1>6. pc'[c] = IF s = "approved" THEN "marking" ELSE "refused"
  BY <1>4 DEF ClientInv, ClientTypes
<1>7. \A d \in Client : d # c => Kept(d)
  BY <1>4 DEF ClientInv, ClientTypes, Kept
<1>8. owner'[mine[c]] = c
  BY <1>1 DEF Mild
<1>9. runs[c] = 0 /\ \A r \in Results : flight[c][r] = 0
  BY <1>2 DEF ClientInv, ClientOK
<1>10. tries[c] \in 0..MaxTries
  BY DEF ClientInv, ClientTypes
<1>11. ClientOK(c)'
  BY <1>1, <1>3, <1>6, <1>8, <1>9, <1>10, ActionsAssumption
     DEF ClientOK, Places, Early, Granted, Outcomes, Results
<1> QED
  BY <1>2, <1>5, <1>7, <1>11, ClientStep

LEMMA PollInv ==
  ASSUME IInv, NEW c \in Client, Poll(c)
  PROVE  IInv'
<1> USE DEF IInv
<1>1. UNCHANGED <<tableVars, tx, budgetVars, mine, tries, flight, report, runs>>
  BY DEF Poll
<1>2. TableInv'
  BY <1>1 DEF TableInv, TableTypes, Locks, RowLocked, NeedsIncrease, CapHolds, RefusedOverdue,
              RefusedForGood, tableVars, budgetVars
<1>3. \A a \in Action : Mild(a)
  BY <1>1 DEF Mild, tableVars
<1>4. pc[c] = "waiting" /\ mine[c] \in Action /\ status[mine[c]] # "absent"
  BY DEF Poll, ClientInv, ClientOK, Places
<1>5. CASE status[mine[c]] # "pending"
  <2>1. status[mine[c]] \in Statuses
    BY <1>4 DEF TableInv, TableTypes
  <2>2. Hears(c, status[mine[c]]) /\ status'[mine[c]] = status[mine[c]]
    BY <1>1, <1>5 DEF Poll, tableVars
  <2> QED
    BY <1>1, <1>2, <1>3, <1>4, <1>5, <2>1, <2>2, HearsOK
<1>6. CASE status[mine[c]] = "pending"
  <2>1. pc' = [pc EXCEPT ![c] = "expiring"]
    BY <1>6 DEF Poll, Goes
  <2>2. ClientTypes' /\ \A d \in Client : d # c => Kept(d)
    BY <1>1, <2>1 DEF ClientInv, ClientTypes, Kept, Places
  <2>3. pc'[c] = "expiring"
    BY <2>1 DEF ClientInv, ClientTypes
  <2>4. ClientOK(c)'
    BY <1>1, <1>4, <2>3 DEF ClientInv, ClientOK, Early, Places, tableVars
  <2>5. ~\E a \in Action : owner[a] = c /\ status[a] \in Marked
    BY <1>4, EarlyUnmarked DEF Early
  <2> QED
    BY <1>2, <1>3, <2>2, <2>4, <2>5, ClientStep
<1> QED
  BY <1>5, <1>6

LEMMA ExpireActionInv ==
  ASSUME IInv, NEW c \in Client, ExpireAction(c)
  PROVE  IInv'
<1> USE DEF IInv
<1> DEFINE a == mine[c]
<1>1. UNCHANGED <<owner, target, overdue, refused, tx, budgetVars, mine, tries, flight, report, runs>>
  BY DEF ExpireAction
<1>2. pc[c] = "expiring" /\ a \in Action /\ status[a] # "absent" /\ ~RowLocked(a)
  BY DEF ExpireAction, ClientInv, ClientOK, Places
<1>3. status[a] \in Statuses
  BY <1>2 DEF TableInv, TableTypes
<1>4. CASE status[a] = "pending"
  <2>1. status' = [status EXCEPT ![a] = "expired"] /\ Hears(c, "expired")
    BY <1>4 DEF ExpireAction
  <2>2. /\ status' \in [Action -> Statuses \cup {"absent"}]
        /\ status'[a] = "expired"
        /\ \A b \in Action : b # a => status'[b] = status[b]
    BY <1>2, <2>1 DEF TableInv, TableTypes, Statuses
  <2>3. TableInv'
    BY <1>1, <1>2, <2>2, TablesByStatus
  <2>4. \A b \in Action : Mild(b)
    BY <1>1, <1>4, <2>2 DEF Mild
  <2>5. "expired" \in Statuses
    BY DEF Statuses
  <2> QED
    BY <1>1, <1>2, <2>1, <2>2, <2>3, <2>4, <2>5, HearsOK
<1>5. CASE status[a] # "pending"
  <2>1. UNCHANGED status /\ Hears(c, status[a])
    BY <1>5 DEF ExpireAction
  <2>2. TableInv'
    BY <1>1, <2>1, TablesByStatus DEF TableInv, TableTypes
  <2>3. \A b \in Action : Mild(b)
    BY <1>1, <2>1 DEF Mild
  <2> QED
    BY <1>1, <1>2, <1>3, <1>5, <2>1, <2>2, <2>3, HearsOK
<1> QED
  BY <1>4, <1>5

\* Nothing changes but where client c is.
LEMMA MovesInv ==
  ASSUME IInv, NEW c \in Client, NEW q \in Places,
         \/ q = "gone" /\ pc[c] # "refused"
         \/ q = "running" /\ pc[c] \in {"marking", "rechecking"}
         \/ q = "rechecking" /\ pc[c] = "marking",
         pc' = [pc EXCEPT ![c] = q],
         UNCHANGED <<tableVars, tx, budgetVars, mine, tries, flight, report, runs>>
  PROVE  IInv'
<1> USE DEF IInv
<1>1. TableInv'
  BY DEF TableInv, TableTypes, Locks, RowLocked, NeedsIncrease, CapHolds, RefusedOverdue,
         RefusedForGood, tableVars, budgetVars
<1>2. \A a \in Action : Mild(a)
  BY DEF Mild, tableVars
<1>3. ClientTypes' /\ pc'[c] = q /\ \A d \in Client : d # c => Kept(d)
  BY DEF ClientInv, ClientTypes, Kept
<1>4. ClientOK(c)'
  BY <1>3 DEF ClientInv, ClientOK, Early, Places, tableVars
<1>5. q \notin Early
  BY DEF Early
<1> QED
  BY <1>1, <1>2, <1>3, <1>4, <1>5, ClientStep

\* The steps of a client that only move it.
LEMMA OnlyMoves ==
  ASSUME IInv, NEW c \in Client, GiveUp(c) \/ NoAnswer(c) \/ Recheck(c)
  PROVE  IInv'
<1>1. UNCHANGED <<tableVars, tx, budgetVars, mine, tries, flight, report, runs>>
  BY DEF GiveUp, NoAnswer, Recheck
<1>2. PICK q \in {"gone", "running"} :
        /\ pc' = [pc EXCEPT ![c] = q]
        /\ pc[c] # "refused"
        /\ q = "running" => pc[c] \in {"marking", "rechecking"}
  BY DEF GiveUp, NoAnswer, Recheck, Fails, Proceeds, Goes
<1>3. q \in Places
  BY DEF Places
<1> QED
  BY <1>1, <1>2, <1>3, MovesInv

LEMMA CreateInv ==
  ASSUME IInv, NEW c \in Client, NEW a \in Action, NEW e \in Entity \cup {Nothing}, CreateAction(c, a, e)
  PROVE  IInv'
<1> USE DEF IInv
<1>1. /\ status[a] = "absent" /\ pc[c] = "creating"
      /\ status' = [status EXCEPT ![a] = "pending"]
      /\ owner' = [owner EXCEPT ![a] = c]
      /\ target' = [target EXCEPT ![a] = e]
      /\ UNCHANGED <<overdue, refused, tx, budgetVars, tries, flight, report, runs>>
      /\ \/ mine' = [mine EXCEPT ![c] = a] /\ pc' = [pc EXCEPT ![c] = "waiting"]
         \/ UNCHANGED <<pc, mine>>
  BY DEF CreateAction, Goes
<1>2. ~RowLocked(a) /\ a \notin refused
  BY <1>1 DEF TableInv, Locks, RefusedOverdue, RefusedForGood
<1>3. TableTypes'
  BY <1>1 DEF TableInv, TableTypes, Statuses, budgetVars
<1>4. \A b \in Action : b # a => status'[b] = status[b] /\ owner'[b] = owner[b] /\ target'[b] = target[b]
  BY <1>1 DEF TableInv, TableTypes
<1>5. Locks'
  BY <1>1, <1>2, <1>4 DEF TableInv, Locks, RowLocked, NeedsIncrease, budgetVars
<1>6. CapHolds' /\ RefusedOverdue'
  BY <1>1, <1>2, <1>4 DEF TableInv, CapHolds, RefusedOverdue, RefusedForGood, budgetVars
<1>7. status'[a] = "pending" /\ owner'[a] = c
  BY <1>1 DEF TableInv, TableTypes
<1>8. ClientTypes' /\ \A d \in Client : d # c => Kept(d)
  BY <1>1 DEF ClientInv, ClientTypes, Kept, Places
<1>9. \/ mine'[c] = a /\ pc'[c] = "waiting"
      \/ mine'[c] = mine[c] /\ pc'[c] = "creating"
  BY <1>1 DEF ClientInv, ClientTypes
<1>10. runs'[c] = 0 /\ \A s \in Results : flight'[c][s] = 0
  BY <1>1 DEF ClientInv, ClientOK, Early
<1>11. mine'[c] \in Action => owner'[mine'[c]] = c /\ status'[mine'[c]] # "absent"
  BY <1>4, <1>7, <1>9 DEF ClientInv, ClientOK
<1>12. ClientOK(c)'
  BY <1>9, <1>10, <1>11 DEF ClientOK, Places, Early, Outcomes, Results
<1>13. ASSUME NEW d \in Client, d # c PROVE ClientOK(d)'
  <2>1. \A b \in Action : owner[b] = d /\ status[b] # "absent" => Mild(b)
    BY <1>1, <1>4 DEF Mild
  <2> QED
    BY <1>8, <1>13, <2>1, KeptOK DEF ClientInv
<1>14. ASSUME NEW b \in Action PROVE ActionOK(b)'
  <2>1. CASE b = a
    BY <1>7, <2>1 DEF ActionOK, Marked, Outcomes
  <2>2. CASE b # a /\ owner[b] = c
    <3>1. status[b] \notin Marked
      BY <1>1, <2>2, EarlyUnmarked DEF Early
    <3> QED
      BY <1>4, <2>2, <3>1 DEF ActionOK, Marked, Outcomes
  <2>3. CASE b # a /\ owner[b] # c
    BY <1>4, <1>8, <2>3 DEF ClientInv, ActionOK, Kept, Marked, Outcomes
  <2> QED
    BY <2>1, <2>2, <2>3
<1> QED
  BY <1>3, <1>5, <1>6, <1>8, <1>12, <1>13, <1>14 DEF TableInv, ClientInv

LEMMA ReplayInv ==
  ASSUME IInv, NEW c \in Client, NEW a \in Action, ReplayCreate(c, a)
  PROVE  IInv'
<1> USE DEF IInv
<1>1. /\ pc[c] = "creating" /\ owner[a] = c /\ status[a] # "absent"
      /\ mine' = [mine EXCEPT ![c] = a] /\ pc' = [pc EXCEPT ![c] = "waiting"]
      /\ UNCHANGED <<tableVars, tx, budgetVars, tries, flight, report, runs>>
  BY DEF ReplayCreate, Owned, Goes
<1>2. TableInv'
  BY <1>1 DEF TableInv, TableTypes, Locks, RowLocked, NeedsIncrease, CapHolds, RefusedOverdue,
              RefusedForGood, tableVars, budgetVars
<1>3. \A b \in Action : Mild(b)
  BY <1>1 DEF Mild, tableVars
<1>4. ClientTypes' /\ \A d \in Client : d # c => Kept(d)
  BY <1>1 DEF ClientInv, ClientTypes, Kept, Places
<1>5. mine'[c] = a /\ pc'[c] = "waiting"
  BY <1>1 DEF ClientInv, ClientTypes
<1>6. runs'[c] = 0 /\ \A s \in Results : flight'[c][s] = 0
  BY <1>1 DEF ClientInv, ClientOK, Early
<1>7. ClientOK(c)'
  BY <1>1, <1>5, <1>6 DEF ClientOK, Places, Early, Outcomes, Results, tableVars
<1>8. ~\E b \in Action : owner[b] = c /\ status[b] \in Marked
  BY <1>1, EarlyUnmarked DEF Early
<1> QED
  BY <1>2, <1>3, <1>4, <1>7, <1>8, ClientStep

LEMMA SendInv ==
  ASSUME IInv, NEW c \in Client, Send(c)
  PROVE  IInv'
<1> USE DEF IInv
<1> DEFINE s == Call(c)
<1>1. /\ pc[c] \in {"marking", "reporting"} /\ tries[c] < MaxTries
      /\ tries' = [tries EXCEPT ![c] = @ + 1]
      /\ flight' = [flight EXCEPT ![c][s] = @ + 1]
      /\ UNCHANGED <<tableVars, tx, budgetVars, pc, mine, report, runs>>
  BY DEF Send
<1>2. TableInv'
  BY <1>1 DEF TableInv, TableTypes, Locks, RowLocked, NeedsIncrease, CapHolds, RefusedOverdue,
              RefusedForGood, tableVars, budgetVars
<1>3. \A a \in Action : Mild(a)
  BY <1>1 DEF Mild, tableVars
<1>4. s \in Results /\ flight[c][s] <= tries[c]
  BY <1>1 DEF Call, Results, Outcomes, ClientInv, ClientOK
<1>5. tries[c] \in 0..MaxTries /\ flight[c] \in [Results -> 0..MaxTries]
  BY DEF ClientInv, ClientTypes
<1>6. /\ tries'[c] = tries[c] + 1 /\ flight'[c][s] = flight[c][s] + 1
      /\ \A r \in Results : r # s => flight'[c][r] = flight[c][r]
      /\ flight[c][s] + 1 \in 0..MaxTries /\ tries[c] + 1 \in 0..MaxTries
  BY <1>1, <1>4, <1>5, ActionsAssumption DEF ClientInv, ClientTypes
<1>7. ClientTypes'
  BY <1>1, <1>6 DEF ClientInv, ClientTypes
<1>8. \A d \in Client : d # c => Kept(d)
  BY <1>1 DEF ClientInv, ClientTypes, Kept
<1>9. UNCHANGED <<pc[c], mine[c], report[c], runs[c], status, owner>>
  BY <1>1 DEF tableVars
<1>10. s = IF pc[c] = "marking" THEN "executing" ELSE report[c]
  BY DEF Call
<1>11. ClientOK(c)'
  <2>1. CASE pc[c] = "marking"
    <3>1. s = "executing" /\ \A r \in Outcomes : r # s
      BY <1>10, <2>1 DEF Outcomes
    <3> QED
      BY <1>4, <1>5, <1>6, <1>9, <2>1, <3>1
         DEF ClientInv, ClientOK, Early, Places, Results, Outcomes
  <2>2. CASE pc[c] = "reporting"
    <3>1. s = report[c]
      BY <1>10, <2>2
    <3> QED
      BY <1>4, <1>5, <1>6, <1>9, <2>2, <3>1
         DEF ClientInv, ClientOK, Early, Places, Results, Outcomes
  <2> QED
    BY <1>1, <2>1, <2>2
<1>12. pc'[c] \notin Early
  BY <1>1, <1>9 DEF Early
<1> QED
  BY <1>2, <1>3, <1>7, <1>8, <1>9, <1>11, <1>12, ClientStep

LEMMA RunInv ==
  ASSUME IInv, NEW c \in Client, NEW outcome \in Outcomes, Run(c, outcome)
  PROVE  IInv'
<1> USE DEF IInv
<1>1. /\ pc[c] = "running"
      /\ runs' = [runs EXCEPT ![c] = @ + 1]
      /\ report' = [report EXCEPT ![c] = outcome]
      /\ tries' = [tries EXCEPT ![c] = 0]
      /\ pc' = [pc EXCEPT ![c] = "reporting"]
      /\ UNCHANGED <<tableVars, tx, budgetVars, mine, flight>>
  BY DEF Run, Goes
<1>2. TableInv'
  BY <1>1 DEF TableInv, TableTypes, Locks, RowLocked, NeedsIncrease, CapHolds, RefusedOverdue,
              RefusedForGood, tableVars, budgetVars
<1>3. \A a \in Action : Mild(a)
  BY <1>1 DEF Mild, tableVars
<1>4. runs[c] = 0 /\ (\A r \in Outcomes : flight[c][r] = 0) /\ mine[c] \in Action /\ status[mine[c]] \in Granted
  BY <1>1 DEF ClientInv, ClientOK, Places
<1>5. ClientTypes'
  BY <1>1, <1>4, ActionsAssumption DEF ClientInv, ClientTypes, Places, Outcomes
<1>6. pc'[c] = "reporting" /\ runs'[c] = 1 /\ report'[c] = outcome /\ tries'[c] = 0
  BY <1>1, <1>4 DEF ClientInv, ClientTypes
<1>7. \A d \in Client : d # c => Kept(d)
  BY <1>1 DEF ClientInv, ClientTypes, Kept
<1>8. UNCHANGED <<mine, flight, status, owner>>
  BY <1>1 DEF tableVars
<1>9. ClientOK(c)'
  BY <1>4, <1>6, <1>8 DEF ClientInv, ClientOK, Early
<1> QED
  BY <1>2, <1>3, <1>4, <1>5, <1>6, <1>7, <1>8, <1>9, ClientStep DEF Early

LEMMA MarkResultInv ==
  ASSUME IInv, NEW c \in Client, NEW s \in Results, MarkResult(c, s)
  PROVE  IInv'
<1> USE DEF IInv
<1> DEFINE a == mine[c]
<1>1. /\ flight[c][s] > 0
      /\ flight' = [flight EXCEPT ![c][s] = @ - 1]
      /\ status' = IF CanTransitionStatus(status[a], s) THEN [status EXCEPT ![a] = s] ELSE status
      /\ UNCHANGED <<owner, target, overdue, refused, tx, budgetVars, mine, tries, report, runs>>
  BY DEF MarkResult
<1>2. PICK q \in Places :
        /\ pc' = [pc EXCEPT ![c] = q]
        /\ \/ q = pc[c] \/ q = "gone"
           \/ q \in {"running", "rechecking"} /\ pc[c] = "marking"
  <2>1. CASE UNCHANGED pc
    BY <2>1 DEF ClientInv, ClientTypes
  <2>2. CASE ~UNCHANGED pc
    BY <2>2 DEF MarkResult, Proceeds, Conflict, Goes, Places
  <2> QED
    BY <2>1, <2>2
<1>3. a \in Action /\ owner[a] = c /\ status[a] \in Granted
  BY <1>1 DEF ClientInv, ClientOK
<1>4. pc[c] \notin Early
  BY <1>1 DEF ClientInv, ClientOK
<1>5. CanTransitionStatus(status[a], s) =>
        \/ status[a] = "approved" /\ s = "executing"
        \/ status[a] = "executing" /\ s \in Outcomes
  <2>1. status[a] \in Statuses /\ s \in Statuses /\ status[a] # "pending"
    BY <1>3 DEF Granted, Statuses, Results
  <2> QED
    BY <2>1, TransitionsTo DEF CanTransitionStatus
<1>6. /\ status' \in [Action -> Statuses \cup {"absent"}]
      /\ \A b \in Action : b # a => status'[b] = status[b]
      /\ status'[a] # status[a] =>
           /\ status'[a] = s
           /\ \/ status[a] = "approved" /\ s = "executing"
              \/ status[a] = "executing" /\ s \in Outcomes
  BY <1>1, <1>3, <1>5 DEF TableInv, TableTypes, Statuses, Results
<1>7. TableInv'
  <2>1. status[a] # "pending" /\ status[a] # "expired"
    BY <1>3 DEF Granted
  <2>2. ~RowLocked(a) /\ a \notin refused
    BY <1>3, <2>1 DEF TableInv, Locks, RefusedOverdue, RefusedForGood
  <2> QED
    BY <1>1, <1>6, <2>2, TablesByStatus
<1>8. flight[c] \in [Results -> 0..MaxTries] /\ tries[c] \in 0..MaxTries
  BY DEF ClientInv, ClientTypes
<1>9. /\ \A r \in Results : flight'[c][r] <= flight[c][r] /\ flight'[c][r] \in 0..MaxTries
      /\ pc'[c] = q
  BY <1>1, <1>2, <1>8, ActionsAssumption DEF ClientInv, ClientTypes
<1>10. ClientTypes'
  BY <1>1, <1>2, <1>8, <1>9 DEF ClientInv, ClientTypes
<1>11. \A d \in Client : d # c => Kept(d)
  BY <1>1, <1>2 DEF ClientInv, ClientTypes, Kept
<1>12. status'[a] \in Granted /\ status'[a] # "absent"
  BY <1>3, <1>6 DEF Granted, Outcomes
<1>13. q \notin Early
  BY <1>2, <1>4 DEF Early
<1>14. ClientOK(c)'
  <2>1. UNCHANGED <<mine[c], tries[c], report[c], runs[c], owner>>
    BY <1>1
  <2>2. q \in Places /\ q \notin Early
    BY <1>13
  <2>3. \A r \in Results : flight'[c][r] \in Nat /\ flight[c][r] \in Nat
    BY <1>8, <1>9, ActionsAssumption
  <2>4. Outcomes \subseteq Results /\ "executing" \in Results
    BY DEF Outcomes, Results
  <2>5. q \in {"marking", "rechecking", "running"} =>
          pc[c] \in {"marking", "rechecking", "running"}
    BY <1>2
  <2>6. (q = "marking" => pc[c] = "marking") /\ (q = "reporting" => pc[c] = "reporting")
    BY <1>2
  <2>7. q = "marking" => flight'[c]["executing"] <= tries[c]
    BY <1>8, <1>9, <2>3, <2>4, <2>6 DEF ClientInv, ClientOK
  <2>8. q = "reporting" =>
          report[c] \in Outcomes /\ runs[c] = 1 /\ flight'[c][report[c]] <= tries[c]
    BY <1>8, <1>9, <2>3, <2>4, <2>6 DEF ClientInv, ClientOK
  <2>9. \A r \in Outcomes : flight'[c][r] > 0 => runs[c] = 1 /\ report[c] = r
    BY <1>9, <2>3, <2>4 DEF ClientInv, ClientOK
  <2>10. q \in {"marking", "rechecking", "running"} =>
           runs[c] = 0 /\ \A r \in Outcomes : flight'[c][r] = 0
    BY <1>9, <2>3, <2>4, <2>5 DEF ClientInv, ClientOK
  <2> QED
    BY <1>3, <1>9, <1>12, <2>1, <2>2, <2>7, <2>8, <2>9, <2>10 DEF ClientOK, Early
<1>15. ASSUME NEW d \in Client, d # c PROVE ClientOK(d)'
  <2>1. \A b \in Action : owner[b] = d /\ status[b] # "absent" => Mild(b)
    BY <1>1, <1>3, <1>6, <1>15 DEF Mild
  <2> QED
    BY <1>11, <1>15, <2>1, KeptOK DEF ClientInv
<1>16. ASSUME NEW b \in Action PROVE ActionOK(b)'
  <2>1. CASE b = a
    <3>1. s \in Outcomes => runs[c] = 1 /\ report[c] = s
      BY <1>1 DEF ClientInv, ClientOK
    <3>2. ActionOK(a)
      BY <1>3 DEF ClientInv
    <3>3. status'[a] \in Outcomes => runs[c] = 1 /\ report[c] = status'[a]
      BY <1>3, <1>6, <3>1, <3>2 DEF ActionOK, Outcomes
    <3> QED
      BY <1>1, <1>3, <1>9, <1>13, <2>1, <3>3 DEF ActionOK
  <2>2. CASE b # a /\ owner[b] = c
    <3>1. status[b] \notin Marked
      BY <2>2 DEF ClientInv, ActionOK
    <3> QED
      BY <1>1, <1>6, <2>2, <3>1 DEF ActionOK, Marked, Outcomes
  <2>3. CASE b # a /\ owner[b] # c
    BY <1>1, <1>6, <1>11, <2>3 DEF ClientInv, ActionOK, Kept, Marked, Outcomes
  <2> QED
    BY <2>1, <2>2, <2>3
<1> QED
  BY <1>7, <1>10, <1>14, <1>15, <1>16 DEF ClientInv

-----------------------------------------------------------------------------

LEMMA StepInv == IInv /\ [Next]_vars => IInv'
<1> SUFFICES ASSUME IInv, [Next]_vars PROVE IInv'
  OBVIOUS
<1>1. ASSUME NEW a \in Action, Decide(a) PROVE IInv'
  BY <1>1, DecideTables, DecideClients DEF IInv
<1>2. CASE \/ \E a \in Action : Lapse(a)
           \/ BulkExpire
           \/ \E e \in Entity : DeleteBudget(e) \/ \E m \in Limits : SetBudget(e, m)
  BY <1>2, EditTables, EditClients DEF IInv
<1>3. ASSUME NEW c \in Client, ClientNext(c) PROVE IInv'
  BY <1>3, CreateInv, ReplayInv, OnlyMoves, PollInv, ExpireActionInv, SendInv, MarkResultInv, RunInv
     DEF ClientNext, Outcomes
<1>4. CASE UNCHANGED vars
  <2>1. UNCHANGED <<status, owner, target, overdue, refused, tx, rows, limit, pc, mine, tries, flight, report, runs>>
    BY <1>4 DEF vars, tableVars, budgetVars, clientVars
  <2>2. TableInv'
    BY <2>1, TablesByStatus DEF IInv, TableInv, TableTypes, budgetVars
  <2>3. \A a \in Action : Mild(a)
    BY <2>1 DEF Mild
  <2> QED
    BY <2>1, <2>2, <2>3, QuietStep DEF IInv, clientVars
<1> QED
  BY <1>1, <1>2, <1>3, <1>4 DEF Next

LEMMA Invariance == Spec => []IInv
<1> QED
  BY InitInv, StepInv, PTL DEF Spec

\* The variables of Actions keep to their types for all constants: tries of a call, calls
\* in flight and runs of a callback included.
THEOREM Typed == Spec => []TypeOK
<1>1. IInv => TypeOK
  BY DEF IInv, TableInv, TableTypes, ClientInv, ClientTypes, TypeOK, Places
<1> QED
  BY <1>1, Invariance, PTL

\* However many approvals, edits and deletions of budgets overlap, executeBudgetIncrease
\* takes no budget above the cap of the tier.
THEOREM IncreasesWithinCap == Spec => []CapHolds
<1>1. IInv => CapHolds
  BY DEF IInv, TableInv
<1> QED
  BY <1>1, Invariance, PTL

\* A decision that resolveAction has refused because the action was late stays refused.
THEOREM LateDecisionsFail == Spec => []RefusedForGood
<1>1. IInv => RefusedForGood
  BY DEF IInv, TableInv, RefusedOverdue
<1> QED
  BY <1>1, Invariance, PTL

\* What getAction told a client that may not proceed stays true, although its expiry raced
\* with decisions.
THEOREM RefusalsStand == Spec => []RefusalStands
<1>1. IInv => RefusalStands
  BY DEF IInv, ClientInv, ClientOK, RefusalStands
<1> QED
  BY <1>1, Invariance, PTL

\* proposeAndWait and gateToolCall run only what was approved.
THEOREM OnlyApprovedRuns == Spec => []RunsOnlyApproved
<1>1. IInv => RunsOnlyApproved
  BY DEF IInv, ClientInv, ClientOK, RunsOnlyApproved, Granted
<1> QED
  BY <1>1, Invariance, PTL

\* Whatever calls of markResult come twice, late or not at all, an outcome in the table is
\* what happened.
THEOREM ReportsAreTrue == Spec => []ReportTrue
<1>1. IInv => ReportTrue
  BY DEF IInv, ClientInv, ActionOK, ReportTrue, Marked, Outcomes
<1> QED
  BY <1>1, Invariance, PTL

\* Every step that changes the status of an action follows ALLOWED_TRANSITIONS.
LEMMA LegalStep ==
  ASSUME IInv, [Next]_vars, NEW a \in Action, status'[a] # status[a]
  PROVE  \/ status[a] = "absent" /\ status'[a] = "pending"
         \/ status[a] # "absent" /\ status'[a] \in AllowedTransitions[status[a]]
<1> DEFINE Legal == \/ status[a] = "absent" /\ status'[a] = "pending"
                    \/ status[a] # "absent" /\ status'[a] \in AllowedTransitions[status[a]]
<1>1. status \in [Action -> Statuses \cup {"absent"}]
  BY DEF IInv, TableInv, TableTypes
<1>2. ASSUME status[a] = "pending", status'[a] \in {"approved", "rejected", "expired"} PROVE Legal
  BY <1>2, TransitionsTo DEF Statuses
<1>3. ASSUME NEW b \in Action, Decide(b) PROVE Legal
  <2>1. Commit(b)
    BY <1>3 DEF Decide, BeginResolve, RefuseOverdue, LockBudget, Rollback, tableVars
  <2>2. status[b] = "pending" /\ tx[b].to \in {"approved", "rejected"}
    BY <2>1 DEF Commit, IInv, TableInv, Locks
  <2>3. a = b /\ status'[a] = tx[b].to
    BY <1>1, <2>1 DEF Commit
  <2> QED
    BY <1>2, <2>2, <2>3
<1>4. CASE BulkExpire
  BY <1>1, <1>2, <1>4 DEF BulkExpire
<1>5. ASSUME NEW c \in Client, ClientNext(c) PROVE Legal
  <2>1. ASSUME NEW b \in Action, NEW e \in Entity \cup {Nothing}, CreateAction(c, b, e) PROVE Legal
    <3>1. status[b] = "absent" /\ status' = [status EXCEPT ![b] = "pending"]
      BY <2>1 DEF CreateAction
    <3>2. a = b /\ status'[a] = "pending"
      BY <1>1, <3>1
    <3> QED
      BY <3>1, <3>2
  <2>2. CASE ExpireAction(c)
    BY <1>1, <1>2, <2>2 DEF ExpireAction
  <2>3. ASSUME NEW s \in Results, MarkResult(c, s) PROVE Legal
    <3>1. mine[c] \in Action /\ status[mine[c]] \in Granted
      BY <2>3 DEF MarkResult, IInv, ClientInv, ClientOK
    <3>2. a = mine[c] /\ status'[a] = s /\ s \in AllowedTransitions[status[a]]
      BY <1>1, <2>3, <3>1 DEF MarkResult, CanTransitionStatus
    <3> QED
      BY <3>1, <3>2 DEF Granted
  <2> QED
    BY <1>5, <2>1, <2>2, <2>3
       DEF ClientNext, ReplayCreate, GiveUp, Poll, Send, NoAnswer, Recheck, Run, tableVars
<1> QED
  BY <1>3, <1>4, <1>5
     DEF Next, Lapse, DeleteBudget, SetBudget, tableVars, vars

\* No answer once given is taken back, for any interleaving of any number of parties.
THEOREM TransitionsAreLegal == Spec => LegalTransitions
<1>1. IInv /\ [Next]_vars => [\A a \in Action :
        status'[a] # status[a] =>
          \/ status[a] = "absent" /\ status'[a] = "pending"
          \/ status[a] # "absent" /\ status'[a] \in AllowedTransitions[status[a]]]_vars
  BY LegalStep
<1> QED
  BY <1>1, Invariance, PTL DEF Spec, LegalTransitions

=============================================================================
