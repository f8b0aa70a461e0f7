----------------------------- MODULE Ledger_proofs -----------------------------
(***************************************************************************)
(* The books of UserBudgetDO close, on every instance: no hold is leaked,  *)
(* whatever is called; and under SteadyInputs and SpecSteady the reserved  *)
(* column is exact, no strict budget is overdrawn and a session's total    *)
(* covers what its calls hold.                                             *)
(***************************************************************************)
EXTENDS UserBudgetDO_proofs

-----------------------------------------------------------------------------
(* What the reservations hold after a change of the table.                  *)

LEMMA HeldRest ==
  ASSUME NEW t \in [Request -> Reservation], NEW S \in SUBSET Request,
         NEW X \in SUBSET Request, NEW e
  PROVE  /\ Held(t, S, e) = Held(t, S \cap X, e) + Held(t, S \ X, e)
         /\ Held(t, S, e) \in Nat /\ Held(t, S \cap X, e) \in Nat /\ Held(t, S \ X, e) \in Nat
<1>1. (S \cap X) \cup (S \ X) = S /\ (S \cap X) \cap (S \ X) = {}
  OBVIOUS
<1>2. S \cap X \in SUBSET Request /\ S \ X \in SUBSET Request
  OBVIOUS
<1>3. Held(t, (S \cap X) \cup (S \ X), e) = Held(t, S \cap X, e) + Held(t, S \ X, e)
  BY <1>1, <1>2, HeldSplit
<1>4. /\ Held(t, S, e) \in Nat /\ Held(t, S \cap X, e) \in Nat /\ Held(t, S \ X, e) \in Nat
  BY <1>2, UnitsFinite
<1> QED
  BY <1>1, <1>3, <1>4

\* Of a table whose rows X are gone, the others hold what they held.
LEMMA RowsGone ==
  ASSUME NEW t \in [Request -> Reservation], NEW u \in [Request -> Reservation],
         NEW X \in SUBSET Request, NEW S \in SUBSET Request, NEW e,
         \A r \in X : u[r].keys = {}, \A r \in Request \ X : u[r] = t[r]
  PROVE  Held(u, S, e) = Held(t, S \ X, e)
<1>1. /\ Held(u, S, e) = Held(u, S \cap X, e) + Held(u, S \ X, e)
      /\ Held(u, S, e) \in Nat /\ Held(u, S \cap X, e) \in Nat /\ Held(u, S \ X, e) \in Nat
  BY HeldRest
<1>2. \A r \in S \cap X : e \notin u[r].keys
  OBVIOUS
<1>3. Held(u, S \cap X, e) = 0
  BY <1>2, HeldNone
<1>4. \A r \in S \ X : u[r] = t[r]
  OBVIOUS
<1>5. Held(u, S \ X, e) = Held(t, S \ X, e)
  BY <1>4, HeldSame
<1> QED
  BY <1>1, <1>3, <1>5

LEMMA FreedHeld ==
  ASSUME TypeOK, NEW X \in SUBSET Request, NEW S \in SUBSET Request, NEW e
  PROVE  /\ Held(Freed(X), S, e) = Held(rsv, S \ X, e)
         /\ Held(rsv, S, e) = Held(rsv, S \cap X, e) + Held(rsv, S \ X, e)
         /\ Held(rsv, S, e) \in Nat /\ Held(rsv, S \cap X, e) \in Nat /\ Held(rsv, S \ X, e) \in Nat
<1>1. Freed(X) \in [Request -> Reservation] /\ rsv \in [Request -> Reservation]
  BY FreedType DEF TypeOK
<1>2. PICK u \in [Request -> Reservation] : u = Freed(X)
  BY <1>1
<1>3. \A r \in X : u[r].keys = {}
  BY <1>2 DEF Freed, NoReservation
<1>4. \A r \in Request \ X : u[r] = rsv[r]
  BY <1>2 DEF Freed
<1>5. Held(u, S, e) = Held(rsv, S \ X, e)
  BY <1>1, <1>3, <1>4, RowsGone
<1>6. /\ Held(rsv, S, e) = Held(rsv, S \cap X, e) + Held(rsv, S \ X, e)
      /\ Held(rsv, S, e) \in Nat /\ Held(rsv, S \cap X, e) \in Nat /\ Held(rsv, S \ X, e) \in Nat
  BY <1>1, HeldRest
<1> QED
  BY <1>2, <1>5, <1>6

\* The same for all the reservations of an entity.
LEMMA AllHeld ==
  ASSUME TypeOK, NEW X \in SUBSET Request, NEW e
  PROVE  /\ Held(Freed(X), Request, e) = Held(rsv, Request \ X, e)
         /\ Held(rsv, Request, e) = Held(rsv, X, e) + Held(rsv, Request \ X, e)
         /\ Held(rsv, Request, e) \in Nat /\ Held(rsv, X, e) \in Nat
         /\ Held(rsv, Request \ X, e) \in Nat
<1>1. Request \cap X = X /\ Request \in SUBSET Request
  OBVIOUS
<1>2. /\ Held(Freed(X), Request, e) = Held(rsv, Request \ X, e)
      /\ Held(rsv, Request, e) = Held(rsv, Request \cap X, e) + Held(rsv, Request \ X, e)
      /\ Held(rsv, Request, e) \in Nat /\ Held(rsv, Request \cap X, e) \in Nat
      /\ Held(rsv, Request \ X, e) \in Nat
  BY <1>1, FreedHeld
<1> QED
  BY <1>1, <1>2

\* A row written for an id that has none adds its amount on the entities it covers.
LEMMA RowAdded ==
  ASSUME NEW t \in [Request -> Reservation], NEW u \in [Request -> Reservation],
         NEW r \in Request, t[r].keys = {}, \A q \in Request \ {r} : u[q] = t[q],
         NEW S \in SUBSET Request, NEW e
  PROVE  /\ Held(u, S, e) = Held(t, S, e) + (IF r \in S /\ e \in u[r].keys THEN u[r].amount ELSE 0)
         /\ Held(t, S, e) \in Nat
<1>1. {r} \in SUBSET Request
  OBVIOUS
<1>2. /\ Held(u, S, e) = Held(u, S \cap {r}, e) + Held(u, S \ {r}, e)
      /\ Held(u, S, e) \in Nat /\ Held(u, S \cap {r}, e) \in Nat /\ Held(u, S \ {r}, e) \in Nat
  BY <1>1, HeldRest
<1>3. /\ Held(t, S, e) = Held(t, S \cap {r}, e) + Held(t, S \ {r}, e)
      /\ Held(t, S, e) \in Nat /\ Held(t, S \cap {r}, e) \in Nat /\ Held(t, S \ {r}, e) \in Nat
  BY <1>1, HeldRest
<1>4. Held(t, S \cap {r}, e) = 0
  <2>1. \A q \in S \cap {r} : e \notin t[q].keys
    OBVIOUS
  <2> QED
    BY <2>1, HeldNone
<1>5. Held(u, S \ {r}, e) = Held(t, S \ {r}, e)
  <2>1. \A q \in S \ {r} : u[q] = t[q]
    OBVIOUS
  <2> QED
    BY <2>1, HeldSame
<1>6. Held(u, S \cap {r}, e) = IF r \in S /\ e \in u[r].keys THEN u[r].amount ELSE 0
  <2>1. CASE r \in S
    <3>1. S \cap {r} = {r}
      BY <2>1
    <3>2. Held(u, {r}, e) = IF e \in u[r].keys THEN u[r].amount ELSE 0
      BY HeldOne
    <3> QED
      BY <2>1, <3>1, <3>2
  <2>2. CASE r \notin S
    <3>1. \A q \in S \cap {r} : e \notin u[q].keys
      BY <2>2
    <3>2. Held(u, S \cap {r}, e) = 0
      BY <3>1, HeldNone
    <3> QED
      BY <2>2, <3>2
  <2> QED
    BY <2>1, <2>2
<1>7. (IF r \in S /\ e \in u[r].keys THEN u[r].amount ELSE 0) \in Nat
  BY DEF Reservation
<1> QED
  BY <1>2, <1>3, <1>4, <1>5, <1>6, <1>7

LEMMA AddedHeld ==
  ASSUME TypeOK, NEW r \in Request, ~Live(r), NEW row \in Reservation,
         rsv' = [rsv EXCEPT ![r] = row], NEW S \in SUBSET Request, NEW e
  PROVE  /\ Held(rsv', S, e) = Held(rsv, S, e) + (IF r \in S /\ e \in row.keys THEN row.amount ELSE 0)
         /\ Held(rsv, S, e) \in Nat
<1>1. PICK u \in [Request -> Reservation] : u = rsv'
  BY DEF TypeOK
<1>2. rsv \in [Request -> Reservation] /\ rsv[r].keys = {}
  BY DEF TypeOK, Live
<1>3. u[r] = row /\ \A q \in Request \ {r} : u[q] = rsv[q]
  BY <1>1 DEF TypeOK
<1>4. /\ Held(u, S, e) = Held(rsv, S, e) + (IF r \in S /\ e \in u[r].keys THEN u[r].amount ELSE 0)
      /\ Held(rsv, S, e) \in Nat
  BY <1>2, <1>3, RowAdded
<1> QED
  BY <1>1, <1>3, <1>4

\* The facts about a successful checkAndReserve that the books need.
LEMMA ReserveFacts ==
  ASSUME TypeOK, BookedOnce, CheckAndReserve, rsv' # rsv
  PROVE  \E r \in Request, rows \in SUBSET budgets, s \in Session \cup {NoSession},
            est \in Estimates, org \in OrgFlags :
           /\ Reserve(r, rows, s, est, org)
           /\ ~Live(r) /\ est \in Nat /\ rows \subseteq Entity
           /\ [amount |-> est, keys |-> rows, expires |-> now + TTL,
               session |-> s, org |-> org] \in Reservation
<1>1. PICK scope \in Scopes, s \in Session \cup {NoSession}, est \in Estimates :
        LET rows == budgets \cap scope IN
           \/ DenySession(rows, s, est)
           \/ DenyVelocity(rows, s, est)
           \/ DenyBudget(rows, s, est)
           \/ \E r \in Request \ used, org \in OrgFlags : Reserve(r, rows, s, est, org)
  BY DEF CheckAndReserve
<1>2. PICK r \in Request \ used, org \in OrgFlags : Reserve(r, budgets \cap scope, s, est, org)
  BY <1>1 DEF DenySession, DenyVelocity, DenyBudget, Denied
<1>3. est \in Nat /\ org \in BOOLEAN /\ now + TTL \in Nat /\ budgets \subseteq Entity
  BY NumbersAssumption, TablesAssumption DEF TypeOK
<1>4. [amount |-> est, keys |-> budgets \cap scope, expires |-> now + TTL,
       session |-> s, org |-> org] \in Reservation
  BY <1>3 DEF Reservation
<1>5. ~Live(r)
  BY DEF BookedOnce
<1> QED
  BY <1>2, <1>3, <1>4, <1>5

-----------------------------------------------------------------------------
(* No capacity leaks.                                                       *)

\* A row that is gone has nothing reserved; with it NoLeakedHold is inductive.
GoneIsZero == \A e \in Entity \ budgets : reserved[e] = 0

Backed == NoLeakedHold /\ GoneIsZero

LEMMA BackedInit == Init => Backed
<1> SUFFICES ASSUME Init PROVE Backed
  OBVIOUS
<1>1. \A e \in Entity : reserved[e] = 0 /\ \A r \in Request : e \notin rsv[r].keys
  BY DEF Init, NoReservation
<1>2. \A e \in Entity : Held(rsv, Request, e) = 0
  BY <1>1, HeldNone
<1> QED
  BY <1>1, <1>2 DEF Backed, NoLeakedHold, GoneIsZero

\* A balance that gives back what some reservations hold is backed by the others.
LEMMA GiveBack ==
  ASSUME NEW a \in Nat, NEW total \in Nat, NEW part \in Nat, NEW rest \in Nat,
         total = part + rest, a <= total
  PROVE  Minus0(a, part) <= rest
  BY DEF Minus0

LEMMA BackedCheck ==
  ASSUME TypeOK, BookedOnce, Backed, CheckAndReserve
  PROVE  Backed'
<1>1. CASE rsv' = rsv
  <2>1. PICK scope \in Scopes, s \in Session \cup {NoSession}, est \in Estimates :
        LET rows == budgets \cap scope IN
           \/ DenySession(rows, s, est)
           \/ DenyVelocity(rows, s, est)
           \/ DenyBudget(rows, s, est)
           \/ \E r \in Request \ used, org \in OrgFlags :
                Reserve(r, rows, s, est, org) /\ rows # {}
    BY DEF CheckAndReserve
  <2>2. ASSUME NEW r \in Request \ used, NEW org \in OrgFlags,
               Reserve(r, budgets \cap scope, s, est, org), budgets \cap scope # {}
        PROVE  FALSE
    <3>1. rsv'[r].keys # {} /\ rsv[r].keys = {}
      BY <2>2 DEF Reserve, TypeOK, BookedOnce, Live
    <3> QED
      BY <1>1, <3>1
  <2>3. Denied(budgets \cap scope)
    BY <2>1, <2>2 DEF DenySession, DenyVelocity, DenyBudget
  <2>4. /\ budgets' = budgets
        /\ \A e \in Entity : reserved'[e] = ReservedNow(budgets \cap scope, e)
    BY <2>3 DEF Denied, ResetPeriods
  <2>5. \A e \in Entity : reserved'[e] = reserved[e] \/ reserved'[e] = 0
    BY <2>4 DEF ReservedNow
  <2>6. \A e \in Entity : Held(rsv, Request, e) \in Nat
    BY UnitsFinite DEF TypeOK
  <2> QED
    BY <1>1, <2>4, <2>5, <2>6 DEF Backed, NoLeakedHold, GoneIsZero
<1>2. CASE rsv' # rsv
  <2>1. PICK r \in Request, rows \in SUBSET budgets, s \in Session \cup {NoSession},
             est \in Estimates, org \in OrgFlags :
           /\ Reserve(r, rows, s, est, org)
           /\ ~Live(r) /\ est \in Nat /\ rows \subseteq Entity
           /\ [amount |-> est, keys |-> rows, expires |-> now + TTL,
               session |-> s, org |-> org] \in Reservation
    BY <1>2, ReserveFacts
  <2> DEFINE row == [amount |-> est, keys |-> rows, expires |-> now + TTL,
                     session |-> s, org |-> org]
  <2>2. rsv' = [rsv EXCEPT ![r] = row] /\ rsv' \in [Request -> Reservation]
    BY <2>1 DEF Reserve, TypeOK
  <2>3. ASSUME NEW e \in Entity
        PROVE  /\ Held(rsv', Request, e) = Held(rsv, Request, e) + (IF e \in rows THEN est ELSE 0)
               /\ Held(rsv, Request, e) \in Nat
    <3>1. Request \in SUBSET Request /\ row.keys = rows /\ row.amount = est /\ row \in Reservation
      BY <2>1
    <3>2. /\ Held(rsv', Request, e) = Held(rsv, Request, e)
                + (IF r \in Request /\ e \in row.keys THEN row.amount ELSE 0)
          /\ Held(rsv, Request, e) \in Nat
      BY <2>1, <2>2, <3>1, AddedHeld
    <3> QED
      BY <3>1, <3>2
  <2>4. ASSUME NEW e \in Entity
        PROVE  /\ reserved'[e] = ReservedNow(rows, e) + (IF e \in rows THEN est ELSE 0)
               /\ ReservedNow(rows, e) \in Nat
               /\ ReservedNow(rows, e) <= reserved[e]
    BY <2>1 DEF Reserve, ReservedNow, TypeOK
  <2>5. budgets' = budgets
    BY <2>1 DEF Reserve, ResetPeriods
  <2>6. NoLeakedHold'
    <3>1. ASSUME NEW e \in Entity
          PROVE  reserved'[e] <= Held(rsv', Request, e)
      <4>1. reserved[e] <= Held(rsv, Request, e) /\ reserved[e] \in Nat
        BY DEF Backed, NoLeakedHold, TypeOK
      <4> QED
        BY <2>1, <2>3, <2>4, <4>1
    <3> QED
      BY <3>1 DEF NoLeakedHold
  <2>7. GoneIsZero'
    <3>1. ASSUME NEW e \in Entity \ budgets
          PROVE  reserved'[e] = 0
      BY <2>4 DEF Backed, GoneIsZero, ReservedNow
    <3> QED
      BY <2>5, <3>1 DEF GoneIsZero
  <2> QED
    BY <2>6, <2>7 DEF Backed
<1> QED
  BY <1>1, <1>2

LEMMA BackedFreed ==
  ASSUME TypeOK, Backed, NEW X \in SUBSET Request, rsv' = Freed(X), budgets' = budgets,
         \A e \in Entity : \/ reserved'[e] = 0
                           \/ reserved'[e] = Minus0(reserved[e], Held(rsv, X, e))
  PROVE  Backed'
<1>1. ASSUME NEW e \in Entity
      PROVE  reserved'[e] <= Held(rsv', Request, e)
  <2>2. /\ Held(rsv', Request, e) = Held(rsv, Request \ X, e)
        /\ Held(rsv, Request, e) = Held(rsv, X, e) + Held(rsv, Request \ X, e)
        /\ Held(rsv, Request, e) \in Nat /\ Held(rsv, X, e) \in Nat
        /\ Held(rsv, Request \ X, e) \in Nat
    BY AllHeld
  <2>3. reserved[e] \in Nat /\ reserved[e] <= Held(rsv, Request, e)
    BY DEF TypeOK, Backed, NoLeakedHold
  <2>4. Minus0(reserved[e], Held(rsv, X, e)) <= Held(rsv, Request \ X, e)
    BY <2>2, <2>3, GiveBack
  <2> QED
    BY <2>2, <2>4
<1>2. ASSUME NEW e \in Entity \ budgets
      PROVE  reserved'[e] = 0
  <2>1. reserved[e] = 0 /\ Held(rsv, X, e) \in Nat
    BY UnitsFinite DEF TypeOK, Backed, GoneIsZero
  <2> QED
    BY <2>1 DEF Minus0
<1> QED
  BY <1>1, <1>2 DEF Backed, NoLeakedHold, GoneIsZero

LEMMA BackedSettle ==
  ASSUME TypeOK, Backed, Settle
  PROVE  Backed'
<1>1. ASSUME NEW r \in Request, NEW cost \in Costs, Reconcile(r, cost)
      PROVE  Backed'
  <2>1. {r} \in SUBSET Request /\ rsv' = Freed({r}) /\ budgets' = budgets
    BY <1>1 DEF Reconcile
  <2>2. ASSUME NEW e \in Entity
        PROVE  reserved'[e] = Minus0(reserved[e], Held(rsv, {r}, e))
    <3>1. Held(rsv, {r}, e) = IF e \in rsv[r].keys THEN rsv[r].amount ELSE 0
      BY HeldOne DEF TypeOK
    <3>2. reserved'[e] = IF e \in rsv[r].keys \cap budgets
                         THEN Minus0(reserved[e], rsv[r].amount) ELSE reserved[e]
      BY <1>1 DEF Reconcile
    <3>3. /\ rsv[r].amount \in Nat /\ reserved[e] \in Nat
          /\ e \notin budgets => reserved[e] = 0
      BY DEF TypeOK, Reservation, Backed, GoneIsZero
    <3> QED
      BY <3>1, <3>2, <3>3 DEF Minus0
  <2> QED
    BY <2>1, <2>2, BackedFreed
<1>2. ASSUME NEW r \in Request, AckPgSync(r)
      PROVE  Backed'
  BY <1>2 DEF AckPgSync, ledger, Backed, NoLeakedHold, GoneIsZero
<1> QED
  BY <1>1, <1>2 DEF Settle

LEMMA BackedAdmin ==
  ASSUME TypeOK, Backed, Admin
  PROVE  Backed'
<1>1. ASSUME NEW e \in Entity, NEW c \in Configs, NEW seed \in Seeds, NEW start \in Starts,
             PopulateIfEmpty(e, c, seed, start)
      PROVE  Backed'
  BY <1>1 DEF PopulateIfEmpty, Backed, NoLeakedHold, GoneIsZero
<1>2. ASSUME NEW e \in Entity, RemoveBudget(e)
      PROVE  Backed'
  <2>1. Held(rsv, Request, e) \in Nat
    BY UnitsFinite DEF TypeOK
  <2> QED
    BY <1>2, <2>1 DEF RemoveBudget, Backed, NoLeakedHold, GoneIsZero, TypeOK
<1>3. ASSUME NEW e \in Entity, ResetSpend(e)
      PROVE  Backed'
  <2> DEFINE matching == {r \in Request : e \in rsv[r].keys}
  <2>1. /\ matching \in SUBSET Request /\ rsv' = Freed(matching) /\ budgets' = budgets
        /\ \A x \in Entity : \/ reserved'[x] = 0
                             \/ reserved'[x] = Minus0(reserved[x], Held(rsv, matching, x))
    BY <1>3 DEF ResetSpend
  <2> QED
    BY <2>1, BackedFreed
<1> QED
  BY <1>1, <1>2, <1>3 DEF Admin, Upsert

LEMMA BackedOther ==
  ASSUME TypeOK, Backed, AlarmStep \/ Restart \/ Tick \/ UNCHANGED vars
  PROVE  Backed'
<1>1. CASE AlarmFire
  <2> DEFINE expired == {r \in Request : Live(r) /\ rsv[r].expires <= now}
  <2>1. /\ expired \in SUBSET Request /\ rsv' = Freed(expired) /\ budgets' = budgets
        /\ \A x \in Entity : reserved'[x] = Minus0(reserved[x], Held(rsv, expired, x))
    BY <1>1 DEF AlarmFire
  <2> QED
    BY <2>1, BackedFreed
<1>2. ASSUME UNCHANGED <<ledger, rsv>>
      PROVE  Backed'
  BY <1>2 DEF ledger, Backed, NoLeakedHold, GoneIsZero
<1> QED
  BY <1>1, <1>2 DEF AlarmStep, AlarmSync, AlarmEnd, Restart, Tick, vars

LEMMA BackedStep ==
  ASSUME TypeOK, BookedOnce, Backed, [Next]_vars
  PROVE  Backed'
  BY BackedCheck, BackedSettle, BackedAdmin, BackedOther DEF Next

\* No hold is ever leaked: what a row reports as reserved is backed by live
\* reservations, whatever order settlements, expiries, resets, period ends, removals
\* and evictions come in.
THEOREM NoCapacityLeaks == Spec => []NoLeakedHold
<1>1. Init => TypeOK /\ JobOK /\ BookedOnce /\ Backed
  BY InitType, InitJob, BookedInit, BackedInit
<1>2. TypeOK /\ JobOK /\ BookedOnce /\ Backed /\ [Next]_vars
        => (TypeOK /\ JobOK /\ BookedOnce /\ Backed)'
  BY TypeStep, JobStep, BookedStep, BackedStep
<1>3. Backed => NoLeakedHold
  BY DEF Backed
<1> QED
  BY <1>1, <1>2, <1>3, PTL DEF Spec

-----------------------------------------------------------------------------
(* The steady inputs: the books are exact.                                  *)

SettingsOK == \A e \in Entity : config[e] \in Configs
AmountsOK == \A r \in Request : Live(r) => rsv[r].amount \in Estimates
RowsKnown == \A r \in Request : rsv[r].keys \subseteq budgets

\* Balances of every entity, whether it has a row or not yet.
Exact == \A e \in Entity : reserved[e] = Held(rsv, Request, e)
Within == \A e \in budgets : spend[e] + reserved[e] <= config[e].max

Books == SettingsOK /\ AmountsOK /\ RowsKnown /\ Exact /\ Within

LEMMA SteadyIsNext == NextSteady => Next
  BY DEF NextSteady, Next, Admin

LEMMA SteadyConfigs ==
  ASSUME SteadyInputs, SettingsOK
  PROVE  /\ \A e \in Entity : ~PeriodOver(e) /\ config[e].strict
         /\ \A e \in Entity : \A c \in Configs : c.max = config[e].max
         /\ \A e \in Entity : \A c \in Configs : c.sessionLimit = config[e].sessionLimit
         /\ \A e \in Entity : \A x \in Seeds : x <= config[e].max
  BY DEF SteadyInputs, SettingsOK, PeriodOver

LEMMA BooksInit == Init => Books
<1> SUFFICES ASSUME Init PROVE Books
  OBVIOUS
<1>1. SettingsOK
  BY ConfigsAssumption DEF Init, SettingsOK, SomeConfig
<1>2. \A r \in Request : rsv[r].keys = {}
  BY DEF Init, NoReservation
<1>3. \A e \in Entity : Held(rsv, Request, e) = 0
  BY <1>2, HeldNone
<1>4. Exact
  BY <1>3 DEF Init, Exact
<1>5. Within
  BY DEF Init, Within
<1> QED
  BY <1>1, <1>2, <1>4, <1>5 DEF Books, AmountsOK, RowsKnown, Live

\* What a check does to the rows when no period ends.
LEMMA SteadyCheck ==
  ASSUME TypeOK, BookedOnce, SteadyInputs, SettingsOK, CheckAndReserve
  PROVE  /\ UNCHANGED <<budgets, config, spend>>
         /\ \/ UNCHANGED <<reserved, rsv, sess>>
            \/ \E r \in Request, rows \in SUBSET budgets, s \in Session \cup {NoSession},
                  est \in Estimates, org \in OrgFlags :
                 /\ Reserve(r, rows, s, est, org)
                 /\ ~Live(r) /\ est \in Nat /\ rows \subseteq Entity
                 /\ [amount |-> est, keys |-> rows, expires |-> now + TTL,
                     session |-> s, org |-> org] \in Reservation
<1>1. PICK scope \in Scopes, s \in Session \cup {NoSession}, est \in Estimates :
        LET rows == budgets \cap scope IN
           \/ DenySession(rows, s, est)
           \/ DenyVelocity(rows, s, est)
           \/ DenyBudget(rows, s, est)
           \/ \E r \in Request \ used, org \in OrgFlags :
                Reserve(r, rows, s, est, org) /\ rows # {}
  BY DEF CheckAndReserve
<1>2. \A rows : \A e \in Entity : SpendNow(rows, e) = spend[e] /\ ReservedNow(rows, e) = reserved[e]
  BY SteadyConfigs DEF SpendNow, ReservedNow
<1>3. CASE Denied(budgets \cap scope)
  <2>1. \A e \in Entity : spend'[e] = spend[e] /\ reserved'[e] = reserved[e]
    BY <1>2, <1>3 DEF Denied, ResetPeriods
  <2>2. spend' = spend /\ reserved' = reserved
    BY <1>3, <2>1 DEF Denied, ResetPeriods, TypeOK
  <2> QED
    BY <1>3, <2>2 DEF Denied, ResetPeriods
<1>4. ASSUME NEW r \in Request \ used, NEW org \in OrgFlags,
             Reserve(r, budgets \cap scope, s, est, org), budgets \cap scope # {}
      PROVE  UNCHANGED <<budgets, config, spend>> /\ rsv' # rsv
  <2>1. \A e \in Entity : spend'[e] = spend[e]
    BY <1>2, <1>4 DEF Reserve, ResetPeriods
  <2>2. spend' = spend
    BY <1>4, <2>1 DEF Reserve, ResetPeriods, TypeOK
  <2>3. rsv'[r].keys # {} /\ rsv[r].keys = {}
    BY <1>4 DEF Reserve, TypeOK, BookedOnce, Live
  <2> QED
    BY <1>4, <2>2, <2>3 DEF Reserve, ResetPeriods
<1> QED
  BY <1>1, <1>3, <1>4, ReserveFacts DEF DenySession, DenyVelocity, DenyBudget

LEMMA BooksCheck ==
  ASSUME TypeOK, BookedOnce, SteadyInputs, Books, CheckAndReserve
  PROVE  Books'
<1>1. UNCHANGED <<budgets, config, spend>>
  BY SteadyCheck DEF Books
<1>2. CASE UNCHANGED <<reserved, rsv, sess>>
  BY <1>1, <1>2 DEF Books, SettingsOK, AmountsOK, RowsKnown, Exact, Within, Live
<1>3. ASSUME NEW r \in Request, NEW rows \in SUBSET budgets, NEW s \in Session \cup {NoSession},
             NEW est \in Estimates, NEW org \in OrgFlags,
             Reserve(r, rows, s, est, org),
             ~Live(r), est \in Nat, rows \subseteq Entity,
             [amount |-> est, keys |-> rows, expires |-> now + TTL,
              session |-> s, org |-> org] \in Reservation
      PROVE  Books'
  <2> DEFINE row == [amount |-> est, keys |-> rows, expires |-> now + TTL,
                     session |-> s, org |-> org]
  <2>1. /\ rsv' = [rsv EXCEPT ![r] = row]
        /\ rsv'[r] = row /\ \A q \in Request \ {r} : rsv'[q] = rsv[q]
    BY <1>3 DEF Reserve, TypeOK
  <2>2. ASSUME NEW e \in Entity
        PROVE  /\ Held(rsv', Request, e) = Held(rsv, Request, e) + (IF e \in rows THEN est ELSE 0)
               /\ reserved'[e] = reserved[e] + (IF e \in rows THEN est ELSE 0)
    <3>1. Request \in SUBSET Request /\ row.keys = rows /\ row.amount = est /\ row \in Reservation
      BY <1>3
    <3>2. /\ Held(rsv', Request, e) = Held(rsv, Request, e)
                + (IF r \in Request /\ e \in row.keys THEN row.amount ELSE 0)
          /\ Held(rsv, Request, e) \in Nat
      BY <1>3, <2>1, <3>1, AddedHeld
    <3>3. reserved'[e] = ReservedNow(rows, e) + (IF e \in rows THEN est ELSE 0)
      BY <1>3 DEF Reserve
    <3>4. ReservedNow(rows, e) = reserved[e]
      BY SteadyConfigs DEF Books, ReservedNow
    <3> QED
      BY <3>1, <3>2, <3>3, <3>4
  <2>3. SettingsOK' /\ Exact'
    BY <1>1, <2>2 DEF Books, SettingsOK, Exact
  <2>4. AmountsOK' /\ RowsKnown'
    BY <1>1, <1>3, <2>1 DEF Books, AmountsOK, RowsKnown, Live
  <2>5. ASSUME NEW e \in budgets
        PROVE  spend[e] + reserved'[e] <= config[e].max
    <3>1. spend[e] \in Nat /\ reserved[e] \in Nat /\ config[e].max \in Nat /\ e \in Entity
      BY DEF TypeOK, Config
    <3>2. spend[e] + reserved[e] <= config[e].max
      BY DEF Books, Within
    <3>3. e \in rows => est <= config[e].max - spend[e] - reserved[e]
      <4>1. e \in rows => ~(est > config[e].max - SpendNow(rows, e) - ReservedNow(rows, e))
        BY <1>3, <3>1, SteadyConfigs DEF Reserve, BudgetDenied, Books
      <4>2. SpendNow(rows, e) = spend[e] /\ ReservedNow(rows, e) = reserved[e]
        BY <3>1, SteadyConfigs DEF Books, SpendNow, ReservedNow
      <4> QED
        BY <1>3, <3>1, <4>1, <4>2
    <3> QED
      BY <1>3, <2>2, <3>1, <3>2, <3>3
  <2> QED
    BY <1>1, <2>3, <2>4, <2>5 DEF Books, Within
<1> QED
  BY <1>2, <1>3, SteadyCheck DEF Books

LEMMA GiveBackAll ==
  ASSUME NEW total \in Nat, NEW part \in Nat, NEW rest \in Nat, total = part + rest
  PROVE  Minus0(total, part) = rest
  BY DEF Minus0

\* Giving back exactly what the rows X hold keeps the books.
LEMMA BooksFreed ==
  ASSUME TypeOK, Books, NEW X \in SUBSET Request, rsv' = Freed(X),
         UNCHANGED <<budgets, config>>,
         \A e \in Entity : reserved'[e] = Minus0(reserved[e], Held(rsv, X, e)),
         \A e \in Entity : spend'[e] \in Nat
                             /\ spend'[e] <= spend[e] + Held(rsv, X, e)
  PROVE  Books'
<1>1. ASSUME NEW e \in Entity
      PROVE  /\ reserved'[e] = Held(rsv', Request, e)
             /\ spend'[e] + reserved'[e] <= spend[e] + reserved[e]
  <2>1. /\ Held(rsv', Request, e) = Held(rsv, Request \ X, e)
        /\ Held(rsv, Request, e) = Held(rsv, X, e) + Held(rsv, Request \ X, e)
        /\ Held(rsv, Request, e) \in Nat /\ Held(rsv, X, e) \in Nat
        /\ Held(rsv, Request \ X, e) \in Nat
    BY AllHeld
  <2>2. reserved[e] = Held(rsv, Request, e) /\ spend[e] \in Nat
    BY DEF Books, Exact, TypeOK
  <2>3. reserved'[e] = Minus0(Held(rsv, Request, e), Held(rsv, X, e))
    BY <2>2
  <2>4. reserved'[e] = Held(rsv, Request \ X, e)
    <3>1. Minus0(Held(rsv, Request, e), Held(rsv, X, e)) = Held(rsv, Request \ X, e)
      BY <2>1, GiveBackAll
    <3> QED
      BY <2>3, <3>1
  <2>5. spend'[e] <= spend[e] + Held(rsv, X, e) /\ spend'[e] \in Nat
    OBVIOUS
  <2>6. spend'[e] + reserved'[e] <= spend[e] + reserved[e]
    BY <2>1, <2>2, <2>4, <2>5
  <2> QED
    BY <2>1, <2>4, <2>6
<1>2. SettingsOK' /\ Exact'
  BY <1>1 DEF Books, SettingsOK, Exact
<1>3. \A r \in Request : rsv'[r] = rsv[r] \/ rsv'[r].keys = {}
  BY DEF Freed, NoReservation
<1>4. AmountsOK' /\ RowsKnown'
  BY <1>3 DEF Books, AmountsOK, RowsKnown, Live
<1>5. ASSUME NEW e \in budgets
      PROVE  spend'[e] + reserved'[e] <= config[e].max
  <2>1. /\ e \in Entity /\ spend[e] + reserved[e] <= config[e].max
        /\ config[e].max \in Nat /\ spend[e] \in Nat /\ reserved[e] \in Nat
    BY DEF Books, Within, TypeOK, Config
  <2>2. spend'[e] \in Nat /\ reserved'[e] \in Nat
    <3>1. Held(rsv, X, e) \in Nat
      BY UnitsFinite DEF TypeOK
    <3> QED
      BY <2>1, <3>1 DEF Minus0
  <2>3. spend'[e] + reserved'[e] <= spend[e] + reserved[e]
    BY <1>1, <2>1
  <2> QED
    BY <2>1, <2>2, <2>3
<1> QED
  BY <1>2, <1>4, <1>5 DEF Books, Within

LEMMA BooksSettle ==
  ASSUME TypeOK, SteadyInputs, Books, Settle
  PROVE  Books'
<1>1. ASSUME NEW r \in Request, NEW cost \in Costs, Reconcile(r, cost)
      PROVE  Books'
  <2>1. /\ Live(r) /\ rsv' = Freed({r}) /\ UNCHANGED <<budgets, config>>
        /\ {r} \in SUBSET Request
    BY <1>1 DEF Reconcile
  <2>2. /\ cost \in Nat /\ rsv[r].amount \in Nat /\ cost <= rsv[r].amount
        /\ rsv[r].keys \subseteq budgets
    BY <2>1, NumbersAssumption DEF Books, AmountsOK, RowsKnown, SteadyInputs
  <2>3. ASSUME NEW e \in Entity
        PROVE  /\ reserved'[e] = Minus0(reserved[e], Held(rsv, {r}, e))
               /\ spend'[e] \in Nat /\ spend'[e] <= spend[e] + Held(rsv, {r}, e)
    <3>1. Held(rsv, {r}, e) = IF e \in rsv[r].keys THEN rsv[r].amount ELSE 0
      BY HeldOne DEF TypeOK
    <3>2. /\ reserved'[e] = IF e \in rsv[r].keys THEN Minus0(reserved[e], rsv[r].amount)
                            ELSE reserved[e]
          /\ spend'[e] = IF e \in rsv[r].keys THEN spend[e] + cost ELSE spend[e]
      BY <1>1, <2>2 DEF Reconcile
    <3>3. reserved[e] \in Nat /\ spend[e] \in Nat
      BY DEF TypeOK
    <3> QED
      BY <2>2, <3>1, <3>2, <3>3 DEF Minus0
  <2> QED
    BY <2>1, <2>3, BooksFreed
<1>2. ASSUME NEW r \in Request, AckPgSync(r)
      PROVE  Books'
  BY <1>2 DEF AckPgSync, ledger, Books, SettingsOK, AmountsOK, RowsKnown, Exact, Within, Live
<1> QED
  BY <1>1, <1>2 DEF Settle

LEMMA BooksUpsert ==
  ASSUME TypeOK, SteadyInputs, Books, Upsert
  PROVE  Books'
<1>1. PICK e \in Entity, c \in Configs, seed \in Seeds, start \in Starts :
        PopulateIfEmpty(e, c, seed, start)
  BY DEF Upsert
<1>2. /\ budgets' = budgets \cup {e} /\ config' = [config EXCEPT ![e] = c]
      /\ UNCHANGED <<reserved, rsv>>
  BY <1>1 DEF PopulateIfEmpty
<1>3. SettingsOK' /\ AmountsOK' /\ RowsKnown' /\ Exact'
  BY <1>2 DEF Books, SettingsOK, AmountsOK, RowsKnown, Exact, Live, TypeOK
<1>4. \A x \in Entity : config'[x].max = config[x].max
  BY <1>2, SteadyConfigs DEF Books, TypeOK
<1>5. CASE e \in budgets
  <2>1. spend' = spend /\ budgets' = budgets
    BY <1>1, <1>2, <1>5 DEF PopulateIfEmpty
  <2> QED
    BY <1>2, <1>3, <1>4, <2>1 DEF Books, Within, TypeOK
<1>6. CASE e \notin budgets
  <2>1. spend'[e] = seed /\ \A x \in budgets : spend'[x] = spend[x]
    BY <1>1, <1>6 DEF PopulateIfEmpty, TypeOK
  <2>2. \A r \in Request : e \notin rsv[r].keys
    BY <1>6 DEF Books, RowsKnown
  <2>3. Held(rsv, Request, e) = 0
    BY <2>2, HeldNone
  <2>4. reserved[e] = 0
    BY <2>3 DEF Books, Exact
  <2>5. seed \in Nat /\ seed <= config[e].max
    BY NumbersAssumption, SteadyConfigs DEF Books
  <2>6. spend'[e] + reserved'[e] <= config'[e].max
    BY <1>2, <1>4, <2>1, <2>4, <2>5
  <2>7. \A x \in budgets : spend'[x] + reserved'[x] <= config'[x].max
    BY <1>2, <1>4, <2>1 DEF Books, Within, TypeOK
  <2> QED
    BY <1>2, <1>3, <2>6, <2>7 DEF Books, Within
<1> QED
  BY <1>5, <1>6

LEMMA BooksReset ==
  ASSUME TypeOK, Books, NEW e \in Entity, ResetSpend(e)
  PROVE  Books'
<1> DEFINE matching == {r \in Request : e \in rsv[r].keys}
<1>1. /\ matching \in SUBSET Request /\ rsv' = Freed(matching)
      /\ UNCHANGED <<budgets, config>>
  BY DEF ResetSpend
<1>2. reserved'[e] = Minus0(reserved[e], Held(rsv, matching, e))
  <2>1. /\ Held(rsv, Request, e) = Held(rsv, matching, e) + Held(rsv, Request \ matching, e)
        /\ Held(rsv, Request, e) \in Nat /\ Held(rsv, matching, e) \in Nat
        /\ Held(rsv, Request \ matching, e) \in Nat
    BY <1>1, AllHeld
  <2>2. \A r \in Request \ matching : e \notin rsv[r].keys
    OBVIOUS
  <2>3. Held(rsv, Request \ matching, e) = 0
    BY <2>2, HeldNone
  <2>4. Minus0(Held(rsv, Request, e), Held(rsv, matching, e)) = 0
    BY <2>1, <2>3, GiveBackAll
  <2>5. reserved[e] = Held(rsv, Request, e) /\ reserved'[e] = 0
    BY DEF Books, Exact, ResetSpend
  <2> QED
    BY <2>4, <2>5
<1>3. \A x \in Entity \ {e} : reserved'[x] = Minus0(reserved[x], Held(rsv, matching, x))
  BY DEF ResetSpend
<1>4. ASSUME NEW x \in Entity
      PROVE  spend'[x] \in Nat /\ spend'[x] <= spend[x] + Held(rsv, matching, x)
  <2>1. Held(rsv, matching, x) \in Nat
    BY <1>1, UnitsFinite DEF TypeOK
  <2>2. spend[x] \in Nat /\ (spend'[x] = spend[x] \/ spend'[x] = 0)
    BY DEF ResetSpend, TypeOK
  <2> QED
    BY <2>1, <2>2
<1>5. \A x \in Entity : reserved'[x] = Minus0(reserved[x], Held(rsv, matching, x))
  BY <1>2, <1>3
<1> QED
  BY <1>1, <1>4, <1>5, BooksFreed

LEMMA BooksOther ==
  ASSUME TypeOK, Books, AlarmStep \/ Restart \/ Tick \/ UNCHANGED vars
  PROVE  Books'
<1>1. CASE AlarmFire
  <2> DEFINE expired == {r \in Request : Live(r) /\ rsv[r].expires <= now}
  <2>1. /\ expired \in SUBSET Request /\ rsv' = Freed(expired) /\ UNCHANGED <<budgets, config>>
        /\ \A x \in Entity : reserved'[x] = Minus0(reserved[x], Held(rsv, expired, x))
        /\ spend' = spend
    BY <1>1 DEF AlarmFire
  <2>2. ASSUME NEW x \in Entity
        PROVE  spend'[x] \in Nat /\ spend'[x] <= spend[x] + Held(rsv, expired, x)
    <3>1. Held(rsv, expired, x) \in Nat /\ spend[x] \in Nat
      BY <2>1, UnitsFinite DEF TypeOK
    <3> QED
      BY <2>1, <3>1
  <2> QED
    BY <2>1, <2>2, BooksFreed
<1>2. ASSUME UNCHANGED <<ledger, rsv>>
      PROVE  Books'
  BY <1>2 DEF ledger, Books, SettingsOK, AmountsOK, RowsKnown, Exact, Within, Live
<1> QED
  BY <1>1, <1>2 DEF AlarmStep, AlarmSync, AlarmEnd, Restart, Tick, vars

LEMMA BooksStep ==
  ASSUME TypeOK, BookedOnce, SteadyInputs, Books, [NextSteady]_vars
  PROVE  Books'
  BY BooksCheck, BooksSettle, BooksUpsert, BooksReset, BooksOther DEF NextSteady

LEMMA SteadyStep ==
  ASSUME SteadyInputs
  PROVE  /\ Init => TypeOK /\ JobOK /\ BookedOnce /\ Books
         /\ TypeOK /\ JobOK /\ BookedOnce /\ Books /\ [NextSteady]_vars
              => (TypeOK /\ JobOK /\ BookedOnce /\ Books)'
<1>1. Init => TypeOK /\ JobOK /\ BookedOnce /\ Books
  BY InitType, InitJob, BookedInit, BooksInit
<1>2. ASSUME TypeOK, JobOK, BookedOnce, Books, [NextSteady]_vars
      PROVE  (TypeOK /\ JobOK /\ BookedOnce /\ Books)'
  <2>1. [Next]_vars
    BY <1>2, SteadyIsNext
  <2> QED
    BY <1>2, <2>1, TypeStep, JobStep, BookedStep, BooksStep
<1> QED
  BY <1>1, <1>2

LEMMA BooksMeaning ==
  ASSUME TypeOK, Books
  PROVE  HoldsExact /\ NoOverdraft
  BY DEF TypeOK, Books, Exact, Within, HoldsExact, NoOverdraft

\* The reserved column is exactly what the live reservations hold: settlement, expiry
\* and reset give every amount back once.
THEOREM HoldsAreExact == ASSUME SteadyInputs PROVE SpecSteady => []HoldsExact
<1>1. Init => TypeOK /\ JobOK /\ BookedOnce /\ Books
  BY SteadyStep
<1>2. TypeOK /\ JobOK /\ BookedOnce /\ Books /\ [NextSteady]_vars
        => (TypeOK /\ JobOK /\ BookedOnce /\ Books)'
  BY SteadyStep
<1>3. TypeOK /\ Books => HoldsExact
  BY BooksMeaning
<1> QED
  BY <1>1, <1>2, <1>3, PTL DEF SpecSteady

\* A strict budget is never overdrawn, however many calls are in flight.
THEOREM StrictNeverOverdrawn == ASSUME SteadyInputs PROVE SpecSteady => []NoOverdraft
<1>1. Init => TypeOK /\ JobOK /\ BookedOnce /\ Books
  BY SteadyStep
<1>2. TypeOK /\ JobOK /\ BookedOnce /\ Books /\ [NextSteady]_vars
        => (TypeOK /\ JobOK /\ BookedOnce /\ Books)'
  BY SteadyStep
<1>3. TypeOK /\ Books => NoOverdraft
  BY BooksMeaning
<1> QED
  BY <1>1, <1>2, <1>3, PTL DEF SpecSteady

-----------------------------------------------------------------------------
(* Sessions.                                                                *)

\* What the reservations of a session hold on an entity, of those in X.
HeldBy(X, s, e) == Held(rsv, InSession(rsv, X, s), e)

Limited(e) == config[e].sessionLimit # NoLimit

Covered == \A e \in Entity, s \in Session : Limited(e) =>
             /\ HeldBy(Request, s, e) <= sess[e][s].spend
             /\ sess[e][s].spend <= config[e].sessionLimit

\* A session row outlives the reservations it covers.
SeenLate == \A r \in Request : \A e \in rsv[r].keys :
              rsv[r].session \in Session /\ Limited(e) =>
                rsv[r].expires <= sess[e][rsv[r].session].seen + TTL

Lifetimes == \A r \in Request : Live(r) => rsv[r].expires <= now + TTL

Sessions == Covered /\ SeenLate /\ Lifetimes

LEMMA SessionParts ==
  ASSUME TypeOK, NEW X \in SUBSET Request, NEW s \in Session, NEW e
  PROVE  /\ Held(Freed(X), InSession(Freed(X), Request, s), e) = HeldBy(Request \ X, s, e)
         /\ HeldBy(Request, s, e) = HeldBy(X, s, e) + HeldBy(Request \ X, s, e)
         /\ HeldBy(Request, s, e) \in Nat /\ HeldBy(X, s, e) \in Nat
         /\ HeldBy(Request \ X, s, e) \in Nat
<1> DEFINE S == InSession(rsv, Request, s)
<1>1. S \in SUBSET Request
  BY DEF InSession
<1>2. /\ Held(Freed(X), S, e) = Held(rsv, S \ X, e)
      /\ Held(rsv, S, e) = Held(rsv, S \cap X, e) + Held(rsv, S \ X, e)
      /\ Held(rsv, S, e) \in Nat /\ Held(rsv, S \cap X, e) \in Nat /\ Held(rsv, S \ X, e) \in Nat
  BY <1>1, FreedHeld
<1>3. S \cap X = InSession(rsv, X, s) /\ S \ X = InSession(rsv, Request \ X, s)
  BY DEF InSession
<1>4. InSession(Freed(X), Request, s) = S \ X
  BY TablesAssumption DEF InSession, Freed, NoReservation
<1>5. Held(Freed(X), S \ X, e) = Held(rsv, S \ X, e)
  <2>1. \A r \in S \ X : Freed(X)[r] = rsv[r]
    BY <1>1 DEF Freed
  <2> QED
    BY <2>1, HeldSame
<1>6. Held(Freed(X), InSession(Freed(X), Request, s), e) = Held(rsv, S \ X, e)
  BY <1>4, <1>5
<1>7. /\ HeldBy(Request \ X, s, e) = Held(rsv, S \ X, e)
      /\ HeldBy(X, s, e) = Held(rsv, S \cap X, e)
      /\ HeldBy(Request, s, e) = Held(rsv, S, e)
  BY <1>3 DEF HeldBy
<1> QED
  BY <1>2, <1>6, <1>7

LEMMA SessionsInit == Init => Sessions
<1> SUFFICES ASSUME Init PROVE Sessions
  OBVIOUS
<1>1. \A r \in Request : rsv[r].keys = {}
  BY DEF Init, NoReservation
<1>2. ASSUME NEW e \in Entity, NEW s \in Session, Limited(e)
      PROVE  /\ HeldBy(Request, s, e) <= sess[e][s].spend
             /\ sess[e][s].spend <= config[e].sessionLimit
  <2>1. \A r \in InSession(rsv, Request, s) : e \notin rsv[r].keys
    BY <1>1 DEF InSession
  <2>2. HeldBy(Request, s, e) = 0
    BY <2>1, HeldNone DEF HeldBy
  <2>3. sess[e][s].spend = 0
    BY DEF Init, NoSessionRow
  <2>4. config[e].sessionLimit \in Nat
    BY <1>2, EmptyRows DEF Init, Limited, Config
  <2> QED
    BY <2>2, <2>3, <2>4
<1> QED
  BY <1>1, <1>2 DEF Sessions, Covered, SeenLate, Lifetimes, Live

\* Of a session row, what may change when the reservations X are freed: it gives back no
\* more than they held on it, or it is dropped when nothing else is held on it.
Lowered(X, e, s) ==
  \/ /\ sess'[e][s].spend <= sess[e][s].spend
     /\ sess[e][s].spend <= sess'[e][s].spend + HeldBy(X, s, e)
     /\ sess'[e][s].seen = sess[e][s].seen
  \/ /\ sess'[e][s].spend = 0
     /\ \A r \in Request \ X : rsv[r].session = s => e \notin rsv[r].keys

LEMMA SessionsFreed ==
  ASSUME TypeOK, TypeOK', Sessions, NEW X \in SUBSET Request, rsv' = Freed(X),
         UNCHANGED <<config, now>>,
         \A e \in Entity, s \in Session : Limited(e) => Lowered(X, e, s)
  PROVE  Sessions'
<1>1. ASSUME NEW e \in Entity, NEW s \in Session, Limited(e)
      PROVE  /\ HeldBy(Request, s, e)' <= sess'[e][s].spend
             /\ sess'[e][s].spend <= config[e].sessionLimit
  <2>1. /\ Held(rsv', InSession(rsv', Request, s), e) = HeldBy(Request \ X, s, e)
        /\ HeldBy(Request, s, e) = HeldBy(X, s, e) + HeldBy(Request \ X, s, e)
        /\ HeldBy(Request, s, e) \in Nat /\ HeldBy(X, s, e) \in Nat
        /\ HeldBy(Request \ X, s, e) \in Nat
    BY SessionParts
  <2>2. HeldBy(Request, s, e)' = HeldBy(Request \ X, s, e)
    BY <2>1 DEF HeldBy
  <2>3. /\ HeldBy(Request, s, e) <= sess[e][s].spend
        /\ sess[e][s].spend <= config[e].sessionLimit
        /\ sess[e][s].spend \in Nat /\ sess'[e][s].spend \in Nat
        /\ config[e].sessionLimit \in Nat
    BY <1>1 DEF Sessions, Covered, TypeOK, SessionRow, Limited, Config
  <2>4. CASE /\ sess'[e][s].spend <= sess[e][s].spend
             /\ sess[e][s].spend <= sess'[e][s].spend + HeldBy(X, s, e)
    BY <2>1, <2>2, <2>3, <2>4
  <2>5. CASE /\ sess'[e][s].spend = 0
             /\ \A r \in Request \ X : rsv[r].session = s => e \notin rsv[r].keys
    <3>1. \A r \in InSession(rsv, Request \ X, s) : e \notin rsv[r].keys
      BY <2>5 DEF InSession
    <3>2. HeldBy(Request \ X, s, e) = 0
      BY <3>1, HeldNone DEF HeldBy
    <3> QED
      BY <2>2, <2>3, <2>5, <3>2
  <2> QED
    BY <1>1, <2>4, <2>5 DEF Lowered
<1>2. Covered'
  BY <1>1 DEF Covered, Limited
<1>3. ASSUME NEW r \in Request, NEW e \in rsv'[r].keys,
             rsv'[r].session \in Session, Limited(e)
      PROVE  rsv'[r].expires <= sess'[e][rsv'[r].session].seen + TTL
  <2>1. r \notin X /\ rsv'[r] = rsv[r]
    BY <1>3 DEF Freed, NoReservation
  <2>2. e \in Entity /\ rsv[r].session \in Session /\ e \in rsv[r].keys
    BY <1>3, <2>1 DEF TypeOK, Reservation
  <2>3. Lowered(X, e, rsv[r].session)
    BY <1>3, <2>2
  <2>4. sess'[e][rsv[r].session].seen = sess[e][rsv[r].session].seen
    BY <2>1, <2>2, <2>3 DEF Lowered
  <2>5. rsv[r].expires <= sess[e][rsv[r].session].seen + TTL
    BY <1>3, <2>2 DEF Sessions, SeenLate
  <2> QED
    BY <2>1, <2>4, <2>5
<1>4. SeenLate'
  BY <1>3 DEF SeenLate, Limited
<1>5. Lifetimes'
  BY DEF Sessions, Lifetimes, Live, Freed, NoReservation
<1> QED
  BY <1>2, <1>4, <1>5 DEF Sessions

\* A row without keys can be left out of a sum.
LEMMA SkipRow ==
  ASSUME NEW t \in [Request -> Reservation], NEW r \in Request, t[r].keys = {},
         NEW S \in SUBSET Request, NEW e
  PROVE  Held(t, S, e) = Held(t, S \ {r}, e)
<1>1. {r} \in SUBSET Request
  OBVIOUS
<1>2. /\ Held(t, S, e) = Held(t, S \cap {r}, e) + Held(t, S \ {r}, e)
      /\ Held(t, S, e) \in Nat /\ Held(t, S \cap {r}, e) \in Nat /\ Held(t, S \ {r}, e) \in Nat
  BY <1>1, HeldRest
<1>3. \A q \in S \cap {r} : e \notin t[q].keys
  OBVIOUS
<1>4. Held(t, S \cap {r}, e) = 0
  BY <1>3, HeldNone
<1> QED
  BY <1>2, <1>4

LEMMA SessionsReserve ==
  ASSUME TypeOK, TypeOK', Sessions,
         NEW r \in Request, NEW rows \in SUBSET Entity, NEW s \in Session \cup {NoSession},
         NEW est \in Nat, NEW org, Reserve(r, rows, s, est, org), ~Live(r), config' = config,
         [amount |-> est, keys |-> rows, expires |-> now + TTL,
          session |-> s, org |-> org] \in Reservation
  PROVE  Sessions'
<1> DEFINE row == [amount |-> est, keys |-> rows, expires |-> now + TTL,
                   session |-> s, org |-> org]
<1>1. /\ rsv' = [rsv EXCEPT ![r] = row] /\ now' = now
      /\ rsv'[r] = row /\ \A q \in Request \ {r} : rsv'[q] = rsv[q]
  BY DEF Reserve, TypeOK
<1>2. ASSUME NEW e \in Entity, NEW t \in Session, Limited(e)
      PROVE  IF e \in rows /\ t = s
             THEN sess'[e][t].spend = sess[e][t].spend + est /\ sess'[e][t].seen = now
             ELSE sess'[e][t] = sess[e][t]
  BY <1>2 DEF Reserve, Limited
<1>3. ASSUME NEW e \in Entity, NEW t \in Session
      PROVE  /\ HeldBy(Request, t, e)' = HeldBy(Request, t, e)
                  + (IF t = s /\ e \in rows THEN est ELSE 0)
             /\ HeldBy(Request, t, e) \in Nat
  <2> DEFINE S == InSession(rsv, Request, t)
  <2>1. PICK U \in SUBSET Request : U = InSession(rsv', Request, t)
    BY DEF InSession
  <2>2. U \ {r} = S \ {r} /\ (r \in U <=> t = s) /\ S \in SUBSET Request
    BY <1>1, <2>1 DEF InSession
  <2>3. row \in Reservation /\ row.keys = rows /\ row.amount = est
    OBVIOUS
  <2>4. /\ Held(rsv', U, e) = Held(rsv, U, e) + (IF r \in U /\ e \in row.keys THEN row.amount ELSE 0)
        /\ Held(rsv, U, e) \in Nat
    BY <1>1, <2>3, AddedHeld
  <2>5. rsv \in [Request -> Reservation] /\ rsv[r].keys = {}
    BY DEF TypeOK, Live
  <2>6. Held(rsv, U, e) = Held(rsv, U \ {r}, e)
    BY <2>5, SkipRow
  <2>7. Held(rsv, S, e) = Held(rsv, S \ {r}, e)
    BY <2>2, <2>5, SkipRow
  <2>8. Held(rsv, U, e) = HeldBy(Request, t, e)
    BY <2>2, <2>6, <2>7 DEF HeldBy
  <2>9. HeldBy(Request, t, e)' = Held(rsv', U, e)
    BY <2>1 DEF HeldBy
  <2> QED
    BY <2>2, <2>3, <2>4, <2>8, <2>9
<1>4. ASSUME NEW e \in Entity, NEW t \in Session, Limited(e)
      PROVE  /\ HeldBy(Request, t, e)' <= sess'[e][t].spend
             /\ sess'[e][t].spend <= config[e].sessionLimit
  <2>1. /\ HeldBy(Request, t, e) <= sess[e][t].spend
        /\ sess[e][t].spend <= config[e].sessionLimit
        /\ sess[e][t].spend \in Nat /\ config[e].sessionLimit \in Nat
    BY <1>4 DEF Sessions, Covered, TypeOK, SessionRow, Limited, Config
  <2>2. e \in rows /\ t = s => sess[e][t].spend + est <= config[e].sessionLimit
    <3>1. ASSUME e \in rows, t = s
          PROVE  ~(sess[e][t].spend + est > config[e].sessionLimit)
      BY <1>4, <3>1, TablesAssumption DEF Reserve, SessionDenied, Limited
    <3> QED
      BY <2>1, <3>1
  <2>3. CASE e \in rows /\ t = s
    BY <1>2, <1>3, <1>4, <2>1, <2>2, <2>3
  <2>4. CASE ~(e \in rows /\ t = s)
    <3>1. sess'[e][t] = sess[e][t]
      BY <1>2, <1>4, <2>4
    <3>2. HeldBy(Request, t, e)' = HeldBy(Request, t, e)
      BY <1>3, <2>4
    <3> QED
      BY <2>1, <3>1, <3>2
  <2> QED
    BY <2>3, <2>4
<1>5. Covered'
  BY <1>4 DEF Covered, Limited
<1>6. ASSUME NEW q \in Request, NEW e \in rsv'[q].keys, rsv'[q].session \in Session, Limited(e)
      PROVE  rsv'[q].expires <= sess'[e][rsv'[q].session].seen + TTL
  <2>1. e \in Entity
    BY <1>6 DEF TypeOK, Reservation
  <2>2. CASE q = r
    <3>1. rsv'[q].expires = now + TTL /\ rsv'[q].session = s /\ e \in rows /\ s \in Session
      BY <1>1, <1>6, <2>2
    <3>2. sess'[e][s].seen = now /\ now + TTL \in Nat
      BY <1>2, <1>6, <2>1, <3>1, NumbersAssumption DEF TypeOK
    <3> QED
      BY <3>1, <3>2
  <2>3. CASE q # r
    <3>1. /\ rsv'[q] = rsv[q] /\ e \in rsv[q].keys /\ rsv[q].session \in Session
          /\ rsv[q].expires \in Nat
      BY <1>1, <1>6, <2>3 DEF TypeOK, Reservation
    <3>2. /\ rsv[q].expires <= sess[e][rsv[q].session].seen + TTL
          /\ rsv[q].expires <= now + TTL
      BY <1>6, <3>1 DEF Sessions, SeenLate, Lifetimes, Live
    <3>3. \/ sess'[e][rsv[q].session].seen = now
          \/ sess'[e][rsv[q].session].seen = sess[e][rsv[q].session].seen
      BY <1>2, <1>6, <2>1, <3>1
    <3> QED
      BY <3>1, <3>2, <3>3
  <2> QED
    BY <2>2, <2>3
<1>7. SeenLate'
  BY <1>6 DEF SeenLate, Limited
<1>8. Lifetimes'
  <2>1. now + TTL \in Nat /\ row.expires = now + TTL
    BY NumbersAssumption DEF TypeOK
  <2> QED
    BY <1>1, <2>1 DEF Sessions, Lifetimes, Live
<1> QED
  BY <1>5, <1>7, <1>8 DEF Sessions

LEMMA SessionsSame ==
  ASSUME Sessions, UNCHANGED <<rsv, sess, now>>,
         \A e \in Entity : config'[e].sessionLimit = config[e].sessionLimit, TypeOK
  PROVE  Sessions'
<1>1. \A e \in Entity : Limited(e)' <=> Limited(e)
  BY DEF Limited
<1>2. \A r \in Request : rsv[r].keys \subseteq Entity
  BY DEF TypeOK, Reservation
<1>3. Covered' /\ Lifetimes'
  BY <1>1 DEF Sessions, Covered, Lifetimes, Live, HeldBy
<1>4. SeenLate'
  BY <1>1, <1>2 DEF Sessions, SeenLate
<1> QED
  BY <1>3, <1>4 DEF Sessions

LEMMA SessionsSettle ==
  ASSUME TypeOK, TypeOK', SteadyInputs, Books, Sessions, Settle
  PROVE  Sessions'
<1>1. ASSUME NEW r \in Request, NEW cost \in Costs, Reconcile(r, cost)
      PROVE  Sessions'
  <2>1. /\ Live(r) /\ rsv' = Freed({r}) /\ UNCHANGED <<config, now>>
        /\ {r} \in SUBSET Request
    BY <1>1 DEF Reconcile
  <2>2. cost \in Nat /\ rsv[r].amount \in Nat /\ cost <= rsv[r].amount
    BY <2>1, NumbersAssumption DEF Books, AmountsOK, SteadyInputs
  <2>3. ASSUME NEW e \in Entity, NEW s \in Session, Limited(e)
        PROVE  Lowered({r}, e, s)
    <3>1. sess[e][s] \in SessionRow /\ HeldBy({r}, s, e) \in Nat
      BY <2>1, SessionParts DEF TypeOK
    <3>2. CASE e \in rsv[r].keys /\ s = rsv[r].session /\ sess[e][s].seen > 0
      <4>1. sess'[e][s] = [sess[e][s] EXCEPT !.spend = Minus0(@ + cost, rsv[r].amount)]
        BY <1>1, <3>2 DEF Reconcile
      <4>2. /\ sess'[e][s].spend = Minus0(sess[e][s].spend + cost, rsv[r].amount)
            /\ sess'[e][s].seen = sess[e][s].seen
        BY <3>1, <4>1 DEF SessionRow
      <4>3. InSession(rsv, {r}, s) = {r}
        BY <3>2 DEF InSession
      <4>4. Held(rsv, {r}, e) = IF e \in rsv[r].keys THEN rsv[r].amount ELSE 0
        BY HeldOne DEF TypeOK
      <4>5. HeldBy({r}, s, e) = rsv[r].amount
        BY <3>2, <4>3, <4>4 DEF HeldBy
      <4>6. sess[e][s].spend \in Nat
        BY <3>1 DEF SessionRow
      <4> QED
        BY <2>2, <4>2, <4>5, <4>6 DEF Minus0, Lowered
    <3>3. CASE ~(e \in rsv[r].keys /\ s = rsv[r].session /\ sess[e][s].seen > 0)
      <4>1. sess'[e][s] = sess[e][s]
        BY <1>1, <3>3 DEF Reconcile
      <4>2. sess[e][s].spend \in Nat
        BY <3>1 DEF SessionRow
      <4> QED
        BY <3>1, <4>1, <4>2 DEF Lowered
    <3> QED
      BY <3>2, <3>3
  <2> QED
    BY <2>1, <2>3, SessionsFreed
<1>2. ASSUME NEW r \in Request, AckPgSync(r)
      PROVE  Sessions'
  BY <1>2, SessionsSame DEF AckPgSync, ledger
<1> QED
  BY <1>1, <1>2 DEF Settle

LEMMA SessionsReset ==
  ASSUME TypeOK, TypeOK', Sessions, NEW e \in Entity, ResetSpend(e)
  PROVE  Sessions'
<1> DEFINE matching == {r \in Request : e \in rsv[r].keys}
<1>1. /\ matching \in SUBSET Request /\ rsv' = Freed(matching)
      /\ UNCHANGED <<config, now>>
  BY DEF ResetSpend
<1>2. ASSUME NEW x \in Entity, NEW s \in Session
      PROVE  Lowered(matching, x, s)
  <2>1. sess[x][s].spend \in Nat /\ HeldBy(matching, s, x) \in Nat
    BY <1>1, SessionParts DEF TypeOK, SessionRow
  <2>2. CASE x = e
    <3>1. sess'[x][s].spend = 0
      BY <2>2 DEF ResetSpend, TypeOK, NoSessionRow
    <3> QED
      BY <2>2, <3>1 DEF Lowered
  <2>3. CASE x # e
    <3>1. sess'[x][s] = sess[x][s]
      BY <2>3 DEF ResetSpend, TypeOK
    <3> QED
      BY <2>1, <3>1 DEF Lowered
  <2> QED
    BY <2>2, <2>3
<1> QED
  BY <1>1, <1>2, SessionsFreed

LEMMA SessionsFire ==
  ASSUME TypeOK, TypeOK', SteadyInputs, Sessions, AlarmFire
  PROVE  Sessions'
<1> DEFINE expired == {r \in Request : Live(r) /\ rsv[r].expires <= now}
<1>1. expired \in SUBSET Request /\ rsv' = Freed(expired) /\ UNCHANGED <<config, now>>
  BY DEF AlarmFire
<1>2. ASSUME NEW e \in Entity, NEW s \in Session, Limited(e)
      PROVE  Lowered(expired, e, s)
  <2>1. sess[e][s] \in SessionRow /\ HeldBy(expired, s, e) \in Nat
    BY <1>1, SessionParts DEF TypeOK
  <2>2. CASE sess[e][s].seen + SessionTTL < now
    <3>1. sess'[e][s].spend = 0
      BY <2>2 DEF AlarmFire, NoSessionRow
    <3>2. ASSUME NEW r \in Request \ expired, rsv[r].session = s, e \in rsv[r].keys
          PROVE  FALSE
      <4>1. rsv[r].expires <= sess[e][s].seen + TTL /\ ~(rsv[r].expires <= now)
        BY <1>2, <3>2 DEF Sessions, SeenLate, Live
      <4>2. TTL <= SessionTTL /\ TTL \in Nat /\ SessionTTL \in Nat
        BY NumbersAssumption DEF SteadyInputs
      <4>3. rsv[r].expires \in Nat /\ sess[e][s].seen \in Nat /\ now \in Nat
        BY <2>1 DEF TypeOK, Reservation, SessionRow
      <4> QED
        BY <2>2, <4>1, <4>2, <4>3
    <3> QED
      BY <3>1, <3>2 DEF Lowered
  <2>3. CASE ~(sess[e][s].seen + SessionTTL < now)
    <3>1. sess'[e][s] = [sess[e][s] EXCEPT !.spend = Minus0(@, HeldBy(expired, s, e))]
      BY <2>3 DEF AlarmFire, HeldBy
    <3>2. /\ sess'[e][s].spend = Minus0(sess[e][s].spend, HeldBy(expired, s, e))
          /\ sess'[e][s].seen = sess[e][s].seen /\ sess[e][s].spend \in Nat
      BY <2>1, <3>1 DEF SessionRow
    <3> QED
      BY <2>1, <3>2 DEF Lowered, Minus0
  <2> QED
    BY <2>2, <2>3
<1> QED
  BY <1>1, <1>2, SessionsFreed

LEMMA SessionsTick ==
  ASSUME TypeOK, Sessions, Tick
  PROVE  Sessions'
<1>1. UNCHANGED <<rsv, sess, config>> /\ now' = now + 1 /\ now \in Nat
  BY DEF Tick, ledger, TypeOK
<1>2. \A r \in Request : rsv[r].expires \in Nat
  BY DEF TypeOK, Reservation
<1>3. Lifetimes'
  BY <1>1, <1>2, NumbersAssumption DEF Sessions, Lifetimes, Live
<1> QED
  BY <1>1, <1>3 DEF Sessions, Covered, SeenLate, Limited, HeldBy

LEMMA SessionsStep ==
  ASSUME TypeOK, TypeOK', BookedOnce, SteadyInputs, Books, Sessions, [NextSteady]_vars
  PROVE  Sessions'
<1>1. CASE CheckAndReserve
  <2>1. config' = config
    BY <1>1, SteadyCheck DEF Books
  <2>2. CASE UNCHANGED <<reserved, rsv, sess>>
    <3>1. now' = now
      BY <1>1 DEF CheckAndReserve, DenySession, DenyVelocity, DenyBudget, Denied, Reserve
    <3> QED
      BY <2>1, <2>2, <3>1, SessionsSame
  <2>3. CASE ~UNCHANGED <<reserved, rsv, sess>>
    <3>1. PICK r \in Request, rows \in SUBSET budgets, s \in Session \cup {NoSession},
               est \in Estimates, org \in OrgFlags :
             /\ Reserve(r, rows, s, est, org)
             /\ ~Live(r) /\ est \in Nat /\ rows \subseteq Entity
             /\ [amount |-> est, keys |-> rows, expires |-> now + TTL,
                 session |-> s, org |-> org] \in Reservation
      BY <1>1, <2>3, SteadyCheck DEF Books
    <3> QED
      BY <2>1, <3>1, SessionsReserve
  <2> QED
    BY <2>2, <2>3
<1>2. CASE Upsert
  <2>1. \A e \in Entity : config'[e].sessionLimit = config[e].sessionLimit
    BY <1>2, SteadyConfigs DEF Books, Upsert, PopulateIfEmpty, TypeOK
  <2> QED
    BY <1>2, <2>1, SessionsSame DEF Upsert, PopulateIfEmpty
<1>3. ASSUME UNCHANGED <<rsv, sess, now, config>>
      PROVE  Sessions'
  BY <1>3, SessionsSame
<1>4. CASE AlarmStep \/ Restart \/ UNCHANGED vars
  BY <1>3, <1>4, SessionsFire DEF AlarmStep, AlarmSync, AlarmEnd, Restart, vars, ledger
<1> QED
  BY <1>1, <1>2, <1>4, SessionsSettle, SessionsReset, SessionsTick DEF NextSteady

\* A session's running total covers what its calls hold and stays within the limit of
\* the entity: idle cleanup, expiry and settlement never take back another call's part.
THEOREM SessionsWithinLimit == ASSUME SteadyInputs PROVE SpecSteady => []SessionTotals
<1>1. Init => TypeOK /\ JobOK /\ BookedOnce /\ Books /\ Sessions
  BY SteadyStep, SessionsInit
<1>2. TypeOK /\ JobOK /\ BookedOnce /\ Books /\ Sessions /\ [NextSteady]_vars
        => (TypeOK /\ JobOK /\ BookedOnce /\ Books /\ Sessions)'
  BY SteadyStep, SessionsStep
<1>3. TypeOK /\ Sessions => SessionTotals
  BY DEF TypeOK, Sessions, Covered, SessionTotals, HeldBy, Limited
<1> QED
  BY <1>1, <1>2, <1>3, PTL DEF SpecSteady

=============================================================================
