------------------------------ MODULE Velocity ------------------------------
(***************************************************************************)
(* The sliding-window velocity limit of UserBudgetDO.checkAndReserve       *)
(* ("Phase 0"), as operators on one row of the SQLite table                *)
(* velocity_state.                                                         *)
(*                                                                         *)
(* The table maps an entity to a row; a row whose `window` is 0 stands for *)
(* the absent row (populateIfEmpty and checkAndReserve only ever insert a  *)
(* positive window size).  `tripped` is 0 when tripped_at is NULL: the     *)
(* code tests it for truth, so the two are the same to it.  The two        *)
(* request counters of the table are only displayed and are left out.      *)
(***************************************************************************)
EXTENDS Integers

NoLimit == -1          \* SQL NULL in velocity_limit and session_limit

VelocityState == [window : Nat, start : Nat, curr : Nat, prev : Nat, tripped : Nat]

NoVelocityRow == [window |-> 0, start |-> 0, curr |-> 0, prev |-> 0, tripped |-> 0]

\* A row with zeroed counters whose window of size w starts at t.
FreshRow(w, t) == [window |-> w, start |-> t, curr |-> 0, prev |-> 0, tripped |-> 0]

HasVelocityRow(vs) == vs.window > 0

\* Circuit breaker tripped and still in cooldown: deny without looking further.
InCooldown(vs, cooldown, t) == vs.tripped > 0 /\ t - vs.tripped < cooldown

\* Tripped, but the cooldown is over: this request clears the breaker.
Recovers(vs, cooldown, t) == vs.tripped > 0 /\ ~InCooldown(vs, cooldown, t)

\* The row as the request reads it: the window is rotated when it has run out,
\* and the previous window is dropped when more than one has elapsed.
Rotate(vs, w, t) ==
  LET newStart == t - (t % w) IN
  IF t < vs.start + w THEN vs
  ELSE [vs EXCEPT !.start = newStart,
                  !.prev  = IF newStart > vs.start + w THEN 0 ELSE vs.curr,
                  !.curr  = 0]

\* Faulty: the estimate of this request is not counted.
ExceedsAlready(vs, w, limit, est, t) ==
  LET v == Rotate(vs, w, t)
      elapsed == t - v.start
      weight == IF elapsed >= w THEN 0 ELSE w - elapsed
  IN  v.prev * weight + v.curr * w > limit * w

\* prevSpend * weight + currSpend + estimate > limit, with weight = (w - elapsed) / w,
\* multiplied through by w: exact where the code computes in floating point.
Exceeds(vs, w, limit, est, t) ==
  LET v == Rotate(vs, w, t)
      elapsed == t - v.start
      weight == IF elapsed >= w THEN 0 ELSE w - elapsed
  IN  v.prev * weight + (v.curr + est) * w > limit * w

\* The row after Phase 0 alone, when the request is not denied for this entity:
\* cleared on recovery, initialised when absent.  A plain rotation is not stored.
Touched(vs, w, cooldown, t) ==
  CASE Recovers(vs, cooldown, t) -> FreshRow(vs.window, t)
    [] ~HasVelocityRow(vs)       -> FreshRow(w, t)
    [] OTHER                     -> vs

\* The row after Phase 2.5, once the request passed every check: the deferred
\* increment, on the fresh row or on the rotated one.
Incremented(vs, w, cooldown, est, t) ==
  LET base == IF Recovers(vs, cooldown, t) \/ ~HasVelocityRow(vs)
              THEN Touched(vs, w, cooldown, t) ELSE Rotate(vs, w, t)
  IN  [base EXCEPT !.curr = @ + est]

\* Faulty: the cooldown is not looked at.
DeniesOverLimitOnly(vs, w, limit, cooldown, est, t) ==
  vs.tripped = 0 /\ HasVelocityRow(vs) /\ Exceeds(vs, w, limit, est, t)

\* Whether a request of `est` is denied for an entity with this row and limits.
VelocityDenies(vs, w, limit, cooldown, est, t) ==
  \/ InCooldown(vs, cooldown, t)
  \/ /\ vs.tripped = 0
     /\ HasVelocityRow(vs)
     /\ Exceeds(vs, w, limit, est, t)

=============================================================================
