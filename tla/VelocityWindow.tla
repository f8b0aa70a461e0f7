--------------------------- MODULE VelocityWindow ---------------------------
(***************************************************************************)
(* The velocity limit of one budget over time: the operators of Velocity,  *)
(* which UserBudgetDO applies to a row, against a record of what was       *)
(* really admitted.  The two-window counter is an estimate of the spend in *)
(* the last `Window` time units; this module asks how good an estimate.    *)
(*                                                                         *)
(* The settings of the budget do not change.                               *)
(***************************************************************************)
EXTENDS Velocity

CONSTANTS Window, Limit, Cooldown,  \* velocity_window, velocity_limit, velocity_cooldown
          Estimates,                \* estimates a call can carry
          MaxTime,                  \* bound: the clock stops here
          MaxForgotten              \* bound: resets by hand within one window

ASSUME VelocitySettings ==
  /\ Window \in Nat \ {0} /\ Limit \in Nat /\ Cooldown \in Nat \ {0}
  /\ Estimates \subseteq Nat /\ MaxTime \in Nat /\ MaxForgotten \in Nat

VARIABLES row,       \* the velocity_state row of the budget
          now,
          recent,    \* history: recent[a] was admitted by the check in the last a time units
          forgotten  \* history: how often, in the last a, counters that stood for recent spend
                     \*   were thrown away

vars == <<row, now, recent, forgotten>>

Span == 0..Window

Init ==
  /\ row = NoVelocityRow
  /\ now \in 1..Window            \* the wall clock is not aligned with the first call
  /\ recent = [a \in Span |-> 0]
  /\ forgotten = [a \in Span |-> 0]

\* h with n more in the present time unit.
Plus(h, n) == [a \in Span |-> IF a = 0 THEN 0 ELSE h[a] + n]

\* h one time unit later.
Aged(h) == [a \in Span |-> IF a = 0 THEN 0 ELSE h[a - 1]]

\* Spend admitted by the check in the last Window time units.
Admitted == recent[Window]

ForgetIf(cleared) ==
  forgotten' = IF cleared /\ Admitted > 0 THEN Plus(forgotten, 1) ELSE forgotten

\* The call that initialises the row, or that clears the breaker, skips the check.
Unchecked == ~HasVelocityRow(row) \/ Recovers(row, Cooldown, now)

Admit(est) ==
  /\ ~VelocityDenies(row, Window, Limit, Cooldown, est, now)
  /\ row' = Incremented(row, Window, Cooldown, est, now)
  /\ recent' = IF Unchecked THEN recent ELSE Plus(recent, est)
  /\ ForgetIf(Recovers(row, Cooldown, now))
  /\ UNCHANGED now

\* The velocity check passes, another check denies the call.
DeniedElsewhere(est) ==
  /\ ~VelocityDenies(row, Window, Limit, Cooldown, est, now)
  /\ row' = Touched(row, Window, Cooldown, now)
  /\ ForgetIf(Recovers(row, Cooldown, now))
  /\ UNCHANGED <<now, recent>>

Trip(est) ==
  /\ VelocityDenies(row, Window, Limit, Cooldown, est, now)
  /\ ~InCooldown(row, Cooldown, now)
  /\ row' = [row EXCEPT !.tripped = now]
  /\ UNCHANGED <<now, recent, forgotten>>

\* Denied during the cooldown: nothing is written.
Blocked ==
  /\ InCooldown(row, Cooldown, now)
  /\ UNCHANGED vars

\* resetSpend zeroes the counters and leaves the window; removeBudget deletes the row.
Forget ==
  /\ forgotten[Window] < MaxForgotten
  /\ \/ row' = [row EXCEPT !.tripped = 0, !.curr = 0, !.prev = 0]
     \/ row' = NoVelocityRow
  /\ ForgetIf(HasVelocityRow(row))
  /\ UNCHANGED <<now, recent>>

Tick ==
  /\ now < MaxTime
  /\ now' = now + 1
  /\ recent' = Aged(recent)
  /\ forgotten' = Aged(forgotten)
  /\ UNCHANGED row

Next ==
  \/ Tick \/ Blocked \/ Forget
  \/ \E est \in Estimates : Admit(est) \/ DeniedElsewhere(est) \/ Trip(est)

Spec == Init /\ [][Next]_vars

\* The values each variable may take.
TypeOK ==
  /\ row \in VelocityState /\ now \in Nat
  /\ recent \in [Span -> Nat] /\ forgotten \in [Span -> Nat]

\* What the two counters do guarantee, however calls fall around window boundaries and
\* whatever clears the counters: within one window an agent never gets more than three
\* times its limit past the check, and once more for each time counters were thrown away.
\* Twice the limit would not be enough: a row begins at any time and rotates to a multiple
\* of the window, so that its first two windows overlap and a third still sees spend of
\* the first.
WithinThreeLimits == Admitted <= (3 + forgotten[Window]) * Limit

\* With a cooldown no shorter than the window (the defaults are equal) a recovery throws
\* nothing away: what was admitted before the breaker tripped is out of the window.
CooldownOutlastsSpend ==
  Cooldown >= Window /\ Recovers(row, Cooldown, now) => Admitted = 0

=============================================================================
