--------------------------- MODULE MCUserBudgetDO ---------------------------
(* Instances of UserBudgetDO for TLC.  Each .cfg picks the settings that bring   *)
(* one part of the object into play: periods, the steady ledger, sessions,       *)
(* velocity limits, or the outbox and the alarm.                                 *)
EXTENDS UserBudgetDO, TLC

CONSTANTS e1, e2, r1, r2, r3

OneEntity == {e1}
BothEntities == {e1, e2}
TwoRequests == {r1, r2}
ThreeRequests == {r1, r2, r3}

\* A call always matches the user budget e1; with a key, a tag or a customer, e2 too.
OneScope == {{e1}}
BothScopes == {{e1}, {e1, e2}}

Settings(max, interval, session, velocity) ==
  [max |-> max, strict |-> TRUE, interval |-> interval, sessionLimit |-> session,
   limit |-> velocity, window |-> 2, cooldown |-> 2]

PeriodicConfigs == {Settings(3, 2, NoLimit, NoLimit)}
SteadyConfigs == {Settings(3, 0, 2, NoLimit)}
\* Periods and a velocity limit at once: a window, a cooldown and a period of two ticks.
LimitedConfigs == {Settings(3, 2, NoLimit, 3)}
OutboxConfigs == {[Settings(1, 0, NoLimit, NoLimit) EXCEPT !.strict = FALSE]}
OutboxSessionConfigs == {[Settings(1, 0, 5, NoLimit) EXCEPT !.strict = FALSE]}

OneBackoff == [i \in 0..1 |-> i + 1]

RequestSymmetry == Permutations(Request)
=============================================================================
