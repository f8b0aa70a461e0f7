---------------------------- MODULE MCBudgetSync ----------------------------
(* Instances of BudgetSync for TLC: two consumers race on the same message. *)
EXTENDS BudgetSync

CONSTANTS e1, e2, r1, r2, w1, w2

TwoRequests == {r1, r2}
BothEntities == {e1, e2}
BothWorkers == {w1, w2}
Overlapping == [r \in Request |-> IF r = r1 THEN {e1, e2} ELSE {e1}]
OneCovered == [r \in Request |-> {e1}]
OneEntity == {e1}
=============================================================================
