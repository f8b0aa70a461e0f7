------------------------- MODULE ReservationLifecycle -------------------------
(***************************************************************************)
(* What a UserBudgetDO promises about one reservation id, and all that the *)
(* worker and Postgres rely on: an id is handed out once, its hold ends    *)
(* once, by being booked or by being released, and a booked cost waits in  *)
(* the outbox until it is acknowledged or given up.  No phase comes back,  *)
(* whatever is redelivered.                                                *)
(***************************************************************************)
CONSTANT Request
VARIABLE phase

Phases == {"none", "held", "booked", "done"}

Init == phase = [r \in Request |-> "none"]

Hold(r) == phase[r] = "none" /\ phase' = [phase EXCEPT ![r] = "held"]

\* The hold becomes spend, with an entry in the outbox.
Book(r) == phase[r] = "held" /\ phase' = [phase EXCEPT ![r] = "booked"]

\* Holds released and outbox entries dropped; one event may close several at once.
Close(ended) ==
  /\ \A r \in ended : phase[r] \in {"held", "booked"}
  /\ phase' = [r \in Request |-> IF r \in ended THEN "done" ELSE phase[r]]

Next ==
  \/ \E r \in Request : Hold(r) \/ Book(r)
  \/ \E ended \in SUBSET Request : Close(ended)

Spec == Init /\ [][Next]_phase
=============================================================================
