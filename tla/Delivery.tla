------------------------------ MODULE Delivery ------------------------------
(***************************************************************************)
(* What the cost reporter of the SDK and the server promise together about *)
(* a cost event: it goes one way, has one outcome, and is sent in one      *)
(* request at a time; what the program is told was delivered is stored,    *)
(* and what it is told was dropped never is.  An event that failed may be  *)
(* stored all the same, since the answer may be what was lost.             *)
(***************************************************************************)
CONSTANT Event

VARIABLES
  where,    \* where each event is
  stored    \* those in cost_events

Stations == {"ahead", "waiting", "sending", "delivered", "failed", "dropped"}

\* One step forward: enqueued, sent at once, sent, pushed out of the queue, and the outcomes.
Forward ==
  {<<"ahead", "waiting">>, <<"ahead", "sending">>, <<"waiting", "sending">>,
   <<"waiting", "dropped">>, <<"sending", "delivered">>, <<"sending", "failed">>}

Init == where = [e \in Event |-> "ahead"] /\ stored = {}

Being(station) == {e \in Event : where[e] = station}

\* CostReporter.  A request ends for all its events alike, before the next begins.
Move ==
  /\ where' \in [Event -> Stations]
  /\ \A e \in Event : where'[e] = where[e] \/ <<where[e], where'[e]>> \in Forward
  /\ \A e \in Event : where'[e] = "delivered" => e \in stored
  /\ \A d, e \in Being("sending") : where'[d] = where'[e]
  /\ \A d \in Being("sending"), e \in Event \ Being("sending") :
       where'[e] = "sending" => where'[d] # "sending"
  /\ UNCHANGED stored

\* The server inserts events that were sent to it, at once or late.
Insert ==
  /\ stored \subseteq stored'
  /\ stored' \subseteq stored \cup Being("sending") \cup Being("delivered") \cup Being("failed")
  /\ UNCHANGED where

Next == Move \/ Insert

Spec == Init /\ [][Next]_<<where, stored>>
=============================================================================
