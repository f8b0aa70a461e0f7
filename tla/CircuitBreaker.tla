---------------------------- MODULE CircuitBreaker ----------------------------
(***************************************************************************)
(* The circuit breaker of the dashboard (lib/resilience/circuit-breaker.ts)*)
(* in front of the authentication service that getCurrentUserId asks.      *)
(* Calls overlap, and one that began before the breaker opened may end in  *)
(* any later state: onSuccess and onFailure look only at the state.        *)
(*                                                                         *)
(* Times are relative: since is Date.now() - lastFailureTime.              *)
(***************************************************************************)
EXTENDS Integers

CONSTANTS
  Call,            \* calls that can be in flight together
  Threshold,       \* failureThreshold
  ResetTimeout,    \* resetTimeoutMs
  Deadline         \* requestTimeoutMs, and by how much its timer can be late

ASSUME BreakerAssumption ==
  /\ Threshold \in Nat \ {0}
  /\ ResetTimeout \in Nat /\ Deadline \in Nat
  /\ Deadline < ResetTimeout

VARIABLES
  state,           \* CLOSED, OPEN or HALF_OPEN
  failures,        \* consecutiveFailures, counted up to Threshold
  since,           \* since the last failure that opened it, up to ResetTimeout
  inFlight,        \* halfOpenInFlight
  call,            \* calls; probe is history: begun as the probe of HALF_OPEN
  healthy          \* the service answers

breakerVars == <<state, failures, since, inFlight>>
vars == <<breakerVars, call, healthy>>

NoCall == [pc |-> "none", age |-> 0, probe |-> FALSE, sick |-> FALSE]

Init ==
  /\ state = "CLOSED" /\ failures = 0 /\ since = ResetTimeout /\ inFlight = FALSE
  /\ call = [c \in Call |-> NoCall]
  /\ healthy = TRUE

Begun(probe) == [pc |-> "running", age |-> 0, probe |-> probe, sick |-> ~healthy]

-----------------------------------------------------------------------------

\* A call that is let through.  The others throw CircuitOpenError, at most after OPEN has
\* become HALF_OPEN, which then happens only together with a probe.
BeginClosed(c) ==
  /\ call[c].pc = "none" /\ state = "CLOSED"
  /\ call' = [call EXCEPT ![c] = Begun(FALSE)]
  /\ UNCHANGED <<breakerVars, healthy>>

MayProbe == (state = "OPEN" /\ since >= ResetTimeout) \/ state = "HALF_OPEN"

\* Faulty: several probes may be in flight.
BeginAnyProbe(c) ==
  /\ call[c].pc = "none" /\ MayProbe
  /\ state' = "HALF_OPEN" /\ inFlight' = TRUE
  /\ call' = [call EXCEPT ![c] = Begun(TRUE)]
  /\ UNCHANGED <<failures, since, healthy>>

BeginProbe(c) ==
  /\ call[c].pc = "none" /\ MayProbe
  /\ ~inFlight
  /\ state' = "HALF_OPEN" /\ inFlight' = TRUE
  /\ call' = [call EXCEPT ![c] = Begun(TRUE)]
  /\ UNCHANGED <<failures, since, healthy>>

OnSuccess ==
  /\ failures' = 0
  /\ IF state = "HALF_OPEN" THEN state' = "CLOSED" /\ inFlight' = FALSE
     ELSE UNCHANGED <<state, inFlight>>
  /\ UNCHANGED since

\* Faulty: the flag outlives the probe that failed.
OnFailureKeepsFlag ==
  IF state = "HALF_OPEN"
  THEN state' = "OPEN" /\ since' = 0 /\ UNCHANGED <<failures, inFlight>>
  ELSE /\ failures' = IF failures < Threshold THEN failures + 1 ELSE failures
       /\ IF failures' >= Threshold THEN state' = "OPEN" /\ since' = 0
          ELSE UNCHANGED <<state, since>>
       /\ UNCHANGED inFlight

OnFailure ==
  IF state = "HALF_OPEN"
  THEN state' = "OPEN" /\ since' = 0 /\ inFlight' = FALSE /\ UNCHANGED failures
  ELSE /\ failures' = IF failures < Threshold THEN failures + 1 ELSE failures
       /\ IF failures' >= Threshold THEN state' = "OPEN" /\ since' = 0
          ELSE UNCHANGED <<state, since>>
       /\ UNCHANGED inFlight

Ends(c) == call[c].pc = "running" /\ call' = [call EXCEPT ![c] = NoCall]

Succeed(c) == Ends(c) /\ OnSuccess /\ UNCHANGED healthy

\* The service fails, or withTimeout gives the call up.
Fail(c) ==
  /\ Ends(c) /\ (~healthy \/ call[c].sick)
  /\ OnFailure
  /\ UNCHANGED healthy

-----------------------------------------------------------------------------

\* Faulty: calls without a timer.
TickWithoutTimers ==
  /\ since' = IF since < ResetTimeout THEN since + 1 ELSE since
  /\ call' = [c \in Call |-> IF call[c].pc = "running" THEN [call[c] EXCEPT !.age = @ + 1] ELSE NoCall]
  /\ UNCHANGED <<state, failures, inFlight, healthy>>

\* No call outlives its timer.
Tick ==
  /\ \A c \in Call : call[c].pc = "running" => call[c].age < Deadline
  /\ since' = IF since < ResetTimeout THEN since + 1 ELSE since
  /\ call' = [c \in Call |-> IF call[c].pc = "running" THEN [call[c] EXCEPT !.age = @ + 1] ELSE NoCall]
  /\ UNCHANGED <<state, failures, inFlight, healthy>>

Weather == healthy' = ~healthy /\ UNCHANGED <<breakerVars, call>>

Step(c) == BeginClosed(c) \/ BeginProbe(c) \/ Succeed(c) \/ Fail(c)

Next == Tick \/ Weather \/ \E c \in Call : Step(c)

Spec == Init /\ [][Next]_vars

\* Time passes, calls end, and pages go on asking who the user is.
FairSpec ==
  /\ Spec
  /\ WF_vars(Tick)
  /\ \A c \in Call : WF_vars(Succeed(c) \/ Fail(c)) /\ WF_vars(BeginProbe(c))

-----------------------------------------------------------------------------

CallType == [pc : {"none", "running"}, age : 0..Deadline, probe : BOOLEAN, sick : BOOLEAN]

\* The values each variable may take.
TypeOK ==
  /\ state \in {"CLOSED", "OPEN", "HALF_OPEN"}
  /\ failures \in 0..Threshold
  /\ since \in 0..ResetTimeout
  /\ inFlight \in BOOLEAN /\ healthy \in BOOLEAN
  /\ call \in [Call -> CallType]

Probes == {c \in Call : call[c].probe}

\* A breaker that is half open waits for a probe that is really in flight, so that some
\* call will end its waiting: it never fails every request for good.
HalfOpenWaits == (state = "HALF_OPEN" \/ inFlight) => \E c \in Probes : state = "HALF_OPEN" /\ inFlight

\* One probe at a time reaches the service, although a call that began before the breaker
\* opened may decide a probe's result in its stead and let the breaker reset once more:
\* the old probe has timed out by then.
OneProbe == \A c, d \in Probes : c = d

\* When the service has recovered for good, so does the breaker.
Recovers == <>[]healthy => <>[](state = "CLOSED")

=============================================================================
