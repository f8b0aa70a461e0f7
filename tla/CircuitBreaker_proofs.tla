------------------------ MODULE CircuitBreaker_proofs ------------------------
(***************************************************************************)
(* The breaker waits only for probes that are in flight, and for one at a  *)
(* time, for any number of calls, threshold and timeouts with              *)
(* Deadline < ResetTimeout.                                                *)
(*                                                                         *)
(* A probe may lose its place: a call that began before the breaker opened *)
(* ends in HALF_OPEN and decides in its stead.  What keeps OneProbe true   *)
(* is time.  While an old probe runs, the breaker is either not open, or   *)
(* opened after the probe began (OldProbe): since is at most its age, and  *)
(* the age is at most Deadline, so the next probe is not due.              *)
(***************************************************************************)
EXTENDS CircuitBreaker, TLAPS

\* A call that is not there has no flags.
Tidy == \A c \in Call : call[c].pc = "none" => call[c] = NoCall

\* The flag and the state agree.
Flag == inFlight <=> state = "HALF_OPEN"

\* A probe of a breaker that is open began before it opened.
OldProbe == \A c \in Probes : state = "OPEN" => since <= call[c].age

IInv == TypeOK /\ Tidy /\ Flag /\ HalfOpenWaits /\ OneProbe /\ OldProbe

-----------------------------------------------------------------------------

\* What a new call looks like.
LEMMA BegunType ==
  ASSUME NEW b \in BOOLEAN, TypeOK
  PROVE  /\ Begun(b) \in CallType
         /\ Begun(b).probe = b /\ Begun(b).pc = "running"
  BY BreakerAssumption, SMT DEF TypeOK, Begun, CallType

LEMMA NoCallType == NoCall \in CallType /\ ~NoCall.probe /\ NoCall.pc = "none"
  BY BreakerAssumption, SMT DEF NoCall, CallType

LEMMA InitInv == Init => IInv
<1> SUFFICES ASSUME Init PROVE IInv
  OBVIOUS
<1>1. call \in [Call -> CallType] /\ \A c \in Call : call[c] = NoCall
  BY NoCallType DEF Init
<1>2. Probes = {}
  BY <1>1, NoCallType DEF Probes
<1>3. TypeOK
  <2>1. 0 \in 0..Threshold /\ ResetTimeout \in 0..ResetTimeout
    BY BreakerAssumption, SMT
  <2> QED
    BY <1>1, <2>1, Zenon DEF Init, TypeOK
<1>4. Tidy /\ Flag /\ HalfOpenWaits /\ OneProbe /\ OldProbe
  BY <1>1, <1>2 DEF Init, Tidy, Flag, HalfOpenWaits, OneProbe, OldProbe
<1> QED
  BY <1>3, <1>4 DEF IInv

\* What becomes of the calls when one of them is replaced.
LEMMA Replaced ==
  ASSUME IInv, NEW c \in Call, NEW x \in CallType, x.pc = "none" => x = NoCall,
         call' = [call EXCEPT ![c] = x]
  PROVE  /\ call' \in [Call -> CallType] /\ Tidy'
         /\ call'[c] = x
         /\ \A d \in Call : d # c => call'[d] = call[d]
<1>1. call \in [Call -> CallType]
  BY DEF IInv, TypeOK
<1>2. call' \in [Call -> CallType] /\ call'[c] = x /\ \A d \in Call : d # c => call'[d] = call[d]
  BY <1>1
<1>3. Tidy'
  BY <1>2 DEF IInv, Tidy
<1> QED
  BY <1>2, <1>3

LEMMA BeginClosedInv ==
  ASSUME IInv, NEW c \in Call, BeginClosed(c)
  PROVE  IInv'
<1>1. Begun(FALSE) \in CallType /\ ~Begun(FALSE).probe /\ Begun(FALSE).pc = "running"
  BY BegunType DEF IInv
<1>2. /\ call' \in [Call -> CallType] /\ Tidy'
      /\ call'[c] = Begun(FALSE)
      /\ \A d \in Call : d # c => call'[d] = call[d]
  BY <1>1, Replaced DEF BeginClosed
<1>3. TypeOK'
  BY <1>2 DEF IInv, TypeOK, BeginClosed, breakerVars
<1>4. Tidy'
  BY <1>2
<1>5. Probes' \subseteq Probes /\ \A d \in Probes' : call'[d] = call[d]
  BY <1>1, <1>2 DEF Probes
<1>6. Flag' /\ HalfOpenWaits' /\ OneProbe' /\ OldProbe'
  BY <1>5, SMT DEF IInv, Flag, HalfOpenWaits, OneProbe, OldProbe, BeginClosed, breakerVars
<1> QED
  BY <1>3, <1>4, <1>6 DEF IInv

\* The one place where time decides: a probe that were still there would have begun before
\* the breaker opened, ResetTimeout ago, and cannot be that old.
LEMMA NoOldProbe ==
  ASSUME IInv, MayProbe, ~inFlight
  PROVE  Probes = {}
<1>1. state = "OPEN" /\ since >= ResetTimeout
  BY DEF IInv, Flag, MayProbe
<1> SUFFICES ASSUME NEW c \in Probes PROVE FALSE
  OBVIOUS
<1>2. since <= call[c].age /\ call[c].age \in 0..Deadline /\ since \in Nat
  BY <1>1, BreakerAssumption, SMT DEF IInv, OldProbe, TypeOK, Probes, CallType
<1> QED
  BY <1>1, <1>2, BreakerAssumption, SMT

LEMMA BeginProbeInv ==
  ASSUME IInv, NEW c \in Call, BeginProbe(c)
  PROVE  IInv'
<1>1. Begun(TRUE) \in CallType /\ Begun(TRUE).probe /\ Begun(TRUE).pc = "running"
  BY BegunType DEF IInv
<1>2. /\ call' \in [Call -> CallType] /\ Tidy'
      /\ call'[c] = Begun(TRUE)
      /\ \A d \in Call : d # c => call'[d] = call[d]
  BY <1>1, Replaced DEF BeginProbe
<1>3. TypeOK'
  BY <1>2 DEF IInv, TypeOK, BeginProbe
<1>4. Tidy'
  BY <1>2
<1>5. Probes = {}
  BY NoOldProbe DEF BeginProbe
<1>6. Probes' = {c}
  BY <1>1, <1>2, <1>5 DEF Probes
<1>7. state' = "HALF_OPEN" /\ inFlight'
  BY DEF BeginProbe
<1>8. Flag' /\ HalfOpenWaits' /\ OneProbe' /\ OldProbe'
  BY <1>6, <1>7, SMT DEF Flag, HalfOpenWaits, OneProbe, OldProbe
<1> QED
  BY <1>3, <1>4, <1>8 DEF IInv

\* What the end of a call, whatever its result, leaves of the calls.
LEMMA EndsKeeps ==
  ASSUME IInv, NEW c \in Call, Ends(c)
  PROVE  /\ call' \in [Call -> CallType]
         /\ Tidy' /\ OneProbe'
         /\ Probes' \subseteq Probes
         /\ \A d \in Probes' : call'[d] = call[d]
<1>1. /\ call' \in [Call -> CallType] /\ Tidy'
      /\ call'[c] = NoCall
      /\ \A d \in Call : d # c => call'[d] = call[d]
  BY NoCallType, Replaced DEF Ends
<1>2. Probes' \subseteq Probes /\ \A d \in Probes' : call'[d] = call[d]
  BY <1>1, NoCallType DEF Probes
<1>3. OneProbe'
  BY <1>2 DEF IInv, OneProbe
<1> QED
  BY <1>1, <1>2, <1>3

LEMMA SucceedInv ==
  ASSUME IInv, NEW c \in Call, Succeed(c)
  PROVE  IInv'
<1>1. /\ call' \in [Call -> CallType]
      /\ Tidy' /\ OneProbe'
      /\ Probes' \subseteq Probes
      /\ \A d \in Probes' : call'[d] = call[d]
  BY EndsKeeps DEF Succeed
<1>2. state' # "HALF_OPEN" /\ ~inFlight' /\ (state' = "OPEN" => state = "OPEN") /\ since' = since
  BY SMT DEF Succeed, OnSuccess, IInv, Flag
<1>3. TypeOK'
  <2>1. failures' \in 0..Threshold /\ since' \in 0..ResetTimeout
    BY BreakerAssumption, SMT DEF Succeed, OnSuccess, IInv, TypeOK
  <2>2. state' \in {"CLOSED", "OPEN", "HALF_OPEN"} /\ inFlight' \in BOOLEAN /\ healthy' \in BOOLEAN
    BY Zenon DEF Succeed, OnSuccess, IInv, TypeOK
  <2> QED
    BY <1>1, <2>1, <2>2, Zenon DEF TypeOK
<1>4. Flag' /\ HalfOpenWaits' /\ OldProbe'
  BY <1>1, <1>2, SMT DEF Flag, HalfOpenWaits, OldProbe, IInv
<1> QED
  BY <1>1, <1>3, <1>4 DEF IInv

LEMMA FailInv ==
  ASSUME IInv, NEW c \in Call, Fail(c)
  PROVE  IInv'
<1>1. /\ call' \in [Call -> CallType]
      /\ Tidy' /\ OneProbe'
      /\ Probes' \subseteq Probes
      /\ \A d \in Probes' : call'[d] = call[d]
  BY EndsKeeps DEF Fail
<1>2. TypeOK'
  <2>1. failures' \in 0..Threshold /\ since' \in 0..ResetTimeout
    BY BreakerAssumption, SMT DEF Fail, OnFailure, IInv, TypeOK
  <2>2. state' \in {"CLOSED", "OPEN", "HALF_OPEN"} /\ inFlight' \in BOOLEAN /\ healthy' \in BOOLEAN
    BY Zenon DEF Fail, OnFailure, IInv, TypeOK
  <2> QED
    BY <1>1, <2>1, <2>2, Zenon DEF TypeOK
<1>3. /\ state' # "HALF_OPEN" /\ ~inFlight'
      /\ state' = "OPEN" => since' = 0 \/ (state = "OPEN" /\ since' = since)
  BY SMT DEF Fail, OnFailure, IInv, Flag, TypeOK
<1>4. \A d \in Probes' : call'[d].age \in Nat
  BY <1>1, BreakerAssumption, SMT DEF Probes, CallType
<1>5. Flag' /\ HalfOpenWaits'
  BY <1>3 DEF Flag, HalfOpenWaits
<1>6. OldProbe'
  BY <1>1, <1>3, <1>4, SMT DEF OldProbe, IInv
<1> QED
  BY <1>1, <1>2, <1>5, <1>6 DEF IInv

LEMMA TickInv ==
  ASSUME IInv, Tick
  PROVE  IInv'
<1>1. call' = [c \in Call |-> IF call[c].pc = "running" THEN [call[c] EXCEPT !.age = @ + 1] ELSE NoCall]
  BY DEF Tick
<1>2. ASSUME NEW c \in Call
      PROVE  /\ call'[c] \in CallType
             /\ call'[c].pc = call[c].pc
             /\ call'[c].pc = "none" => call'[c] = NoCall
             /\ call'[c].probe = call[c].probe
             /\ call[c].probe => call'[c].age = call[c].age + 1
  <2>1. call[c] \in CallType
    BY DEF IInv, TypeOK
  <2>2. CASE call[c].pc = "running"
    <3>1. call'[c] = [call[c] EXCEPT !.age = @ + 1]
      BY <1>1, <2>2
    <3>2. call[c].age < Deadline
      BY <2>2 DEF Tick
    <3> QED
      BY <2>1, <2>2, <3>1, <3>2, BreakerAssumption, SMT DEF CallType
  <2>3. CASE call[c].pc = "none"
    <3>1. call'[c] = NoCall /\ call[c] = NoCall
      BY <1>1, <2>3 DEF IInv, Tidy
    <3> QED
      BY <3>1, NoCallType
  <2> QED
    BY <2>1, <2>2, <2>3 DEF CallType
<1>3. call' \in [Call -> CallType]
  BY <1>1, <1>2
<1>4. TypeOK'
  BY <1>3, BreakerAssumption, SMT DEF Tick, IInv, TypeOK
<1>5. Tidy'
  BY <1>2 DEF Tidy
<1>6. Probes' = Probes
  BY <1>2 DEF Probes
<1>7. Flag' /\ HalfOpenWaits' /\ OneProbe'
  BY <1>6 DEF Tick, IInv, Flag, HalfOpenWaits, OneProbe
<1>8. OldProbe'
  <2> SUFFICES ASSUME NEW c \in Probes, state = "OPEN" PROVE since' <= call'[c].age
    BY <1>6 DEF OldProbe, Tick
  <2>1. since <= call[c].age /\ call'[c].age = call[c].age + 1
    BY <1>2 DEF IInv, OldProbe, Probes
  <2>2. since' <= since + 1 /\ since \in Nat /\ call[c].age \in Nat
    BY BreakerAssumption, SMT DEF Tick, IInv, TypeOK, Probes, CallType
  <2> QED
    BY <2>1, <2>2, <1>4, BreakerAssumption, SMT DEF TypeOK
<1> QED
  BY <1>4, <1>5, <1>7, <1>8 DEF IInv

LEMMA WeatherInv ==
  ASSUME IInv, Weather \/ UNCHANGED vars
  PROVE  IInv'
<1>1. TypeOK'
  BY DEF Weather, vars, breakerVars, IInv, TypeOK
<1>2. Tidy' /\ Flag' /\ HalfOpenWaits' /\ OneProbe' /\ OldProbe'
  BY DEF Weather, vars, breakerVars, IInv, Tidy, Flag, HalfOpenWaits, OneProbe, OldProbe, Probes
<1> QED
  BY <1>1, <1>2 DEF IInv

LEMMA StepInv == IInv /\ [Next]_vars => IInv'
<1> SUFFICES ASSUME IInv, [Next]_vars PROVE IInv'
  OBVIOUS
<1>1. CASE Tick
  BY <1>1, TickInv
<1>2. CASE Weather \/ UNCHANGED vars
  BY <1>2, WeatherInv
<1>3. CASE \E c \in Call : Step(c)
  BY <1>3, BeginClosedInv, BeginProbeInv, SucceedInv, FailInv DEF Step
<1> QED
  BY <1>1, <1>2, <1>3 DEF Next

LEMMA Inductive == Spec => []IInv
  BY InitInv, StepInv, PTL DEF Spec

\* The breaker's variables keep their types.
THEOREM Typed == Spec => []TypeOK
<1>1. IInv => TypeOK
  BY DEF IInv
<1> QED
  BY <1>1, Inductive, PTL

\* A breaker that is half open waits for a call that is in flight.
THEOREM NeverStuck == Spec => []HalfOpenWaits
<1>1. IInv => HalfOpenWaits
  BY DEF IInv
<1> QED
  BY <1>1, Inductive, PTL

\* No two probes are in flight together, whatever calls from before the breaker opened do.
THEOREM SingleProbe == Spec => []OneProbe
<1>1. IInv => OneProbe
  BY DEF IInv
<1> QED
  BY <1>1, Inductive, PTL

=============================================================================
