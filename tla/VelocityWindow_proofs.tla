------------------------ MODULE VelocityWindow_proofs ------------------------
(***************************************************************************)
(* How much can get past the velocity check within one window, for every   *)
(* window, limit and cooldown and every size of the estimates.             *)
(*                                                                         *)
(* The proof never looks at the weight of the previous window.  It counts  *)
(* counters: each lets at most Limit through, and Covers says how many of  *)
(* them the spend of the last `a` time units can have gone through, by how *)
(* far back that reaches in the life of the row.                           *)
(***************************************************************************)
EXTENDS VelocityWindow, TLAPS

-----------------------------------------------------------------------------
(* Arithmetic.                                                              *)

\* A number is its quotient and its remainder.
LEMMA Division ==
  ASSUME NEW w \in Nat \ {0}, NEW t \in Nat
  PROVE  /\ (t \div w) \in Nat /\ (t % w) \in 0..(w - 1)
         /\ t = (w * (t \div w)) + (t % w)
<1>1. (t \div w) \in Nat /\ (t % w) \in 0..(w - 1)
  BY SMT
<1>2. t = (w * (t \div w)) + (t % w)
  BY SMT
<1> QED
  BY <1>1, <1>2

LEMMA Multiples ==
  ASSUME NEW w \in Nat \ {0}, NEW p \in Nat, NEW q \in Nat, w * p < w * q
  PROVE  w * p + w <= w * q
<1>1. p < q
  BY SMT
<1>2. p + 1 <= q
  BY <1>1, SMT
<1>3. w * (p + 1) <= w * q
  BY <1>2, SMT
<1>4. w * (p + 1) = w * p + w
  BY SMT
<1>5. w * p \in Int /\ w * q \in Int
  BY SMT
<1> QED
  BY <1>3, <1>4, <1>5, SMT

\* Where a rotation puts the start of the window: at a multiple of the window that is less
\* than a window ago, and at least a window later than any other multiple that is over.
LEMMA WindowStart ==
  ASSUME NEW w \in Nat \ {0}, NEW t \in Nat
  PROVE  /\ (t - (t % w)) \in Nat /\ t - (t % w) <= t /\ t < (t - (t % w)) + w
         /\ (t - (t % w)) % w = 0
         /\ \A s \in Nat : s % w = 0 /\ t >= s + w => t - (t % w) >= s + w
<1> DEFINE q == t \div w
<1>1. q \in Nat /\ (t % w) \in 0..(w - 1) /\ t = (w * q) + (t % w) /\ w * q \in Nat
  <2>1. q \in Nat /\ (t % w) \in 0..(w - 1) /\ t = (w * q) + (t % w)
    BY Division
  <2> HIDE DEF q
  <2>2. w * q \in Nat
    BY <2>1, SMT
  <2> QED
    BY <2>1, <2>2
<1> HIDE DEF q
<1>2. t - (t % w) = w * q /\ w * q <= t /\ t < (w * q) + w
  BY <1>1, SMT
<1>3. (w * q) % w = 0
  BY <1>1, SMT
<1>4. ASSUME NEW s \in Nat, s % w = 0, t >= s + w
      PROVE  w * q >= s + w
  <2> DEFINE p == s \div w
  <2>1. p \in Nat /\ s = (w * p) + (s % w)
    BY Division
  <2> HIDE DEF p
  <2>2. s = w * p
    <3>1. w * p \in Int
      BY <2>1, SMT
    <3> QED
      BY <1>4, <2>1, <3>1, SMT
  <2>3. w * p < w * q
    BY <1>1, <1>2, <1>4, <2>2, SMT
  <2> QED
    BY <1>1, <2>1, <2>2, <2>3, Multiples
<1> QED
  BY <1>1, <1>2, <1>3, <1>4

\* Limits for n counters.
Room(n, f) == (n + f) * Limit

LEMMA RoomFacts ==
  ASSUME NEW n \in Nat, NEW f \in Nat
  PROVE  /\ Room(n, f) \in Nat
         /\ Room(n + 1, f) = Room(n, f) + Limit
         /\ Room(n, f + 1) = Room(n + 1, f)
<1>1. Limit \in Nat
  BY VelocitySettings
<1>2. (n + f) * Limit \in Nat
  BY <1>1, SMT
<1>3. ((n + 1) + f) * Limit = (n + f) * Limit + Limit
  BY <1>1, SMT
<1>4. n + (f + 1) = (n + 1) + f
  BY SMT
<1> QED
  BY <1>2, <1>3, <1>4 DEF Room

-----------------------------------------------------------------------------
(* The invariant.                                                           *)

\* The spend of the last a time units went through the present counter and n others, not
\* counting those that were thrown away.
Covers(n, a) == /\ recent[a] <= Room(n, forgotten[a]) + row.curr
                /\ recent[a] <= Room(n + 1, forgotten[a])

\* The row is there or not, its window has begun, and no breaker trips in the future.
RowOK == /\ row.window = Window \/ row = NoVelocityRow
         /\ row.start <= now /\ row.tripped <= now

\* A longer time has more spend.
Monotonic == recent[0] = 0 /\ \A a, b \in Span : a <= b => recent[a] <= recent[b]

\* Three counters at most.  Since the window of the row began, two: the counter before may
\* have been in use then, if it was not rotated yet - unless the row itself began there,
\* which is when a window starts off the multiples.
Counters ==
  /\ \A a \in Span : Covers(2, a)
  /\ HasVelocityRow(row) =>
       \A a \in Span : a <= now - row.start =>
         Covers(1, a) /\ (row.start % Window # 0 => Covers(0, a))

\* Nothing is counted after the end of the window without a rotation.
WindowEnds ==
  HasVelocityRow(row) =>
    \A a \in Span : a + row.start + Window <= now + 1 => recent[a] = 0

\* Nothing is admitted after the breaker has tripped.
TripStops == row.tripped > 0 => \A a \in Span : a <= now - row.tripped => recent[a] = 0

IInv == TypeOK /\ RowOK /\ Monotonic /\ Counters /\ WindowEnds /\ TripStops

LEMMA Types ==
  ASSUME TypeOK
  PROVE  /\ row.window \in Nat /\ row.start \in Nat /\ row.curr \in Nat /\ row.prev \in Nat
         /\ row.tripped \in Nat /\ now \in Nat
         /\ \A a \in Span : recent[a] \in Nat /\ forgotten[a] \in Nat
         /\ Window \in Nat /\ Window > 0 /\ Limit \in Nat /\ Cooldown \in Nat /\ Cooldown > 0
         /\ Span \subseteq Nat /\ 0 \in Span /\ Window \in Span
<1>1. /\ Window \in Nat /\ Window > 0 /\ Limit \in Nat /\ Cooldown \in Nat /\ Cooldown > 0
  BY VelocitySettings, SMT
<1>2. Span \subseteq Nat /\ 0 \in Span /\ Window \in Span
  BY <1>1, SMT DEF Span
<1>3. \A a \in Span : recent[a] \in Nat /\ forgotten[a] \in Nat
  BY DEF TypeOK
<1> QED
  BY <1>1, <1>2, <1>3 DEF TypeOK, VelocityState

LEMMA NoRowFacts == /\ NoVelocityRow \in VelocityState /\ ~HasVelocityRow(NoVelocityRow)
                    /\ NoVelocityRow.curr = 0 /\ NoVelocityRow.tripped = 0
                    /\ NoVelocityRow.start = 0
  BY SMT DEF NoVelocityRow, VelocityState, HasVelocityRow

\* No spend goes through any number of counters.
LEMMA NothingCovered ==
  ASSUME NEW n \in Nat, NEW f \in Nat, NEW c \in Nat
  PROVE  0 <= Room(n, f) + c /\ 0 <= Room(n + 1, f)
<1>1. n + 1 \in Nat
  BY SMT
<1>2. Room(n, f) \in Nat /\ Room(n + 1, f) \in Nat
  BY <1>1, RoomFacts
<1> QED
  BY <1>2, SMT

LEMMA InitInv == Init => IInv
<1> SUFFICES ASSUME Init PROVE IInv
  OBVIOUS
<1>1. row = NoVelocityRow /\ now \in 1..Window
  BY DEF Init
<1>2. \A a \in Span : recent[a] = 0 /\ forgotten[a] = 0
  BY DEF Init
<1>3. TypeOK
  <2>1. now \in Nat
    BY <1>1, VelocitySettings, SMT
  <2>2. recent \in [Span -> Nat] /\ forgotten \in [Span -> Nat]
    BY SMT DEF Init
  <2> QED
    BY <1>1, <2>1, <2>2, NoRowFacts DEF TypeOK
<1>4. RowOK
  BY <1>1, <1>3, Types, NoRowFacts, SMT DEF RowOK
<1>5. Monotonic
  BY <1>2, <1>3, Types, SMT DEF Monotonic
<1>6. Counters
  <2>1. \A a \in Span : Covers(2, a)
    BY <1>2, <1>3, Types, NothingCovered DEF Covers
  <2> QED
    BY <1>1, <2>1, NoRowFacts DEF Counters
<1>7. WindowEnds /\ TripStops
  BY <1>1, NoRowFacts, SMT DEF WindowEnds, TripStops
<1> QED
  BY <1>3, <1>4, <1>5, <1>6, <1>7 DEF IInv

-----------------------------------------------------------------------------
(* Time passes.                                                             *)

LEMMA StutterInv ==
  ASSUME IInv, UNCHANGED vars
  PROVE  IInv'
  BY DEF vars, IInv, TypeOK, RowOK, Monotonic, Counters, Covers, WindowEnds, TripStops

LEMMA AgedFacts ==
  ASSUME NEW h \in [Span -> Nat], TypeOK
  PROVE  /\ Aged(h) \in [Span -> Nat]
         /\ Aged(h)[0] = 0
         /\ \A a \in Span : a # 0 => a - 1 \in Span /\ Aged(h)[a] = h[a - 1]
<1>1. \A a \in Span : a # 0 => a - 1 \in Span
  BY VelocitySettings, SMT DEF Span
<1>2. 0 \in Span
  BY Types
<1> QED
  BY <1>1, <1>2 DEF Aged

\* What was true of a - 1 time units is true of a one time unit later.
LEMMA TickInv ==
  ASSUME IInv, Tick
  PROVE  IInv'
<1>1. TypeOK /\ now' = now + 1 /\ row' = row
  BY DEF IInv, Tick
<1>2. /\ recent' \in [Span -> Nat] /\ forgotten' \in [Span -> Nat]
      /\ recent'[0] = 0 /\ forgotten'[0] = 0
      /\ \A a \in Span : a # 0 => /\ a - 1 \in Span
                                  /\ recent'[a] = recent[a - 1]
                                  /\ forgotten'[a] = forgotten[a - 1]
  BY <1>1, AgedFacts DEF TypeOK, Tick
<1>3. TypeOK'
  BY <1>1, <1>2, SMT DEF TypeOK
<1>4. RowOK'
  BY <1>1, Types, SMT DEF IInv, RowOK
<1>5. Monotonic'
  <2> SUFFICES ASSUME NEW a \in Span, NEW b \in Span, a <= b PROVE recent'[a] <= recent'[b]
    BY <1>2 DEF Monotonic
  <2>1. CASE a = 0
    BY <1>2, <2>1, SMT
  <2>2. CASE a # 0
    <3>1. b # 0 /\ a - 1 <= b - 1
      BY <1>1, <2>2, Types, SMT
    <3> QED
      BY <1>2, <2>2, <3>1 DEF IInv, Monotonic
  <2> QED
    BY <2>1, <2>2
<1>6. ASSUME NEW n \in Nat, NEW a \in Span, a # 0 => Covers(n, a - 1)
      PROVE  Covers(n, a)'
  <2>1. CASE a = 0
    <3>1. row.curr \in Nat
      BY <1>1, Types
    <3> QED
      BY <1>1, <1>2, <2>1, <3>1, NothingCovered DEF Covers
  <2>2. CASE a # 0
    BY <1>1, <1>2, <1>6, <2>2 DEF Covers
  <2> QED
    BY <2>1, <2>2
<1>7. 0 \in Nat /\ 1 \in Nat /\ 2 \in Nat
  BY SMT
<1>8. Counters'
  <2>1. \A a \in Span : Covers(2, a)'
    BY <1>2, <1>6, <1>7 DEF IInv, Counters
  <2>2. ASSUME HasVelocityRow(row), NEW a \in Span, a <= now' - row.start
        PROVE  Covers(1, a)' /\ (row.start % Window # 0 => Covers(0, a)')
    <3>1. a # 0 => a - 1 \in Span /\ a - 1 <= now - row.start
      BY <1>1, <1>2, <2>2, Types, SMT
    <3> QED
      BY <1>6, <1>7, <2>2, <3>1 DEF IInv, Counters
  <2> QED
    BY <1>1, <2>1, <2>2 DEF Counters
<1>9. WindowEnds'
  <2> SUFFICES ASSUME HasVelocityRow(row), NEW a \in Span,
                      a + row.start + Window <= now' + 1, a # 0
               PROVE  recent'[a] = 0
    BY <1>1, <1>2 DEF WindowEnds
  <2>1. (a - 1) + row.start + Window <= now + 1
    BY <1>1, Types, SMT
  <2> QED
    BY <1>2, <2>1 DEF IInv, WindowEnds
<1>10. TripStops'
  <2> SUFFICES ASSUME row.tripped > 0, NEW a \in Span, a <= now' - row.tripped, a # 0
               PROVE  recent'[a] = 0
    BY <1>1, <1>2 DEF TripStops
  <2>1. a - 1 <= now - row.tripped
    BY <1>1, Types, SMT
  <2> QED
    BY <1>2, <2>1 DEF IInv, TripStops
<1> QED
  BY <1>3, <1>4, <1>5, <1>8, <1>9, <1>10 DEF IInv

-----------------------------------------------------------------------------
(* The counters are thrown away.                                            *)

LEMMA PlusFacts ==
  ASSUME NEW h \in [Span -> Nat], NEW n \in Nat, TypeOK
  PROVE  /\ Plus(h, n) \in [Span -> Nat]
         /\ Plus(h, n)[0] = 0
         /\ \A a \in Span : a # 0 => Plus(h, n)[a] = h[a] + n
<1>1. 0 \in Span
  BY Types
<1> QED
  BY <1>1, SMT DEF Plus

\* The row is cleared, by a recovery or by hand, or begun: its counters start anew, and if
\* they stood for anything recent that is remembered.
LEMMA ClearedInv ==
  ASSUME IInv,
         row' \in VelocityState, row'.tripped = 0,
         row'.window = Window \/ row' = NoVelocityRow,
         HasVelocityRow(row)' =>
           \/ row'.start = now
           \/ HasVelocityRow(row) /\ row'.start = row.start,
         UNCHANGED <<now, recent>>,
         ForgetIf(HasVelocityRow(row)) \/ (~HasVelocityRow(row) /\ forgotten' = forgotten)
  PROVE  IInv'
<1>1. TypeOK /\ recent' = recent /\ now' = now
  BY DEF IInv
<1>2. /\ row'.curr \in Nat /\ row'.start \in Nat
      /\ recent[0] = 0 /\ \A a \in Span : recent[a] \in Nat /\ recent[a] <= Admitted
  <2>1. \A a \in Span : a <= Window
    BY VelocitySettings, SMT DEF Span
  <2> QED
    BY <1>1, <2>1, Types DEF IInv, Monotonic, Admitted, VelocityState
<1>3. \/ forgotten' = Plus(forgotten, 1)
      \/ forgotten' = forgotten /\ (Admitted = 0 \/ row = NoVelocityRow)
  <2>1. Admitted > 0 \/ Admitted = 0
    BY <1>1, Types, SMT DEF Admitted
  <2>2. HasVelocityRow(row) \/ row = NoVelocityRow
    BY <1>1, Types DEF IInv, RowOK, HasVelocityRow
  <2> QED
    BY <2>1, <2>2, NoRowFacts DEF ForgetIf
<1>4. /\ forgotten' \in [Span -> Nat]
      /\ \A a \in Span : \/ a = 0
                         \/ forgotten'[a] = forgotten[a] + 1
                         \/ forgotten' = forgotten /\ (Admitted = 0 \/ row = NoVelocityRow)
  <2>1. CASE forgotten' = Plus(forgotten, 1)
    <3>1. 1 \in Nat
      BY SMT
    <3>2. forgotten \in [Span -> Nat]
      BY <1>1 DEF TypeOK
    <3>3. /\ Plus(forgotten, 1) \in [Span -> Nat]
          /\ \A a \in Span : a # 0 => Plus(forgotten, 1)[a] = forgotten[a] + 1
      BY <1>1, <3>1, <3>2, PlusFacts
    <3> QED
      BY <2>1, <3>3, Zenon
  <2>2. CASE forgotten' = forgotten /\ (Admitted = 0 \/ row = NoVelocityRow)
    BY <1>1, <2>2 DEF TypeOK
  <2> QED
    BY <1>3, <2>1, <2>2
<1>5. ASSUME NEW n \in Nat, NEW a \in Span, Covers(n, a)
      PROVE  Covers(n, a)'
  <2>1. forgotten'[a] \in Nat /\ forgotten[a] \in Nat /\ n + 1 \in Nat
    BY <1>1, <1>4, Types, SMT
  <2>2. CASE recent[a] = 0
    BY <1>1, <1>2, <2>1, <2>2, NothingCovered DEF Covers
  <2>3. CASE forgotten'[a] = forgotten[a] + 1
    <3>1. /\ Room(n, forgotten'[a]) = Room(n + 1, forgotten[a])
          /\ Room(n + 1, forgotten'[a]) = Room(n, forgotten'[a]) + Limit
          /\ Room(n + 1, forgotten[a]) \in Nat
      <4>1. Room(n, forgotten[a] + 1) = Room(n + 1, forgotten[a])
        BY <2>1, RoomFacts
      <4>2. Room(n + 1, forgotten'[a]) = Room(n, forgotten'[a]) + Limit
        BY <2>1, RoomFacts
      <4>3. Room(n + 1, forgotten[a]) \in Nat
        BY <2>1, RoomFacts
      <4> QED
        BY <2>3, <4>1, <4>2, <4>3
    <3>2. recent[a] <= Room(n + 1, forgotten[a]) /\ Limit \in Nat
      BY <1>1, <1>5, Types DEF Covers
    <3> QED
      BY <1>1, <1>2, <3>1, <3>2, SMT DEF Covers
  <2>4. CASE forgotten' = forgotten /\ row = NoVelocityRow
    <3>1. recent[a] <= Room(n, forgotten[a]) + 0
      BY <1>5, <2>4, NoRowFacts DEF Covers
    <3>2. Room(n, forgotten[a]) \in Nat
      BY <2>1, RoomFacts
    <3>3. recent[a] <= Room(n, forgotten[a]) + row'.curr
      BY <1>2, <3>1, <3>2, SMT
    <3> QED
      BY <1>1, <1>5, <2>4, <3>3 DEF Covers
  <2>5. Admitted = 0 => recent[a] = 0
    BY <1>2, SMT
  <2> QED
    BY <1>2, <1>4, <2>2, <2>3, <2>4, <2>5
<1>6. TypeOK'
  BY <1>1, <1>4 DEF TypeOK
<1>7. RowOK'
  <2>1. row'.start = now \/ row'.start <= now
    BY NoRowFacts, <1>1, Types, SMT DEF IInv, RowOK, HasVelocityRow
  <2> QED
    BY <1>1, <2>1, Types, SMT DEF RowOK
<1>8. Monotonic'
  BY <1>1 DEF IInv, Monotonic
<1>9. 0 \in Nat /\ 1 \in Nat /\ 2 \in Nat
  BY SMT
<1>10. Counters'
  <2>1. \A a \in Span : Covers(2, a)'
    BY <1>5, <1>9 DEF IInv, Counters
  <2>2. ASSUME HasVelocityRow(row)', NEW a \in Span, a <= now' - row'.start
        PROVE  Covers(1, a)' /\ (row'.start % Window # 0 => Covers(0, a)')
    <3>1. CASE HasVelocityRow(row) /\ row'.start = row.start
      BY <1>1, <1>5, <1>9, <2>2, <3>1 DEF IInv, Counters
    <3>2. CASE row'.start = now
      <4>1. a = 0
        BY <1>1, <2>2, <3>2, Types, SMT
      <4>2. forgotten'[a] \in Nat
        BY <1>4
      <4> QED
        BY <1>1, <1>2, <1>9, <4>1, <4>2, NothingCovered DEF Covers
    <3> QED
      BY <2>2, <3>1, <3>2
  <2> QED
    BY <2>1, <2>2 DEF Counters
<1>11. WindowEnds'
  <2> SUFFICES ASSUME HasVelocityRow(row)', NEW a \in Span,
                      a + row'.start + Window <= now + 1
               PROVE  recent[a] = 0
    BY <1>1 DEF WindowEnds
  <2>1. CASE HasVelocityRow(row) /\ row'.start = row.start
    BY <2>1 DEF IInv, WindowEnds
  <2>2. CASE row'.start = now
    <3>1. a = 0
      BY <1>1, <2>2, Types, SMT
    <3> QED
      BY <1>2, <3>1
  <2> QED
    BY <2>1, <2>2
<1>12. TripStops'
  <2>1. ~(0 > 0)
    BY SMT
  <2> QED
    BY <2>1 DEF TripStops
<1> QED
  BY <1>6, <1>7, <1>8, <1>10, <1>11, <1>12 DEF IInv

-----------------------------------------------------------------------------
(* A call passes the check.                                                 *)

\* A row that is begun or recovers.
LEMMA FreshInv ==
  ASSUME IInv, Unchecked, NEW c \in Nat,
         row' = [Touched(row, Window, Cooldown, now) EXCEPT !.curr = c],
         UNCHANGED <<now, recent>>, ForgetIf(Recovers(row, Cooldown, now))
  PROVE  IInv'
<1>1. TypeOK
  BY DEF IInv
<1>2. /\ HasVelocityRow(row) <=> row # NoVelocityRow
      /\ Recovers(row, Cooldown, now) => HasVelocityRow(row)
  <2>1. HasVelocityRow(row) <=> row # NoVelocityRow
    BY <1>1, Types, NoRowFacts DEF IInv, RowOK, HasVelocityRow
  <2>2. row = NoVelocityRow => ~Recovers(row, Cooldown, now)
    BY NoRowFacts, SMT DEF Recovers
  <2> QED
    BY <2>1, <2>2
<1>3. Touched(row, Window, Cooldown, now) = FreshRow(Window, now)
  BY <1>2 DEF Touched, Unchecked, IInv, RowOK
<1>4. /\ row' \in VelocityState /\ row'.tripped = 0 /\ row'.window = Window
      /\ row'.start = now
  BY <1>1, <1>3, Types, SMT DEF FreshRow, VelocityState
<1>5. ForgetIf(HasVelocityRow(row)) \/ (~HasVelocityRow(row) /\ forgotten' = forgotten)
  BY <1>2 DEF ForgetIf, Unchecked
<1> QED
  BY <1>4, <1>5, ClearedInv

\* What a passed check says: whatever the weight, the present counter stays within Limit.
LEMMA CheckPassed ==
  ASSUME NEW v \in VelocityState, NEW est \in Nat, NEW w \in Nat, NEW p \in Nat,
         Window \in Nat, Window > 0, Limit \in Nat,
         ~(p * w + (v.curr + est) * Window > Limit * Window)
  PROVE  v.curr + est <= Limit
<1>1. v.curr \in Nat
  BY DEF VelocityState
<1>2. p * w \in Nat
  BY SMT
<1> DEFINE c == v.curr + est
<1>3. c \in Nat
  BY <1>1, SMT
<1> HIDE DEF c
<1>4. c * Window \in Int /\ Limit * Window \in Int
  BY <1>3, SMT
<1>5. ~(p * w + c * Window > Limit * Window)
  BY DEF c
<1>6. c * Window <= Limit * Window
  BY <1>2, <1>4, <1>5, SMT
<1>7. c <= Limit
  BY <1>3, <1>6, SMT
<1> QED
  BY <1>7 DEF c

\* The row that a checked call sees.
LEMMA RotateFacts ==
  ASSUME TypeOK, HasVelocityRow(row), row.window = Window
  PROVE  /\ now < row.start + Window => Rotate(row, Window, now) = row
         /\ now >= row.start + Window =>
              /\ Rotate(row, Window, now) \in VelocityState
              /\ Rotate(row, Window, now).start = now - (now % Window)
              /\ Rotate(row, Window, now).curr = 0
              /\ Rotate(row, Window, now).tripped = row.tripped
              /\ Rotate(row, Window, now).window = Window
<1>1. (now - (now % Window)) \in Nat
  BY WindowStart, VelocitySettings DEF TypeOK
<1>2. now < row.start + Window => Rotate(row, Window, now) = row
  BY DEF Rotate
<1>3. ASSUME now >= row.start + Window
      PROVE  /\ Rotate(row, Window, now) \in VelocityState
             /\ Rotate(row, Window, now).start = now - (now % Window)
             /\ Rotate(row, Window, now).curr = 0
             /\ Rotate(row, Window, now).tripped = row.tripped
             /\ Rotate(row, Window, now).window = Window
  <2>1. ~(now < row.start + Window)
    BY <1>3, Types, SMT
  <2> QED
    BY <1>1, <2>1, Types DEF Rotate, VelocityState, TypeOK
<1> QED
  BY <1>2, <1>3

\* A call of est is counted, on a row whose window is still running or has been rotated.
LEMMA CheckedInv ==
  ASSUME IInv, ~Unchecked, NEW est \in Nat,
         ~VelocityDenies(row, Window, Limit, Cooldown, est, now),
         row' = Incremented(row, Window, Cooldown, est, now),
         recent' = Plus(recent, est), UNCHANGED <<now, forgotten>>
  PROVE  IInv'
<1> DEFINE v == Rotate(row, Window, now)
<1>1. /\ TypeOK /\ now' = now /\ forgotten' = forgotten
      /\ HasVelocityRow(row) /\ row.window = Window /\ row.tripped = 0
  <2>1. HasVelocityRow(row) /\ row.window = Window
    BY NoRowFacts DEF Unchecked, IInv, RowOK
  <2>2. ~(row.tripped > 0)
    BY DEF Unchecked, VelocityDenies, Recovers
  <2> QED
    BY <2>1, <2>2, Types, SMT DEF IInv
<1>2. /\ v \in VelocityState /\ v.window = Window /\ v.tripped = 0 /\ v.start \in Nat
      /\ now < v.start + Window /\ v.start <= now
  <2>1. CASE now < row.start + Window
    <3>1. v = row
      BY <1>1, <2>1, RotateFacts
    <3> QED
      BY <1>1, <2>1, <3>1, Types DEF IInv, RowOK, TypeOK
  <2>2. CASE now >= row.start + Window
    <3>1. /\ v \in VelocityState /\ v.window = Window /\ v.tripped = 0
          /\ v.start = now - (now % Window)
      BY <1>1, <2>2, RotateFacts
    <3>2. v.start \in Nat /\ v.start <= now /\ now < v.start + Window
      BY <1>1, <3>1, WindowStart, VelocitySettings DEF TypeOK
    <3> QED
      BY <3>1, <3>2
  <2> QED
    BY <1>1, <2>1, <2>2, Types, SMT
<1>3. row' = [v EXCEPT !.curr = @ + est]
  BY <1>1, SMT DEF Incremented, Unchecked
<1> HIDE DEF v
<1>4. v.curr + est <= Limit /\ v.curr \in Nat
  <2> DEFINE elapsed == now - v.start
             weight == IF elapsed >= Window THEN 0 ELSE Window - elapsed
  <2>1. ~(v.prev * weight + (v.curr + est) * Window > Limit * Window)
    BY <1>1 DEF VelocityDenies, Exceeds, v
  <2>2. weight \in Nat /\ v.prev \in Nat /\ v.curr \in Nat
    BY <1>1, <1>2, Types, SMT DEF VelocityState
  <2> HIDE DEF weight
  <2> QED
    BY <1>1, <1>2, <2>1, <2>2, CheckPassed, Types
<1>5. /\ row' \in VelocityState /\ row'.curr = v.curr + est
      /\ row'.start = v.start /\ row'.window = Window /\ row'.tripped = 0
  <2>1. v.curr + est \in Nat
    BY <1>4, SMT
  <2> QED
    BY <1>2, <1>3, <2>1 DEF VelocityState
<1>6. /\ recent' \in [Span -> Nat] /\ recent'[0] = 0
      /\ \A a \in Span : a # 0 => recent'[a] = recent[a] + est
  BY <1>1, PlusFacts DEF TypeOK
<1>7. TypeOK' /\ RowOK'
  <2>1. 0 <= now
    BY <1>1, Types, SMT
  <2> QED
    BY <1>1, <1>2, <1>5, <1>6, <2>1 DEF TypeOK, RowOK
<1>8. Monotonic'
  <2> SUFFICES ASSUME NEW a \in Span, NEW b \in Span, a <= b PROVE recent'[a] <= recent'[b]
    BY <1>6 DEF Monotonic
  <2>1. recent[a] <= recent[b] /\ recent[a] \in Nat /\ recent[b] \in Nat /\ recent'[b] \in Nat
    BY <1>1, <1>6, Types DEF IInv, Monotonic
  <2>2. a # 0 => b # 0
    BY <1>1, Types, SMT
  <2> QED
    BY <1>6, <2>1, <2>2, SMT
\* If the counter was empty, or had counted what recent says, it still has.
<1>9. ASSUME NEW n \in Nat, NEW a \in Span,
             \/ Covers(n, a) /\ v.curr = row.curr
             \/ recent[a] <= Room(n, forgotten[a])
             \/ recent[a] = 0
      PROVE  Covers(n, a)'
  <2>1. /\ Room(n, forgotten[a]) \in Nat /\ recent[a] \in Nat /\ Limit \in Nat
        /\ Room(n + 1, forgotten[a]) = Room(n, forgotten[a]) + Limit
    BY <1>1, Types, RoomFacts
  <2>2. recent[a] <= Room(n, forgotten[a]) + v.curr
    BY <1>4, <1>9, <2>1, SMT DEF Covers
  <2>3. recent'[a] <= recent[a] + est
    BY <1>6, <2>1, SMT
  <2>4. recent'[a] \in Nat
    BY <1>6
  <2>5. /\ recent'[a] <= Room(n, forgotten[a]) + (v.curr + est)
        /\ recent'[a] <= Room(n + 1, forgotten[a])
    BY <1>4, <2>1, <2>2, <2>3, <2>4, SMT
  <2> QED
    BY <1>1, <1>5, <2>5 DEF Covers
<1>10. 0 \in Nat /\ 1 \in Nat /\ 2 \in Nat /\ 0 + 1 = 1 /\ 1 + 1 = 2
  BY SMT
<1>11. Counters'
  <2>1. CASE now < row.start + Window
    <3>1. v = row
      BY <1>1, <2>1, RotateFacts DEF v
    <3>2. \A a \in Span : Covers(2, a)'
      BY <1>9, <1>10, <3>1 DEF IInv, Counters
    <3>3. ASSUME NEW a \in Span, a <= now - row.start
          PROVE  Covers(1, a)' /\ (row.start % Window # 0 => Covers(0, a)')
      BY <1>1, <1>9, <1>10, <3>1, <3>3 DEF IInv, Counters
    <3> QED
      BY <1>1, <1>5, <3>1, <3>2, <3>3 DEF Counters
  <2>2. CASE now >= row.start + Window
    <3>1. v.start = now - (now % Window) /\ v.curr = 0
      BY <1>1, <2>2, RotateFacts DEF v
    <3>2. /\ v.start % Window = 0
          /\ row.start % Window = 0 => v.start >= row.start + Window
      <4>1. now \in Nat /\ row.start \in Nat /\ Window \in Nat \ {0}
        BY <1>1, Types, VelocitySettings
      <4>2. /\ (now - (now % Window)) % Window = 0
            /\ row.start % Window = 0 /\ now >= row.start + Window =>
                 now - (now % Window) >= row.start + Window
        BY <4>1, WindowStart
      <4> QED
        BY <2>2, <3>1, <4>2
    <3>3. ASSUME NEW a \in Span
          PROVE  /\ recent[a] <= Room(2, forgotten[a])
                 /\ row.start % Window # 0 => recent[a] <= Room(1, forgotten[a])
      <4>1. a <= now - row.start
        BY <1>1, <2>2, Types, SMT DEF Span
      <4> QED
        BY <1>1, <1>10, <4>1 DEF IInv, Counters, Covers
    <3>4. ASSUME NEW a \in Span, a <= now - v.start
          PROVE  Covers(1, a)'
      <4>1. CASE row.start % Window # 0
        BY <1>9, <1>10, <3>3, <4>1
      <4>2. CASE row.start % Window = 0
        <5>1. a + row.start + Window <= now + 1
          BY <1>1, <1>2, <3>2, <3>4, <4>2, Types, SMT
        <5>2. recent[a] = 0
          BY <1>1, <5>1 DEF IInv, WindowEnds
        <5> QED
          BY <1>9, <1>10, <5>2
      <4> QED
        BY <4>1, <4>2
    <3>5. \A a \in Span : Covers(2, a)'
      BY <1>9, <1>10, <3>3
    <3> QED
      BY <1>1, <1>5, <3>2, <3>4, <3>5 DEF Counters
  <2> QED
    BY <1>1, <2>1, <2>2, Types, SMT
<1>12. WindowEnds'
  <2> SUFFICES ASSUME NEW a \in Span, a + v.start + Window <= now + 1 PROVE a = 0
    BY <1>1, <1>5, <1>6 DEF WindowEnds
  <2> QED
    BY <1>1, <1>2, Types, SMT
<1>13. TripStops'
  <2>1. ~(0 > 0)
    BY SMT
  <2> QED
    BY <1>5, <2>1 DEF TripStops
<1> QED
  BY <1>7, <1>8, <1>11, <1>12, <1>13 DEF IInv

-----------------------------------------------------------------------------
(* The steps.                                                               *)

LEMMA AdmitInv ==
  ASSUME IInv, NEW est \in Estimates, Admit(est)
  PROVE  IInv'
<1>1. TypeOK /\ est \in Nat
  BY VelocitySettings DEF IInv
<1>2. CASE Unchecked
  <2>1. row' = [Touched(row, Window, Cooldown, now) EXCEPT !.curr = @ + est]
    BY <1>2 DEF Admit, Incremented, Unchecked
  <2>2. /\ Touched(row, Window, Cooldown, now).curr = 0
    BY <1>2, SMT DEF Touched, Unchecked, FreshRow
  <2>3. row' = [Touched(row, Window, Cooldown, now) EXCEPT !.curr = est]
    BY <1>1, <2>1, <2>2
  <2> QED
    BY <1>1, <1>2, <2>3, FreshInv DEF Admit
<1>3. CASE ~Unchecked
  <2>1. forgotten' = forgotten
    BY <1>3 DEF Admit, ForgetIf, Unchecked
  <2> QED
    BY <1>1, <1>3, <2>1, CheckedInv DEF Admit
<1> QED
  BY <1>2, <1>3

LEMMA DeniedElsewhereInv ==
  ASSUME IInv, NEW est \in Estimates, DeniedElsewhere(est)
  PROVE  IInv'
<1>1. CASE Unchecked
  <2>1. /\ Touched(row, Window, Cooldown, now) = FreshRow(row.window, now)
           \/ Touched(row, Window, Cooldown, now) = FreshRow(Window, now)
    BY <1>1 DEF Touched, Unchecked
  <2>2. row' = [Touched(row, Window, Cooldown, now) EXCEPT !.curr = 0]
    BY <2>1 DEF DeniedElsewhere, FreshRow
  <2>3. 0 \in Nat
    BY SMT
  <2> QED
    BY <1>1, <2>2, <2>3, FreshInv DEF DeniedElsewhere
<1>2. CASE ~Unchecked
  <2>1. row' = row /\ forgotten' = forgotten /\ UNCHANGED <<now, recent>>
    BY <1>2 DEF DeniedElsewhere, Touched, ForgetIf, Unchecked
  <2> QED
    BY <2>1, StutterInv DEF vars
<1> QED
  BY <1>1, <1>2

LEMMA TripInv ==
  ASSUME IInv, NEW est \in Estimates, Trip(est)
  PROVE  IInv'
<1>1. /\ TypeOK /\ row' = [row EXCEPT !.tripped = now] /\ HasVelocityRow(row)
      /\ UNCHANGED <<now, recent, forgotten>>
  BY DEF IInv, Trip, VelocityDenies
<1>2. /\ row' \in VelocityState /\ row'.tripped = now /\ row'.window = row.window
      /\ row'.start = row.start /\ row'.curr = row.curr
  BY <1>1 DEF TypeOK, VelocityState
<1>3. TypeOK' /\ Monotonic'
  BY <1>1, <1>2 DEF IInv, TypeOK, Monotonic
<1>4. RowOK'
  <2>1. row # NoVelocityRow
    BY <1>1, NoRowFacts
  <2>2. now <= now
    BY <1>1, Types, SMT
  <2> QED
    BY <1>1, <1>2, <2>1, <2>2 DEF IInv, RowOK
<1>5. Counters' /\ WindowEnds'
  BY <1>1, <1>2 DEF IInv, Counters, Covers, WindowEnds, HasVelocityRow
<1>6. TripStops'
  <2> SUFFICES ASSUME NEW a \in Span, a <= now - now PROVE recent[a] = 0
    BY <1>1, <1>2 DEF TripStops
  <2>1. a = 0
    BY <1>1, Types, SMT
  <2> QED
    BY <2>1 DEF IInv, Monotonic
<1> QED
  BY <1>3, <1>4, <1>5, <1>6 DEF IInv

\* resetSpend on an absent row.
LEMMA ClearedNothing ==
  ASSUME NEW cleared,
         cleared = [NoVelocityRow EXCEPT !.tripped = 0, !.curr = 0, !.prev = 0]
  PROVE  cleared = NoVelocityRow
  BY Zenon DEF NoVelocityRow

LEMMA ForgetInv ==
  ASSUME IInv, Forget
  PROVE  IInv'
<1>1. TypeOK /\ UNCHANGED <<now, recent>> /\ ForgetIf(HasVelocityRow(row))
  BY DEF IInv, Forget
<1>2. CASE row' = NoVelocityRow
  BY <1>1, <1>2, NoRowFacts, ClearedInv
<1>3. CASE row' = [row EXCEPT !.tripped = 0, !.curr = 0, !.prev = 0]
  <2>1. /\ row' \in VelocityState /\ row'.tripped = 0 /\ row'.window = row.window
        /\ row'.start = row.start
    <3>1. row \in VelocityState /\ 0 \in Nat
      BY <1>1 DEF TypeOK
    <3> QED
      BY <1>3, <3>1, Zenon DEF VelocityState
  <2>2. row = NoVelocityRow => row' = NoVelocityRow
    BY <1>3, ClearedNothing, Zenon
  <2>3. row'.window = Window \/ row' = NoVelocityRow
    BY <2>1, <2>2 DEF IInv, RowOK
  <2>4. HasVelocityRow(row)' => HasVelocityRow(row) /\ row'.start = row.start
    BY <2>1 DEF HasVelocityRow
  <2> QED
    BY <1>1, <2>1, <2>3, <2>4, ClearedInv
<1> QED
  BY <1>2, <1>3 DEF Forget

LEMMA StepInv == IInv /\ [Next]_vars => IInv'
<1> SUFFICES ASSUME IInv, [Next]_vars PROVE IInv'
  OBVIOUS
<1>1. CASE Tick
  BY <1>1, TickInv
<1>2. CASE Forget
  BY <1>2, ForgetInv
<1>3. CASE \E est \in Estimates : Admit(est) \/ DeniedElsewhere(est) \/ Trip(est)
  BY <1>3, AdmitInv, DeniedElsewhereInv, TripInv
<1>4. CASE Blocked \/ UNCHANGED vars
  BY <1>4, StutterInv DEF Blocked
<1> QED
  BY <1>1, <1>2, <1>3, <1>4 DEF Next

LEMMA Inductive == Spec => []IInv
  BY InitInv, StepInv, PTL DEF Spec

-----------------------------------------------------------------------------

\* The row is one the table can hold, and the histories count.
THEOREM WindowTyped == Spec => []TypeOK
<1>1. IInv => TypeOK
  BY DEF IInv
<1> QED
  BY <1>1, Inductive, PTL

\* checkAndReserve lets at most three times the limit of a budget through its velocity
\* check within one window, and once more for each time the counters were thrown away.
THEOREM BurstsAreBounded == Spec => []WithinThreeLimits
<1>1. IInv => WithinThreeLimits
  <2> SUFFICES ASSUME IInv PROVE WithinThreeLimits
    OBVIOUS
  <2>1. Window \in Span /\ 2 + 1 = 3
    BY Types, SMT DEF IInv
  <2> QED
    BY <2>1 DEF IInv, Counters, Covers, Room, WithinThreeLimits, Admitted
<1> QED
  BY <1>1, Inductive, PTL

\* A breaker whose cooldown is no shorter than the window recovers when nothing that was
\* admitted before is in the window any more: recoveries add nothing to the bound.
THEOREM RecoveriesForgetNothing == Spec => []CooldownOutlastsSpend
<1>1. IInv => CooldownOutlastsSpend
  <2> SUFFICES ASSUME IInv, Cooldown >= Window, Recovers(row, Cooldown, now)
               PROVE  Admitted = 0
    BY DEF CooldownOutlastsSpend
  <2>1. row.tripped > 0 /\ ~(now - row.tripped < Cooldown) /\ TypeOK
    BY DEF Recovers, InCooldown, IInv
  <2>2. Window \in Span /\ Window <= now - row.tripped
    BY <2>1, Types, SMT
  <2> QED
    BY <2>1, <2>2 DEF IInv, TripStops, Admitted
<1> QED
  BY <1>1, Inductive, PTL

=============================================================================
