--------------------------- MODULE WatchDogProofs ---------------------------
(***************************************************************************)
(* The watchdog is called in time, for every interval, duration of the     *)
(* callbacks and resolution of the clock that 32 bits have room for.       *)
(***************************************************************************)
EXTENDS WatchDog, TLAPS

-----------------------------------------------------------------------------
(***************************************************************************)
(* Arithmetic.                                                             *)
(***************************************************************************)

\* The constants, without what multiplies two of them.
LEMMA Consts ==
  /\ Sec \in Nat /\ Sec > 0
  /\ WatchdogInterval \in Nat /\ SysReportInterval \in Nat
  /\ MaxWork \in Nat /\ MaxLate \in Nat
  /\ Steps \subseteq Int
  /\ Wrap \in Nat /\ Wrap > 0
<1>1. /\ Sec \in Nat /\ Sec > 0 /\ Wrap \in Nat
      /\ WatchdogInterval \in Nat /\ SysReportInterval \in Nat
      /\ MaxWork \in Nat /\ MaxLate \in Nat /\ Steps \subseteq Int
  BY WatchDogAssumption
<1>2. Wrap > 0
  BY WatchDogAssumption
<1> QED
  BY <1>1, <1>2

\* A number in range is its own remainder, one below 0 wraps around.
LEMMA Small == ASSUME NEW x \in Nat, x < Wrap PROVE x % Wrap = x
  BY Consts

LEMMA Negative ==
  ASSUME NEW x \in Int, x < 0, -Wrap <= x
  PROVE  x % Wrap = x + Wrap
<1>1. Wrap \in Nat /\ Wrap > 0
  BY Consts
<1> QED
  BY <1>1

\* A remainder is never larger than a number that is not negative.
LEMMA Remainder == ASSUME NEW x \in Nat PROVE x % Wrap \in Nat /\ x % Wrap <= x
<1>1. Wrap \in Nat /\ Wrap > 0
  BY Consts
<1> QED
  BY <1>1

\* More seconds are more units.
LEMMA Monotone ==
  ASSUME NEW a \in Int, NEW b \in Int, a >= b
  PROVE  a * Sec >= b * Sec
<1>1. Sec \in Nat /\ Sec > 0
  BY Consts
<1> QED
  BY <1>1

LEMMA Units ==
  ASSUME NEW a \in Int
  PROVE  /\ a * Sec \in Int
         /\ (a + 1) * Sec = a * Sec + Sec
         /\ 0 * Sec = 0
         /\ a * Sec > -Sec => a >= 0
<1>1. Sec \in Nat /\ Sec > 0
  BY Consts
<1>2. a * Sec \in Int /\ (a + 1) * Sec = a * Sec + Sec /\ 0 * Sec = 0
  BY <1>1
<1>3. ASSUME a < 0
      PROVE  a * Sec <= -Sec
  <2>1. -1 >= a
    BY <1>3
  <2>2. (-1) * Sec >= a * Sec
    BY <2>1, Monotone
  <2>3. (-1) * Sec = -Sec
    BY <1>1
  <2> QED
    BY <1>1, <1>2, <2>2, <2>3
<1>4. a * Sec > -Sec => a >= 0
  BY <1>1, <1>2, <1>3
<1> QED
  BY <1>2, <1>4

-----------------------------------------------------------------------------
(***************************************************************************)
(* The type invariant.                                                     *)
(***************************************************************************)
LEMMA UnsignedTypes ==
  ASSUME NEW d \in Int, NEW u \in Nat, NEW x \in AsUnsigned(d, u, Wrap)
  PROVE  x \in Nat
<1>1. Wrap \in Nat /\ Wrap > 0
  BY Consts
<1>2. d * u \in Int
  OBVIOUS
<1>3. (d * u) % Wrap \in Nat
  BY <1>1, <1>2
<1> QED
  BY <1>3 DEF AsUnsigned

LEMMA PeriodFacts == Period = WatchdogInterval * Sec /\ Period \in Nat
<1>1. WatchdogInterval * Sec \in Nat /\ WatchdogInterval * Sec < Wrap
  <2>1. WatchdogInterval * Sec + MaxWork + Sec < Wrap
    BY WatchDogAssumption
  <2>2. WatchdogInterval * Sec \in Nat
    BY Consts
  <2> QED
    BY <2>1, <2>2, Consts
<1> QED
  BY <1>1, Small DEF Period

\* What the loop sleeps for.
LEMMA RestTypes ==
  ASSUME Rest, TypeOK
  PROVE  left' \in Int /\ left' >= 0
<1>1. PICK span \in AsUnsigned(secs, Sec, Wrap) :
        left' = IF Period >= (Period - span) % Wrap
                  THEN (Period - span) % Wrap ELSE 0
  BY DEF Rest
<1>2. span \in Nat
  BY UnsignedTypes, Consts DEF TypeOK
<1>3. (Period - span) % Wrap \in Nat
  <2>1. Wrap \in Nat /\ Wrap > 0
    BY Consts
  <2> QED
    BY <1>2, <2>1, PeriodFacts
<1> QED
  BY <1>1, <1>3

LEMMA TypeStep ==
  ASSUME TypeOK, [Next]_vars
  PROVE  TypeOK'
<1> USE Consts
<1>1. CASE \E s \in DevGlobalState : SetGlobalState(s)
  BY <1>1 DEF SetGlobalState, TypeOK, clockVars
<1>2. CASE StartManager
  BY <1>2 DEF StartManager, TypeOK, clockVars
<1>3. CASE ManagerEnds
  <2>1. /\ hasReported' \in BOOLEAN
        /\ stepped' \in BOOLEAN /\ repStepped' \in BOOLEAN
    BY <1>3 DEF ManagerEnds
  <2> QED
    BY <1>3, <2>1 DEF ManagerEnds, TypeOK
<1>4. CASE Call
  <2>1. stepped' \in BOOLEAN
    BY <1>4 DEF Call
  <2> QED
    BY <1>4, <2>1 DEF Call, TypeOK
<1>5. CASE Probe \/ Load
  BY <1>5 DEF Probe, Load, TypeOK, clockVars
<1>6. CASE FirstReport
  <2>1. hasReported' \in BOOLEAN /\ repStepped' \in BOOLEAN
    BY <1>6 DEF FirstReport
  <2>2. tpc' \in {"load", "rest"}
    BY <1>6 DEF FirstReport
  <2> QED
    BY <1>6, <2>1, <2>2 DEF FirstReport, TypeOK
<1>7. CASE Report
  <2>1. repStepped' \in BOOLEAN
    BY <1>7 DEF Report, TypeOK
  <2>2. tpc' \in {"load", "rest"} /\ repSecs' \in Int /\ repAge' \in Nat
    BY <1>7 DEF Report, TypeOK
  <2> QED
    BY <1>7, <2>1, <2>2 DEF Report, TypeOK
<1>8. CASE Rest
  <2>1. left' \in Int /\ tpc' = "sleep" /\ work' = age
    BY <1>8, RestTypes DEF Rest
  <2> QED
    BY <1>8, <2>1 DEF Rest, TypeOK, clockVars
<1>9. CASE Wake
  BY <1>9 DEF Wake, TypeOK, clockVars
<1>10. CASE Tick
  <2>1. /\ frac' = (frac + 1) % Sec
        /\ secs' \in {secs, secs + 1} /\ repSecs' \in {repSecs, repSecs + 1}
        /\ age' = age + 1 /\ repAge' = repAge + 1 /\ left' \in {left, left - 1}
    BY <1>10 DEF Tick, TypeOK
  <2>2. frac' \in 0 .. Sec - 1
    BY <2>1 DEF TypeOK
  <2> QED
    BY <1>10, <2>1, <2>2 DEF Tick, TypeOK
<1>11. CASE \E s \in Steps : SetClock(s)
  <2>1. PICK s \in Steps : SetClock(s)
    BY <1>11
  <2>2. s \in Int
    OBVIOUS
  <2>3. stepped' \in BOOLEAN /\ repStepped' \in BOOLEAN
    BY <2>1 DEF SetClock
  <2> QED
    BY <2>1, <2>2, <2>3 DEF SetClock, TypeOK
<1>12. CASE UNCHANGED vars
  BY <1>12 DEF vars, TypeOK, clockVars
<1> QED
  BY <1>1, <1>2, <1>3, <1>4, <1>5, <1>6, <1>7, <1>8, <1>9, <1>10, <1>11, <1>12
     DEF Next, Timer

LEMMA TypeInit == Init => TypeOK
<1> SUFFICES ASSUME Init PROVE TypeOK
  OBVIOUS
<1>1. hasReported \in BOOLEAN /\ stepped \in BOOLEAN /\ repStepped \in BOOLEAN
  BY DEF Init
<1> QED
  BY <1>1, Consts DEF Init, TypeOK

\* Every variable of the timer has its type, whatever the clock is set to.
THEOREM WatchDogTypeCorrect == Spec => []TypeOK
  BY TypeInit, TypeStep, PTL DEF Spec

-----------------------------------------------------------------------------
(***************************************************************************)
(* The clock.  As long as it is not set, the seconds it counted since a    *)
(* mark and the time that passed differ by less than one second: the       *)
(* fraction at the mark is what they differ by.                            *)
(***************************************************************************)
Marked(s, a) == 0 <= s * Sec + frac - a /\ s * Sec + frac - a < Sec

\* How long the thread slept and has still to sleep.
Rested ==
  /\ tpc = "sleep" => left >= -MaxLate
  /\ tpc = "sleep" /\ ~stepped =>
       /\ age + left > WatchdogInterval * Sec - Sec
       /\ age + left < Larger(WatchdogInterval * Sec, work) + Sec

IInv ==
  /\ TypeOK
  /\ ~stepped => Marked(secs, age)
  /\ ~repStepped => Marked(repSecs, repAge)
  /\ tpc \in {"probe", "report", "load", "rest"} => age <= MaxWork
  /\ Rested

\* A mark that was just set.
LEMMA NewMark == ASSUME TypeOK, frac' = frac PROVE Marked(0, 0)'
<1>1. Sec \in Nat /\ frac \in 0 .. Sec - 1 /\ 0 * Sec = 0
  BY Units, Consts DEF TypeOK
<1> QED
  BY <1>1 DEF Marked

\* Time passes.
LEMMA TickMark ==
  ASSUME TypeOK, Tick, NEW s \in Int, NEW a \in Nat, Marked(s, a),
         NEW t, t = s + (IF frac = Sec - 1 THEN 1 ELSE 0)
  PROVE  0 <= t * Sec + frac' - (a + 1) /\ t * Sec + frac' - (a + 1) < Sec
<1>1. Sec \in Nat /\ Sec > 0 /\ frac \in Nat /\ frac <= Sec - 1
  BY Consts DEF TypeOK
<1>2. s * Sec \in Int /\ (s + 1) * Sec = s * Sec + Sec
  BY Units
<1>3. frac' = (frac + 1) % Sec
  BY DEF Tick
<1>4. CASE frac = Sec - 1
  <2>1. frac' = 0
    <3>1. frac + 1 = Sec
      BY <1>1, <1>4
    <3>2. Sec % Sec = 0
      BY <1>1
    <3> QED
      BY <1>3, <3>1, <3>2
  <2>2. t * Sec = s * Sec + Sec
    BY <1>2, <1>4
  <2> QED
    BY <1>1, <1>2, <1>4, <2>1, <2>2 DEF Marked
<1>5. CASE frac # Sec - 1
  <2>1. frac + 1 \in Nat /\ frac + 1 < Sec
    BY <1>1, <1>5
  <2>2. (frac + 1) % Sec = frac + 1
    BY <1>1, <2>1
  <2>3. frac' = frac + 1 /\ t = s
    BY <1>3, <1>5, <2>2
  <2> QED
    BY <1>1, <1>2, <2>3 DEF Marked
<1> QED
  BY <1>4, <1>5

LEMMA TickStep ==
  ASSUME IInv, Tick
  PROVE  IInv'
<1>1. TypeOK'
  BY TypeStep DEF IInv, Next
<1>2. /\ secs \in Int /\ repSecs \in Int /\ age \in Nat /\ repAge \in Nat
      /\ left \in Int /\ MaxWork \in Nat /\ MaxLate \in Nat
  BY Consts DEF IInv, TypeOK
<1>3. /\ secs' = secs + (IF frac = Sec - 1 THEN 1 ELSE 0)
      /\ repSecs' = repSecs + (IF frac = Sec - 1 THEN 1 ELSE 0)
      /\ age' = age + 1 /\ repAge' = repAge + 1
      /\ left' = (IF tpc = "sleep" THEN left - 1 ELSE left)
      /\ UNCHANGED <<tpc, stepped, repStepped, work>>
  BY DEF Tick
<1>4. \/ tpc \in {"probe", "load"} /\ age < MaxWork
      \/ tpc = "sleep" /\ left > -MaxLate
  BY DEF Tick, MayLast
<1>5. ~stepped' => Marked(secs, age)'
  <2> SUFFICES ASSUME ~stepped PROVE Marked(secs, age)'
    BY <1>3
  <2>1. Marked(secs, age)
    BY DEF IInv
  <2>2. /\ 0 <= secs' * Sec + frac' - (age + 1)
        /\ secs' * Sec + frac' - (age + 1) < Sec
    BY <1>2, <1>3, <2>1, TickMark DEF IInv
  <2> QED
    BY <1>3, <2>2 DEF Marked
<1>6. ~repStepped' => Marked(repSecs, repAge)'
  <2> SUFFICES ASSUME ~repStepped PROVE Marked(repSecs, repAge)'
    BY <1>3
  <2>1. Marked(repSecs, repAge)
    BY DEF IInv
  <2>2. /\ 0 <= repSecs' * Sec + frac' - (repAge + 1)
        /\ repSecs' * Sec + frac' - (repAge + 1) < Sec
    BY <1>2, <1>3, <2>1, TickMark DEF IInv
  <2> QED
    BY <1>3, <2>2 DEF Marked
<1>7. tpc' \in {"probe", "report", "load", "rest"} => age' <= MaxWork
  BY <1>2, <1>3, <1>4
<1>8. Rested'
  <2>1. tpc = "sleep" => left' >= -MaxLate /\ age' + left' = age + left
    BY <1>2, <1>3, <1>4
  <2> QED
    BY <1>3, <2>1 DEF IInv, Rested
<1> QED
  BY <1>1, <1>5, <1>6, <1>7, <1>8 DEF IInv

\* Although it is computed modulo Wrap, the rest is what is left of the period
\* by the clock, or nothing.
LEMMA RestIs ==
  ASSUME IInv, Rest, ~stepped
  PROVE  left' = IF secs * Sec <= Period THEN Period - secs * Sec ELSE 0
<1>1. /\ Sec \in Nat /\ Sec > 0 /\ MaxWork \in Nat /\ Wrap \in Nat
      /\ frac \in Nat /\ frac <= Sec - 1 /\ age \in Nat /\ secs \in Int
  BY Consts DEF IInv, TypeOK
<1>2. Period \in Nat /\ Period + MaxWork + Sec < Wrap
  <2>1. WatchdogInterval * Sec + MaxWork + Sec < Wrap
    BY WatchDogAssumption
  <2> QED
    BY <2>1, PeriodFacts
<1>3. secs * Sec \in Int /\ (secs * Sec > -Sec => secs >= 0)
  BY <1>1, Units
<1>4. 0 <= secs * Sec + frac - age /\ secs * Sec + frac - age < Sec
  BY DEF IInv, Marked
<1>5. age <= MaxWork
  BY DEF IInv, Rest
<1> DEFINE S == secs * Sec
<1> HIDE DEF S
<1>6. S \in Int /\ S > -Sec /\ S < MaxWork + Sec
  BY <1>1, <1>3, <1>4, <1>5 DEF S
<1>7. secs >= 0
  BY <1>3, <1>6 DEF S
<1>8. S \in Nat /\ S < Wrap
  <2>1. S >= 0
    <3>1. secs * Sec >= 0 * Sec
      BY <1>1, <1>7, Monotone
    <3>2. 0 * Sec = 0
      BY <1>1
    <3> QED
      BY <3>1, <3>2 DEF S
  <2> QED
    BY <1>1, <1>2, <1>6, <2>1
<1>9. S % Wrap = S
  BY <1>8, Small
<1>10. AsUnsigned(secs, Sec, Wrap) = {S}
  BY <1>7, <1>9 DEF AsUnsigned, S
<1>11. left' = IF Period >= (Period - S) % Wrap THEN (Period - S) % Wrap ELSE 0
  BY <1>10 DEF Rest
<1>12. CASE S <= Period
  <2>1. Period - S \in Nat /\ Period - S < Wrap /\ Period - S <= Period
    BY <1>1, <1>2, <1>8, <1>12
  <2>2. (Period - S) % Wrap = Period - S
    BY <2>1, Small
  <2> QED
    BY <1>11, <1>12, <2>1, <2>2 DEF S
<1>13. CASE ~(S <= Period)
  <2>1. Period - S \in Int /\ Period - S < 0 /\ -Wrap <= Period - S
    BY <1>1, <1>2, <1>8, <1>13
  <2>2. (Period - S) % Wrap = Period - S + Wrap
    BY <2>1, Negative
  <2>3. ~(Period >= Period - S + Wrap)
    BY <1>1, <1>2, <1>8
  <2> QED
    BY <1>11, <1>13, <2>2, <2>3 DEF S
<1> QED
  BY <1>12, <1>13 DEF S

LEMMA RestStep ==
  ASSUME IInv, Rest
  PROVE  IInv'
<1>1. TypeOK'
  BY TypeStep DEF IInv, Next, Timer
<1>2. /\ tpc = "rest" /\ tpc' = "sleep" /\ work' = age
      /\ UNCHANGED <<frac, secs, age, stepped, repSecs, repAge, repStepped>>
  BY DEF Rest, clockVars
<1>3. left' \in Int /\ left' >= -MaxLate
  BY RestTypes, Consts DEF IInv
<1>4. ASSUME ~stepped
      PROVE  /\ age + left' > WatchdogInterval * Sec - Sec
             /\ age + left' < Larger(WatchdogInterval * Sec, age) + Sec
  <2> DEFINE S == secs * Sec
  <2>1. left' = IF S <= Period THEN Period - S ELSE 0
    BY <1>4, RestIs
  <2>2. /\ Sec \in Nat /\ Sec > 0 /\ age \in Nat /\ secs \in Int
        /\ frac \in Nat /\ frac <= Sec - 1
    BY Consts DEF IInv, TypeOK
  <2>3. S \in Int
    BY <2>2, Units
  <2>4. 0 <= S + frac - age /\ S + frac - age < Sec
    BY <1>4 DEF IInv, Marked
  <2>5. Period \in Nat /\ Period = WatchdogInterval * Sec
    BY PeriodFacts
  <2> HIDE DEF S
  <2>6. /\ age + left' > Period - Sec
        /\ age + left' < Larger(Period, age) + Sec
    BY <2>1, <2>2, <2>3, <2>4, <2>5 DEF Larger
  <2> QED
    BY <2>5, <2>6
<1>5. Rested'
  BY <1>2, <1>3, <1>4 DEF Rested
<1> QED
  BY <1>1, <1>2, <1>5 DEF IInv, Marked

LEMMA IInvStep ==
  ASSUME IInv, [Next]_vars
  PROVE  IInv'
<1>1. TypeOK'
  BY TypeStep DEF IInv
<1>2. MaxWork \in Nat /\ MaxLate \in Nat
  BY Consts
<1>3. CASE (\E s \in DevGlobalState : SetGlobalState(s)) \/ UNCHANGED vars
  BY <1>1, <1>3 DEF SetGlobalState, vars, clockVars, IInv, Marked, Rested
<1>4. CASE StartManager \/ Wake
  <2>1. tpc' = "call" /\ UNCHANGED clockVars
    BY <1>4 DEF StartManager, Wake
  <2> QED
    BY <1>1, <2>1 DEF clockVars, IInv, Marked, Rested
<1>5. CASE ManagerEnds
  <2>1. Marked(secs, age)' /\ Marked(repSecs, repAge)' /\ tpc' = "off"
    BY <1>5, NewMark DEF ManagerEnds, IInv, Marked
  <2> QED
    BY <1>1, <2>1 DEF IInv, Rested
<1>6. CASE Call
  <2>1. Marked(secs, age)' /\ tpc' = "probe" /\ age' <= MaxWork
    BY <1>2, <1>6, NewMark DEF Call, IInv, Marked
  <2>2. UNCHANGED <<frac, repSecs, repAge, repStepped>>
    BY <1>6 DEF Call
  <2> QED
    BY <1>1, <2>1, <2>2 DEF IInv, Marked, Rested
<1>7. CASE Probe \/ Load
  <2>1. UNCHANGED clockVars /\ tpc \in {"probe", "load"}
        /\ tpc' \in {"report", "rest"}
    BY <1>7 DEF Probe, Load
  <2> QED
    BY <1>1, <2>1 DEF clockVars, IInv, Marked, Rested
<1>8. CASE FirstReport
  <2>1. Marked(repSecs, repAge)' /\ tpc' \in {"load", "rest"}
    BY <1>8, NewMark DEF FirstReport, IInv, Marked
  <2>2. UNCHANGED <<frac, secs, age, stepped>> /\ tpc = "report"
    BY <1>8 DEF FirstReport
  <2> QED
    BY <1>1, <2>1, <2>2 DEF IInv, Marked, Rested
<1>9. CASE Report
  <2>1. UNCHANGED <<frac, secs, age, stepped>> /\ tpc = "report"
        /\ tpc' \in {"load", "rest"}
    BY <1>9 DEF Report
  <2>2. \/ repSecs' = 0 /\ repAge' = 0
        \/ UNCHANGED <<repSecs, repAge, repStepped>>
    BY <1>9 DEF Report
  <2>3. ~repStepped' => Marked(repSecs, repAge)'
    BY <2>1, <2>2, NewMark DEF IInv, Marked
  <2> QED
    BY <1>1, <2>1, <2>3 DEF IInv, Marked, Rested
<1>10. CASE \E s \in Steps : SetClock(s)
  <2>1. /\ stepped' = TRUE /\ repStepped' = TRUE
        /\ UNCHANGED <<tpc, age, left, work>>
    BY <1>10 DEF SetClock
  <2> QED
    BY <1>1, <2>1 DEF IInv, Rested
<1> QED
  BY <1>3, <1>4, <1>5, <1>6, <1>7, <1>8, <1>9, <1>10, RestStep, TickStep
     DEF Next, Timer

LEMMA IInvInit == Init => IInv
<1> SUFFICES ASSUME Init PROVE IInv
  OBVIOUS
<1>1. TypeOK
  BY TypeInit
<1>2. Sec \in Nat /\ Sec > 0 /\ 0 * Sec = 0
  BY Consts, Units
<1>3. Marked(secs, age) /\ Marked(repSecs, repAge)
  BY <1>2 DEF Init, Marked
<1> QED
  BY <1>1, <1>3 DEF Init, IInv, Rested

LEMMA IInvInvariance == Spec => []IInv
  BY IInvInit, IInvStep, PTL DEF Spec

\* Two calls of the watchdog, between which the clock was not set, are never a
\* second or more closer than the interval: neither the clock's whole seconds
\* nor the wrap-around of ComTimer::Run make one early (ComUtil.h:280-306).
THEOREM WatchdogNeverEarly == Spec => NeverEarly
<1>1. ASSUME IInv, [Next]_vars
      PROVE  [Wake /\ ~stepped => age > WatchdogInterval * Sec - Sec]_vars
  <2> SUFFICES ASSUME Wake, ~stepped
               PROVE  age > WatchdogInterval * Sec - Sec
    OBVIOUS
  <2>1. age + left > WatchdogInterval * Sec - Sec /\ left <= 0
    BY <1>1 DEF Wake, IInv, Rested
  <2>2. age \in Nat /\ left \in Int /\ WatchdogInterval * Sec - Sec \in Int
    BY <1>1, Consts DEF IInv, TypeOK
  <2> QED
    BY <2>1, <2>2
<1> QED
  BY IInvInvariance, <1>1, PTL DEF Spec, NeverEarly

\* Nor are they a second or more further apart than the interval, or than the
\* callbacks took, apart from a late wake-up.
THEOREM WatchdogNeverLate == Spec => []NeverLate
<1>1. IInv => NeverLate
  <2> SUFFICES ASSUME IInv, tpc = "sleep", ~stepped
               PROVE  age < Larger(WatchdogInterval * Sec, work) + Sec + MaxLate
    BY DEF NeverLate
  <2> DEFINE most == Larger(WatchdogInterval * Sec, work) + Sec
  <2>1. age + left < most /\ left >= -MaxLate
    BY DEF IInv, Rested
  <2>2. age \in Nat /\ left \in Int /\ MaxLate \in Nat /\ most \in Int
    BY Consts DEF IInv, TypeOK, Larger
  <2> HIDE DEF most
  <2>3. age < most + MaxLate
    BY <2>1, <2>2
  <2> QED
    BY <2>3 DEF most
<1> QED
  BY IInvInvariance, <1>1, PTL

\* Two reports of the system, between which the clock was not set, are never a
\* second or more closer than their interval (ManagerWatchDog.cpp:91-99).
THEOREM ReportsNeverEarly == Spec => ReportsApart
<1>1. ASSUME IInv, [Next]_vars
      PROVE  [Report /\ tpc' = "load" /\ ~repStepped
                => repAge > SysReportInterval * Sec - Sec]_vars
  <2> SUFFICES ASSUME Report, tpc' = "load", ~repStepped
               PROVE  repAge > SysReportInterval * Sec - Sec
    OBVIOUS
  <2>1. /\ Sec \in Nat /\ Sec > 0 /\ SysReportInterval \in Nat
        /\ repSecs \in Int /\ repAge \in Nat /\ frac \in Nat /\ frac <= Sec - 1
    BY <1>1, Consts DEF IInv, TypeOK
  <2>2. /\ 0 <= repSecs * Sec + frac - repAge
        /\ repSecs * Sec + frac - repAge < Sec
    BY <1>1 DEF IInv, Marked
  <2>3. repSecs * Sec \in Int /\ (repSecs * Sec > -Sec => repSecs >= 0)
    BY <2>1, Units
  <2>4. repSecs \in Nat
    <3>1. repSecs * Sec > -Sec
      BY <2>1, <2>2, <2>3
    <3> QED
      BY <2>1, <2>3, <3>1
  <2>5. PICK d \in AsUnsigned(repSecs, 1, Wrap) : Due(d)
    BY DEF Report
  <2>6. d = repSecs % Wrap
    <3>1. repSecs * 1 = repSecs
      BY <2>4
    <3> QED
      BY <2>4, <2>5, <3>1 DEF AsUnsigned
  <2>7. repSecs >= SysReportInterval
    BY <2>1, <2>4, <2>5, <2>6, Remainder DEF Due
  <2>8. repSecs * Sec >= SysReportInterval * Sec
    BY <2>1, <2>7, Monotone
  <2>9. SysReportInterval * Sec \in Int
    BY <2>1
  <2> QED
    BY <2>1, <2>2, <2>3, <2>8, <2>9
<1> QED
  BY IInvInvariance, <1>1, PTL DEF Spec, ReportsApart

-----------------------------------------------------------------------------
(***************************************************************************)
(* The wait for a report.  It grows from the last decision over the rest   *)
(* of the callback, the sleep and the next probe; each has its own bound.  *)
(***************************************************************************)
Decided == Larger(SysReportInterval * Sec, MaxWork)
Round == WatchdogInterval * Sec

WaitSoFar ==
  /\ tpc = "load" => repAge <= age
  /\ tpc = "rest" => repAge <= Decided
  /\ tpc = "sleep" => repAge + left <= Decided + Round
  /\ tpc = "call" => repAge <= Decided + Round + MaxLate
  /\ tpc \in {"probe", "report"} => repAge <= Decided + Round + MaxLate + age

WaitInv ==
  /\ main = "waiting" => tpc = "off"
  /\ tpc = "off" => ~hasReported
  /\ hasReported /\ ~repStepped => WaitSoFar

\* The bounds are numbers.
LEMMA Bounds ==
  /\ Decided \in Nat /\ Round \in Nat /\ MaxLate \in Nat /\ MaxWork \in Nat
  /\ SysReportInterval * Sec \in Nat
  /\ SysReportInterval * Sec <= Decided /\ MaxWork <= Decided
  /\ LongestWait = Decided + Round + MaxLate + MaxWork
  /\ LongestWait + Sec <= Wrap * Sec
<1>1. /\ Sec \in Nat /\ SysReportInterval \in Nat /\ WatchdogInterval \in Nat
      /\ MaxWork \in Nat /\ MaxLate \in Nat /\ Wrap \in Nat
  BY Consts
<1> DEFINE R == SysReportInterval * Sec
           W == WatchdogInterval * Sec
<1>2. R \in Nat /\ W \in Nat /\ Wrap * Sec \in Nat
  BY <1>1
<1>3. (SysReportInterval + WatchdogInterval + 1) * Sec = R + W + Sec
  BY <1>1
<1>4. R + W + Sec + 2 * MaxWork + MaxLate <= Wrap * Sec
  BY <1>3, ReportAssumption
<1>5. Decided = Larger(R, MaxWork) /\ Round = W
      /\ LongestWait = Larger(R, MaxWork) + W + MaxLate + MaxWork
  BY DEF Decided, Round, LongestWait
<1> HIDE DEF R, W
<1>6. Larger(R, MaxWork) \in Nat /\ R <= Larger(R, MaxWork)
      /\ MaxWork <= Larger(R, MaxWork) /\ Larger(R, MaxWork) <= R + MaxWork
  BY <1>1, <1>2 DEF Larger
<1> DEFINE B == Wrap * Sec
<1>7. B \in Nat /\ R + W + Sec + 2 * MaxWork + MaxLate <= B
  BY <1>2, <1>4
<1> HIDE DEF B
<1>8. LongestWait + Sec <= B
  BY <1>1, <1>2, <1>5, <1>6, <1>7
<1> QED
  BY <1>1, <1>2, <1>5, <1>6, <1>8 DEF B, R

\* At every step the wait is within the longest.
LEMMA WaitBound ==
  ASSUME IInv, WaitInv
  PROVE  ReportsInTime
<1> SUFFICES ASSUME hasReported, ~repStepped PROVE repAge <= LongestWait
  BY DEF ReportsInTime
<1>1. /\ Decided \in Nat /\ Round \in Nat /\ MaxLate \in Nat /\ MaxWork \in Nat
      /\ MaxWork <= Decided /\ LongestWait = Decided + Round + MaxLate + MaxWork
  BY Bounds
<1>2. repAge \in Nat /\ age \in Nat /\ left \in Int
  BY DEF IInv, TypeOK
<1>3. /\ tpc \in {"probe", "report", "load", "rest"} => age <= MaxWork
      /\ tpc = "sleep" => left >= -MaxLate
  BY DEF IInv, Rested
<1>4. WaitSoFar /\ tpc # "off"
  BY DEF WaitInv
<1>5. tpc \in {"call", "probe", "report", "load", "rest", "sleep"}
  BY <1>4 DEF IInv, TypeOK
<1> QED
  BY <1>1, <1>2, <1>3, <1>4, <1>5 DEF WaitSoFar

\* A decision against a report comes before the interval is over.
LEMMA NotDue ==
  ASSUME IInv, WaitInv, Report, ~repStepped, NEW d \in AsUnsigned(repSecs, 1, Wrap),
         ~Due(d)
  PROVE  repAge <= SysReportInterval * Sec
<1>1. /\ Sec \in Nat /\ Sec > 0 /\ SysReportInterval \in Nat /\ Wrap \in Nat
      /\ repSecs \in Int /\ repAge \in Nat /\ frac \in Nat /\ frac <= Sec - 1
  BY Consts DEF IInv, TypeOK
<1>2. /\ 0 <= repSecs * Sec + frac - repAge
      /\ repSecs * Sec + frac - repAge < Sec
  BY DEF IInv, Marked
<1>3. repSecs * Sec \in Int /\ (repSecs * Sec > -Sec => repSecs >= 0)
  BY <1>1, Units
<1>4. repSecs \in Nat
  <2>1. repSecs * Sec > -Sec
    BY <1>1, <1>2, <1>3
  <2> QED
    BY <1>1, <1>3, <2>1
<1>5. repSecs < Wrap
  <2>1. repAge <= LongestWait /\ LongestWait \in Nat /\ LongestWait + Sec <= Wrap * Sec
    BY WaitBound, Bounds DEF Report, ReportsInTime
  <2>2. repSecs * Sec < Wrap * Sec
    <3>1. Wrap * Sec \in Int
      BY <1>1
    <3> DEFINE A == repSecs * Sec
               B == Wrap * Sec
    <3>2. A \in Int /\ B \in Int /\ LongestWait + Sec <= B
          /\ A + frac - repAge < Sec
      BY <1>2, <1>3, <2>1, <3>1
    <3> HIDE DEF A, B
    <3>3. A < B
      BY <1>1, <2>1, <3>2
    <3> QED
      BY <3>3 DEF A, B
  <2>3. ~(repSecs >= Wrap)
    <3> SUFFICES ASSUME repSecs >= Wrap PROVE FALSE
      OBVIOUS
    <3>1. repSecs * Sec >= Wrap * Sec /\ repSecs * Sec \in Int /\ Wrap * Sec \in Int
      BY <1>1, Monotone
    <3> QED
      BY <2>2, <3>1
  <2> QED
    BY <1>1, <2>3
<1>6. d = repSecs
  <2>1. repSecs * 1 = repSecs
    BY <1>4
  <2>2. repSecs % Wrap = repSecs
    BY <1>4, <1>5, Small
  <2> QED
    BY <1>4, <2>1, <2>2 DEF AsUnsigned
<1>7. SysReportInterval >= repSecs + 1
  BY <1>1, <1>4, <1>6 DEF Due
<1>8. SysReportInterval * Sec >= (repSecs + 1) * Sec
      /\ (repSecs + 1) * Sec = repSecs * Sec + Sec
  BY <1>1, <1>7, Monotone, Units
<1>9. SysReportInterval * Sec \in Int
  BY <1>1
<1> DEFINE A == repSecs * Sec
           B == SysReportInterval * Sec
<1>10. A \in Int /\ B \in Int /\ B >= A + Sec /\ 0 <= A + frac - repAge
  BY <1>2, <1>3, <1>8, <1>9
<1> HIDE DEF A, B
<1>11. repAge <= B
  BY <1>1, <1>10
<1> QED
  BY <1>11 DEF B

\* The thread never sleeps longer than one round, whatever the clock says.
LEMMA RestShort ==
  ASSUME IInv, Rest
  PROVE  left' <= Round
<1>1. Period \in Nat /\ Period = Round
  BY PeriodFacts DEF Round
<1>2. PICK span \in AsUnsigned(secs, Sec, Wrap) :
        left' = IF Period >= (Period - span) % Wrap THEN (Period - span) % Wrap ELSE 0
  BY DEF Rest
<1> DEFINE x == (Period - span) % Wrap
<1>3. left' = IF Period >= x THEN x ELSE 0
  BY <1>2
<1> HIDE DEF x
<1>4. left' <= Period
  BY <1>1, <1>3
<1> QED
  BY <1>1, <1>4

LEMMA SumBound ==
  ASSUME NEW a \in Int, NEW b \in Int, NEW c \in Int, NEW d \in Int, a <= c, b <= d
  PROVE  a + b <= c + d
  OBVIOUS

LEMMA WaitStep ==
  ASSUME IInv, WaitInv, [Next]_vars
  PROVE  WaitInv'
<1>1. /\ Decided \in Nat /\ Round \in Nat /\ MaxLate \in Nat /\ MaxWork \in Nat
      /\ MaxWork <= Decided /\ SysReportInterval * Sec <= Decided
      /\ SysReportInterval * Sec \in Nat
  BY Bounds
<1>2. repAge \in Nat /\ age \in Nat /\ left \in Int
  BY DEF IInv, TypeOK
<1>3. /\ tpc \in {"probe", "report", "load", "rest"} => age <= MaxWork
      /\ tpc = "sleep" => left >= -MaxLate
  BY DEF IInv, Rested
<1>4. CASE (\E s \in DevGlobalState : SetGlobalState(s)) \/ UNCHANGED vars
  BY <1>4 DEF SetGlobalState, vars, clockVars, WaitInv, WaitSoFar
<1>5. CASE StartManager
  BY <1>5 DEF StartManager, WaitInv
<1>6. CASE ManagerEnds
  BY <1>6 DEF ManagerEnds, WaitInv
<1>7. CASE Call
  BY <1>1, <1>7 DEF Call, WaitInv, WaitSoFar
<1>8. CASE Probe
  BY <1>8 DEF Probe, clockVars, WaitInv, WaitSoFar
<1>9. CASE FirstReport
  <2>1. /\ tpc' \in {"load", "rest"} /\ repAge' = 0 /\ age' = age
        /\ tpc = "report" /\ main' = main
    BY <1>9 DEF FirstReport
  <2> QED
    BY <1>1, <1>2, <2>1 DEF WaitInv, WaitSoFar
<1>10. CASE Report
  <2> SUFFICES ASSUME hasReported', ~repStepped' PROVE WaitSoFar'
    BY <1>10 DEF WaitInv, Report
  <2>1. PICK d \in AsUnsigned(repSecs, 1, Wrap) :
          \/ Due(d) /\ tpc' = "load" /\ repAge' = 0
          \/ ~Due(d) /\ tpc' = "rest" /\ repAge' = repAge /\ repStepped' = repStepped
    BY <1>10 DEF Report
  <2>2. age' = age
    BY <1>10 DEF Report
  <2>3. CASE tpc' = "load" /\ repAge' = 0
    BY <1>2, <2>2, <2>3 DEF WaitSoFar
  <2>4. CASE ~Due(d) /\ tpc' = "rest" /\ repAge' = repAge /\ repStepped' = repStepped
    <3>1. repAge <= SysReportInterval * Sec
      BY <1>10, <2>4, NotDue
    <3>2. repAge' <= Decided
      BY <1>1, <1>2, <2>4, <3>1
    <3> QED
      BY <2>4, <3>2 DEF WaitSoFar
  <2> QED
    BY <2>1, <2>3, <2>4
<1>11. CASE Load
  BY <1>1, <1>2, <1>3, <1>11 DEF Load, clockVars, WaitInv, WaitSoFar
<1>12. CASE Rest
  <2>1. left' <= Round /\ left' \in Int
    BY <1>12, RestShort, RestTypes DEF IInv
  <2>2. /\ tpc = "rest" /\ tpc' = "sleep"
        /\ UNCHANGED <<main, repAge, hasReported, repStepped>>
    BY <1>12 DEF Rest, clockVars
  <2>3. ASSUME hasReported, ~repStepped PROVE repAge' + left' <= Decided + Round
    <3>1. repAge' <= Decided /\ repAge' \in Nat
      BY <1>2, <2>2, <2>3 DEF WaitInv, WaitSoFar
    <3>2. Decided \in Int /\ Round \in Int /\ repAge' \in Int
      BY <1>1, <3>1
    <3> QED
      BY <2>1, <3>1, <3>2, SumBound
  <2> QED
    BY <2>2, <2>3 DEF WaitInv, WaitSoFar
<1>13. CASE Wake
  BY <1>1, <1>2, <1>3, <1>13 DEF Wake, clockVars, WaitInv, WaitSoFar
<1>14. CASE Tick
  <2>1. /\ tpc \in {"probe", "load", "sleep"}
        /\ age' = age + 1 /\ repAge' = repAge + 1
        /\ left' = (IF tpc = "sleep" THEN left - 1 ELSE left)
        /\ UNCHANGED <<main, tpc, repStepped, hasReported>>
    BY <1>14 DEF Tick, MayLast
  <2> QED
    BY <1>1, <1>2, <2>1 DEF WaitInv, WaitSoFar
<1>15. CASE \E s \in Steps : SetClock(s)
  BY <1>15 DEF SetClock, WaitInv
<1> QED
  BY <1>4, <1>5, <1>6, <1>7, <1>8, <1>9, <1>10, <1>11, <1>12, <1>13, <1>14, <1>15
     DEF Next, Timer

\* A report of the system never waits longer than its interval, or than the load
\* of the last one took, and one round of the timer with its probe and a late
\* wake-up, if the clock is not set after the last one; that it was set before,
\* and the sleep computed from it, does not matter (ManagerWatchDog.cpp:91-99).
THEOREM ReportsNeverLate == Spec => []ReportsInTime
<1>1. Init => WaitInv
  BY DEF Init, WaitInv
<1>2. IInv /\ WaitInv /\ [Next]_vars => WaitInv'
  BY WaitStep
<1>3. IInv /\ WaitInv => ReportsInTime
  BY WaitBound
<1> QED
  BY <1>1, <1>2, <1>3, IInvInvariance, PTL DEF Spec
=============================================================================
