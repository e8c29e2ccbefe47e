------------------------------ MODULE WatchDog ------------------------------
(***************************************************************************)
(* The Manager's watchdog on its ComTimer, and the start of the Manager by *)
(* it5-main, which waits for the state of the installation in Redis.       *)
(*                                                                         *)
(* The timer has no clock of its own: it reads time(0), in whole seconds,  *)
(* before and after its callbacks and sleeps for what is left of the       *)
(* period, all in 32 bits without a sign.  Time passes in units of which   *)
(* Sec make a second (in the code 1000000) and is kept relative: how much  *)
(* of it passed, by the clock and truly, since the marks that matter.  The *)
(* clock may be set while the Manager runs.                                *)
(***************************************************************************)
EXTENDS Integers

CONSTANTS
  Sec,                \* units in a second
  Wrap,               \* 2^32
  WatchdogInterval,   \* of the configuration, in seconds
  SysReportInterval,
  MaxWork,            \* the longest that the callback takes, in units
  MaxLate,            \* how much later than asked usleep may return
  Steps               \* by how many seconds the clock may be set

ASSUME WatchDogAssumption ==
  /\ Sec \in Nat \ {0}
  /\ WatchdogInterval \in Nat \ {0}
  /\ SysReportInterval \in Nat
  /\ MaxWork \in Nat
  /\ MaxLate \in Nat
  /\ Steps \subseteq Int
  /\ Wrap \in Nat
  /\ WatchdogInterval * Sec + MaxWork + Sec < Wrap

\* A report is due before the seconds since the last one exceed 32 bits.
ASSUME ReportAssumption ==
  (SysReportInterval + WatchdogInterval + 1) * Sec + 2 * MaxWork + MaxLate
    <= Wrap * Sec

VARIABLES
  gstate,       \* SystemState in Redis
  main,         \* it5-main waits, or the Manager it started runs
  tpc,          \* the timer thread: where it is in Run and watchdog
  frac,         \* the clock: units since its last full second
  secs,         \* seconds of the clock since t1
  age,          \* units since the callbacks were called
  left,         \* units until usleep is to return
  stepped,      \* the clock was set since then
  hasReported,  \* sysreport_time has a value
  repSecs,      \* seconds of the clock since it
  repAge,       \* units since then
  repStepped,   \* the clock was set since then
  work          \* history: units the callbacks took, while it sleeps

clockVars == <<frac, secs, age, stepped, repSecs, repAge, repStepped>>
vars == <<gstate, main, tpc, clockVars, left, hasReported, work>>

DevGlobalState == {"Install", "InstallSuccess", "InstallFail", "Running"}

\* SystemState before it is first set: the empty string.
Unset == ""

TypeOK ==
  /\ gstate \in DevGlobalState \cup {Unset}
  /\ main \in {"waiting", "running"}
  /\ tpc \in {"off", "call", "probe", "report", "load", "rest", "sleep"}
  /\ frac \in 0 .. Sec - 1
  /\ secs \in Int
  /\ age \in Nat
  /\ left \in Int
  /\ stepped \in BOOLEAN
  /\ hasReported \in BOOLEAN
  /\ repSecs \in Int
  /\ repAge \in Nat
  /\ repStepped \in BOOLEAN
  /\ work \in Nat

Init ==
  /\ gstate \in DevGlobalState \cup {Unset}
  /\ main = "waiting"
  /\ tpc = "off"
  /\ frac = 0
  /\ secs = 0
  /\ age = 0
  /\ left = 0
  /\ stepped = FALSE
  /\ hasReported = FALSE
  /\ repSecs = 0
  /\ repAge = 0
  /\ repStepped = FALSE
  /\ work = 0

-----------------------------------------------------------------------------
(***************************************************************************)
(* The installation and it5-main.                                          *)
(***************************************************************************)

\* The installation sets the state.
SetGlobalState(s) ==
  /\ gstate' = s
  /\ UNCHANGED <<main, tpc, clockVars, left, hasReported, work>>

\* The words at which it5-main goes on waiting.
Waits(s) == s \in {Unset, "InstallFailed"}

\* The wait ends; Initialize() starts the timer.
StartManager ==
  /\ main = "waiting"
  /\ ~Waits(gstate)
  /\ main' = "running"
  /\ tpc' = "call"
  /\ UNCHANGED <<gstate, clockVars, left, hasReported, work>>

\* The Manager ends, and the service starts it5-main again.
ManagerEnds ==
  /\ main = "running"
  /\ main' = "waiting"
  /\ tpc' = "off"
  /\ hasReported' = FALSE
  /\ age' = 0
  /\ repAge' = 0
  /\ secs' = 0
  /\ repSecs' = 0
  /\ stepped' = FALSE
  /\ repStepped' = FALSE
  /\ left' = 0
  /\ work' = 0
  /\ UNCHANGED <<gstate, frac>>

-----------------------------------------------------------------------------
(***************************************************************************)
(* ComTimer::Run and ManagerWatchDog::watchdog.                            *)
(***************************************************************************)

\* Mutation of Period: a wrong unit.
PeriodHalved == (WatchdogInterval * Sec) \div 2

\* The argument of Start(): the product of two unsigned numbers.
Period == (WatchdogInterval * Sec) % Wrap

\* What a conversion to unsigned makes of a difference of times.  That of a
\* negative number is undefined: it saturates or wraps around.
AsUnsigned(d, unit, modulus) ==
  IF d >= 0 THEN {(d * unit) % modulus} ELSE {0, (d * unit) % modulus}

\* t1 = time(0); the callback reads the global state and pushes an audit if
\* the installation succeeded or failed.  Audits are those of CloudForwarder.
Call ==
  /\ tpc = "call"
  /\ tpc' = "probe"
  /\ secs' = 0
  /\ age' = 0
  /\ stepped' = FALSE
  /\ UNCHANGED <<gstate, main, frac, left, hasReported, repSecs, repAge,
                 repStepped, work>>

\* TestTcpConnection has returned, and its result is noted in MQTT_REACHABLE,
\* which nothing reads.  Its timeout does not limit connect().
Probe ==
  /\ tpc = "probe"
  /\ tpc' = "report"
  /\ UNCHANGED <<gstate, main, clockVars, left, hasReported, work>>

\* Mutation of Due: one second before.
DueEarly(d) == d + 1 >= SysReportInterval

Due(d) == d >= SysReportInterval

\* sysreport_time has its first value when the callback first gets here.
FirstReport ==
  /\ tpc = "report"
  /\ ~hasReported
  /\ hasReported' = TRUE
  /\ repSecs' = 0
  /\ repAge' = 0
  /\ repStepped' = FALSE
  /\ tpc' = IF Due(0) THEN "load" ELSE "rest"
  /\ UNCHANGED <<gstate, main, frac, secs, age, stepped, left, work>>

\* Mutation of Report: sysreport_time is advanced whether or not it is due.
ReportAlwaysMarks ==
  /\ tpc = "report"
  /\ hasReported
  /\ \E d \in AsUnsigned(repSecs, 1, Wrap) :
       /\ tpc' = IF Due(d) THEN "load" ELSE "rest"
       /\ repAge' = IF Due(d) THEN 0 ELSE repAge
  /\ repSecs' = 0
  /\ UNCHANGED <<gstate, main, frac, secs, age, stepped, repStepped, left,
                 hasReported, work>>

Report ==
  /\ tpc = "report"
  /\ hasReported
  /\ \E d \in AsUnsigned(repSecs, 1, Wrap) :
       \/ /\ Due(d)
          /\ tpc' = "load"
          /\ repSecs' = 0
          /\ repAge' = 0
          /\ repStepped' = FALSE
       \/ /\ ~Due(d)
          /\ tpc' = "rest"
          /\ UNCHANGED <<repSecs, repAge, repStepped>>
  /\ UNCHANGED <<gstate, main, frac, secs, age, stepped, left, hasReported,
                 work>>

\* SystemInfo::Load and the audit of what it found.
Load ==
  /\ tpc = "load"
  /\ tpc' = "rest"
  /\ UNCHANGED <<gstate, main, clockVars, left, hasReported, work>>

\* Mutation of Rest: the time the callbacks took is not taken off.
RestFull ==
  /\ tpc = "rest"
  /\ tpc' = "sleep"
  /\ left' = Period
  /\ work' = age
  /\ UNCHANGED <<gstate, main, clockVars, hasReported>>

\* Mutation of Rest: callbacks that took longer than the period end the loop.
RestGivesUp ==
  /\ tpc = "rest"
  /\ work' = age
  /\ \E span \in AsUnsigned(secs, Sec, Wrap) :
       LET remain == (Period - span) % Wrap
       IN  /\ tpc' = IF Period >= remain THEN "sleep" ELSE "off"
           /\ left' = IF Period >= remain THEN remain ELSE 0
  /\ UNCHANGED <<gstate, main, clockVars, hasReported>>

\* span, remain and the test whether to sleep.
Rest ==
  /\ tpc = "rest"
  /\ work' = age
  /\ \E span \in AsUnsigned(secs, Sec, Wrap) :
       LET remain == (Period - span) % Wrap
       IN  /\ tpc' = "sleep"
           /\ left' = IF Period >= remain THEN remain ELSE 0
  /\ UNCHANGED <<gstate, main, clockVars, hasReported>>

\* usleep has returned; the loop starts over.
Wake ==
  /\ tpc = "sleep"
  /\ left <= 0
  /\ tpc' = "call"
  /\ left' = 0
  /\ work' = 0
  /\ UNCHANGED <<gstate, main, clockVars, hasReported>>

Timer == Call \/ Probe \/ FirstReport \/ Report \/ Load \/ Rest \/ Wake

-----------------------------------------------------------------------------
(***************************************************************************)
(* Time.                                                                   *)
(***************************************************************************)

\* The thread may take its time in the probe and in the load, and return late
\* from usleep.
MayLast ==
  \/ tpc \in {"probe", "load"} /\ age < MaxWork
  \/ tpc = "sleep" /\ left > -MaxLate

Tick ==
  /\ MayLast
  /\ LET full == IF frac = Sec - 1 THEN 1 ELSE 0
     IN  /\ frac' = (frac + 1) % Sec
         /\ secs' = secs + full
         /\ repSecs' = repSecs + full
  /\ age' = age + 1
  /\ repAge' = repAge + 1
  /\ left' = IF tpc = "sleep" THEN left - 1 ELSE left
  /\ UNCHANGED <<gstate, main, tpc, stepped, repStepped, hasReported, work>>

\* The clock is set, by whole seconds; at most once between two reports.
SetClock(s) ==
  /\ main = "running"
  /\ ~repStepped
  /\ secs' = secs + s
  /\ repSecs' = repSecs + s
  /\ stepped' = TRUE
  /\ repStepped' = TRUE
  /\ UNCHANGED <<gstate, main, tpc, frac, age, repAge, left, hasReported,
                 work>>

Next ==
  \/ \E s \in DevGlobalState : SetGlobalState(s)
  \/ StartManager
  \/ ManagerEnds
  \/ Timer
  \/ Tick
  \/ \E s \in Steps : SetClock(s)

\* it5-main tests again and again, the timer thread runs and time passes.
Fairness == WF_vars(StartManager) /\ WF_vars(Timer) /\ WF_vars(Tick)

Spec == Init /\ [][Next]_vars /\ Fairness

-----------------------------------------------------------------------------
(***************************************************************************)
(* Properties.                                                             *)
(***************************************************************************)

Larger(a, b) == IF a >= b THEN a ELSE b

\* Although the clock is read in whole seconds and the subtraction wraps
\* around, two calls of the watchdog are never a full second closer than the
\* configured interval, unless the clock was set between just these two.
NeverEarly ==
  [][Wake /\ ~stepped => age > WatchdogInterval * Sec - Sec]_vars

\* Nor are they a second further apart than the interval, or than the time
\* the callbacks took if that is longer, apart from a late wake-up.
NeverLate ==
  tpc = "sleep" /\ ~stepped
    => age < Larger(WatchdogInterval * Sec, work) + Sec + MaxLate

\* Reports of the system are not closer than their interval, to the second.
ReportsApart ==
  [][Report /\ tpc' = "load" /\ ~repStepped
       => repAge > SysReportInterval * Sec - Sec]_vars

\* They do not wait longer than their interval, or than the load of the last
\* one took if that is longer, and one more round of the timer: a decision
\* that comes a moment early skips one.  If the clock was set before the last
\* report, and the sleep was wrong for it, that changes nothing.
LongestWait ==
  Larger(SysReportInterval * Sec, MaxWork) + WatchdogInterval * Sec + MaxLate
  + MaxWork

ReportsInTime == hasReported /\ ~repStepped => repAge <= LongestWait

\* Whatever the clock does, the watchdog is called again and again while the
\* Manager runs.
WatchesForever == [](main = "running" => <>(main = "waiting" \/ tpc = "call"))

\* it5-main starts the Manager only on an installation that did not fail.
FailedInstallWaits ==
  [][StartManager => gstate # "InstallFail"]_vars
=============================================================================
