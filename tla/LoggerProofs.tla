---------------------------- MODULE LoggerProofs ----------------------------
(***************************************************************************)
(* The files of Logger are in order, only the oldest is replaced and the   *)
(* current one does not outgrow its limit, for every number of indices,    *)
(* lines, writers and ends of the process.                                 *)
(***************************************************************************)
EXTENDS Logger, WellFoundedInduction, TLAPS

-----------------------------------------------------------------------------
(***************************************************************************)
(* The type invariant.  obsCount stays in its range because a look, which  *)
(* resets it, comes before every line that would take it further.          *)
(***************************************************************************)
Types ==
  /\ TypeOK
  /\ th \in {"shift", "write"} => obsCount = 0

\* A file that gets a line, and a trace that gets a file, are files.
LEMMA FileTypes ==
  /\ NoFile \in File
  /\ \A f \in File, n \in Nat : AddLine(f, n) \in File
  /\ dropped \in File => \A f \in File : Dropping(f) \in File
  BY DEF File, NoFile, AddLine, Dropping

LEMMA TypesStep ==
  ASSUME Types, [Next]_vars
  PROVE  Types'
<1> USE LoggerAssumption
<1>1. ASSUME NEW w \in Writers, PrintEnter(w)
      PROVE  Types'
  BY <1>1 DEF PrintEnter, Types, TypeOK, fileVars
<1>2. ASSUME NEW w \in Writers, PrintPush(w)
      PROVE  Types'
  <2>1. log_queue' \in Seq(Nat) /\ nextNr' \in Nat \ {0}
    BY <1>2 DEF PrintPush, Types, TypeOK
  <2> QED
    BY <1>2, <2>1 DEF PrintPush, Types, TypeOK, fileVars
<1>3. CASE LoopTest
  BY <1>3 DEF LoopTest, Types, TypeOK, fileVars, queueVars
<1>4. CASE Take
  <2>1. log_queue' \in Seq(Nat) /\ entry' \in Nat
    <3>1. log_queue \in Seq(Nat) /\ entry \in Nat
      BY DEF Types, TypeOK
    <3>2. log_queue # <<>> => /\ Head(log_queue) \in Nat
                              /\ Tail(log_queue) \in Seq(Nat)
      BY <3>1
    <3> QED
      BY <1>4, <3>1, <3>2 DEF Take
  <2>2. th' \in {"test", "have"}
    BY <1>4 DEF Take
  <2> QED
    BY <1>4, <2>1, <2>2 DEF Take, Types, TypeOK, fileVars
<1>5. CASE LookOnly
  BY <1>5 DEF LookOnly, Types, TypeOK, fileVars, queueVars
<1>6. CASE LookAndMove
  <2>1. files' \in [Index -> File] /\ cur' \in File
    BY <1>6, FileTypes DEF LookAndMove, Types, TypeOK
  <2> QED
    BY <1>6, <2>1 DEF LookAndMove, Types, TypeOK, queueVars
<1>7. CASE LookAndShift
  BY <1>7 DEF LookAndShift, Types, TypeOK, fileVars, queueVars
<1>8. CASE Shift
  <2>1. i \in Index /\ i - 1 \in Index /\ i' \in 1 .. MaxIndex
    BY <1>8 DEF Shift, Types, TypeOK, Index
  <2>2. dropped' \in File
    BY <1>8, <2>1, FileTypes DEF Shift, Types, TypeOK
  <2>3. files' \in [Index -> File]
    BY <1>8, <2>1, FileTypes DEF Shift, Types, TypeOK
  <2> QED
    BY <1>8, <2>1, <2>2, <2>3 DEF Shift, Types, TypeOK, queueVars
<1>9. CASE ShiftLast
  <2>1. MaxIndex - 1 \in Index
    BY DEF Index
  <2>2. dropped' \in File /\ cur' \in File
    BY <1>9, <2>1, FileTypes DEF ShiftLast, Types, TypeOK
  <2>3. files' \in [Index -> File]
    BY <1>9, <2>1 DEF ShiftLast, Types, TypeOK
  <2> QED
    BY <1>9, <2>2, <2>3 DEF ShiftLast, Types, TypeOK, queueVars
<1>10. CASE Write
  <2>1. cur' \in File /\ written' \in Nat
    BY <1>10, FileTypes DEF Write, Types, TypeOK
  <2>2. obsCount' \in 0 .. ObsLimit
    BY <1>10 DEF Write, MustLook, Types, TypeOK
  <2> QED
    BY <1>10, <2>1, <2>2 DEF Write, Types, TypeOK, queueVars
<1>11. CASE Stop
  BY <1>11 DEF Stop, Types, TypeOK, fileVars, queueVars
<1>12. CASE End
  <2>1. torn' \in BOOLEAN
    BY <1>12 DEF End, LeavesGap, Types, TypeOK
  <2>2. log_queue' \in Seq(Nat)
    BY <1>12 DEF End
  <2>3. up' \in BOOLEAN
    BY <1>12 DEF End
  <2> QED
    BY <1>12, <2>1, <2>2, <2>3 DEF End, Types, TypeOK, fileVars
<1>13. CASE Start
  <2>1. up' \in BOOLEAN /\ stopped' \in BOOLEAN
    BY <1>13 DEF Start
  <2> QED
    BY <1>13, <2>1 DEF Start, Types, TypeOK, fileVars, queueVars
<1>14. CASE UNCHANGED vars
  BY <1>14 DEF vars, Types, TypeOK, fileVars, queueVars
<1> QED
  BY <1>1, <1>2, <1>3, <1>4, <1>5, <1>6, <1>7, <1>8, <1>9, <1>10, <1>11, <1>12,
     <1>13, <1>14 DEF Next, DoLog

LEMMA TypesInit == Init => Types
<1> SUFFICES ASSUME Init PROVE Types
  OBVIOUS
<1>1. log_queue \in Seq(Nat)
  BY DEF Init
<1>2. cur \in File /\ dropped \in File /\ files \in [Index -> File]
  BY FileTypes DEF Init
<1>3. obsCount \in 0 .. ObsLimit /\ i \in 1 .. MaxIndex
  BY LoggerAssumption DEF Init
<1>4. up \in BOOLEAN /\ stopped \in BOOLEAN /\ torn \in BOOLEAN
  BY DEF Init
<1> QED
  BY <1>1, <1>2, <1>3, <1>4 DEF Init, Types, TypeOK

LEMMA TypesInvariance == Spec => []Types
  BY TypesInit, TypesStep, PTL DEF Spec

\* Every variable of the logger has its type; the count of entries since the
\* last look never passes its limit.
THEOREM LoggerTypeCorrect == Spec => []TypeOK
<1>1. Types => TypeOK
  BY DEF Types
<1> QED
  BY TypesInvariance, <1>1, PTL

-----------------------------------------------------------------------------
(***************************************************************************)
(* The size of the file.  While a shift is under way, or the thread has    *)
(* ended, the count may already be reset and the file not yet moved.       *)
(***************************************************************************)
Growth ==
  cur.size < MaxFileSize + missed * ObsLimit
             + (IF th \in {"shift", "ended"} THEN ObsLimit ELSE obsCount)

LEMMA GrowthStep ==
  ASSUME Types, Growth, [Next]_vars
  PROVE  Growth'
<1> USE LoggerAssumption
<1> DEFINE g == missed * ObsLimit
<1>1. /\ cur.size \in Nat /\ missed \in Nat /\ obsCount \in 0 .. ObsLimit
      /\ g \in Nat
  BY DEF Types, TypeOK, File
<1>2. (missed + 1) * ObsLimit = g + ObsLimit /\ 0 * ObsLimit = 0
  BY <1>1
<1>3. cur.size < MaxFileSize + g
                 + (IF th \in {"shift", "ended"} THEN ObsLimit ELSE obsCount)
  BY DEF Growth
<1>4. cur.size < MaxFileSize + g + ObsLimit
  BY <1>1, <1>3
<1> HIDE DEF g
<1>5. CASE missed' = missed + 1 /\ cur' = cur
  <2>1. missed' * ObsLimit = g + ObsLimit
    BY <1>2, <1>5
  <2>2. obsCount' \in Nat
    BY TypesStep DEF Types, TypeOK
  <2> QED
    BY <1>1, <1>4, <1>5, <2>1, <2>2 DEF Growth
<1>6. CASE missed' = 0 /\ cur'.size \in Nat /\ cur'.size < MaxFileSize
  <2>1. missed' * ObsLimit = 0
    BY <1>2, <1>6
  <2>2. obsCount' \in Nat
    BY TypesStep DEF Types, TypeOK
  <2> QED
    BY <1>6, <2>1, <2>2 DEF Growth
<1>7. CASE UNCHANGED <<missed, cur>> /\ th' \in {"shift", "ended"}
  <2>1. missed' * ObsLimit = g
    BY <1>7 DEF g
  <2> QED
    BY <1>4, <1>7, <2>1 DEF Growth
<1>8. CASE /\ UNCHANGED <<missed, cur, obsCount>>
           /\ th \notin {"shift", "ended"} /\ th' \notin {"shift", "ended"}
  <2>1. missed' * ObsLimit = g
    BY <1>8 DEF g
  <2> QED
    BY <1>3, <1>8, <2>1 DEF Growth
<1>9. CASE UNCHANGED <<missed, cur, obsCount, th>>
  <2>1. missed' * ObsLimit = g
    BY <1>9 DEF g
  <2> QED
    BY <1>3, <1>9, <2>1 DEF Growth
<1>10. CASE Write
  <2>1. missed' * ObsLimit = g
    BY <1>10 DEF g, Write
  <2>2. cur'.size \in {cur.size, cur.size + 1}
    BY <1>10 DEF Write, AddLine
  <2>3. obsCount' = obsCount + 1 /\ th' = "test" /\ th \in {"write", "have"}
    BY <1>10 DEF Write
  <2>4. cur.size < MaxFileSize + g + obsCount
    BY <1>3, <2>3
  <2>5. cur'.size < MaxFileSize + g + obsCount'
    BY <1>1, <2>2, <2>3, <2>4
  <2> QED
    BY <2>1, <2>3, <2>5 DEF Growth
<1>11. CASE \E w \in Writers : PrintEnter(w) \/ PrintPush(w)
  BY <1>9, <1>11 DEF PrintEnter, PrintPush, fileVars
<1>12. CASE LoopTest \/ Take
  <2>1. /\ UNCHANGED <<missed, cur, obsCount>> /\ th \in {"test", "take"}
        /\ th' \in {"test", "take", "have", "ended"}
    BY <1>12 DEF LoopTest, Take, fileVars
  <2> QED
    BY <1>7, <1>8, <2>1
<1>13. CASE LookOnly
  BY <1>1, <1>5, <1>6, <1>13 DEF LookOnly, fileVars
<1>14. CASE LookAndMove \/ ShiftLast
  <2>1. missed' = 0 /\ cur'.size = 0
    BY <1>14 DEF LookAndMove, ShiftLast, NoFile
  <2> QED
    BY <1>6, <2>1
<1>15. CASE LookAndShift
  BY <1>7, <1>15 DEF LookAndShift, fileVars
<1>16. CASE Shift
  BY <1>9, <1>16 DEF Shift
<1>17. CASE Stop
  BY <1>9, <1>17 DEF Stop, fileVars
<1>18. CASE End
  BY <1>7, <1>18 DEF End, fileVars
<1>19. CASE Start
  BY <1>5, <1>19 DEF Start, fileVars
<1>20. CASE UNCHANGED vars
  BY <1>9, <1>20 DEF vars, fileVars
<1> QED
  BY <1>10, <1>11, <1>12, <1>13, <1>14, <1>15, <1>16, <1>17, <1>18, <1>19,
     <1>20 DEF Next, DoLog

\* The file outgrows its limit by at most one round of entries for itself, one
\* for every start of the process and one for every look that failed.
THEOREM GrowthBounded == Spec => []GrowthIsBounded
<1>1. Init => Growth
  BY LoggerAssumption DEF Init, Growth, NoFile
<1>2. Types /\ Growth => GrowthIsBounded
  <2> SUFFICES ASSUME Types, Growth PROVE GrowthIsBounded
    OBVIOUS
  <2> USE LoggerAssumption
  <2> DEFINE g == missed * ObsLimit
  <2>1. cur.size \in Nat /\ obsCount \in 0 .. ObsLimit /\ g \in Nat
    BY DEF Types, TypeOK, File
  <2>2. (missed + 1) * ObsLimit = g + ObsLimit
    BY DEF Types, TypeOK
  <2>3. cur.size < MaxFileSize + g
                   + (IF th \in {"shift", "ended"} THEN ObsLimit ELSE obsCount)
    BY DEF Growth
  <2> HIDE DEF g
  <2>4. cur.size < MaxFileSize + (g + ObsLimit)
    BY <2>1, <2>3
  <2> QED
    BY <2>2, <2>4 DEF GrowthIsBounded
<1> QED
  BY TypesInvariance, <1>1, <1>2, GrowthStep, PTL DEF Spec

-----------------------------------------------------------------------------
(***************************************************************************)
(* The order of the lines that are still to be written.                    *)
(***************************************************************************)
Queued == {log_queue[k] : k \in DOMAIN log_queue}
Pending == Queued \cup (IF entry = 0 THEN {} ELSE {entry}) \cup {nextNr}

Lines ==
  /\ \A k \in DOMAIN log_queue : log_queue[k] \in 1 .. nextNr - 1
  /\ \A j, k \in DOMAIN log_queue : j < k => log_queue[j] < log_queue[k]
  /\ entry # 0 => entry < nextNr /\ \A v \in Queued : entry < v
  /\ th \in {"test", "take", "ended"} => entry = 0
  /\ th \in {"have", "shift", "write"} => entry # 0

\* Every line in a file is older than all of them.
Older(f) == \A v \in Pending : f.to < v

\* What a print adds to the queue is its newest line.
LEMMA PrintKeeps ==
  ASSUME Types, Lines, NEW w \in Writers, PrintPush(w)
  PROVE  Lines' /\ Pending' = Pending \cup {nextNr + 1}
<1> DEFINE n == Len(log_queue)
           p == Append(log_queue, nextNr)
<1>1. log_queue \in Seq(Nat) /\ nextNr \in Nat \ {0}
  BY DEF Types, TypeOK
<1>2. log_queue' = p /\ nextNr' = nextNr + 1 /\ UNCHANGED <<entry, th>>
  BY DEF PrintPush
<1>3. n \in Nat /\ DOMAIN log_queue = 1 .. n /\ DOMAIN p = 1 .. n + 1
      /\ p[n + 1] = nextNr
  BY <1>1
<1>4. \A k \in 1 .. n : p[k] = log_queue[k]
  BY <1>1
<1> HIDE DEF n, p
<1>5. \A k \in 1 .. n + 1 : k \in 1 .. n \/ k = n + 1
  BY <1>3
<1>6. \A k \in 1 .. n : p[k] \in Nat /\ p[k] < nextNr /\ p[k] # 0
  <2>1. \A k \in 1 .. n : p[k] \in 1 .. nextNr - 1
    BY <1>3, <1>4 DEF Lines
  <2> QED
    BY <1>1, <2>1
<1>7. \A k \in 1 .. n + 1 : p[k] \in 1 .. nextNr
  BY <1>1, <1>3, <1>5, <1>6
<1>8. \A j, k \in 1 .. n + 1 : j < k => p[j] < p[k]
  <2> SUFFICES ASSUME NEW j \in 1 .. n + 1, NEW k \in 1 .. n + 1, j < k
               PROVE  p[j] < p[k]
    OBVIOUS
  <2>1. j \in 1 .. n
    BY <1>3
  <2>2. CASE k \in 1 .. n
    BY <1>3, <1>4, <2>1, <2>2 DEF Lines
  <2>3. CASE k = n + 1
    BY <1>3, <1>6, <2>1, <2>3
  <2> QED
    BY <1>5, <2>2, <2>3
<1>9. Queued' = Queued \cup {nextNr}
  <2>1. Queued' = {p[k] : k \in 1 .. n + 1} /\ Queued = {p[k] : k \in 1 .. n}
    BY <1>2, <1>3, <1>4 DEF Queued
  <2>2. 1 .. n + 1 = (1 .. n) \cup {n + 1}
    BY <1>3
  <2> QED
    BY <1>3, <2>1, <2>2
<1>10. Lines'
  <2>1. \A k \in DOMAIN log_queue' : log_queue'[k] \in 1 .. nextNr' - 1
    BY <1>1, <1>2, <1>3, <1>7
  <2>2. \A j, k \in DOMAIN log_queue' : j < k => log_queue'[j] < log_queue'[k]
    BY <1>2, <1>3, <1>8
  <2>3. entry' # 0 => entry' < nextNr' /\ \A v \in Queued' : entry' < v
    <3>1. entry \in Nat
      BY DEF Types, TypeOK
    <3> QED
      BY <1>1, <1>2, <1>9, <3>1 DEF Lines
  <2> QED
    BY <1>2, <2>1, <2>2, <2>3 DEF Lines
<1> QED
  BY <1>2, <1>9, <1>10 DEF Pending

\* Taking a line out of the queue leaves it pending.
LEMMA TakeKeeps ==
  ASSUME Types, Lines, Take
  PROVE  Lines' /\ Pending' \subseteq Pending
<1>1. CASE log_queue = <<>>
  BY <1>1 DEF Take, Lines, Pending, Queued
<1>2. CASE log_queue # <<>>
  <2> DEFINE q == log_queue
             t == Tail(log_queue)
  <2>1. q \in Seq(Nat) /\ nextNr \in Nat /\ q # <<>>
    BY <1>2 DEF Types, TypeOK
  <2>2. /\ log_queue' = t /\ entry' = q[1] /\ th' = "have" /\ entry = 0
        /\ nextNr' = nextNr
    BY <1>2, <2>1 DEF Take, Lines
  <2>3. 1 \in DOMAIN q
    BY <2>1
  <2>4. \A k \in DOMAIN t : /\ k \in Nat /\ k + 1 \in DOMAIN q
                            /\ 1 < k + 1 /\ t[k] = q[k + 1]
    BY <2>1
  <2>5. \A k \in DOMAIN q : q[k] \in 1 .. nextNr - 1
    BY DEF Lines
  <2>6. \A j, k \in DOMAIN q : j < k => q[j] < q[k]
    BY DEF Lines
  <2> HIDE DEF t
  <2>7. \A k \in DOMAIN t : t[k] \in 1 .. nextNr - 1 /\ q[1] < t[k]
    BY <2>3, <2>4, <2>5, <2>6
  <2>8. \A j, k \in DOMAIN t : j < k => t[j] < t[k]
    <3> SUFFICES ASSUME NEW j \in DOMAIN t, NEW k \in DOMAIN t, j < k
                 PROVE  t[j] < t[k]
      OBVIOUS
    <3>1. j + 1 < k + 1
      BY <2>4
    <3> QED
      BY <2>4, <2>6, <3>1
  <2>9. Queued' = {t[k] : k \in DOMAIN t} /\ Queued' \subseteq Queued
        /\ q[1] \in Queued
    BY <2>2, <2>3, <2>4 DEF Queued
  <2>10. q[1] \in Nat /\ q[1] # 0 /\ q[1] < nextNr
    BY <2>1, <2>3, <2>5
  <2>11. \A v \in Queued' : entry' < v
    BY <2>2, <2>7, <2>9
  <2>12. Lines'
    BY <2>2, <2>7, <2>8, <2>10, <2>11 DEF Lines
  <2> QED
    BY <2>2, <2>9, <2>12 DEF Pending
<1> QED
  BY <1>1, <1>2

\* The other steps leave the queue alone or drop it.
LEMMA QueueKeeps ==
  ASSUME Types, Lines,
         nextNr' = nextNr,
         log_queue' = log_queue \/ log_queue' = <<>>,
         \/ entry' = 0 /\ th' \in {"test", "ended"}
         \/ /\ UNCHANGED entry
            /\ \/ th' = th
               \/ th \in {"test", "ended"} /\ th' \in {"test", "take", "ended"}
               \/ /\ th \in {"have", "shift", "write"}
                  /\ th' \in {"have", "shift", "write"}
  PROVE  Lines' /\ Pending' \subseteq Pending
<1>1. Queued' \subseteq Queued /\ nextNr' = nextNr
  BY DEF Queued
<1>2. entry' = 0 \/ entry' = entry
  OBVIOUS
<1>3. /\ \A k \in DOMAIN log_queue' : log_queue'[k] \in 1 .. nextNr' - 1
      /\ \A j, k \in DOMAIN log_queue' : j < k => log_queue'[j] < log_queue'[k]
  BY DEF Lines
<1>4. entry' # 0 => entry' < nextNr' /\ \A v \in Queued' : entry' < v
  BY <1>1, <1>2 DEF Lines
<1>5. /\ th' \in {"test", "take", "ended"} => entry' = 0
      /\ th' \in {"have", "shift", "write"} => entry' # 0
  BY DEF Lines
<1>6. Lines'
  BY <1>3, <1>4, <1>5 DEF Lines
<1> QED
  BY <1>1, <1>2, <1>6 DEF Pending

(***************************************************************************)
(* Which indices have a file.  A shift begins with all of them and moves   *)
(* one gap up; outside of a shift, and unless one was torn, there is none. *)
(***************************************************************************)
Gaps ==
  /\ ~up => th = "ended"
  /\ th = "shift" =>
       /\ Present(cur)
       /\ \A k \in Index : Present(files[k]) <=> ~(k = i - 1 /\ i > 1)
       /\ i > 1 => Present(dropped)
  /\ th # "shift" /\ ~torn =>
       \A a, b \in Index : a < b /\ Present(files[b]) => Present(files[a])

AllOlder ==
  /\ \A a \in Index : Older(files[a])
  /\ Older(cur)
  /\ Older(dropped)

IInv == Types /\ Lines /\ AllOlder /\ Gaps /\ FilesInOrder

\* A rename at an index without a file drops nothing.
LEMMA NothingDropped ==
  ASSUME NEW f \in File, dropped \in File, ~Present(f), Present(dropped)
  PROVE  Dropping(f) = dropped
<1>1. f.size = 0
  BY DEF Present, File
<1>2. /\ dropped = [from |-> dropped.from, to |-> dropped.to,
                    size |-> dropped.size]
      /\ dropped.size \in Nat
  BY DEF File
<1> QED
  BY <1>1, <1>2 DEF Dropping

\* Steps that change no file.
LEMMA FilesKept ==
  ASSUME IInv, UNCHANGED <<cur, files, dropped, torn>>,
         Pending' \subseteq Pending, Lines', ~up' => th' = "ended",
         (th' = th /\ i' = i) \/ (th # "shift" /\ th' # "shift")
  PROVE  AllOlder' /\ Gaps' /\ FilesInOrder'
<1>1. AllOlder'
  BY DEF IInv, AllOlder, Older
<1>2. Gaps'
  BY DEF IInv, Gaps, Present
<1>3. FilesInOrder'
  BY DEF IInv, FilesInOrder, Before, Present
<1> QED
  BY <1>1, <1>2, <1>3

\* Lines are numbered from 1.
LEMMA PendingPositive ==
  ASSUME Types, Lines
  PROVE  \A v \in Pending : NoFile.to < v
<1>1. nextNr \in Nat \ {0} /\ entry \in Nat
  BY DEF Types, TypeOK
<1>2. \A v \in Queued : v \in Nat /\ v # 0
  <2>1. \A k \in DOMAIN log_queue : log_queue[k] \in Nat /\ log_queue[k] # 0
    BY <1>1 DEF Lines
  <2> QED
    BY <2>1 DEF Queued
<1>3. \A v \in Pending : v \in Nat /\ v # 0
  BY <1>1, <1>2 DEF Pending
<1> QED
  BY <1>3 DEF NoFile

LEMMA PrintStep ==
  ASSUME IInv, NEW w \in Writers, PrintPush(w)
  PROVE  IInv'
<1>1. Types'
  <2>1. [Next]_vars
    BY DEF Next
  <2> QED
    BY <2>1, TypesStep DEF IInv
<1>2. Lines' /\ Pending' = Pending \cup {nextNr + 1}
  BY PrintKeeps DEF IInv
<1>3. UNCHANGED <<cur, files, dropped, torn, up, th, i>>
  BY DEF PrintPush, fileVars
<1>4. ASSUME NEW f \in File, Older(f)
      PROVE  Older(f)'
  <2>1. nextNr \in Pending /\ nextNr \in Nat /\ f.to \in Nat
    BY DEF Pending, IInv, Types, TypeOK, File
  <2>2. f.to < nextNr + 1
    BY <1>4, <2>1 DEF Older
  <2> QED
    BY <1>2, <1>4, <2>2 DEF Older
<1>5. AllOlder'
  <2>1. cur \in File /\ dropped \in File /\ \A a \in Index : files[a] \in File
    BY DEF IInv, Types, TypeOK
  <2>2. \A a \in Index : Older(files[a])'
    BY <1>3, <1>4, <2>1 DEF IInv, AllOlder, Older
  <2>3. Older(cur)' /\ Older(dropped)'
    BY <1>3, <1>4, <2>1 DEF IInv, AllOlder, Older
  <2> QED
    BY <2>2, <2>3 DEF AllOlder
<1>6. Gaps'
  BY <1>3 DEF IInv, Gaps, Present
<1>7. FilesInOrder'
  BY <1>3 DEF IInv, FilesInOrder, Before, Present
<1> QED
  BY <1>1, <1>2, <1>5, <1>6, <1>7 DEF IInv

\* The file that is too large becomes the newest of the indexed ones.
LEMMA MoveStep ==
  ASSUME IInv, LookAndMove
  PROVE  Lines' /\ AllOlder' /\ Gaps' /\ FilesInOrder'
<1>1. /\ UNCHANGED <<log_queue, nextNr, entry, dropped, torn, up, i>>
      /\ th = "have" /\ th' = "write" /\ cur' = NoFile
  BY DEF LookAndMove, queueVars
<1>2. Lines' /\ Pending' \subseteq Pending
  BY <1>1, QueueKeeps DEF IInv
<1>3. PICK k \in Index : IsFirstFree(k) /\ files' = [files EXCEPT ![k] = cur]
  BY DEF LookAndMove
<1>4. \A a \in Index : files'[a] = IF a = k THEN cur ELSE files[a]
  BY <1>3 DEF IInv, Types, TypeOK
<1>5. Present(cur) /\ ~Present(cur')
  BY <1>1, LoggerAssumption DEF LookAndMove, Present, NoFile, IInv, Types,
                                TypeOK, File
<1>6. \A a \in Index : a < k => Present(files[a])
  BY <1>3 DEF IsFirstFree, Index
<1>7. \A b \in Index : ~torn /\ k < b => ~Present(files[b])
  BY <1>1, <1>3 DEF IsFirstFree, IInv, Gaps
<1>8. AllOlder'
  <2>1. Older(NoFile)'
    BY <1>2, PendingPositive DEF Older, IInv
  <2> QED
    BY <1>1, <1>2, <1>4, <2>1 DEF IInv, AllOlder, Older
<1>9. Gaps'
  <2>1. \A a, b \in Index : ~torn /\ a < b /\ Present(files'[b])
                              => Present(files'[a])
    <3> SUFFICES ASSUME NEW a \in Index, NEW b \in Index, ~torn, a < b,
                        Present(files'[b])
                 PROVE  Present(files'[a])
      OBVIOUS
    <3>1. ~(k < b)
      <4> SUFFICES ASSUME k < b PROVE FALSE
        OBVIOUS
      <4>1. b # k
        BY DEF Index
      <4>2. files'[b] = files[b] /\ ~Present(files[b])
        BY <1>4, <1>7, <4>1
      <4> QED
        BY <4>2
    <3>2. a < k /\ a # k
      BY <3>1 DEF Index
    <3>3. files'[a] = files[a] /\ Present(files[a])
      BY <1>4, <1>6, <3>2
    <3> QED
      BY <3>3
  <2> QED
    BY <1>1, <2>1 DEF IInv, Gaps, Present
<1>10. FilesInOrder'
  <2> SUFFICES ASSUME ~torn
               PROVE  /\ \A a, b \in Index :
                           a < b => Before(files'[a], files'[b])
                      /\ \A a \in Index : Before(files'[a], cur')
                      /\ \A f \in {files'[a] : a \in Index} \cup {cur'} :
                           Before(dropped', f)
    BY <1>1 DEF FilesInOrder, Before, Present
  <2>1. /\ \A a, b \in Index : a < b => Before(files[a], files[b])
        /\ \A a \in Index : Before(files[a], cur) /\ Before(dropped, files[a])
        /\ Before(dropped, cur)
    BY DEF IInv, FilesInOrder
  <2>2. ASSUME NEW a \in Index, NEW b \in Index, a < b
        PROVE  Before(files'[a], files'[b])
    <3> a # b
      BY <2>2 DEF Index
    <3>1. CASE b = k
      <4>1. files'[b] = cur /\ files'[a] = files[a]
        BY <1>4, <3>1
      <4> QED
        BY <2>1, <4>1
    <3>2. CASE a = k
      <4>1. files'[b] = files[b] /\ ~Present(files[b])
        BY <1>4, <1>7, <2>2, <3>2
      <4> QED
        BY <4>1 DEF Before
    <3>3. CASE a # k /\ b # k
      BY <1>4, <2>1, <2>2, <3>3
    <3> QED
      BY <3>1, <3>2, <3>3
  <2>3. \A a \in Index : Before(files'[a], cur')
    BY <1>5 DEF Before
  <2>4. \A a \in Index : Before(dropped', files'[a])
    BY <1>1, <1>4, <2>1
  <2>5. Before(dropped', cur')
    BY <1>5 DEF Before
  <2> QED
    BY <2>2, <2>3, <2>4, <2>5
<1> QED
  BY <1>2, <1>8, <1>9, <1>10

\* A rename of the shift moves the gap one up.
LEMMA ShiftStep ==
  ASSUME IInv, Shift
  PROVE  Lines' /\ AllOlder' /\ Gaps' /\ FilesInOrder'
<1>1. /\ UNCHANGED <<log_queue, nextNr, entry, torn, up, th, cur>>
      /\ th = "shift" /\ i' = i + 1 /\ dropped' = Dropping(files[i - 1])
  BY DEF Shift, queueVars
<1>2. Lines' /\ Pending' \subseteq Pending
  BY <1>1, QueueKeeps DEF IInv
<1>3. i \in Nat /\ i \in Index /\ i - 1 \in Index /\ i # i - 1
  BY LoggerAssumption DEF Shift, IInv, Types, TypeOK, Index
<1>4. \A a \in Index : files'[a] = IF a = i THEN NoFile
                                   ELSE IF a = i - 1 THEN files[i] ELSE files[a]
  BY <1>3 DEF Shift, IInv, Types, TypeOK
<1>5. ~Present(NoFile)
  BY DEF Present, NoFile
<1>6. /\ Present(cur)
      /\ \A k \in Index : Present(files[k]) <=> ~(k = i - 1 /\ i > 1)
      /\ i > 1 => Present(dropped)
  BY <1>1 DEF IInv, Gaps
<1>7. /\ cur \in File /\ dropped \in File /\ \A a \in Index : files[a] \in File
  BY DEF IInv, Types, TypeOK
<1>8. /\ Present(dropped')
      /\ dropped'.to = IF Present(files[i - 1]) THEN files[i - 1].to
                                                ELSE dropped.to
  <2>1. dropped'.size = dropped.size + files[i - 1].size
        /\ dropped'.to = IF Present(files[i - 1]) THEN files[i - 1].to
                                                  ELSE dropped.to
    BY <1>1 DEF Dropping
  <2>2. dropped.size \in Nat /\ files[i - 1].size \in Nat
    BY <1>3, <1>7 DEF File
  <2>3. i > 1 \/ Present(files[i - 1])
    BY <1>3, <1>6
  <2> QED
    BY <1>6, <2>1, <2>2, <2>3 DEF Present
<1>9. AllOlder'
  <2>1. Older(NoFile)'
    BY <1>2, PendingPositive DEF Older, IInv
  <2>2. \A a \in Index : Older(files[a])'
    BY <1>2, <1>3, <1>4, <2>1 DEF IInv, AllOlder, Older
  <2>3. Older(cur)' /\ Older(dropped)'
    BY <1>1, <1>2, <1>3, <1>8 DEF IInv, AllOlder, Older
  <2> QED
    BY <2>2, <2>3 DEF AllOlder
<1>10. Gaps'
  <2>1. \A k \in Index : Present(files'[k]) <=> ~(k = i)
    <3> SUFFICES ASSUME NEW k \in Index PROVE Present(files'[k]) <=> ~(k = i)
      OBVIOUS
    <3>1. CASE k = i
      BY <1>4, <1>5, <3>1
    <3>2. CASE k = i - 1
      BY <1>3, <1>4, <1>6, <3>2
    <3>3. CASE k # i /\ k # i - 1
      BY <1>4, <1>6, <3>3
    <3> QED
      BY <3>1, <3>2, <3>3
  <2>2. i' - 1 = i /\ i' > 1
    BY <1>1, <1>3, LoggerAssumption DEF IInv, Types, TypeOK
  <2>3. Present(cur') /\ ~(th' # "shift") /\ (~up' => th' = "ended")
    BY <1>1, <1>6 DEF IInv, Gaps
  <2> QED
    BY <1>8, <2>1, <2>2, <2>3 DEF Gaps, Present
<1>11. FilesInOrder'
  <2> SUFFICES ASSUME ~torn
               PROVE  /\ \A a, b \in Index :
                           a < b => Before(files'[a], files'[b])
                      /\ \A a \in Index : Before(files'[a], cur')
                      /\ \A f \in {files'[a] : a \in Index} \cup {cur'} :
                           Before(dropped', f)
    BY <1>1 DEF FilesInOrder, Before, Present
  <2>1. /\ \A a, b \in Index : a < b => Before(files[a], files[b])
        /\ \A a \in Index : Before(files[a], cur) /\ Before(dropped, files[a])
        /\ Before(dropped, cur)
    BY DEF IInv, FilesInOrder
  <2>2. ASSUME NEW a \in Index, NEW b \in Index, a < b
        PROVE  Before(files'[a], files'[b])
    <3>1. CASE a = i \/ b = i
      BY <1>4, <1>5, <3>1 DEF Before
    <3>2. CASE a = i - 1 /\ b # i
      <4>1. i < b
        BY <1>3, <2>2, <3>2 DEF Index
      <4>2. b # i - 1
        BY <1>3, <4>1 DEF Index
      <4>3. files'[a] = files[i] /\ files'[b] = files[b]
        BY <1>3, <1>4, <3>2, <4>2
      <4> QED
        BY <1>3, <2>1, <4>1, <4>3
    <3>3. CASE b = i - 1
      <4>1. a < i /\ a # i /\ a # i - 1
        BY <1>3, <2>2, <3>3 DEF Index
      <4>2. files'[a] = files[a] /\ files'[b] = files[i]
        BY <1>3, <1>4, <3>3, <4>1
      <4> QED
        BY <1>3, <2>1, <4>1, <4>2
    <3>4. CASE a \notin {i, i - 1} /\ b \notin {i, i - 1}
      BY <1>4, <2>1, <2>2, <3>4
    <3> QED
      BY <3>1, <3>2, <3>3, <3>4
  <2>3. \A a \in Index : Before(files'[a], cur')
    BY <1>1, <1>3, <1>4, <1>5, <2>1 DEF Before
  <2>4. \A g \in File : Before(dropped, g) /\ Before(files[i - 1], g)
                          => Before(dropped', g)
    <3>1. Present(files[i - 1]) \/ Present(dropped)
      BY <1>3, <1>6
    <3> QED
      BY <1>8, <3>1 DEF Before
  <2>5. ASSUME NEW a \in Index
        PROVE  Before(dropped', files'[a])
    <3>1. CASE a = i
      BY <1>4, <1>5, <3>1 DEF Before
    <3>2. CASE a = i - 1
      <4>1. files'[a] = files[i]
        BY <1>3, <1>4, <3>2
      <4>2. i - 1 < i
        BY <1>3
      <4>3. Before(dropped, files[i]) /\ Before(files[i - 1], files[i])
        BY <1>3, <2>1, <4>2
      <4> QED
        BY <1>3, <1>7, <2>4, <4>1, <4>3
    <3>3. CASE a > i
      <4>1. files'[a] = files[a] /\ i - 1 < a
        BY <1>3, <1>4, <3>3 DEF Index
      <4> QED
        BY <1>3, <1>7, <2>1, <2>4, <4>1
    <3>4. CASE a < i - 1
      <4>1. files'[a] = files[a] /\ i > 1
        BY <1>3, <1>4, <3>4 DEF Index
      <4>2. ~Present(files[i - 1]) /\ Present(dropped)
        BY <1>3, <1>6, <4>1
      <4> QED
        BY <1>8, <2>1, <4>1, <4>2 DEF Before
    <3> QED
      BY <1>3, <3>1, <3>2, <3>3, <3>4 DEF Index
  <2>6. Before(dropped', cur')
    BY <1>1, <1>3, <1>7, <2>1, <2>4
  <2> QED
    BY <2>2, <2>3, <2>5, <2>6
<1> QED
  BY <1>2, <1>9, <1>10, <1>11

\* The last rename closes the gap with the file that was too large.
LEMMA LastStep ==
  ASSUME IInv, ShiftLast
  PROVE  Lines' /\ AllOlder' /\ Gaps' /\ FilesInOrder'
<1> DEFINE last == MaxIndex - 1
<1>1. /\ UNCHANGED <<log_queue, nextNr, entry, torn, up, i>>
      /\ th = "shift" /\ th' = "write" /\ i = MaxIndex /\ cur' = NoFile
      /\ dropped' = Dropping(files[last])
  BY DEF ShiftLast, queueVars
<1>2. Lines' /\ Pending' \subseteq Pending
  BY <1>1, QueueKeeps DEF IInv
<1>3. last \in Index /\ last = i - 1 /\ i \in Nat /\ \A a \in Index : a <= last
  BY <1>1, LoggerAssumption DEF Index
<1>4. \A a \in Index : files'[a] = IF a = last THEN cur ELSE files[a]
  BY <1>3 DEF ShiftLast, IInv, Types, TypeOK
<1> HIDE DEF last
<1>5. ~Present(cur')
  BY <1>1 DEF Present, NoFile
<1>6. /\ Present(cur)
      /\ \A k \in Index : Present(files[k]) <=> ~(k = last /\ i > 1)
      /\ i > 1 => Present(dropped)
  BY <1>1, <1>3 DEF IInv, Gaps
<1>7. /\ cur \in File /\ dropped \in File /\ \A a \in Index : files[a] \in File
  BY DEF IInv, Types, TypeOK
<1>8. /\ Present(dropped')
      /\ dropped'.to = IF Present(files[last]) THEN files[last].to
                                               ELSE dropped.to
  <2>1. dropped'.size = dropped.size + files[last].size
        /\ dropped'.to = IF Present(files[last]) THEN files[last].to
                                                 ELSE dropped.to
    BY <1>1 DEF Dropping
  <2>2. dropped.size \in Nat /\ files[last].size \in Nat
    BY <1>3, <1>7 DEF File
  <2>3. i > 1 \/ Present(files[last])
    BY <1>3, <1>6
  <2> QED
    BY <1>6, <2>1, <2>2, <2>3 DEF Present
<1>9. AllOlder'
  <2>1. Older(NoFile)'
    BY <1>2, PendingPositive DEF Older, IInv
  <2>2. \A a \in Index : Older(files[a])'
    BY <1>2, <1>4 DEF IInv, AllOlder, Older
  <2>3. Older(cur)' /\ Older(dropped)'
    BY <1>1, <1>2, <1>3, <1>8, <2>1 DEF IInv, AllOlder, Older
  <2> QED
    BY <2>2, <2>3 DEF AllOlder
<1>10. Gaps'
  <2>1. \A k \in Index : Present(files'[k])
    BY <1>4, <1>6
  <2> QED
    BY <1>1, <2>1 DEF IInv, Gaps, Present
<1>11. FilesInOrder'
  <2> SUFFICES ASSUME ~torn
               PROVE  /\ \A a, b \in Index :
                           a < b => Before(files'[a], files'[b])
                      /\ \A a \in Index : Before(files'[a], cur')
                      /\ \A f \in {files'[a] : a \in Index} \cup {cur'} :
                           Before(dropped', f)
    BY <1>1 DEF FilesInOrder, Before, Present
  <2>1. /\ \A a, b \in Index : a < b => Before(files[a], files[b])
        /\ \A a \in Index : Before(files[a], cur) /\ Before(dropped, files[a])
        /\ Before(dropped, cur)
    BY DEF IInv, FilesInOrder
  <2>2. ASSUME NEW a \in Index, NEW b \in Index, a < b
        PROVE  Before(files'[a], files'[b])
    <3>1. a # last
      BY <1>3, <2>2 DEF Index
    <3>2. files'[a] = files[a]
      BY <1>4, <3>1
    <3>3. files'[b] = cur \/ files'[b] = files[b]
      BY <1>4
    <3> QED
      BY <2>1, <2>2, <3>2, <3>3
  <2>3. ASSUME NEW a \in Index
        PROVE  Before(dropped', files'[a])
    <3>1. CASE a = last
      BY <1>3, <1>4, <1>6, <1>8, <2>1, <3>1 DEF Before
    <3>2. CASE a # last
      <4>1. files'[a] = files[a] /\ a < last
        BY <1>3, <1>4, <3>2 DEF Index
      <4>2. i > 1
        BY <1>3, <4>1 DEF Index
      <4>3. ~Present(files[last]) /\ Present(dropped)
        BY <1>3, <1>6, <4>2
      <4> QED
        BY <1>8, <2>1, <4>1, <4>3 DEF Before
    <3> QED
      BY <3>1, <3>2
  <2> QED
    BY <1>5, <2>2, <2>3 DEF Before
<1> QED
  BY <1>2, <1>9, <1>10, <1>11

\* A line goes to the end of the newest file.
LEMMA WriteStep ==
  ASSUME IInv, Write
  PROVE  Lines' /\ AllOlder' /\ Gaps' /\ FilesInOrder'
<1>1. /\ UNCHANGED <<log_queue, nextNr, files, dropped, torn, up, i>>
      /\ th \in {"have", "write"} /\ th' = "test" /\ entry' = 0
      /\ cur' = cur \/ cur' = AddLine(cur, entry)
  BY DEF Write, queueVars
<1>2. Lines' /\ Pending' \subseteq Pending
  BY <1>1, QueueKeeps DEF IInv
<1>3. /\ entry \in Pending /\ entry # 0
      /\ \A v \in Pending' : entry < v
  <2>1. entry # 0 /\ entry < nextNr /\ \A v \in Queued : entry < v
    BY <1>1 DEF IInv, Lines
  <2>2. Pending' = Queued \cup {nextNr}
    BY <1>1 DEF Pending, Queued
  <2> QED
    BY <2>1, <2>2 DEF Pending
<1>4. AllOlder'
  <2>1. \A a \in Index : Older(files[a])'
    BY <1>1, <1>2 DEF IInv, AllOlder, Older
  <2>2. Older(dropped)'
    BY <1>1, <1>2 DEF IInv, AllOlder, Older
  <2>3. cur'.to = cur.to \/ cur'.to = entry
    BY <1>1 DEF AddLine
  <2>4. Older(cur)'
    BY <1>2, <1>3, <2>3 DEF IInv, AllOlder, Older
  <2> QED
    BY <2>1, <2>2, <2>4 DEF AllOlder
<1>5. Gaps'
  BY <1>1 DEF IInv, Gaps, Present
<1>6. ASSUME NEW f \in File, Older(f), Before(f, cur)
      PROVE  Before(f, cur')
  <2>1. CASE cur' = cur
    BY <1>6, <2>1
  <2>2. CASE cur' = AddLine(cur, entry)
    <3>1. cur'.from = IF Present(cur) THEN cur.from ELSE entry
      BY <2>2 DEF AddLine
    <3>2. f.to < entry
      BY <1>3, <1>6 DEF Older
    <3> QED
      BY <1>6, <3>1, <3>2 DEF Before
  <2> QED
    BY <1>1, <2>1, <2>2
<1>7. FilesInOrder'
  <2> SUFFICES ASSUME ~torn
               PROVE  /\ \A a, b \in Index :
                           a < b => Before(files'[a], files'[b])
                      /\ \A a \in Index : Before(files'[a], cur')
                      /\ \A f \in {files'[a] : a \in Index} \cup {cur'} :
                           Before(dropped', f)
    BY <1>1 DEF FilesInOrder, Before, Present
  <2>1. /\ \A a, b \in Index : a < b => Before(files[a], files[b])
        /\ \A a \in Index : Before(files[a], cur) /\ Before(dropped, files[a])
        /\ Before(dropped, cur)
    BY DEF IInv, FilesInOrder
  <2>2. dropped \in File /\ \A a \in Index : files[a] \in File
    BY DEF IInv, Types, TypeOK
  <2>3. \A a \in Index : Before(files[a], cur')
    BY <1>6, <2>1, <2>2 DEF IInv, AllOlder
  <2>4. Before(dropped, cur')
    BY <1>6, <2>1, <2>2 DEF IInv, AllOlder
  <2> QED
    BY <1>1, <2>1, <2>3, <2>4
<1> QED
  BY <1>2, <1>4, <1>5, <1>7

\* The process ends: if not in the middle of a shift, there is no gap.
LEMMA EndStep ==
  ASSUME IInv, End
  PROVE  Lines' /\ AllOlder' /\ Gaps' /\ FilesInOrder'
<1>1. /\ log_queue' = <<>> /\ entry' = 0 /\ th' = "ended"
      /\ UNCHANGED <<nextNr, cur, files, dropped, i>>
      /\ torn' = (torn \/ LeavesGap)
  BY DEF End, fileVars
<1>2. Lines' /\ Pending' \subseteq Pending
  BY <1>1, QueueKeeps DEF IInv
<1>3. AllOlder'
  BY <1>1, <1>2 DEF IInv, AllOlder, Older
<1>4. ~torn' => ~torn /\ ~LeavesGap
  BY <1>1
<1>5. ASSUME ~torn', NEW a \in Index, NEW b \in Index, a < b, Present(files[b])
      PROVE  Present(files[a])
  <2>1. CASE th # "shift"
    BY <1>4, <1>5, <2>1 DEF IInv, Gaps
  <2>2. CASE th = "shift"
    <3>1. i \in 1 .. MaxIndex /\ (i = 1 \/ i = MaxIndex)
      BY <1>4, <1>5, <2>2, LoggerAssumption DEF LeavesGap, IInv, Types, TypeOK
    <3>2. ~(a = i - 1 /\ i > 1)
      BY <1>5, <3>1, LoggerAssumption DEF Index
    <3> QED
      BY <2>2, <3>2 DEF IInv, Gaps
  <2> QED
    BY <2>1, <2>2
<1>6. Gaps'
  BY <1>1, <1>5 DEF Gaps, Present
<1>7. FilesInOrder'
  BY <1>1, <1>4 DEF IInv, FilesInOrder, Before, Present
<1> QED
  BY <1>2, <1>3, <1>6, <1>7

\* A shift begins with a file at every index.
LEMMA BeginStep ==
  ASSUME IInv, LookAndShift
  PROVE  Lines' /\ AllOlder' /\ Gaps' /\ FilesInOrder'
<1>1. /\ UNCHANGED <<log_queue, nextNr, entry, cur, files, dropped, torn, up>>
      /\ th = "have" /\ th' = "shift" /\ i' = 1 /\ Full
      /\ cur.size >= MaxFileSize
  BY DEF LookAndShift, fileVars, queueVars
<1>2. Lines' /\ Pending' \subseteq Pending
  BY <1>1, QueueKeeps DEF IInv
<1>3. AllOlder'
  BY <1>1, <1>2 DEF IInv, AllOlder, Older
<1>4. Present(cur)
  BY <1>1, LoggerAssumption DEF Present, IInv, Types, TypeOK, File
<1>5. Gaps'
  BY <1>1, <1>4 DEF IInv, Gaps, Full, Present
<1>6. FilesInOrder'
  BY <1>1 DEF IInv, FilesInOrder, Before, Present
<1> QED
  BY <1>2, <1>3, <1>5, <1>6

LEMMA IInvStep ==
  ASSUME IInv, [Next]_vars
  PROVE  IInv'
<1> SUFFICES Lines' /\ AllOlder' /\ Gaps' /\ FilesInOrder'
  BY TypesStep DEF IInv
<1>1. ASSUME NEW w \in Writers, PrintPush(w)
      PROVE  IInv'
  BY <1>1, PrintStep
<1>2. CASE LookAndMove
  BY <1>2, MoveStep
<1>3. CASE LookAndShift
  BY <1>3, BeginStep
<1>4. CASE Shift
  BY <1>4, ShiftStep
<1>5. CASE ShiftLast
  BY <1>5, LastStep
<1>6. CASE Write
  BY <1>6, WriteStep
<1>7. CASE End
  BY <1>7, EndStep
<1>8. CASE Take
  <2>1. Lines' /\ Pending' \subseteq Pending
    BY <1>8, TakeKeeps DEF IInv
  <2>2. /\ UNCHANGED <<cur, files, dropped, torn, up, i>>
        /\ th = "take" /\ th' \in {"test", "have"}
    BY <1>8 DEF Take, fileVars
  <2>3. ~up' => th' = "ended"
    BY <2>2 DEF IInv, Gaps
  <2> QED
    BY <2>1, <2>2, <2>3, FilesKept
<1>9. CASE LoopTest \/ LookOnly \/ Stop \/ Start \/ UNCHANGED vars
           \/ \E w \in Writers : PrintEnter(w)
  <2>1. UNCHANGED <<log_queue, nextNr, entry, cur, files, dropped, torn, i>>
    BY <1>9 DEF LoopTest, LookOnly, Stop, Start, PrintEnter, vars, fileVars,
                queueVars
  <2>2. \/ th' = th /\ up' = up
        \/ th = "test" /\ th' \in {"take", "ended"} /\ up' = up
        \/ th = "have" /\ th' = "write" /\ up' = up
        \/ ~up /\ th' = "test" /\ up'
    BY <1>9 DEF LoopTest, LookOnly, Stop, Start, PrintEnter, vars
  <2>3. ~up => th = "ended"
    BY DEF IInv, Gaps
  <2>4. Lines' /\ Pending' \subseteq Pending
    BY <2>1, <2>2, <2>3, QueueKeeps DEF IInv
  <2>5. ~up' => th' = "ended"
    BY <2>2, <2>3
  <2> QED
    BY <2>1, <2>2, <2>3, <2>4, <2>5, FilesKept
<1> QED
  BY <1>1, <1>2, <1>3, <1>4, <1>5, <1>6, <1>7, <1>8, <1>9 DEF Next, DoLog, IInv

LEMMA IInvInit == Init => IInv
<1> SUFFICES ASSUME Init PROVE IInv
  OBVIOUS
<1>1. Types
  BY TypesInit
<1>2. Lines
  BY DEF Init, Lines, Queued
<1>3. ~Present(NoFile)
  BY DEF Present, NoFile
<1>4. \A a \in Index : files[a] = NoFile
  BY DEF Init
<1>5. AllOlder
  BY <1>1, <1>2, <1>4, PendingPositive DEF Init, AllOlder, Older
<1>6. Gaps
  BY <1>3, <1>4 DEF Init, Gaps
<1>7. FilesInOrder
  BY <1>3, <1>4 DEF Init, FilesInOrder, Before
<1> QED
  BY <1>1, <1>2, <1>5, <1>6, <1>7 DEF IInv

LEMMA IInvInvariance == Spec => []IInv
  BY IInvInit, IInvStep, PTL DEF Spec

\* Unless an end of the process tore a shift, the files are in the order of
\* their indices with the current one last, and what the renames of
\* checkMaxSize() replaced is older than all of them.
THEOREM FilesStayInOrder == Spec => []FilesInOrder
<1>1. IInv => FilesInOrder
  BY DEF IInv
<1> QED
  BY IInvInvariance, <1>1, PTL

\* The renames of checkMaxSize() replace a file only if there is one at every
\* index, torn shifts or not.
THEOREM DropsNothingElse == Spec => DropsOnlyWhenFull
<1>1. ASSUME IInv, [Next]_vars, dropped' # dropped
      PROVE  Full
  <2>1. Shift \/ ShiftLast
    BY <1>1 DEF Next, DoLog, PrintEnter, PrintPush, LoopTest, Take, LookOnly,
                LookAndMove, LookAndShift, Write, Stop, End, Start, vars,
                fileVars
  <2>2. th = "shift" /\ i - 1 \in Index /\ dropped' = Dropping(files[i - 1])
    BY <1>1, <2>1, LoggerAssumption
       DEF Shift, ShiftLast, IInv, Types, TypeOK, Index
  <2>3. files[i - 1] \in File /\ dropped \in File
    BY <1>1, <2>2 DEF IInv, Types, TypeOK
  <2>4. ~(i > 1)
    <3> SUFFICES ASSUME i > 1 PROVE FALSE
      OBVIOUS
    <3>1. ~Present(files[i - 1]) /\ Present(dropped)
      BY <1>1, <2>2 DEF IInv, Gaps
    <3> QED
      BY <1>1, <2>2, <2>3, <3>1, NothingDropped
  <2> QED
    BY <1>1, <2>2, <2>4 DEF IInv, Gaps, Full
<1>2. IInv /\ [Next]_vars => [dropped' # dropped => Full]_vars
  BY <1>1
<1> QED
  BY IInvInvariance, <1>2, PTL DEF Spec, DropsOnlyWhenFull
-----------------------------------------------------------------------------
(***************************************************************************)
(* The lines in the files.  What a recursive function computes is shown by *)
(* induction, which rests on the order of the numbers being well-founded.  *)
(***************************************************************************)

\* The order of the numbers is well-founded.
LEMMA Descent == \E R : /\ IsWellFoundedOn(R, Nat)
                        /\ \A x, y \in Nat : y < x => <<y, x>> \in R
<1>1. IsWellFoundedOn(OpToRel(<, Nat), Nat)
  BY NatLessThanWellFounded, Zenon
<1>2. \A x, y \in Nat : y < x => <<y, x>> \in OpToRel(<, Nat)
  BY DEF OpToRel
<1>3. QED
  BY <1>1, <1>2, Zenon

\* A set of numbers has a least one.
LEMMA Least ==
  ASSUME NEW T \in SUBSET Nat, T # {}
  PROVE \E x \in T : \A y \in T : x <= y
<1>1. PICK R : /\ IsWellFoundedOn(R, Nat)
               /\ \A x, y \in Nat : y < x => <<y, x>> \in R
  BY Descent
<1>2. PICK x \in T : \A y \in T : ~ (<<y, x>> \in R)
  BY <1>1, WFMin
<1>3. ASSUME NEW y \in T PROVE x <= y
  <2>1. x \in Nat /\ y \in Nat
    OBVIOUS
  <2>2. ~(y < x)
    BY <1>1, <1>2, <2>1, Zenon
  <2>3. QED
    BY <2>1, <2>2
<1>4. QED
  BY <1>3

\* Induction: a set with 0 and with every successor has all numbers.
LEMMA Induct ==
  ASSUME NEW S \in SUBSET Nat, 0 \in S, \A n \in S : n + 1 \in S
  PROVE S = Nat
<1> SUFFICES ASSUME S # Nat PROVE FALSE
  OBVIOUS
<1>1. PICK x \in Nat \ S : \A y \in Nat \ S : x <= y
  BY Least
<1>2. x # 0 /\ x - 1 \in Nat
  BY <1>1
<1>3. x - 1 \in S
  BY <1>1, <1>2
<1>4. (x - 1) + 1 \in S
  BY <1>3
<1>5. QED
  BY <1>1, <1>2, <1>4


\* The sums of the sizes in fs below each index.
Sums(fs, g) ==
  g = [n \in 0 .. MaxIndex |-> IF n = 0 THEN 0 ELSE g[n - 1] + fs[n - 1].size]

LEMMA MaxIndexNat == MaxIndex \in Nat /\ MaxIndex > 0
  BY LoggerAssumption

\* They exist, and the last of them is the total size.
LEMMA SumsExist ==
  ASSUME NEW fs
  PROVE  \E g : Sums(fs, g) /\ TotalSize(fs) = g[MaxIndex]
<1> DEFINE Upto(g, m) == g = [n \in 0 .. m |->
                                IF n = 0 THEN 0 ELSE g[n - 1] + fs[n - 1].size]
           S == {m \in Nat : \E g : Upto(g, m)}
<1>1. 0 \in S
  <2> DEFINE g == [n \in 0 .. 0 |-> 0]
  <2>1. Upto(g, 0)
    OBVIOUS
  <2> QED
    BY <2>1
<1>2. ASSUME NEW m \in S PROVE m + 1 \in S
  <2>1. PICK g : Upto(g, m)
    OBVIOUS
  <2> DEFINE h == [n \in 0 .. (m + 1) |-> IF n <= m THEN g[n] ELSE g[m] + fs[m].size]
  <2>2. Upto(h, m + 1)
    BY <2>1
  <2>3. m + 1 \in Nat
    OBVIOUS
  <2> HIDE DEF h, Upto
  <2> QED
    BY <2>2, <2>3
<1>3. S = Nat
  <2>1. S \in SUBSET Nat
    OBVIOUS
  <2> HIDE DEF S
  <2> QED
    BY <1>1, <1>2, <2>1, Induct
<1>4. \E g : Sums(fs, g)
  BY <1>3, MaxIndexNat DEF Sums
<1> DEFINE g == CHOOSE g : Sums(fs, g)
<1>5. Sums(fs, g)
  BY <1>4
<1>6. TotalSize(fs) = g[MaxIndex]
  BY DEF TotalSize, Sums
<1> QED
  BY <1>5, <1>6

\* A file with another at one index instead.
LEMMA TotalChange ==
  ASSUME NEW fs \in [Index -> File], NEW k \in Index, NEW f \in File
  PROVE  /\ TotalSize(fs) \in Nat
         /\ TotalSize([fs EXCEPT ![k] = f]) + fs[k].size = TotalSize(fs) + f.size
<1> DEFINE hs == [fs EXCEPT ![k] = f]
<1>0. /\ MaxIndex \in Nat /\ k \in Nat /\ k < MaxIndex
      /\ \A n \in 1 .. MaxIndex : n - 1 \in Index
  BY MaxIndexNat DEF Index
<1>1. PICK g : Sums(fs, g) /\ TotalSize(fs) = g[MaxIndex]
  BY SumsExist
<1>2. PICK h : Sums(hs, h) /\ TotalSize(hs) = h[MaxIndex]
  BY SumsExist
<1>3. f.size \in Nat /\ \A n \in Index : fs[n].size \in Nat
  BY DEF File
<1>4. \A n \in Index : hs[n].size = IF n = k THEN f.size ELSE fs[n].size
  OBVIOUS
<1> HIDE DEF hs
<1>5. /\ g[0] = 0 /\ h[0] = 0
      /\ \A n \in 1 .. MaxIndex : g[n] = g[n - 1] + fs[n - 1].size
      /\ \A n \in 1 .. MaxIndex : h[n] = h[n - 1] + hs[n - 1].size
  BY <1>0, <1>1, <1>2 DEF Sums
<1> DEFINE Right(n) == /\ g[n] \in Nat /\ h[n] \in Nat
                       /\ n <= k => h[n] = g[n]
                       /\ n > k => h[n] + fs[k].size = g[n] + f.size
           S == {n \in Nat : n <= MaxIndex => Right(n)}
<1>6. 0 \in S
  BY <1>0, <1>5
<1>7. ASSUME NEW n \in S PROVE n + 1 \in S
  <2> SUFFICES ASSUME n + 1 <= MaxIndex PROVE Right(n + 1)
    OBVIOUS
  <2>1. /\ n \in Nat /\ n <= MaxIndex /\ n + 1 \in 1 .. MaxIndex
        /\ (n + 1) - 1 = n /\ n \in Index
    BY <1>0
  <2>2. Right(n)
    BY <2>1
  <2>3. g[n + 1] = g[n] + fs[n].size /\ h[n + 1] = h[n] + hs[n].size
    BY <1>5, <2>1
  <2>4. fs[n].size \in Nat /\ hs[n].size = IF n = k THEN f.size ELSE fs[n].size
    BY <1>3, <1>4, <2>1
  <2>5. g[n + 1] \in Nat /\ h[n + 1] \in Nat
    BY <1>3, <2>2, <2>3, <2>4
  <2>6. n + 1 <= k => h[n + 1] = g[n + 1]
    BY <1>0, <2>1, <2>2, <2>3, <2>4
  <2>7. CASE n = k
    BY <1>0, <1>3, <2>1, <2>2, <2>3, <2>4, <2>5, <2>6, <2>7
  <2>8. CASE n # k
    <3>1. n + 1 > k => n > k
      BY <1>0, <2>1, <2>8
    <3> QED
      BY <1>0, <1>3, <2>1, <2>2, <2>3, <2>4, <2>5, <2>6, <2>8, <3>1
  <2> QED
    BY <2>7, <2>8
<1>8. S = Nat
  <2>1. S \in SUBSET Nat
    OBVIOUS
  <2> HIDE DEF S
  <2> QED
    BY <1>6, <1>7, <2>1, Induct
<1>9. Right(MaxIndex)
  BY <1>0, <1>8
<1> QED
  BY <1>0, <1>1, <1>2, <1>9 DEF hs

\* No files, no lines.
LEMMA TotalOfNone == TotalSize([n \in Index |-> NoFile]) = 0
<1> DEFINE fs == [n \in Index |-> NoFile]
<1>0. MaxIndex \in Nat /\ \A n \in 1 .. MaxIndex : n - 1 \in Index
  BY MaxIndexNat DEF Index
<1>1. PICK g : Sums(fs, g) /\ TotalSize(fs) = g[MaxIndex]
  BY SumsExist
<1>2. g[0] = 0 /\ \A n \in 1 .. MaxIndex : g[n] = g[n - 1] + 0
  BY <1>0, <1>1 DEF Sums, NoFile
<1> DEFINE S == {n \in Nat : n <= MaxIndex => g[n] = 0}
<1>3. 0 \in S
  BY <1>2
<1>4. ASSUME NEW n \in S PROVE n + 1 \in S
  <2> SUFFICES ASSUME n + 1 <= MaxIndex PROVE g[n + 1] = 0
    OBVIOUS
  <2>1. n <= MaxIndex /\ n + 1 \in 1 .. MaxIndex /\ (n + 1) - 1 = n
    BY <1>0
  <2>2. g[n] = 0
    BY <2>1
  <2> QED
    BY <1>2, <2>1, <2>2
<1>5. S = Nat
  <2>1. S \in SUBSET Nat
    OBVIOUS
  <2> HIDE DEF S
  <2> QED
    BY <1>3, <1>4, <2>1, Induct
<1> QED
  BY <1>0, <1>1, <1>5

\* A step moves lines between the files, drops them, or writes one.
LEMMA NoneLost ==
  ASSUME Types, NoFileIsLost, [Next]_vars
  PROVE  NoFileIsLost'
<1> DEFINE total == TotalSize(files)
<1>1. /\ files \in [Index -> File] /\ cur \in File /\ dropped \in File
      /\ \A k \in Index : files[k] \in File
      /\ i \in 1 .. MaxIndex /\ written \in Nat /\ NoFile \in File
  BY FileTypes DEF Types, TypeOK
<1>2. /\ cur.size \in Nat /\ dropped.size \in Nat /\ NoFile.size = 0
      /\ \A k \in Index : files[k].size \in Nat
  BY <1>1 DEF File, NoFile
<1>3. 0 \in Index /\ MaxIndex \in Nat
  BY MaxIndexNat DEF Index
<1>4. total \in Nat
  BY <1>1, <1>3, TotalChange
<1>5. written = dropped.size + cur.size + total
  BY DEF NoFileIsLost
<1>6. \A f : Dropping(f).size = dropped.size + f.size
  BY DEF Dropping
<1>7. CASE UNCHANGED fileVars
  BY <1>7 DEF fileVars, NoFileIsLost
<1>8. CASE LookAndMove
  <2>1. PICK k \in Index : IsFirstFree(k) /\ files' = [files EXCEPT ![k] = cur]
    BY <1>8 DEF LookAndMove
  <2>2. files[k].size = 0
    BY <1>2, <2>1 DEF IsFirstFree, Present
  <2>3. cur' = NoFile /\ UNCHANGED <<dropped, written>>
    BY <1>8 DEF LookAndMove
  <2>4. TotalSize(files') + files[k].size = total + cur.size
    BY <1>1, <2>1, TotalChange
  <2>5. TotalSize(files') \in Nat
    BY <1>1, <1>3, <2>1, TotalChange
  <2> HIDE DEF total
  <2>6. written' = dropped'.size + cur'.size + TotalSize(files')
    BY <1>2, <1>4, <1>5, <2>2, <2>3, <2>4, <2>5
  <2> QED
    BY <2>6 DEF NoFileIsLost
<1>9. CASE Shift
  <2> DEFINE mid == [files EXCEPT ![i - 1] = files[i]]
  <2>1. /\ i - 1 \in Index /\ i \in Index /\ i # i - 1
        /\ files' = [mid EXCEPT ![i] = NoFile]
    BY <1>1, <1>3, <1>9 DEF Shift, Index
  <2>2. dropped' = Dropping(files[i - 1]) /\ UNCHANGED <<cur, written>>
    BY <1>9 DEF Shift
  <2>3. mid \in [Index -> File] /\ mid[i] = files[i]
    BY <1>1, <2>1
  <2>4. TotalSize(mid) + files[i - 1].size = total + files[i].size
    BY <1>1, <2>1, TotalChange
  <2> HIDE DEF mid
  <2>5. /\ TotalSize(files') + files[i].size = TotalSize(mid) + NoFile.size
        /\ TotalSize(mid) \in Nat
    <3>1. /\ TotalSize([mid EXCEPT ![i] = NoFile]) + mid[i].size
               = TotalSize(mid) + NoFile.size
          /\ TotalSize(mid) \in Nat
      BY <1>1, <2>1, <2>3, TotalChange
    <3> QED
      BY <2>1, <2>3, <3>1
  <2>6. files' \in [Index -> File]
    BY <1>1, <2>1, <2>3
  <2>7. TotalSize(files') \in Nat
    BY <1>1, <1>3, <2>6, TotalChange
  <2> HIDE DEF total
  <2>8. written' = dropped'.size + cur'.size + TotalSize(files')
    BY <1>2, <1>4, <1>5, <1>6, <2>1, <2>2, <2>4, <2>5, <2>7
  <2> QED
    BY <2>8 DEF NoFileIsLost
<1>10. CASE ShiftLast
  <2> DEFINE last == MaxIndex - 1
  <2>1. last \in Index /\ files' = [files EXCEPT ![last] = cur]
    BY <1>3, <1>10 DEF ShiftLast, Index
  <2>2. dropped' = Dropping(files[last]) /\ cur' = NoFile /\ UNCHANGED written
    BY <1>10 DEF ShiftLast
  <2> HIDE DEF last
  <2>3. TotalSize(files') + files[last].size = total + cur.size
    BY <1>1, <2>1, TotalChange
  <2>4. TotalSize(files') \in Nat
    BY <1>1, <1>3, <2>1, TotalChange
  <2> HIDE DEF total
  <2>5. written' = dropped'.size + cur'.size + TotalSize(files')
    BY <1>2, <1>4, <1>5, <1>6, <2>1, <2>2, <2>3, <2>4
  <2> QED
    BY <2>5 DEF NoFileIsLost
<1>11. CASE Write
  <2>1. /\ UNCHANGED <<files, dropped>>
        /\ \/ cur' = AddLine(cur, entry) /\ written' = written + 1
           \/ UNCHANGED <<cur, written>>
    BY <1>11 DEF Write
  <2>2. AddLine(cur, entry).size = cur.size + 1
    BY DEF AddLine
  <2> HIDE DEF total
  <2>3. written' = dropped'.size + cur'.size + total
    BY <1>2, <1>4, <1>5, <2>1, <2>2
  <2> QED
    BY <2>1, <2>3 DEF NoFileIsLost, total
<1> QED
  BY <1>7, <1>8, <1>9, <1>10, <1>11
     DEF Next, DoLog, PrintEnter, PrintPush, LoopTest, Take, LookOnly,
         LookAndShift, Stop, End, Start, vars

\* Every line that was written is in one file, in the current one or in one that
\* a full shift replaced: no rename of checkMaxSize() loses another file, and
\* neither does an end of the process between any two of them.
THEOREM NothingIsLost == Spec => []NoFileIsLost
<1>1. Init => NoFileIsLost
  <2> SUFFICES ASSUME Init PROVE NoFileIsLost
    OBVIOUS
  <2>1. TotalSize(files) = 0
    BY TotalOfNone DEF Init
  <2> QED
    BY <2>1 DEF Init, NoFileIsLost, NoFile
<1> QED
  BY <1>1, NoneLost, TypesInvariance, PTL DEF Spec
=============================================================================
