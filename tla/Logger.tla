------------------------------- MODULE Logger -------------------------------
(***************************************************************************)
(* MyLogger, the logger of every process of the gateway: any thread prints *)
(* into a queue, one thread takes the entries out, appends them to the log *)
(* file and from time to time moves a file that has grown too large to the *)
(* next free index, or, when all indices are used, shifts every file down  *)
(* by one and so drops the oldest.  The shift is a sequence of renames,    *)
(* and the process may die between any two of them; the files stay.        *)
(*                                                                         *)
(* A line is its number in the order of the queue.  A file is summarised   *)
(* by its first line, its last line and how many lines it has; a line is   *)
(* the unit in which sizes are measured.                                   *)
(***************************************************************************)
EXTENDS Naturals, Sequences

CONSTANTS
  Writers,      \* the threads of the process that print
  MaxIndex,     \* MyLogger::maxIndex
  MaxFileSize,  \* MyLogger::maxFileSize
  ObsLimit,     \* entries between two looks at the size of the file
  ObsStart,     \* where setFile() starts to count
  MaxLines,     \* bound: lines printed
  MaxEnds       \* bound: ends of the process

ASSUME LoggerAssumption ==
  /\ MaxIndex \in Nat \ {0}
  /\ MaxFileSize \in Nat \ {0}
  /\ ObsLimit \in Nat \ {0}
  /\ ObsStart \in 0 .. ObsLimit
  /\ MaxLines \in Nat
  /\ MaxEnds \in Nat

VARIABLES
  up,         \* the process runs
  stopped,    \* MyLogger::stopped
  printing,   \* the threads between the tests and the lock in print()
  log_queue,  \* the lines in the queue
  nextNr,     \* the number of the next line
  th,         \* the logging thread: where it is in doLog()
  entry,      \* the line it holds, 0 if none
  obsCount,   \* MyLogger::obsCount
  i,          \* the index of the shift in checkMaxSize()
  cur,        \* the file filePath
  files,      \* the files filePath0, filePath1, ...
  dropped,    \* history: the files that a rename replaced, as one
  torn,       \* history: an end of the process left a gap between the files
  missed,     \* history: starts and failed looks since the last good look
  written,    \* history: lines written
  ends        \* ends of the process so far

queueVars == <<printing, log_queue, nextNr>>
fileVars == <<cur, files, dropped, written>>
vars == <<up, stopped, queueVars, th, entry, obsCount, i, fileVars, torn,
          missed, ends>>

Index == 0 .. MaxIndex - 1
File == [from : Nat, to : Nat, size : Nat]
NoFile == [from |-> 0, to |-> 0, size |-> 0]
Present(f) == f.size > 0

-----------------------------------------------------------------------------
TypeOK ==
  /\ up \in BOOLEAN
  /\ stopped \in BOOLEAN
  /\ printing \subseteq Writers
  /\ log_queue \in Seq(Nat)
  /\ nextNr \in Nat \ {0}
  /\ th \in {"test", "take", "have", "shift", "write", "ended"}
  /\ entry \in Nat
  /\ obsCount \in 0 .. ObsLimit
  /\ i \in 1 .. MaxIndex
  /\ cur \in File
  /\ files \in [Index -> File]
  /\ dropped \in File
  /\ torn \in BOOLEAN
  /\ missed \in Nat
  /\ written \in Nat
  /\ ends \in Nat

\* After init() and setFile(): nothing is printed before.
Init ==
  /\ up = TRUE
  /\ stopped = FALSE
  /\ printing = {}
  /\ log_queue = <<>>
  /\ nextNr = 1
  /\ th = "test"
  /\ entry = 0
  /\ obsCount = ObsStart
  /\ i = 1
  /\ cur = NoFile
  /\ files = [k \in Index |-> NoFile]
  /\ dropped = NoFile
  /\ torn = FALSE
  /\ missed = 0
  /\ written = 0
  /\ ends = 0

-----------------------------------------------------------------------------
(***************************************************************************)
(* print(), on any thread.                                                 *)
(***************************************************************************)

\* The tests.  init() sets every bit of mask and of prio, and nothing clears
\* one.
PrintEnter(w) ==
  /\ up
  /\ ~stopped
  /\ w \notin printing
  /\ nextNr <= MaxLines
  /\ printing' = printing \cup {w}
  /\ UNCHANGED <<up, stopped, log_queue, nextNr, th, entry, obsCount, i,
                 fileVars, torn, missed, ends>>

\* The lock, the push, the unlock.  stopped is not tested again.
PrintPush(w) ==
  /\ w \in printing
  /\ printing' = printing \ {w}
  /\ log_queue' = Append(log_queue, nextNr)
  /\ nextNr' = nextNr + 1
  /\ UNCHANGED <<up, stopped, th, entry, obsCount, i, fileVars, torn, missed,
                 ends>>

-----------------------------------------------------------------------------
(***************************************************************************)
(* doLog(), on the logging thread.                                         *)
(***************************************************************************)

LoopTest ==
  /\ up
  /\ th = "test"
  /\ th' = IF stopped THEN "ended" ELSE "take"
  /\ UNCHANGED <<up, stopped, queueVars, entry, obsCount, i, fileVars, torn,
                 missed, ends>>

\* Mutation of Take: the entry stays in the queue.
TakeWithoutPop ==
  /\ th = "take"
  /\ log_queue # <<>>
  /\ entry' = Head(log_queue)
  /\ th' = "have"
  /\ UNCHANGED <<up, stopped, queueVars, obsCount, i, fileVars, torn, missed,
                 ends>>

\* Under the lock: front() and pop(), or back to the test after a while.
Take ==
  /\ th = "take"
  /\ IF log_queue = <<>>
       THEN th' = "test" /\ UNCHANGED <<log_queue, entry>>
       ELSE /\ entry' = Head(log_queue)
            /\ log_queue' = Tail(log_queue)
            /\ th' = "have"
  /\ UNCHANGED <<up, stopped, printing, nextNr, obsCount, i, fileVars, torn,
                 missed, ends>>

\* Appending a line to a file, which fopen(.., "a") makes if it is not there.
AddLine(f, n) ==
  [from |-> IF Present(f) THEN f.from ELSE n, to |-> n, size |-> f.size + 1]

\* What rename() replaces is gone; dropped is its trace.
Dropping(f) ==
  [from |-> IF Present(dropped) THEN dropped.from ELSE f.from,
   to   |-> IF Present(f) THEN f.to ELSE dropped.to,
   size |-> dropped.size + f.size]

\* Mutation of MustLook: one entry later.
LooksLate == obsCount > ObsLimit

MustLook == obsCount >= ObsLimit

\* The indices up to the first that has no file; MaxIndex if all have one.
IsFirstFree(k) ==
  /\ k \in Index
  /\ ~Present(files[k])
  /\ \A j \in 0 .. k - 1 : Present(files[j])

Full == \A k \in Index : Present(files[k])

\* A look at the size that finds nothing to do, or no file to open.
LookOnly ==
  /\ th = "have"
  /\ MustLook
  /\ obsCount' = 0
  /\ th' = "write"
  /\ \/ missed' = missed + 1
     \/ cur.size < MaxFileSize /\ missed' = 0
  /\ UNCHANGED <<up, stopped, queueVars, entry, i, fileVars, torn, ends>>

\* Mutation of LookAndMove: the search for a free index is off by one.
MoveBehindFree ==
  /\ th = "have"
  /\ MustLook
  /\ cur.size >= MaxFileSize
  /\ \E k \in Index :
       /\ IsFirstFree(k)
       /\ files' = [files EXCEPT ![IF k = 0 THEN 0 ELSE k - 1] = cur]
       /\ dropped' = IF k = 0 THEN dropped ELSE Dropping(files[k - 1])
  /\ cur' = NoFile
  /\ obsCount' = 0
  /\ missed' = 0
  /\ th' = "write"
  /\ UNCHANGED <<up, stopped, queueVars, entry, i, torn, written, ends>>

\* Mutation of LookAndMove: the file is copied and not moved.
CopyInstead ==
  /\ th = "have"
  /\ MustLook
  /\ cur.size >= MaxFileSize
  /\ \E k \in Index : IsFirstFree(k) /\ files' = [files EXCEPT ![k] = cur]
  /\ obsCount' = 0
  /\ missed' = 0
  /\ th' = "write"
  /\ UNCHANGED <<up, stopped, queueVars, entry, i, cur, dropped, torn, written,
                 ends>>

\* The file is too large and an index is free.
LookAndMove ==
  /\ th = "have"
  /\ MustLook
  /\ cur.size >= MaxFileSize
  /\ \E k \in Index : IsFirstFree(k) /\ files' = [files EXCEPT ![k] = cur]
  /\ cur' = NoFile
  /\ obsCount' = 0
  /\ missed' = 0
  /\ th' = "write"
  /\ UNCHANGED <<up, stopped, queueVars, entry, i, dropped, torn, written,
                 ends>>

\* The file is too large and no index is free.
LookAndShift ==
  /\ th = "have"
  /\ MustLook
  /\ cur.size >= MaxFileSize
  /\ Full
  /\ obsCount' = 0
  /\ th' = "shift"
  /\ i' = 1
  /\ UNCHANGED <<up, stopped, queueVars, entry, fileVars, torn, missed, ends>>

\* Mutation of Shift: the files are moved up instead of down, from the first.
ShiftUp ==
  /\ th = "shift"
  /\ i < MaxIndex
  /\ files' = [files EXCEPT ![i] = files[i - 1], ![i - 1] = NoFile]
  /\ dropped' = Dropping(files[i])
  /\ i' = i + 1
  /\ UNCHANGED <<up, stopped, queueVars, th, entry, obsCount, cur, torn,
                 missed, written, ends>>

\* One rename of the loop.
Shift ==
  /\ th = "shift"
  /\ i < MaxIndex
  /\ files' = [files EXCEPT ![i - 1] = files[i], ![i] = NoFile]
  /\ dropped' = Dropping(files[i - 1])
  /\ i' = i + 1
  /\ UNCHANGED <<up, stopped, queueVars, th, entry, obsCount, cur, torn,
                 missed, written, ends>>

\* The rename behind the loop.
ShiftLast ==
  /\ th = "shift"
  /\ i = MaxIndex
  /\ files' = [files EXCEPT ![MaxIndex - 1] = cur]
  /\ dropped' = Dropping(files[MaxIndex - 1])
  /\ cur' = NoFile
  /\ th' = "write"
  /\ missed' = 0
  /\ UNCHANGED <<up, stopped, queueVars, entry, obsCount, i, torn, written,
                 ends>>

\* The line is appended; if the file cannot be opened it is lost.
Write ==
  /\ th = "write" \/ (th = "have" /\ ~MustLook)
  /\ obsCount' = obsCount + 1
  /\ th' = "test"
  /\ entry' = 0
  /\ \/ cur' = AddLine(cur, entry) /\ written' = written + 1
     \/ UNCHANGED <<cur, written>>
  /\ UNCHANGED <<up, stopped, queueVars, i, files, dropped, torn, missed, ends>>

DoLog ==
  LoopTest \/ Take \/ LookOnly \/ LookAndMove \/ LookAndShift \/ Shift
  \/ ShiftLast \/ Write

-----------------------------------------------------------------------------
(***************************************************************************)
(* The process.                                                            *)
(***************************************************************************)

\* AtExit().
Stop ==
  /\ up
  /\ ~stopped
  /\ stopped' = TRUE
  /\ UNCHANGED <<up, queueVars, th, entry, obsCount, i, fileVars, torn, missed,
                 ends>>

\* A gap is left if some of the renames of a shift are done, and not all.
LeavesGap == th = "shift" /\ 1 < i /\ i < MaxIndex

\* The process ends with its threads, at any point and in any way.
End ==
  /\ up
  /\ ends < MaxEnds
  /\ ends' = ends + 1
  /\ up' = FALSE
  /\ printing' = {}
  /\ log_queue' = <<>>
  /\ th' = "ended"
  /\ entry' = 0
  /\ torn' = (torn \/ LeavesGap)
  /\ UNCHANGED <<stopped, nextNr, obsCount, i, fileVars, missed>>

\* It is started again: init() and setFile().
Start ==
  /\ ~up
  /\ up' = TRUE
  /\ stopped' = FALSE
  /\ th' = "test"
  /\ obsCount' = ObsStart
  /\ missed' = missed + 1
  /\ UNCHANGED <<queueVars, entry, i, fileVars, torn, ends>>

Next ==
  \/ \E w \in Writers : PrintEnter(w) \/ PrintPush(w)
  \/ DoLog
  \/ Stop
  \/ End
  \/ Start

\* The logging thread runs, and a process that ended is started again.
Spec == Init /\ [][Next]_vars /\ WF_vars(DoLog) /\ WF_vars(Start)

-----------------------------------------------------------------------------
(***************************************************************************)
(* Properties.                                                             *)
(***************************************************************************)

Before(f, g) == Present(f) /\ Present(g) => f.to < g.from

\* As long as no end of the process fell into the middle of a shift, the
\* files are in the order of their indices, the oldest first, the file that
\* is being written is the newest, and what the renames replaced is older
\* than all that is left: checkMaxSize() neither swaps files, nor puts one on
\* the wrong side of another, nor drops any but the oldest.
FilesInOrder ==
  ~torn => /\ \A a, b \in Index : a < b => Before(files[a], files[b])
           /\ \A a \in Index : Before(files[a], cur)
           /\ \A f \in {files[a] : a \in Index} \cup {cur} : Before(dropped, f)

\* The lines in all files with an index.
TotalSize(fs) ==
  LET upTo[n \in 0 .. MaxIndex] ==
        IF n = 0 THEN 0 ELSE upTo[n - 1] + fs[n - 1].size
  IN  upTo[MaxIndex]

\* With any ends of the process, every line that was written is in one file,
\* or in one that a full shift replaced.
NoFileIsLost == written = dropped.size + cur.size + TotalSize(files)

\* A rename replaces a file only when every index had one.
DropsOnlyWhenFull == [][dropped' # dropped => Full]_vars

\* The file outgrows its limit by at most one round of entries, and by one
\* more for every start of the process and every look that failed since: the
\* count starts over with the process.
GrowthIsBounded ==
  cur.size < MaxFileSize + (missed + 1) * ObsLimit

\* A line that was queued does not stay in the queue, whatever the other
\* threads print, unless the logger is stopped.
QueueIsServed ==
  \A n \in 1 .. MaxLines :
    (\E k \in DOMAIN log_queue : log_queue[k] = n)
      ~> (stopped \/ \A k \in DOMAIN log_queue : log_queue[k] # n)
=============================================================================
