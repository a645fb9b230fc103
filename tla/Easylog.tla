------------------------------- MODULE Easylog -------------------------------
(***************************************************************************)
(* The logger (src/src/easylog/Easylog.cpp): any thread builds a message,  *)
(* pushes it on _logQueue and notifies; the log thread takes the lines off *)
(* and writes them to the standard output and to the file of their level,  *)
(* which it replaces when the day changes.                                 *)
(*                                                                         *)
(* Lines carry the thread, its count and the time stamped on them.  Time   *)
(* is in ticks, DayTicks to a day; stamps and file names are in local      *)
(* time, ZoneTicks ahead of the UTC days autosplit_file compares.  sTime   *)
(* is a global that all threads write and read without a lock, so a        *)
(* message reads the clock, stores it and reads it back in three steps.    *)
(***************************************************************************)
EXTENDS Integers, Sequences

CONSTANTS
  Loggers,     \* threads that log
  Levels,      \* a set of naturals: EasylogSeverityLevel
  PANIC,       \* LEVEL_PANIC
  FileLevels,  \* the levels, or GLOBAL, that the program calls set_tofile for
  DayTicks, ZoneTicks, MonthDays,
  MaxLines,    \* bound: lines that are logged
  MaxTime,     \* bound: the clock
  MaxSetup     \* bound: ticks that set_tofile takes

ASSUME EasylogAssumption ==
  /\ {MaxLines, MaxTime, MaxSetup, ZoneTicks} \subseteq Nat /\ Levels \subseteq Nat \ {0}
  /\ DayTicks \in Nat \ {0} /\ MonthDays \in Nat \ {0} /\ ZoneTicks < DayTicks

GLOBAL == 0
Closed == [named |-> -1, launch |-> 0, ok |-> FALSE]

VARIABLES
  now, stime,   \* the clock, and sTime
  threshold,    \* _level
  node,         \* per level: to_stdout, filename set, the open file
  logq,         \* _logQueue
  pushedAt,     \* for each line in logq, where the log thread was when it was pushed
  lpc,          \* the log thread: "look", "name", "launch", "check", "enter", "wait", "exit"
  job,          \* the line the log thread opens a file for, sTime as autosplit_file saw
                \* it, and the file
  logger,       \* per thread: "idle", "store", "stamp", "push", "notify", "stop", "signal",
                \* "join", "gone"
  line,         \* per thread: the line it logs
  lines,        \* lines begun, which numbers them
  logStop,      \* _stop
  screen,       \* lines on the standard output
  written       \* lines in files: the line, the file and sTime as autosplit_file saw it

logVars == <<now, stime, threshold, node, logq, pushedAt, lpc, job, logger, line, lines, logStop, screen, written>>

utcDay(t) == t \div DayTicks
mday(t) == utcDay(t) % MonthDays
localDay(t) == (t + ZoneTicks) \div DayTicks

NoLine == [by |-> 0, n |-> 0, level |-> 0, time |-> 0]
NoJob == [line |-> NoLine, seen |-> 0, named |-> 0, ok |-> FALSE]

EasylogInit ==
  /\ now = 0 /\ stime = 0
  /\ threshold \in Levels
  /\ node = [l \in Levels |-> [to_stdout |-> TRUE, filename |-> FALSE, fs |-> Closed]]
  /\ logq = <<>> /\ pushedAt = <<>> /\ lpc = "look" /\ job = NoJob
  /\ logger = [t \in Loggers |-> "idle"]
  /\ line = [t \in Loggers |-> NoLine]
  /\ lines = 0
  /\ logStop = FALSE /\ screen = <<>> /\ written = <<>>

Tick ==
  /\ now < MaxTime
  /\ now' = now + 1
  /\ UNCHANGED <<stime, threshold, node, logq, pushedAt, lpc, job, logger, line, lines, logStop, screen, written>>

-----------------------------------------------------------------------------
(* Configuration, by the program at its start, before its threads log.     *)
Configuring == lines = 0 /\ now = 0 /\ ~logStop

(* openfile: the clock is read once for the name (full_filename) and again *)
(* for fs_launchtime; a file that cannot be opened is kept, and swallows   *)
(* what is written to it.                                                  *)
openfile(n, named, launch, ok) == [n EXCEPT !.fs = [named |-> named, launch |-> launch, ok |-> ok]]

Selected(level) == {l \in Levels : level = GLOBAL \/ l = level}

set_tostdout(level, enable) ==
  /\ Configuring
  /\ node' = [l \in Levels |-> IF l \in Selected(level) THEN [node[l] EXCEPT !.to_stdout = enable] ELSE node[l]]
  /\ UNCHANGED <<now, stime, threshold, logq, pushedAt, lpc, job, logger, line, lines, logStop, screen, written>>

(* Every level that has a file name and no file gets one, in the order of  *)
(* the levels and while the clock runs.                                    *)
set_tofile(level) ==
  LET todo == {l \in Levels : (l \in Selected(level) \/ node[l].filename) /\ node[l].fs = Closed}
      times == now .. now + MaxSetup
  IN /\ Configuring
     /\ now' \in times
     /\ \E named, launch \in [todo -> times], ok \in [todo -> BOOLEAN] :
          /\ \A l \in todo : named[l] <= launch[l] /\ launch[l] <= now'
          /\ \A k, l \in todo : k < l => launch[k] <= named[l]
          /\ node' = [l \in Levels |->
               LET n == [node[l] EXCEPT !.filename = l \in Selected(level) \/ @]
               IN IF l \in todo THEN openfile(n, named[l], launch[l], ok[l]) ELSE n]
     /\ UNCHANGED <<stime, threshold, logq, pushedAt, lpc, job, logger, line, lines, logStop, screen, written>>

-----------------------------------------------------------------------------
(* The threads that log.                                                   *)

(* EasylogMessage: sTime.now() reads the clock,                            *)
EasylogMessage(t, level) ==
  /\ logger[t] = "idle" /\ lines < MaxLines
  /\ lines' = lines + 1
  /\ line' = [line EXCEPT ![t] = [by |-> t, n |-> lines + 1, level |-> level, time |-> now]]
  /\ logger' = [logger EXCEPT ![t] = "store"]
  /\ UNCHANGED <<now, stime, threshold, node, logq, pushedAt, lpc, job, logStop, screen, written>>

(* stores it in the global, whatever another thread stored there since,    *)
sTimeNow(t) ==
  /\ logger[t] = "store"
  /\ stime' = line[t].time
  /\ logger' = [logger EXCEPT ![t] = "stamp"]
  /\ UNCHANGED <<now, threshold, node, logq, pushedAt, lpc, job, line, lines, logStop, screen, written>>

(* and the line is stamped with what the global then holds.  The           *)
(* destructor's log_message looks at _stop and the level.                  *)
Stamp(t) ==
  LET kept == ~logStop /\ line[t].level >= threshold
  IN /\ logger[t] = "stamp"
     /\ line' = [line EXCEPT ![t] = IF kept THEN [@ EXCEPT !.time = stime] ELSE NoLine]
     /\ logger' = [logger EXCEPT ![t] = IF kept THEN "push" ELSE "idle"]
     /\ UNCHANGED <<now, stime, threshold, node, logq, pushedAt, lpc, job, lines, logStop, screen, written>>

log_message(t) ==
  /\ logger[t] = "push"
  /\ logq' = Append(logq, line[t])
  /\ pushedAt' = Append(pushedAt, lpc)
  /\ logger' = [logger EXCEPT ![t] = "notify"]
  /\ UNCHANGED <<now, stime, threshold, node, lpc, job, line, lines, logStop, screen, written>>

(* notify_all reaches the log thread only while it waits.                  *)
Notified == lpc' = IF lpc = "wait" THEN "look" ELSE lpc

Notify(t) ==
  /\ logger[t] = "notify"
  /\ Notified
  /\ logger' = [logger EXCEPT ![t] = IF line[t].level = PANIC THEN "stop" ELSE "idle"]
  /\ line' = [line EXCEPT ![t] = NoLine]
  /\ UNCHANGED <<now, stime, threshold, node, logq, pushedAt, job, lines, logStop, screen, written>>

(* stop(): by a thread of the program, or after a PANIC line; one thread   *)
(* at a time.                                                              *)
LogStop(t) ==
  /\ logger[t] \in {"idle", "stop"}
  /\ \A u \in Loggers : logger[u] \notin {"signal", "join", "gone"}
  /\ logStop' = TRUE
  /\ logger' = [logger EXCEPT ![t] = "signal"]
  /\ UNCHANGED <<now, stime, threshold, node, logq, pushedAt, lpc, job, line, lines, screen, written>>

LogStopNotify(t) ==
  /\ logger[t] = "signal"
  /\ Notified
  /\ logger' = [logger EXCEPT ![t] = "join"]
  /\ UNCHANGED <<now, stime, threshold, node, logq, pushedAt, job, line, lines, logStop, screen, written>>

LogJoin(t) ==
  /\ logger[t] = "join" /\ lpc = "exit"
  /\ logger' = [logger EXCEPT ![t] = "gone"]
  /\ UNCHANGED <<now, stime, threshold, node, logq, pushedAt, lpc, job, line, lines, logStop, screen, written>>

-----------------------------------------------------------------------------
(* The log thread.                                                         *)

(* A line goes to a file, if that could be opened.                         *)
Put(l, fs, seen) == IF fs.ok THEN Append(written, [line |-> l, file |-> fs, seen |-> seen]) ELSE written

(* autosplit_file: sTime against the file's time, by day of month.         *)
autosplit_file(fs) == mday(stime) # mday(fs.launch)

send_to_file(l) ==
  LET fs == node[l.level].fs
  IN IF fs = Closed THEN UNCHANGED <<lpc, job, written>>
     ELSE IF autosplit_file(fs)
     THEN /\ lpc' = "name" /\ job' = [NoJob EXCEPT !.line = l, !.seen = stime]
          /\ UNCHANGED written
     ELSE /\ written' = Put(l, fs, stime)
          /\ UNCHANGED <<lpc, job>>

send_to_stdout(l) == screen' = IF node[l.level].to_stdout THEN Append(screen, l) ELSE screen

pop_front == [taken |-> Head(logq), rest |-> Tail(logq)]

(* Fault: the thread looks at isstop() before it has emptied the queue.    *)
logProcessStopsFirst ==
  /\ lpc = "look"
  /\ IF ~logStop /\ logq # <<>>
     THEN /\ send_to_stdout(pop_front.taken) /\ send_to_file(pop_front.taken)
          /\ logq' = pop_front.rest /\ pushedAt' = Tail(pushedAt)
     ELSE /\ lpc' = "check"
          /\ UNCHANGED <<logq, pushedAt, job, screen, written>>
  /\ UNCHANGED <<now, stime, threshold, node, logger, line, lines, logStop>>

(* One turn of the loop of logProcess.                                     *)
logProcess ==
  /\ lpc = "look"
  /\ IF logq # <<>>
     THEN /\ send_to_stdout(pop_front.taken) /\ send_to_file(pop_front.taken)
          /\ logq' = pop_front.rest /\ pushedAt' = Tail(pushedAt)
     ELSE /\ lpc' = "check"
          /\ UNCHANGED <<logq, pushedAt, job, screen, written>>
  /\ UNCHANGED <<now, stime, threshold, node, logger, line, lines, logStop>>

(* openfile by the log thread: the old file is closed, the new one named   *)
(* by the clock and opened;                                                *)
OpenNamed ==
  /\ lpc = "name"
  /\ lpc' = "launch"
  /\ \E ok \in BOOLEAN : job' = [job EXCEPT !.named = now, !.ok = ok]
  /\ UNCHANGED <<now, stime, threshold, node, logq, pushedAt, logger, line, lines, logStop, screen, written>>

(* Fault: the line is written before the file is replaced.                 *)
OpenLaunchedLate ==
  LET level == job.line.level
  IN /\ lpc = "launch"
     /\ lpc' = "look" /\ job' = NoJob
     /\ node' = [node EXCEPT ![level] = openfile(@, job.named, now, job.ok)]
     /\ written' = Put(job.line, node[level].fs, job.seen)
     /\ UNCHANGED <<now, stime, threshold, logq, pushedAt, logger, line, lines, logStop, screen>>

(* the clock is read again for fs_launchtime, and the line is written.     *)
OpenLaunched ==
  LET level == job.line.level
  IN /\ lpc = "launch"
     /\ lpc' = "look" /\ job' = NoJob
     /\ node' = [node EXCEPT ![level] = openfile(@, job.named, now, job.ok)]
     /\ written' = Put(job.line, node'[level].fs, job.seen)
     /\ UNCHANGED <<now, stime, threshold, logq, pushedAt, logger, line, lines, logStop, screen>>

(* Nothing was there: the thread ends, or begins to wait, or (a spurious   *)
(* wake-up) stops waiting.                                                 *)
LogWait ==
  /\ \/ lpc = "check" /\ lpc' = IF logStop THEN "exit" ELSE "enter"
     \/ lpc = "enter" /\ lpc' = "wait"
     \/ lpc = "wait" /\ lpc' = "look"
  /\ UNCHANGED <<now, stime, threshold, node, logq, pushedAt, job, logger, line, lines, logStop, screen, written>>

EasylogNext ==
  \/ Tick
  \/ \E level \in FileLevels : set_tofile(level)
  \/ set_tostdout(GLOBAL, FALSE)
  \/ \E t \in Loggers :
       \/ \E level \in Levels : EasylogMessage(t, level)
       \/ sTimeNow(t) \/ Stamp(t) \/ log_message(t) \/ Notify(t)
       \/ LogStop(t) \/ LogStopNotify(t) \/ LogJoin(t)
  \/ logProcess \/ OpenNamed \/ OpenLaunched \/ LogWait

EasylogSpec == EasylogInit /\ [][EasylogNext]_logVars

-----------------------------------------------------------------------------
(* The name of a line's file is not of a day before the day stamped on the *)
(* line, both in local time.  autosplit_file compares UTC days, so in the  *)
(* hours after the local midnight and before the UTC one a line may still  *)
(* go to the file of the day before.                                       *)
InFileOfItsDay(e) ==
  LET name == localDay(e.file.named)
      day == localDay(e.line.time)
  IN name >= day \/ (name = day - 1 /\ utcDay(e.line.time) = day - 1)

(* A level was silent for a month: days are compared by their number in    *)
(* the month, and the file of a month ago passes for today's.              *)
MonthSilent(e) == utcDay(e.seen) >= utcDay(e.file.launch) + MonthDays

(* A slow thread stored the time of a day before in sTime after the line   *)
(* was stamped, and the split is decided from it.                          *)
ClockSetBack(e) == utcDay(e.seen) < utcDay(e.line.time) /\ \E t, u \in Loggers : t # u

(* openfile named the file on one day and took its time on another.        *)
OpenedOverMidnight(e) == localDay(e.file.named) < utcDay(e.file.launch)

(* send_to_file writes a line to the file of its day or to a later one,    *)
(* although the split is decided from a global that other threads write,   *)
(* the name comes from one reading of the clock and fs_launchtime from     *)
(* another; what is left are the two races and the month of silence.       *)
NoLineInAnOldFile ==
  \A i \in DOMAIN written :
    LET e == written[i]
    IN InFileOfItsDay(e) \/ MonthSilent(e) \/ ClockSetBack(e) \/ OpenedOverMidnight(e)

InOrder(seq) == \A i, j \in DOMAIN seq : i < j /\ seq[i].by = seq[j].by => seq[i].n < seq[j].n

(* The line a file is being opened for.                                    *)
Held == IF lpc \in {"name", "launch"} THEN <<job.line>> ELSE <<>>

(* What one thread logs appears in its order and once, on the screen and   *)
(* in the files, with the lines that wait behind it; and when the log      *)
(* thread has ended, every line that still waits was pushed after the      *)
(* thread had found the queue empty for the last time: a backlog is        *)
(* written before stop() returns.  (Lines pushed in that window, the PANIC *)
(* line that stopped the program among them, are lost.)                    *)
BacklogWritten ==
  /\ InOrder(screen \o logq)
  /\ InOrder([i \in DOMAIN written |-> written[i].line] \o Held \o logq)
  /\ lpc = "exit" => \A i \in DOMAIN logq : pushedAt[i] \in {"check", "exit"}
=============================================================================
