---------------------------- MODULE EasylogProofs ----------------------------
(***************************************************************************)
(* BacklogWritten and NoLineInAnOldFile of Easylog, for any number of      *)
(* threads, levels and lines and any calendar.                             *)
(*                                                                         *)
(* Order: the lines of a thread are numbered when they are made, and a     *)
(* thread makes its next line only when the last one is in the queue, so   *)
(* the line in its hands is newer than all of its lines in the queue, on   *)
(* the screen and in the files; the log thread moves lines from the head   *)
(* of the queue to the end of the others.  Files: whatever is stored in    *)
(* sTime and stamped on lines was read from a clock that only goes         *)
(* forward, so a file that is named for a line is not older than it; a     *)
(* file that is kept was launched on the day sTime shows, and sTime shows  *)
(* a day before the line's only when a second thread has set it back.      *)
(***************************************************************************)
EXTENDS Easylog, TLAPS

Line == [by : Loggers, n : Nat, level : Levels, time : Nat]
File == [named : Int, launch : Nat, ok : BOOLEAN]
Node == [to_stdout : BOOLEAN, filename : BOOLEAN, fs : File]
Entry == [line : Line, file : File, seen : Nat]
Job == [line : Line \cup {NoLine}, seen : Nat, named : Nat, ok : BOOLEAN]
Places == {"look", "name", "launch", "check", "enter", "wait", "exit"}
States == {"idle", "store", "stamp", "push", "notify", "stop", "signal", "join", "gone"}

(* A thread has a line in its hands, a file is being opened for one.       *)
Busy == {"store", "stamp", "push"}
Opening == {"name", "launch"}

(* The lines in the files, and with them the one a file is opened for.     *)
Filed == [i \in DOMAIN written |-> written[i].line]
Filing == IF lpc \in Opening THEN Append(Filed, job.line) ELSE Filed

LogTypes ==
  /\ now \in Nat /\ stime \in Nat /\ stime <= now
  /\ node \in [Levels -> Node]
  /\ logq \in Seq(Line) /\ screen \in Seq(Line) /\ written \in Seq(Entry)
  /\ pushedAt \in Seq(Places) /\ Len(pushedAt) = Len(logq)
  /\ lpc \in Places /\ job \in Job /\ (lpc \in Opening => job.line \in Line)
  /\ logger \in [Loggers -> States]
  /\ DOMAIN line = Loggers
  /\ lines \in Nat

(* The lines in seq have been numbered.                                    *)
Numbered(seq, m) == \A i \in DOMAIN seq : seq[i].n <= m

(* The lines that thread t has in seq are older than its line number m.    *)
Older(seq, t, m) == \A i \in DOMAIN seq : seq[i].by = t => seq[i].n < m

(* What a thread has in s is older than what it has in q.                  *)
Before(s, q) == \A i \in DOMAIN s : \A j \in DOMAIN q : s[i].by = q[j].by => s[i].n < q[j].n

(* A sequence of lines is in order, and older than the lines in hand.      *)
Shelf(seq) ==
  /\ Numbered(seq, lines) /\ InOrder(seq)
  /\ \A t \in Loggers : logger[t] \in Busy => Older(seq, t, line[t].n)

Ordered ==
  /\ Shelf(logq) /\ Shelf(screen) /\ Shelf(Filing)
  /\ Before(screen, logq) /\ Before(Filing, logq)

(* The line in a thread's hands.                                           *)
InHand ==
  \A t \in Loggers :
    logger[t] \in Busy => line[t] \in Line /\ line[t].by = t /\ line[t].n <= lines /\ line[t].time <= now

(* Since the log thread found the queue empty only later lines are in it.  *)
Backlog == lpc \in {"check", "exit"} => \A i \in 1 .. Len(logq) : pushedAt[i] \in {"check", "exit"}

(* Every time was once the clock's.                                        *)
Dated ==
  /\ \A i \in 1 .. Len(logq) : logq[i].time <= now
  /\ lpc \in Opening => job.line.time <= now
  /\ lpc = "launch" => job.line.time <= job.named /\ job.named <= now
OpenFile(fs, clock) == fs.named \in Nat /\ fs.named <= fs.launch /\ fs.launch <= clock
Opened == \A l \in Levels : node[l].fs # Closed => OpenFile(node[l].fs, now)

(* One thread alone only moves sTime forward.                              *)
Alone == \A t, u \in Loggers : t = u
Forward ==
  Alone =>
    /\ \A i \in 1 .. Len(logq) : logq[i].time <= stime
    /\ \A t \in Loggers : logger[t] = "store" => stime <= line[t].time
    /\ \A t \in Loggers : logger[t] = "push" => line[t].time <= stime

LogInv ==
  LogTypes /\ Ordered /\ InHand /\ Backlog /\ Dated /\ Opened /\ Forward /\ NoLineInAnOldFile
-----------------------------------------------------------------------------
(* Days.                                                                   *)

LEMMA Division ==
  ASSUME NEW d \in Nat, d # 0, NEW a \in Nat
  PROVE  a \div d \in Nat /\ a % d = a - (a \div d) * d
<1>1. a \div d \in Nat
  OBVIOUS
<1>2. a % d = a - (a \div d) * d
  OBVIOUS
<1>3. QED
  BY <1>1, <1>2

(* Two days with the same number in their months are a month apart.        *)
LEMMA MonthApart ==
  ASSUME NEW d \in Nat, d # 0, NEW a \in Nat, NEW b \in Nat, a < b, a % d = b % d
  PROVE  a + d <= b
<1>1. PICK q \in Nat : a % d = a - q * d
  BY Division
<1>2. PICK p \in Nat : b % d = b - p * d
  BY Division
<1>3. a - q * d = b - p * d
  BY <1>1, <1>2
<1>4. b - a = d * (p - q)
  BY <1>3
<1>5. p - q > 0
  BY <1>4
<1>6. d * (p - q) >= d
  BY <1>5
<1>7. QED
  BY <1>4, <1>6

(* Days follow each other, and the local day is the same or the next.      *)
LEMMA Days ==
  ASSUME NEW s \in Nat, NEW t \in Nat
  PROVE  /\ utcDay(t) \in Nat /\ localDay(t) \in Nat
         /\ s <= t => utcDay(s) <= utcDay(t) /\ localDay(s) <= localDay(t)
         /\ utcDay(t) <= localDay(t) /\ localDay(t) <= utcDay(t) + 1
<1>1. DayTicks \in Nat \ {0} /\ ZoneTicks \in Nat /\ ZoneTicks < DayTicks
  BY EasylogAssumption
<1>2. ASSUME NEW a \in Nat, NEW b \in Nat, a <= b PROVE a \div DayTicks <= b \div DayTicks
  BY <1>1, <1>2
<1>3. \A a \in Nat : a \div DayTicks \in Nat
  BY <1>1
<1>4. /\ t + ZoneTicks \in Nat /\ t <= t + ZoneTicks /\ t + ZoneTicks <= t + DayTicks
      /\ t + DayTicks \in Nat /\ s + ZoneTicks \in Nat
      /\ s <= t => s + ZoneTicks <= t + ZoneTicks
  BY <1>1
<1>5. s <= t => utcDay(s) <= utcDay(t)
  BY <1>2 DEF utcDay
<1>6. s <= t => localDay(s) <= localDay(t)
  BY <1>2, <1>4 DEF localDay
<1>7. utcDay(t) <= localDay(t)
  BY <1>2, <1>4 DEF utcDay, localDay
<1>8. (t + DayTicks) \div DayTicks = t \div DayTicks + 1
  BY <1>1
<1>9. localDay(t) <= utcDay(t) + 1
  BY <1>2, <1>4, <1>8 DEF utcDay, localDay
<1>10. QED
  BY <1>3, <1>4, <1>5, <1>6, <1>7, <1>9 DEF utcDay, localDay

InTime(e) == InFileOfItsDay(e) \/ MonthSilent(e) \/ ClockSetBack(e) \/ OpenedOverMidnight(e)

(* A line goes to the file that is open because autosplit_file finds       *)
(* sTime's day of the month in fs_launchtime.                              *)
LEMMA FileKept ==
  ASSUME NEW e \in Entry, e.file.named \in Nat, mday(e.seen) = mday(e.file.launch),
         Alone => e.line.time <= e.seen
  PROVE  InTime(e)
<1> DEFINE a == utcDay(e.file.launch)
           b == utcDay(e.seen)
           c == utcDay(e.line.time)
           d == localDay(e.line.time)
           name == localDay(e.file.named)
<1>1. e.line.time \in Nat /\ e.seen \in Nat /\ e.file.launch \in Nat /\ e.file.named \in Nat
  BY DEF Entry, Line, File
<1>2. a \in Nat /\ b \in Nat /\ c \in Nat /\ d \in Nat /\ name \in Nat /\ c <= d /\ d <= c + 1
  BY <1>1, Days
<1>3. e.line.time <= e.seen => c <= b
  BY <1>1, Days
<1>4. MonthDays \in Nat /\ MonthDays # 0
  BY EasylogAssumption
<1>5. b % MonthDays = a % MonthDays
  BY DEF mday
<1>6. CASE b < c
  BY <1>2, <1>3, <1>6 DEF InTime, ClockSetBack, Alone
<1>7. CASE a < b
  <2> HIDE DEF a, b
  <2>1. a + MonthDays <= b
    BY <1>2, <1>4, <1>5, <1>7, MonthApart
  <2>2. QED
    BY <1>2, <1>4, <2>1 DEF InTime, MonthSilent, a, b
<1>8. CASE name < a
  BY <1>8 DEF InTime, OpenedOverMidnight
<1>9. CASE name >= a /\ a >= b /\ b >= c
  BY <1>2, <1>9 DEF InTime, InFileOfItsDay
<1>10. QED
  BY <1>2, <1>6, <1>7, <1>8, <1>9

(* A line goes to the file that was named after the line was stamped.      *)
LEMMA FileNew ==
  ASSUME NEW e \in Entry, e.file.named \in Nat, e.line.time <= e.file.named
  PROVE  InTime(e)
<1>1. e.line.time \in Nat
  BY DEF Entry, Line
<1>2. /\ localDay(e.line.time) <= localDay(e.file.named)
      /\ localDay(e.line.time) \in Nat /\ localDay(e.file.named) \in Nat
  BY <1>1, Days
<1>3. QED
  BY <1>2 DEF InTime, InFileOfItsDay
-----------------------------------------------------------------------------
(* Sequences of lines.                                                     *)

LEMMA AppendLine ==
  ASSUME NEW S, NEW q \in Seq(S), NEW l \in S
  PROVE  /\ Append(q, l) \in Seq(S)
         /\ Len(q) \in Nat /\ Len(Append(q, l)) = Len(q) + 1
         /\ DOMAIN q = 1 .. Len(q) /\ DOMAIN Append(q, l) = 1 .. Len(q) + 1
         /\ Append(q, l)[Len(q) + 1] = l
         /\ \A i \in 1 .. Len(q) : Append(q, l)[i] = q[i]
OBVIOUS

LEMMA TailLines ==
  ASSUME NEW S, NEW q \in Seq(S), q # <<>>
  PROVE  /\ Tail(q) \in Seq(S) /\ Head(q) \in S /\ Head(q) = q[1]
         /\ Len(q) \in Nat \ {0} /\ Len(Tail(q)) = Len(q) - 1
         /\ DOMAIN q = 1 .. Len(q) /\ DOMAIN Tail(q) = 1 .. Len(q) - 1
         /\ \A i \in 1 .. Len(q) - 1 : Tail(q)[i] = q[i + 1] /\ i + 1 \in 1 .. Len(q)
OBVIOUS

(* A line newer than its thread's others goes to the end.                  *)
LEMMA LineAppended ==
  ASSUME NEW q \in Seq(Line), NEW l \in Line, Older(q, l.by, l.n), InOrder(q)
  PROVE  InOrder(Append(q, l))
<1>1. /\ Len(q) \in Nat
      /\ DOMAIN q = 1 .. Len(q) /\ DOMAIN Append(q, l) = 1 .. Len(q) + 1
      /\ Append(q, l)[Len(q) + 1] = l
      /\ \A i \in 1 .. Len(q) : Append(q, l)[i] = q[i]
  BY AppendLine
<1>2. SUFFICES ASSUME NEW i \in 1 .. Len(q) + 1, NEW j \in 1 .. Len(q) + 1, i < j,
                      Append(q, l)[i].by = Append(q, l)[j].by
               PROVE  Append(q, l)[i].n < Append(q, l)[j].n
  BY <1>1 DEF InOrder
<1>3. i \in 1 .. Len(q) /\ Append(q, l)[i] = q[i]
  BY <1>1, <1>2
<1>4. CASE j = Len(q) + 1
  BY <1>1, <1>2, <1>3, <1>4 DEF Older
<1>5. CASE j \in 1 .. Len(q)
  BY <1>1, <1>2, <1>3, <1>5 DEF InOrder
<1>6. QED
  BY <1>1, <1>4, <1>5

(* What is bounded, and older than a number, stays so with one line more   *)
(* that is.                                                                *)
LEMMA LineBounded ==
  ASSUME NEW q \in Seq(Line), NEW l \in Line
  PROVE  /\ \A m \in Nat : Numbered(q, m) /\ l.n <= m => Numbered(Append(q, l), m)
         /\ \A t \in Loggers, m \in Nat :
              Older(q, t, m) /\ (l.by = t => l.n < m) => Older(Append(q, l), t, m)
         /\ \A s \in Seq(Line) : Before(q, s) /\ Before(<<l>>, s) => Before(Append(q, l), s)
         /\ \A s \in Seq(Line) : Before(s, q) /\ Older(s, l.by, l.n) => Before(s, Append(q, l))
<1>1. /\ Len(q) \in Nat
      /\ DOMAIN q = 1 .. Len(q) /\ DOMAIN Append(q, l) = 1 .. Len(q) + 1
      /\ Append(q, l)[Len(q) + 1] = l
      /\ \A i \in 1 .. Len(q) : Append(q, l)[i] = q[i]
  BY AppendLine
<1>2. \A i \in DOMAIN Append(q, l) :
        (i \in DOMAIN q /\ Append(q, l)[i] = q[i]) \/ Append(q, l)[i] = l
  BY <1>1
<1>3. <<l>>[1] = l /\ 1 \in DOMAIN <<l>>
  OBVIOUS
<1>4. QED
  BY <1>2, <1>3 DEF Numbered, Older, Before

(* The head of the queue is taken.                                         *)
LEMMA HeadTaken ==
  ASSUME NEW q \in Seq(Line), q # <<>>, InOrder(q)
  PROVE  /\ InOrder(Tail(q)) /\ Before(<<Head(q)>>, Tail(q))
         /\ \A m : Numbered(q, m) => Numbered(Tail(q), m) /\ Head(q).n <= m
         /\ \A t, m : Older(q, t, m) => Older(Tail(q), t, m) /\ (Head(q).by = t => Head(q).n < m)
         /\ \A s : Before(s, q) => Before(s, Tail(q)) /\ Older(s, Head(q).by, Head(q).n)
<1>1. /\ Head(q) = q[1]
      /\ Len(q) \in Nat \ {0}
      /\ DOMAIN q = 1 .. Len(q) /\ DOMAIN Tail(q) = 1 .. Len(q) - 1
      /\ \A i \in 1 .. Len(q) - 1 : Tail(q)[i] = q[i + 1] /\ i + 1 \in 1 .. Len(q)
  BY TailLines
<1>2. 1 \in DOMAIN q /\ \A i \in DOMAIN Tail(q) : i + 1 \in DOMAIN q /\ Tail(q)[i] = q[i + 1]
  BY <1>1
<1>3. InOrder(Tail(q))
  <2>1. \A i, j \in DOMAIN Tail(q) : i < j => i + 1 < j + 1
    BY <1>1
  <2>2. QED
    BY <1>2, <2>1 DEF InOrder
<1>4. Before(<<Head(q)>>, Tail(q))
  <2>1. \A i \in DOMAIN Tail(q) : 1 < i + 1
    BY <1>1
  <2>2. DOMAIN <<Head(q)>> = {1} /\ <<Head(q)>>[1] = q[1]
    BY <1>1
  <2>3. QED
    BY <1>2, <2>1, <2>2 DEF InOrder, Before
<1>5. /\ \A m : Numbered(q, m) => Numbered(Tail(q), m) /\ Head(q).n <= m
      /\ \A t, m : Older(q, t, m) => Older(Tail(q), t, m) /\ (Head(q).by = t => Head(q).n < m)
  BY <1>1, <1>2 DEF Numbered, Older
<1>6. \A s : Before(s, q) => Before(s, Tail(q)) /\ Older(s, Head(q).by, Head(q).n)
  BY <1>1, <1>2 DEF Before, Older
<1>7. QED
  BY <1>3, <1>4, <1>5, <1>6

(* Two ordered sequences, the one before the other, are ordered together.  *)
LEMMA OrderedTogether ==
  ASSUME NEW s \in Seq(Line), NEW q \in Seq(Line), InOrder(s), InOrder(q), Before(s, q)
  PROVE  InOrder(s \o q)
<1>1. /\ Len(s) \in Nat /\ Len(q) \in Nat
      /\ DOMAIN s = 1 .. Len(s) /\ DOMAIN q = 1 .. Len(q)
      /\ DOMAIN (s \o q) = 1 .. Len(s) + Len(q)
      /\ \A i \in 1 .. Len(s) : (s \o q)[i] = s[i]
      /\ \A i \in Len(s) + 1 .. Len(s) + Len(q) : (s \o q)[i] = q[i - Len(s)]
  OBVIOUS
<1>2. SUFFICES ASSUME NEW i \in 1 .. Len(s) + Len(q), NEW j \in 1 .. Len(s) + Len(q), i < j,
                      (s \o q)[i].by = (s \o q)[j].by
               PROVE  (s \o q)[i].n < (s \o q)[j].n
  BY <1>1 DEF InOrder
<1>3. CASE j \in 1 .. Len(s)
  <2>1. i \in 1 .. Len(s)
    BY <1>1, <1>2, <1>3
  <2>2. QED
    BY <1>1, <1>2, <1>3, <2>1 DEF InOrder
<1>4. CASE i \in 1 .. Len(s) /\ j \in Len(s) + 1 .. Len(s) + Len(q)
  <2>1. j - Len(s) \in 1 .. Len(q)
    BY <1>1, <1>4
  <2>2. QED
    BY <1>1, <1>2, <1>4, <2>1 DEF Before
<1>5. CASE i \in Len(s) + 1 .. Len(s) + Len(q)
  <2>1. /\ j \in Len(s) + 1 .. Len(s) + Len(q) /\ i - Len(s) < j - Len(s)
        /\ i - Len(s) \in 1 .. Len(q) /\ j - Len(s) \in 1 .. Len(q)
    BY <1>1, <1>2, <1>5
  <2>2. QED
    BY <1>1, <1>2, <1>5, <2>1 DEF InOrder
<1>6. QED
  BY <1>1, <1>2, <1>3, <1>4, <1>5

(* The lines in the files form a sequence, which grows with the files.     *)
LEMMA FiledLines ==
  ASSUME written \in Seq(Entry)
  PROVE  Filed \in Seq(Line) /\ DOMAIN Filed = 1 .. Len(written)
<1>1. Len(written) \in Nat /\ DOMAIN written = 1 .. Len(written)
  OBVIOUS
<1>2. \A i \in 1 .. Len(written) : written[i] \in Entry
  OBVIOUS
<1>3. \A i \in 1 .. Len(written) : written[i].line \in Line
  BY <1>2 DEF Entry
<1>4. QED
  BY <1>1, <1>3 DEF Filed

LEMMA LineFiled ==
  ASSUME written \in Seq(Entry), NEW e \in Entry, written' = Append(written, e)
  PROVE  Filed' = Append(Filed, e.line)
<1>1. /\ Append(written, e) \in Seq(Entry)
      /\ Len(written) \in Nat /\ Len(Append(written, e)) = Len(written) + 1
      /\ DOMAIN Append(written, e) = 1 .. Len(written) + 1
      /\ Append(written, e)[Len(written) + 1] = e
      /\ \A i \in 1 .. Len(written) : Append(written, e)[i] = written[i]
  BY AppendLine
<1>2. Filed \in Seq(Line) /\ DOMAIN Filed = 1 .. Len(written) /\ e.line \in Line
  BY FiledLines DEF Entry
<1>3. Len(Filed) = Len(written)
  BY <1>1, <1>2
<1>4. /\ DOMAIN Append(Filed, e.line) = 1 .. Len(written) + 1
      /\ Append(Filed, e.line)[Len(written) + 1] = e.line
      /\ \A i \in 1 .. Len(written) : Append(Filed, e.line)[i] = Filed[i]
      /\ Append(Filed, e.line) \in Seq(Line)
  BY <1>2, <1>3, AppendLine
<1>5. DOMAIN written = 1 .. Len(written)
  OBVIOUS
<1>6. \A i \in 1 .. Len(written) : Filed[i] = written[i].line
  BY <1>5 DEF Filed
<1>7. Filed' = [i \in 1 .. Len(written) + 1 |-> Append(written, e)[i].line]
  BY <1>1 DEF Filed
<1>8. \A i \in 1 .. Len(written) + 1 : Append(written, e)[i].line = Append(Filed, e.line)[i]
  BY <1>1, <1>4, <1>6
<1>9. Append(Filed, e.line) = [i \in 1 .. Len(written) + 1 |-> Append(Filed, e.line)[i]]
  BY <1>4
<1>10. QED
  BY <1>7, <1>8, <1>9

(* What holds of a sequence and a line more held of the sequence.          *)
LEMMA LineDropped ==
  ASSUME NEW q \in Seq(Line), NEW l \in Line
  PROVE  /\ InOrder(Append(q, l)) => InOrder(q)
         /\ \A m : Numbered(Append(q, l), m) => Numbered(q, m)
         /\ \A t, m : Older(Append(q, l), t, m) => Older(q, t, m)
         /\ \A s : Before(Append(q, l), s) => Before(q, s)
<1>1. /\ Len(q) \in Nat
      /\ DOMAIN q = 1 .. Len(q) /\ DOMAIN Append(q, l) = 1 .. Len(q) + 1
      /\ \A i \in 1 .. Len(q) : Append(q, l)[i] = q[i]
  BY AppendLine
<1>2. \A i \in DOMAIN q : i \in DOMAIN Append(q, l) /\ Append(q, l)[i] = q[i]
  BY <1>1
<1>3. QED
  BY <1>2 DEF InOrder, Numbered, Older, Before
-----------------------------------------------------------------------------
(* The steps.                                                              *)

LEMMA LogInvInit == EasylogInit => LogInv
<1> SUFFICES ASSUME EasylogInit PROVE LogInv
  OBVIOUS
<1> USE DEF EasylogInit
<1>1. LogTypes
  BY DEF LogTypes, Node, File, Closed, Job, NoJob, NoLine, Opening, Places, States
<1>2. /\ DOMAIN logq = {} /\ DOMAIN screen = {} /\ DOMAIN written = {} /\ DOMAIN Filing = {}
      /\ Len(logq) = 0
  BY DEF Filing, Filed, Opening
<1>3. Ordered
  BY <1>2 DEF Ordered, Shelf, Numbered, InOrder, Before, Older
<1>4. InHand /\ Opened
  BY DEF InHand, Opened, Busy
<1>5. Backlog /\ Dated /\ Forward
  BY <1>2 DEF Backlog, Dated, Forward, Opening
<1>6. NoLineInAnOldFile
  BY <1>2 DEF NoLineInAnOldFile
<1>7. QED
  BY <1>1, <1>3, <1>4, <1>5, <1>6 DEF LogInv

(* Steps that move no line and make none.                                  *)
LEMMA OrderKept ==
  ASSUME Ordered, UNCHANGED <<logq, screen, Filing, lines>>,
         \A t \in Loggers : logger'[t] \in Busy => logger[t] \in Busy /\ line'[t].n = line[t].n
  PROVE  Ordered'
BY DEF Ordered, Shelf, Numbered, InOrder, Older, Before

LEMMA FilesKept ==
  ASSUME NoLineInAnOldFile, UNCHANGED written
  PROVE  NoLineInAnOldFile'
BY DEF NoLineInAnOldFile, InFileOfItsDay, MonthSilent, ClockSetBack, OpenedOverMidnight

(* A line in time goes to the end of the files.                            *)
LEMMA LineInTime ==
  ASSUME NoLineInAnOldFile, written \in Seq(Entry), NEW e \in Entry, InTime(e),
         written' = Append(written, e)
  PROVE  NoLineInAnOldFile'
<1>1. /\ Len(written) \in Nat
      /\ DOMAIN written = 1 .. Len(written) /\ DOMAIN written' = 1 .. Len(written) + 1
      /\ written'[Len(written) + 1] = e
      /\ \A i \in 1 .. Len(written) : written'[i] = written[i]
  BY AppendLine
<1>2. \A i \in DOMAIN written' : (i \in DOMAIN written /\ written'[i] = written[i]) \/ written'[i] = e
  BY <1>1
<1>3. \A i \in DOMAIN written : InTime(written[i])
  BY DEF NoLineInAnOldFile, InTime
<1>4. \A i \in DOMAIN written' : InTime(written'[i])
  BY <1>2, <1>3
<1>5. QED
  BY <1>4 DEF NoLineInAnOldFile, InTime, InFileOfItsDay, MonthSilent, ClockSetBack, OpenedOverMidnight

(* The clock goes forward.                                                 *)
LEMMA TimePasses ==
  ASSUME LogInv, now' \in Nat, now <= now',
         UNCHANGED <<stime, logq, pushedAt, lpc, job, logger, line, lines, screen, written>>,
         node' \in [Levels -> Node], Opened'
  PROVE  LogInv'
<1> USE DEF LogInv
<1>1. LogTypes'
  BY DEF LogTypes
<1>2. Filing' = Filing
  BY DEF Filing, Filed
<1>3. Ordered' /\ NoLineInAnOldFile'
  BY <1>2, OrderKept, FilesKept
<1>4. InHand'
  <2> SUFFICES ASSUME NEW t \in Loggers, logger[t] \in Busy PROVE line[t].time <= now'
    BY DEF InHand
  <2>1. line[t].time \in Nat /\ line[t].time <= now
    BY DEF InHand, Line
  <2>2. QED
    BY <2>1 DEF LogTypes
<1>5. Backlog' /\ Forward'
  BY DEF Backlog, Forward
<1>6. Dated'
  <2>1. \A i \in 1 .. Len(logq) : logq[i] \in Line
    BY DEF LogTypes
  <2>2. \A i \in 1 .. Len(logq) : logq[i].time \in Nat
    BY <2>1 DEF Line
  <2>3. lpc \in Opening => job.line.time \in Nat /\ job.named \in Nat
    BY DEF LogTypes, Line, Job
  <2>4. now \in Nat /\ (lpc = "launch" => lpc \in Opening)
    BY DEF LogTypes, Opening
  <2>5. QED
    BY <2>2, <2>3, <2>4 DEF Dated
<1>7. QED
  BY <1>1, <1>3, <1>4, <1>5, <1>6

LEMMA LogTick == LogInv /\ Tick => LogInv'
<1> SUFFICES ASSUME LogInv, Tick PROVE LogInv'
  OBVIOUS
<1>1. now \in Nat /\ now' = now + 1 /\ node' = node /\ node \in [Levels -> Node]
  BY DEF LogInv, LogTypes, Tick
<1>2. Opened'
  BY <1>1 DEF LogInv, Opened, OpenFile, Node, File
<1>3. QED
  BY <1>1, <1>2, TimePasses DEF Tick

LEMMA LogConfigured ==
  LogInv /\ ((\E level \in FileLevels : set_tofile(level)) \/ set_tostdout(GLOBAL, FALSE)) => LogInv'
<1> SUFFICES ASSUME LogInv, NEW level, set_tofile(level) \/ set_tostdout(level, FALSE) PROVE LogInv'
  OBVIOUS
<1>1. now \in Nat /\ \A l \in Levels : node[l] \in Node
  BY DEF LogInv, LogTypes
<1>2. MaxSetup \in Nat
  BY EasylogAssumption
<1>3. now' \in Nat /\ now <= now'
  BY <1>1, <1>2 DEF set_tofile, set_tostdout
<1>4. UNCHANGED <<stime, logq, pushedAt, lpc, job, logger, line, lines, screen, written>>
  BY DEF set_tofile, set_tostdout
<1>5. ASSUME NEW l \in Levels
      PROVE  node'[l] \in Node /\ (node'[l].fs # Closed => OpenFile(node'[l].fs, now'))
  <2>1. node[l] \in Node /\ (node[l].fs # Closed => OpenFile(node[l].fs, now))
    BY <1>1 DEF LogInv, Opened
  <2>2. ASSUME NEW n \in Node, n.fs = node[l].fs, node'[l] = n
        PROVE  node'[l] \in Node /\ (node'[l].fs # Closed => OpenFile(node'[l].fs, now'))
    <3>1. n.fs.named \in Int /\ n.fs.launch \in Nat
      BY <2>2 DEF Node, File
    <3>2. QED
      BY <1>1, <1>3, <2>1, <2>2, <3>1 DEF OpenFile
  <2>3. CASE set_tofile(level)
    <3> DEFINE todo == {k \in Levels : (k \in Selected(level) \/ node[k].filename) /\ node[k].fs = Closed}
               n == [node[l] EXCEPT !.filename = l \in Selected(level) \/ @]
    <3>1. PICK named \in [todo -> now .. now + MaxSetup], launch \in [todo -> now .. now + MaxSetup],
               ok \in [todo -> BOOLEAN] :
            /\ \A k \in todo : named[k] <= launch[k] /\ launch[k] <= now'
            /\ node'[l] = IF l \in todo THEN openfile(n, named[l], launch[l], ok[l]) ELSE n
      BY <2>3 DEF set_tofile
    <3>2. n \in Node /\ n.fs = node[l].fs
      BY <2>1 DEF Node
    <3>3. CASE l \in todo
      <4>1. /\ named[l] \in Nat /\ launch[l] \in Nat /\ ok[l] \in BOOLEAN
            /\ named[l] <= launch[l] /\ launch[l] <= now'
        BY <1>1, <1>2, <3>1, <3>3
      <4> HIDE DEF n
      <4>2. node'[l] = [n EXCEPT !.fs = [named |-> named[l], launch |-> launch[l], ok |-> ok[l]]]
        BY <3>1, <3>3 DEF openfile
      <4>3. QED
        BY <3>2, <4>1, <4>2 DEF Node, File, OpenFile
    <3>4. CASE l \notin todo
      <4>1. node'[l] = n
        BY <3>1, <3>4
      <4> HIDE DEF n
      <4>2. QED
        BY <2>2, <3>2, <4>1
    <3>5. QED
      BY <3>3, <3>4
  <2>4. CASE set_tostdout(level, FALSE)
    <3>1. node'[l] = node[l] \/ node'[l] = [node[l] EXCEPT !.to_stdout = FALSE]
      BY <2>4 DEF set_tostdout
    <3>2. node'[l] \in Node /\ node'[l].fs = node[l].fs
      BY <2>1, <3>1 DEF Node
    <3>3. QED
      BY <2>2, <3>2
  <2>5. QED
    BY <2>3, <2>4
<1>6. DOMAIN node' = Levels /\ node' = [l \in Levels |-> node'[l]]
  BY DEF set_tofile, set_tostdout
<1>7. node' \in [Levels -> Node]
  BY <1>5, <1>6
<1>8. Opened'
  BY <1>5 DEF Opened
<1>9. QED
  BY <1>3, <1>4, <1>7, <1>8, TimePasses

(* A new line: its number is larger than any before it.                    *)
LEMMA LogMessage ==
  ASSUME LogInv, NEW t \in Loggers, NEW level \in Levels, EasylogMessage(t, level)
  PROVE  LogInv'
<1> USE DEF LogInv
<1> DEFINE l == [by |-> t, n |-> lines + 1, level |-> level, time |-> now]
<1>1. /\ lines' = lines + 1 /\ logger[t] = "idle"
      /\ line' = [line EXCEPT ![t] = l] /\ logger' = [logger EXCEPT ![t] = "store"]
      /\ UNCHANGED <<now, stime, node, logq, pushedAt, lpc, job, screen, written>>
  BY DEF EasylogMessage
<1>2. now \in Nat /\ stime \in Nat /\ stime <= now /\ lines \in Nat
  BY DEF LogTypes
<1>3. Filing' = Filing /\ Filing \in Seq(Line)
  <2>1. Filed \in Seq(Line)
    BY FiledLines DEF LogTypes
  <2>2. QED
    BY <1>1, <2>1 DEF Filing, Filed, LogTypes
<1>4. l \in Line /\ l.by = t /\ l.n = lines + 1 /\ l.time = now
  BY <1>2 DEF Line
<1> HIDE DEF l
<1>5. /\ line'[t] = l /\ logger'[t] = "store"
      /\ \A u \in Loggers : u # t => line'[u] = line[u] /\ logger'[u] = logger[u]
  BY <1>1 DEF LogTypes
<1>6. LogTypes'
  <2>1. logger' \in [Loggers -> States] /\ DOMAIN line' = Loggers
    BY <1>1 DEF LogTypes, States
  <2>2. QED
    BY <1>1, <1>2, <2>1 DEF LogTypes
<1>7. ASSUME NEW q \in Seq(Line), q' = q, Shelf(q)
      PROVE  Shelf(q)'
  <2>1. \A i \in DOMAIN q : q[i] \in Line
    OBVIOUS
  <2>2. \A i \in DOMAIN q : q[i].n \in Nat
    BY <2>1 DEF Line
  <2>3. Numbered(q, lines + 1) /\ Older(q, t, lines + 1)
    BY <1>2, <1>7, <2>2 DEF Shelf, Numbered, Older
  <2>4. ASSUME NEW u \in Loggers, logger'[u] \in Busy PROVE Older(q, u, line'[u].n)
    BY <1>4, <1>5, <1>7, <2>3, <2>4 DEF Shelf
  <2>5. QED
    BY <1>1, <1>7, <2>3, <2>4 DEF Shelf, InOrder, Numbered, Older
<1>8. logq \in Seq(Line) /\ screen \in Seq(Line)
  BY DEF LogTypes
<1>9. Ordered'
  <2>1. Shelf(logq)' /\ Shelf(screen)'
    BY <1>1, <1>7, <1>8 DEF Ordered
  <2>2. Shelf(Filing)'
    BY <1>3, <1>7 DEF Ordered
  <2>3. QED
    BY <1>1, <1>3, <2>1, <2>2 DEF Ordered, Before
<1>10. InHand'
  <2> SUFFICES ASSUME NEW u \in Loggers, logger'[u] \in Busy
               PROVE  line'[u] \in Line /\ line'[u].by = u /\ line'[u].n <= lines + 1 /\ line'[u].time <= now
    BY <1>1 DEF InHand
  <2>1. CASE u = t
    BY <1>2, <1>4, <1>5, <2>1
  <2>2. CASE u # t
    <3>1. line[u].n \in Nat /\ line[u].n <= lines
      BY <1>5, <2>2 DEF InHand, Line
    <3>2. QED
      BY <1>2, <1>5, <2>2, <3>1 DEF InHand
  <2>3. QED
    BY <2>1, <2>2
<1>11. Forward'
  BY <1>1, <1>2, <1>4, <1>5 DEF Forward, Alone
<1>12. Backlog' /\ Dated' /\ Opened' /\ NoLineInAnOldFile'
  BY <1>1, FilesKept DEF Backlog, Dated, Opened
<1>13. QED
  BY <1>6, <1>9, <1>10, <1>11, <1>12

(* sTime is stored, by one thread alone never backwards.                   *)
LEMMA LogStore ==
  ASSUME LogInv, NEW t \in Loggers, sTimeNow(t)
  PROVE  LogInv'
<1> USE DEF LogInv
<1>1. /\ stime' = line[t].time /\ logger[t] = "store" /\ logger' = [logger EXCEPT ![t] = "stamp"]
      /\ UNCHANGED <<now, node, logq, pushedAt, lpc, job, line, lines, screen, written>>
  BY DEF sTimeNow
<1>2. line[t] \in Line /\ line[t].time \in Nat /\ line[t].time <= now
  BY <1>1 DEF InHand, Line, Busy
<1>3. /\ logger' \in [Loggers -> States]
      /\ \A u \in Loggers : logger'[u] \in Busy => logger[u] \in Busy
      /\ \A u \in Loggers : logger'[u] \in {"store", "push"} => u # t /\ logger'[u] = logger[u]
  BY <1>1 DEF LogTypes, States, Busy
<1>4. LogTypes'
  BY <1>1, <1>2, <1>3 DEF LogTypes
<1>5. Filing' = Filing
  BY <1>1 DEF Filing, Filed
<1>6. Ordered' /\ NoLineInAnOldFile'
  BY <1>1, <1>3, <1>5, OrderKept, FilesKept
<1>7. InHand' /\ Backlog' /\ Dated' /\ Opened'
  BY <1>1, <1>3 DEF InHand, Backlog, Dated, Opened
<1>8. Forward'
  <2> SUFFICES ASSUME Alone
               PROVE  /\ \A i \in 1 .. Len(logq) : logq[i].time <= stime'
                      /\ \A u \in Loggers : logger'[u] \notin {"store", "push"}
    BY <1>1 DEF Forward, Alone
  <2>1. stime <= line[t].time
    BY <1>1 DEF Forward
  <2>2. \A i \in 1 .. Len(logq) : logq[i] \in Line
    BY DEF LogTypes
  <2>3. \A i \in 1 .. Len(logq) : logq[i].time \in Nat /\ logq[i].time <= stime
    BY <2>2 DEF Line, Forward
  <2>4. QED
    BY <1>1, <1>2, <1>3, <2>1, <2>3 DEF Alone, LogTypes
<1>9. QED
  BY <1>4, <1>6, <1>7, <1>8

LEMMA LogStamp ==
  ASSUME LogInv, NEW t \in Loggers, Stamp(t)
  PROVE  LogInv'
<1> USE DEF LogInv
<1> DEFINE kept == ~logStop /\ line[t].level >= threshold
<1>1. /\ logger[t] = "stamp"
      /\ line' = [line EXCEPT ![t] = IF kept THEN [@ EXCEPT !.time = stime] ELSE NoLine]
      /\ logger' = [logger EXCEPT ![t] = IF kept THEN "push" ELSE "idle"]
      /\ UNCHANGED <<now, stime, node, logq, pushedAt, lpc, job, lines, screen, written>>
  BY DEF Stamp
<1> HIDE DEF kept
<1>2. line[t] \in Line /\ stime \in Nat /\ stime <= now
  BY <1>1 DEF InHand, Busy, LogTypes
<1>3. /\ logger' \in [Loggers -> States] /\ DOMAIN line' = Loggers
      /\ \A u \in Loggers : u # t => line'[u] = line[u] /\ logger'[u] = logger[u]
      /\ logger'[t] \in Busy => logger'[t] = "push" /\ line'[t] = [line[t] EXCEPT !.time = stime]
  BY <1>1 DEF LogTypes, States, Busy
<1>4. LogTypes'
  BY <1>1, <1>3 DEF LogTypes
<1>5. logger'[t] \in Busy =>
        line'[t] \in Line /\ line'[t].n = line[t].n /\ line'[t].by = line[t].by /\ line'[t].time = stime
  BY <1>2, <1>3 DEF Line
<1>6. Filing' = Filing
  BY <1>1 DEF Filing, Filed
<1>7. \A u \in Loggers : logger'[u] \in Busy => logger[u] \in Busy /\ line'[u].n = line[u].n
  BY <1>1, <1>3, <1>5 DEF Busy
<1>8. Ordered' /\ NoLineInAnOldFile'
  BY <1>1, <1>6, <1>7, OrderKept, FilesKept
<1>9. InHand'
  BY <1>1, <1>2, <1>3, <1>5, <1>7 DEF InHand
<1>10. Forward'
  <2> SUFFICES ASSUME Alone, NEW u \in Loggers
               PROVE  /\ logger'[u] # "store"
                      /\ logger'[u] = "push" => line'[u].time <= stime
    BY <1>1 DEF Forward, Alone
  <2>1. u = t
    BY DEF Alone
  <2>2. logger'[t] \in {"push", "idle"}
    BY <1>1 DEF LogTypes
  <2>3. QED
    BY <1>2, <1>5, <2>1, <2>2 DEF Busy
<1>11. Backlog' /\ Dated' /\ Opened'
  BY <1>1 DEF Backlog, Dated, Opened
<1>12. QED
  BY <1>4, <1>8, <1>9, <1>10, <1>11

(* log_message: the line goes to the end of the queue.                     *)
LEMMA LogPush ==
  ASSUME LogInv, NEW t \in Loggers, log_message(t)
  PROVE  LogInv'
<1> USE DEF LogInv
<1> DEFINE l == line[t]
<1>1. /\ logger[t] = "push" /\ logq' = Append(logq, l) /\ pushedAt' = Append(pushedAt, lpc)
      /\ logger' = [logger EXCEPT ![t] = "notify"]
      /\ UNCHANGED <<now, stime, node, lpc, job, line, lines, screen, written>>
  BY DEF log_message
<1>2. /\ l \in Line /\ l.by = t /\ l.n <= lines /\ l.time <= now
      /\ Older(logq, t, l.n) /\ Older(screen, t, l.n) /\ Older(Filing, t, l.n)
  BY <1>1 DEF InHand, Ordered, Shelf, Busy
<1>3. /\ logq \in Seq(Line) /\ screen \in Seq(Line) /\ Filing \in Seq(Line) /\ Filing' = Filing
      /\ lines \in Nat
  <2>1. Filed \in Seq(Line)
    BY FiledLines DEF LogTypes
  <2>2. QED
    BY <1>1, <2>1 DEF Filing, Filed, LogTypes
<1> HIDE DEF l
<1>4. /\ logq' \in Seq(Line) /\ Len(logq) \in Nat /\ Len(logq') = Len(logq) + 1
      /\ logq'[Len(logq) + 1] = l /\ \A i \in 1 .. Len(logq) : logq'[i] = logq[i]
  BY <1>1, <1>2, <1>3, AppendLine
<1>5. /\ pushedAt' \in Seq(Places) /\ Len(pushedAt') = Len(logq) + 1
      /\ pushedAt'[Len(logq) + 1] = lpc /\ \A i \in 1 .. Len(logq) : pushedAt'[i] = pushedAt[i]
  <2>1. pushedAt \in Seq(Places) /\ lpc \in Places /\ Len(pushedAt) = Len(logq)
    BY DEF LogTypes
  <2>2. QED
    BY <1>1, <2>1, AppendLine
<1>6. /\ logger' \in [Loggers -> States]
      /\ \A u \in Loggers : logger'[u] \in Busy => u # t /\ logger[u] \in Busy
      /\ \A u \in Loggers : logger'[u] \in {"store", "push"} => logger'[u] = logger[u]
  BY <1>1 DEF LogTypes, States, Busy
<1>7. LogTypes'
  BY <1>1, <1>4, <1>5, <1>6 DEF LogTypes
<1>8. Shelf(logq)'
  <2>1. InOrder(logq') /\ Numbered(logq', lines)
    BY <1>1, <1>2, <1>3, LineAppended, LineBounded DEF Ordered, Shelf
  <2>2. ASSUME NEW u \in Loggers, logger'[u] \in Busy PROVE Older(logq', u, line[u].n)
    <3>1. u # t /\ Older(logq, u, line[u].n) /\ line[u].n \in Nat
      BY <1>6, <2>2 DEF Ordered, Shelf, InHand, Line
    <3>2. QED
      BY <1>1, <1>2, <1>3, <3>1, LineBounded
  <2>3. QED
    BY <1>1, <2>1, <2>2 DEF Shelf
<1>9. Shelf(screen)' /\ Shelf(Filing)'
  BY <1>1, <1>3, <1>6 DEF Ordered, Shelf
<1>10. Before(screen, logq') /\ Before(Filing, logq')
  BY <1>1, <1>2, <1>3, LineBounded DEF Ordered
<1>11. Ordered'
  BY <1>1, <1>3, <1>8, <1>9, <1>10 DEF Ordered
<1>12. InHand'
  BY <1>1, <1>6 DEF InHand
<1>13. Backlog'
  BY <1>1, <1>4, <1>5 DEF Backlog
<1>14. Dated'
  BY <1>1, <1>2, <1>4 DEF Dated
<1>15. Forward'
  <2>1. Alone => l.time <= stime
    BY <1>1 DEF Forward, l
  <2>2. QED
    BY <1>1, <1>4, <1>6, <2>1 DEF Forward, Alone
<1>16. Opened' /\ NoLineInAnOldFile'
  BY <1>1, FilesKept DEF Opened
<1>17. QED
  BY <1>7, <1>11, <1>12, <1>13, <1>14, <1>15, <1>16

(* Notifying and stopping, and the log thread's waiting.                   *)
LEMMA LogWaking ==
  ASSUME LogInv,
         \/ \E t \in Loggers : Notify(t) \/ LogStop(t) \/ LogStopNotify(t) \/ LogJoin(t)
         \/ LogWait
  PROVE  LogInv'
<1> USE DEF LogInv
<1>1. UNCHANGED <<now, stime, node, logq, pushedAt, job, lines, screen, written>>
  BY DEF Notify, LogStop, LogStopNotify, LogJoin, LogWait
<1>2. /\ lpc' \in Places
      /\ lpc' \in {"check", "exit"} => lpc \in {"check", "exit"}
      /\ lpc' \in Opening \/ lpc \in Opening => lpc' = lpc
  BY DEF Notify, LogStop, LogStopNotify, LogJoin, LogWait, Notified, LogTypes, Places, Opening
<1>3. /\ logger' \in [Loggers -> States]
      /\ DOMAIN line' = Loggers
      /\ \A u \in Loggers : logger'[u] \in Busy => logger'[u] = logger[u] /\ line'[u] = line[u]
  <2>1. CASE LogWait
    BY <2>1 DEF LogWait, LogTypes
  <2>2. CASE \E t \in Loggers : Notify(t) \/ LogStop(t) \/ LogStopNotify(t) \/ LogJoin(t)
    <3>1. PICK t \in Loggers : Notify(t) \/ LogStop(t) \/ LogStopNotify(t) \/ LogJoin(t)
      BY <2>2
    <3>2. CASE Notify(t)
      <4>1. /\ logger' = [logger EXCEPT ![t] = IF line[t].level = PANIC THEN "stop" ELSE "idle"]
            /\ line' = [line EXCEPT ![t] = NoLine]
        BY <3>2 DEF Notify
      <4>2. \A u \in Loggers : u # t => line'[u] = line[u]
        BY <4>1
      <4>3. QED
        BY <4>1, <4>2 DEF LogTypes, States, Busy
    <3>3. CASE LogStop(t) \/ LogStopNotify(t) \/ LogJoin(t)
      BY <3>3 DEF LogStop, LogStopNotify, LogJoin, LogTypes, States, Busy
    <3>4. QED
      BY <3>1, <3>2, <3>3
  <2>3. QED
    BY <2>1, <2>2
<1>4. LogTypes'
  BY <1>1, <1>2, <1>3 DEF LogTypes
<1>5. Filing' = Filing
  BY <1>1, <1>2 DEF Filing, Filed
<1>6. Ordered' /\ NoLineInAnOldFile'
  BY <1>1, <1>3, <1>5, OrderKept, FilesKept
<1>7. InHand' /\ Backlog' /\ Opened'
  BY <1>1, <1>2, <1>3 DEF InHand, Backlog, Opened
<1>8. Dated'
  BY <1>1, <1>2 DEF Dated, Opening
<1>9. Forward'
  BY <1>1, <1>3 DEF Forward, Alone, Busy
<1>10. QED
  BY <1>4, <1>6, <1>7, <1>8, <1>9

(* logProcess: the head of the queue goes to the end of the screen, and of *)
(* the lines in the files and on their way there.                          *)
LEMMA LogTakes ==
  ASSUME LogInv, logProcess, logq # <<>>
  PROVE  LogInv'
<1> USE DEF LogInv
<1> DEFINE l == Head(logq)
           fs == node[l.level].fs
           e == [line |-> l, file |-> fs, seen |-> stime]
<1>1. /\ send_to_stdout(l) /\ send_to_file(l) /\ logq' = Tail(logq) /\ pushedAt' = Tail(pushedAt)
      /\ lpc = "look" /\ UNCHANGED <<now, stime, node, logger, line, lines>>
  BY DEF logProcess, pop_front
<1>2. /\ logq \in Seq(Line) /\ screen \in Seq(Line) /\ Filed \in Seq(Line) /\ written \in Seq(Entry)
      /\ lines \in Nat /\ stime \in Nat /\ now \in Nat /\ job \in Job
      /\ pushedAt \in Seq(Places) /\ Len(pushedAt) = Len(logq)
  BY FiledLines DEF LogTypes
<1>3. Filing = Filed
  BY <1>1 DEF Filing, Opening
<1>4. /\ l \in Line /\ logq' \in Seq(Line) /\ Len(logq) \in Nat \ {0} /\ Len(logq') = Len(logq) - 1 /\ l = logq[1]
      /\ \A i \in 1 .. Len(logq) - 1 : Tail(logq)[i] = logq[i + 1] /\ i + 1 \in 1 .. Len(logq)
  BY <1>1, <1>2, TailLines
<1>5. pushedAt' \in Seq(Places) /\ Len(pushedAt') = Len(logq')
  <2>1. pushedAt # <<>>
    BY <1>2, <1>4
  <2>2. QED
    BY <1>1, <1>2, <1>4, <2>1, TailLines
<1>6. /\ InOrder(logq') /\ Before(<<l>>, logq')
      /\ Numbered(logq', lines) /\ l.n <= lines
      /\ \A t, m : Older(logq, t, m) => Older(logq', t, m) /\ (l.by = t => l.n < m)
      /\ Before(screen, logq') /\ Older(screen, l.by, l.n)
      /\ Before(Filed, logq') /\ Older(Filed, l.by, l.n)
  BY <1>1, <1>2, <1>3, HeadTaken DEF Ordered, Shelf
<1>7. /\ l.level \in Levels /\ l.by \in Loggers /\ l.n \in Nat /\ l.time \in Nat /\ l.time <= now
      /\ Alone => l.time <= stime
  <2>1. l.level \in Levels /\ l.by \in Loggers /\ l.n \in Nat /\ l.time \in Nat
    BY <1>4 DEF Line
  <2>2. 1 \in 1 .. Len(logq)
    BY <1>4
  <2>3. QED
    BY <1>4, <2>1, <2>2 DEF Dated, Forward
<1>8. fs \in File /\ e \in Entry /\ e.line = l /\ e.file = fs /\ e.seen = stime
  <2>1. node[l.level] \in Node
    BY <1>7 DEF LogTypes
  <2>2. fs \in File
    BY <2>1 DEF Node
  <2> HIDE DEF fs, l
  <2>3. QED
    BY <1>2, <1>4, <2>2 DEF Entry
<1>9. /\ job' \in Job
      /\ \/ lpc' = "look" /\ UNCHANGED <<job, written>>
         \/ lpc' = "name" /\ job'.line = l /\ UNCHANGED written
         \/ lpc' = "look" /\ written' = Append(written, e) /\ InTime(e) /\ UNCHANGED job
  <2>1. CASE fs = Closed
    BY <1>1, <1>2, <2>1 DEF send_to_file
  <2>2. CASE fs # Closed /\ autosplit_file(fs)
    <3>1. lpc' = "name" /\ job' = [NoJob EXCEPT !.line = l, !.seen = stime] /\ written' = written
      BY <1>1, <2>2 DEF send_to_file
    <3> HIDE DEF l
    <3>2. job' \in Job /\ job'.line = l
      BY <1>2, <1>4, <3>1 DEF Job, NoJob
    <3>3. QED
      BY <3>1, <3>2
  <2>3. CASE fs # Closed /\ ~autosplit_file(fs)
    <3>1. lpc' = lpc /\ job' = job /\ written' = Put(l, fs, stime)
      BY <1>1, <2>3 DEF send_to_file
    <3>2. fs.named \in Nat
      BY <1>7, <2>3 DEF Opened, OpenFile
    <3>3. mday(e.seen) = mday(e.file.launch)
      BY <1>8, <2>3 DEF autosplit_file
    <3>4. InTime(e)
      BY <1>7, <1>8, <3>2, <3>3, FileKept
    <3>5. written' = Append(written, e) \/ written' = written
      BY <3>1 DEF Put
    <3>6. QED
      BY <1>1, <1>2, <3>1, <3>4, <3>5
  <2>4. QED
    BY <2>1, <2>2, <2>3
<1>10. screen' = screen \/ screen' = Append(screen, l)
  BY <1>1 DEF send_to_stdout
<1> HIDE DEF e, fs, l
<1>11. Filing' = Filed \/ Filing' = Append(Filed, l)
  <2>1. CASE lpc' = "look" /\ written' = written
    BY <2>1 DEF Filing, Filed, Opening
  <2>2. CASE lpc' = "name" /\ job'.line = l /\ written' = written
    <3>1. Filed' = Filed
      BY <2>2 DEF Filed
    <3>2. QED
      BY <2>2, <3>1 DEF Filing, Opening
  <2>3. CASE lpc' = "look" /\ written' = Append(written, e)
    <3>1. Filed' = Append(Filed, l)
      BY <1>2, <1>8, <2>3, LineFiled
    <3>2. QED
      BY <2>3, <3>1 DEF Filing, Opening
  <2>4. QED
    BY <1>9, <2>1, <2>2, <2>3
<1>12. ASSUME NEW s \in Seq(Line), NEW s2, s2 = s \/ s2 = Append(s, l),
             InOrder(s), Numbered(s, lines), Before(s, logq'), Older(s, l.by, l.n)
       PROVE  /\ s2 \in Seq(Line) /\ InOrder(s2) /\ Numbered(s2, lines) /\ Before(s2, logq')
              /\ \A t \in Loggers, m \in Nat : Older(s, t, m) /\ (l.by = t => l.n < m) => Older(s2, t, m)
  <2>1. CASE s2 = s
    BY <1>12, <2>1
  <2>2. CASE s2 = Append(s, l)
    <3>1. s2 \in Seq(Line)
      BY <1>4, <2>2, AppendLine
    <3>2. InOrder(s2)
      BY <1>4, <1>12, <2>2, LineAppended
    <3>3. QED
      BY <1>2, <1>4, <1>6, <1>12, <2>2, <3>1, <3>2, LineBounded
  <2>3. QED
    BY <1>12, <2>1, <2>2
<1>13. /\ screen' \in Seq(Line) /\ InOrder(screen') /\ Numbered(screen', lines) /\ Before(screen', logq')
       /\ \A t \in Loggers, m \in Nat : Older(screen, t, m) /\ (l.by = t => l.n < m) => Older(screen', t, m)
  BY <1>2, <1>6, <1>10, <1>12 DEF Ordered, Shelf
<1>14. /\ InOrder(Filing') /\ Numbered(Filing', lines) /\ Before(Filing', logq')
       /\ \A t \in Loggers, m \in Nat : Older(Filed, t, m) /\ (l.by = t => l.n < m) => Older(Filing', t, m)
  BY <1>2, <1>3, <1>6, <1>11, <1>12 DEF Ordered, Shelf
<1>15. LogTypes'
  <2>1. written' \in Seq(Entry)
    <3>1. Append(written, e) \in Seq(Entry)
      BY <1>2, <1>8, AppendLine
    <3>2. QED
      BY <1>2, <1>9, <3>1
  <2>2. lpc' \in Places /\ (lpc' \in Opening => job'.line \in Line)
    BY <1>4, <1>9 DEF Places, Opening
  <2>3. QED
    BY <1>1, <1>4, <1>5, <1>9, <1>13, <2>1, <2>2 DEF LogTypes
<1>16. ASSUME NEW t \in Loggers, logger[t] \in Busy
       PROVE  Older(logq', t, line[t].n) /\ Older(screen', t, line[t].n) /\ Older(Filing', t, line[t].n)
  <2>1. /\ Older(logq, t, line[t].n) /\ Older(screen, t, line[t].n) /\ Older(Filed, t, line[t].n)
        /\ line[t].n \in Nat
    BY <1>3, <1>16 DEF Ordered, Shelf, InHand, Line
  <2>2. QED
    BY <1>6, <1>13, <1>14, <2>1
<1>17. Ordered'
  BY <1>1, <1>6, <1>13, <1>14, <1>16 DEF Ordered, Shelf
<1>18. InHand' /\ Opened'
  BY <1>1 DEF InHand, Opened
<1>19. Backlog'
  BY <1>9 DEF Backlog
<1>20. Dated' /\ Forward'
  <2>1. lpc' # "launch" /\ (lpc' \in Opening => job'.line = l)
    BY <1>9 DEF Opening
  <2>2. QED
    BY <1>1, <1>4, <1>7, <2>1 DEF Dated, Forward, Alone
<1>21. NoLineInAnOldFile'
  BY <1>2, <1>8, <1>9, LineInTime, FilesKept
<1>22. QED
  BY <1>15, <1>17, <1>18, <1>19, <1>20, <1>21

(* logProcess: it finds the queue empty.                                   *)
LEMMA LogFindsNothing ==
  ASSUME LogInv, logProcess, logq = <<>>
  PROVE  LogInv'
<1> USE DEF LogInv
<1>1. /\ lpc = "look" /\ lpc' = "check"
      /\ UNCHANGED <<now, stime, node, logq, pushedAt, job, logger, line, lines, screen, written>>
  BY DEF logProcess
<1>2. LogTypes'
  BY <1>1 DEF LogTypes, Places, Opening
<1>3. Filing' = Filing
  BY <1>1 DEF Filing, Filed, Opening
<1>4. Ordered' /\ NoLineInAnOldFile'
  BY <1>1, <1>3, OrderKept, FilesKept
<1>5. InHand' /\ Opened' /\ Forward'
  BY <1>1 DEF InHand, Opened, Forward, Alone
<1>6. Len(logq) = 0
  OBVIOUS
<1>7. Backlog' /\ Dated'
  BY <1>1, <1>6 DEF Backlog, Dated, Opening
<1>8. QED
  BY <1>2, <1>4, <1>5, <1>7

(* openfile takes the name: the clock is not behind the line.              *)
LEMMA LogNames == LogInv /\ OpenNamed => LogInv'
<1> SUFFICES ASSUME LogInv, OpenNamed PROVE LogInv'
  OBVIOUS
<1> USE DEF LogInv
<1>1. PICK ok \in BOOLEAN : job' = [job EXCEPT !.named = now, !.ok = ok]
  BY DEF OpenNamed
<1>2. /\ lpc = "name" /\ lpc' = "launch"
      /\ UNCHANGED <<now, stime, node, logq, pushedAt, logger, line, lines, screen, written>>
  BY DEF OpenNamed
<1>3. now \in Nat /\ job \in Job
  BY DEF LogTypes
<1>4. job' \in Job /\ job'.line = job.line /\ job'.named = now
  BY <1>1, <1>3 DEF Job
<1>5. LogTypes'
  BY <1>2, <1>4 DEF LogTypes, Places, Opening
<1>6. Filing' = Filing
  BY <1>2, <1>4 DEF Filing, Filed, Opening
<1>7. Ordered' /\ NoLineInAnOldFile'
  BY <1>2, <1>6, OrderKept, FilesKept
<1>8. InHand' /\ Opened' /\ Forward' /\ Backlog'
  BY <1>2 DEF InHand, Opened, Forward, Alone, Backlog
<1>9. Dated'
  BY <1>2, <1>3, <1>4 DEF Dated, Opening
<1>10. QED
  BY <1>5, <1>7, <1>8, <1>9

(* openfile is done, and the line is in the new file or in none.           *)
LEMMA LogLaunches == LogInv /\ OpenLaunched => LogInv'
<1> SUFFICES ASSUME LogInv, OpenLaunched PROVE LogInv'
  OBVIOUS
<1> USE DEF LogInv
<1> DEFINE l == job.line
           fs == [named |-> job.named, launch |-> now, ok |-> job.ok]
           e == [line |-> l, file |-> fs, seen |-> job.seen]
<1>1. /\ lpc = "launch" /\ lpc' = "look" /\ job' = NoJob
      /\ node' = [node EXCEPT ![l.level] = openfile(@, job.named, now, job.ok)]
      /\ written' = Put(l, node'[l.level].fs, job.seen)
      /\ UNCHANGED <<now, stime, logq, pushedAt, logger, line, lines, screen>>
  BY DEF OpenLaunched
<1>2. /\ now \in Nat /\ job \in Job /\ l \in Line /\ written \in Seq(Entry) /\ Filed \in Seq(Line)
      /\ node \in [Levels -> Node]
  BY <1>1, FiledLines DEF LogTypes, Opening
<1>3. l.level \in Levels /\ l.time <= job.named /\ job.named <= now /\ job.named \in Nat
  BY <1>1, <1>2 DEF Line, Dated, Job
<1>4. fs \in File /\ OpenFile(fs, now) /\ fs.named = job.named
  BY <1>2, <1>3 DEF File, OpenFile, Job
<1>5. /\ node'[l.level] = [node[l.level] EXCEPT !.fs = fs]
      /\ \A k \in Levels : k # l.level => node'[k] = node[k]
  BY <1>1, <1>2, <1>3 DEF openfile
<1>6. node[l.level] \in Node
  BY <1>2, <1>3
<1> HIDE DEF fs, l
<1>7. node'[l.level] \in Node /\ node'[l.level].fs = fs
  BY <1>4, <1>5, <1>6 DEF Node
<1>8. node' \in [Levels -> Node]
  BY <1>1, <1>2, <1>5, <1>7
<1>9. Opened'
  BY <1>1, <1>4, <1>5, <1>7 DEF Opened
<1>10. e \in Entry /\ e.line = l /\ e.file = fs
  BY <1>2, <1>4 DEF Entry, Job
<1>11. written' = written \/ written' = Append(written, e)
  BY <1>1, <1>7 DEF Put
<1>12. InTime(e)
  BY <1>3, <1>4, <1>10, FileNew
<1> HIDE DEF e
<1>13. NoLineInAnOldFile'
  BY <1>2, <1>10, <1>11, <1>12, LineInTime, FilesKept
<1>14. LogTypes'
  <2>1. written' \in Seq(Entry)
    BY <1>2, <1>10, <1>11, AppendLine
  <2>2. job' \in Job
    BY <1>1 DEF Job, NoJob
  <2>3. QED
    BY <1>1, <1>8, <2>1, <2>2 DEF LogTypes, Places, Opening
<1>15. Filing = Append(Filed, l) /\ Filing' = Filed'
  BY <1>1 DEF Filing, Opening, l
<1>16. Filing' = Filing \/ Filing' = Filed
  <2>1. CASE written' = written
    BY <1>15, <2>1 DEF Filed
  <2>2. CASE written' = Append(written, e)
    BY <1>2, <1>10, <1>15, <2>2, LineFiled
  <2>3. QED
    BY <1>11, <2>1, <2>2
<1>17. Ordered'
  <2>1. CASE Filing' = Filing
    BY <1>1, <2>1, OrderKept
  <2>2. CASE Filing' = Filed
    <3>1. Shelf(Filed) /\ Before(Filed, logq)
      BY <1>2, <1>15, LineDropped DEF Ordered, Shelf
    <3>2. QED
      BY <1>1, <2>2, <3>1 DEF Ordered, Shelf, Numbered, Older, InOrder, Before
  <2>3. QED
    BY <1>16, <2>1, <2>2
<1>18. InHand' /\ Forward' /\ Backlog' /\ Dated'
  BY <1>1 DEF InHand, Forward, Alone, Backlog, Dated, Opening
<1>19. QED
  BY <1>9, <1>13, <1>14, <1>17, <1>18

LEMMA LogStep == LogInv /\ [EasylogNext]_logVars => LogInv'
<1> SUFFICES ASSUME LogInv, [EasylogNext]_logVars PROVE LogInv'
  OBVIOUS
<1>1. CASE Tick
  BY <1>1, LogTick
<1>2. CASE (\E level \in FileLevels : set_tofile(level)) \/ set_tostdout(GLOBAL, FALSE)
  BY <1>2, LogConfigured
<1>3. CASE \E t \in Loggers : \E level \in Levels : EasylogMessage(t, level)
  BY <1>3, LogMessage
<1>4. CASE \E t \in Loggers : sTimeNow(t) \/ Stamp(t) \/ log_message(t)
  BY <1>4, LogStore, LogStamp, LogPush
<1>5. CASE \/ \E t \in Loggers : Notify(t) \/ LogStop(t) \/ LogStopNotify(t) \/ LogJoin(t)
           \/ LogWait
  BY <1>5, LogWaking
<1>6. CASE logProcess
  BY <1>6, LogTakes, LogFindsNothing
<1>7. CASE OpenNamed \/ OpenLaunched
  BY <1>7, LogNames, LogLaunches
<1>8. CASE UNCHANGED logVars
  <2>1. LogTypes' /\ InHand' /\ Opened' /\ Backlog' /\ Dated' /\ Forward'
    BY <1>8 DEF LogInv, LogTypes, InHand, Opened, Backlog, Dated, Forward, Alone, logVars
  <2>2. Filing' = Filing
    BY <1>8 DEF Filing, Filed, logVars
  <2>3. QED
    BY <1>8, <2>1, <2>2, OrderKept, FilesKept DEF LogInv, logVars
<1>9. QED
  BY <1>1, <1>2, <1>3, <1>4, <1>5, <1>6, <1>7, <1>8 DEF EasylogNext

(* The invariant the two theorems rest on.                                 *)
THEOREM LogInvariant == EasylogSpec => []LogInv
BY LogInvInit, LogStep, PTL DEF EasylogSpec

(* What a thread logs appears once and in its order on the screen and in   *)
(* the files, with the lines that wait behind it, and what still waits     *)
(* when logProcess has returned was pushed after it last found _logQueue   *)
(* empty: stop() waits for the backlog.                                    *)
THEOREM LogBacklogWritten == EasylogSpec => []BacklogWritten
<1>1. LogInv => BacklogWritten
  <2> SUFFICES ASSUME LogInv PROVE BacklogWritten
    OBVIOUS
  <2>1. /\ logq \in Seq(Line) /\ screen \in Seq(Line) /\ Filed \in Seq(Line)
        /\ lpc \in Opening => job.line \in Line
    BY FiledLines DEF LogInv, LogTypes
  <2>2. Filing \in Seq(Line) /\ Filing = Filed \o Held
    BY <2>1 DEF Filing, Held, Opening
  <2>3. InOrder(screen \o logq) /\ InOrder(Filing \o logq)
    BY <2>1, <2>2, OrderedTogether DEF LogInv, Ordered, Shelf
  <2>4. DOMAIN logq = 1 .. Len(logq)
    BY <2>1
  <2>5. QED
    BY <2>2, <2>3, <2>4 DEF LogInv, Backlog, BacklogWritten, Filed
<1>2. QED
  BY <1>1, LogInvariant, PTL

(* send_to_file never writes a line to the file of a day before the line's *)
(* own, in local time, but in the hours when the UTC day is still the old  *)
(* one, when a second thread has set the unlocked sTime back, when         *)
(* openfile took its two readings of the clock on two days, or after a     *)
(* month (as autosplit_file counts it) without a line of the level.        *)
THEOREM LogNoLineInAnOldFile == EasylogSpec => []NoLineInAnOldFile
BY LogInvariant, PTL DEF LogInv
=============================================================================
