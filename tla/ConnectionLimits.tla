-------------------------- MODULE ConnectionLimits --------------------------
(***************************************************************************)
(* The limits a worker enforces on one connection: Socket::receivedMessage *)
(* and recentMessage count messages in a ring of COUNT_MESSAGE_SPAN        *)
(* seconds, and WorkerProcess::checkSocket removes a connection that was   *)
(* silent for too long or sent too much.  checkSocket runs once per round  *)
(* of the worker's loop, and the loop sleeps in epoll_wait without a       *)
(* timeout, so it only runs when something else wakes the worker.          *)
(***************************************************************************)
EXTENDS Integers, FiniteSets

CONSTANTS
  Span,       \* COUNT_MESSAGE_SPAN
  Silence,    \* BUNDLE_SOL_SILENCE_SECOND, 0 for no limit
  Threshold,  \* BUNDLE_SOL_THRESHOLD_MESSAGE, 0 for no limit
  Interval,   \* BUNDLE_SOL_THRESHOLD_INTERVAL, 0 for no limit
  MaxSeconds, \* bound: the clock
  MaxPerSec   \* bound: messages in one second

ASSUME LimitsAssumption ==
  /\ Span \in Nat \ {0}
  /\ {Silence, Threshold, Interval, MaxSeconds, MaxPerSec} \subseteq Nat

VARIABLES
  second,      \* currentSecond()
  count,       \* _countMessage
  lastSecond,  \* _lastSecond
  received,    \* received[t]: messages received in second t (history)
  awake,       \* the worker has been woken and will run checkSocket
  removed      \* why the connection was removed: "no", "silence", "overflow"

limVars == <<second, count, lastSecond, received, awake, removed>>

LimitsTypeOK ==
  /\ second \in 0 .. MaxSeconds
  /\ count \in [0 .. Span - 1 -> Nat]
  /\ lastSecond \in 0 .. second
  /\ received \in [0 .. MaxSeconds -> Nat]
  /\ awake \in BOOLEAN
  /\ removed \in {"no", "silence", "overflow"}

LimitsInit ==
  /\ second = 0
  /\ count = [i \in 0 .. Span - 1 |-> 0]
  /\ lastSecond = 0
  /\ received = [t \in 0 .. MaxSeconds |-> 0]
  /\ awake = FALSE
  /\ removed = "no"

(* The sum of the values of f: as many pairs <<x, k>> as f[x] has units k.  *)
Units(f) == UNION {{x} \X (1 .. f[x]) : x \in DOMAIN f}
Total(f) == Cardinality(Units(f))

(* Fault: recentMessage starts at the previous second.                      *)
recentMessageSkipsNow ==
  Total([n \in 1 .. Interval |-> count[(second - n) % Span]])

(* recentMessage(Interval): the ring's slots for the last Interval seconds, *)
(* counting back modulo Span (u64 arithmetic: the clock is far from 0).    *)
recentMessage ==
  Total([n \in 0 .. Interval - 1 |-> count[(second - n) % Span]])

(* The messages that did arrive in the last d seconds.                     *)
Recent(d) == Total([t \in {u \in 0 .. second : second - u < d} |-> received[t]])

SecondPasses ==
  /\ second < MaxSeconds
  /\ second' = second + 1
  /\ UNCHANGED <<count, lastSecond, received, awake, removed>>

(* Fault: a message does not renew the time stamp.                          *)
receivedMessageNoStamp ==
  /\ removed = "no"
  /\ received[second] < MaxPerSec
  /\ count' = [count EXCEPT ![second % Span] = @ + 1]
  /\ received' = [received EXCEPT ![second] = @ + 1]
  /\ awake' = TRUE
  /\ UNCHANGED <<second, lastSecond, removed>>

(* A complete message arrives (receivedMessage); the event wakes the       *)
(* worker, whose next round runs checkSocket.                              *)
receivedMessage ==
  /\ removed = "no"
  /\ received[second] < MaxPerSec
  /\ lastSecond' = second
  /\ count' = [count EXCEPT ![second % Span] = @ + 1]
  /\ received' = [received EXCEPT ![second] = @ + 1]
  /\ awake' = TRUE
  /\ UNCHANGED <<second, removed>>

(* Another connection's event or a request of the main thread wakes the    *)
(* worker.                                                                 *)
OtherEvent ==
  /\ ~awake
  /\ awake' = TRUE
  /\ UNCHANGED <<second, count, lastSecond, received, removed>>

checkSocket ==
  /\ awake
  /\ awake' = FALSE
  /\ removed' =
       IF removed # "no" THEN removed
       ELSE IF Silence > 0 /\ second - lastSecond >= Silence THEN "silence"
       ELSE IF Threshold > 0 /\ Interval > 0 /\ recentMessage > Threshold THEN "overflow"
       ELSE "no"
  /\ UNCHANGED <<second, count, lastSecond, received>>

LimitsNext == SecondPasses \/ receivedMessage \/ OtherEvent \/ checkSocket

LimitsSpec == LimitsInit /\ [][LimitsNext]_limVars

(* Time passes and a woken worker runs; nobody has to wake it.             *)
LimitsFairSpec == LimitsSpec /\ WF_limVars(SecondPasses) /\ WF_limVars(checkSocket)
-----------------------------------------------------------------------------
(* Properties.                                                             *)

(* The ring never counts too little: a connection that sends more than     *)
(* Threshold messages within Interval seconds is always noticed by the     *)
(* next check, wherever the window lies in the ring.                       *)
NeverUndercounts == Interval <= Span => recentMessage >= Recent(Interval)

(* A connection is removed for silence only if it was silent.              *)
SilenceIsReal ==
  [][removed' = "silence" /\ removed = "no" => Recent(Silence) = 0]_limVars

(* A connection is removed for sending too much only if it did.            *)
OverflowIsReal ==
  [][removed' = "overflow" /\ removed = "no" => Recent(Interval) > Threshold]_limVars
=============================================================================
