----------------------------- MODULE SocketClient -----------------------------
(***************************************************************************)
(* SocketClient (src/src/socket/SocketClient.cpp): one connection to a     *)
(* server, kept by three threads.  The program's thread connects, sends,   *)
(* receives and stops; a WorkerProcess owns the registered socket; a retry *)
(* thread, started by connect(.., 0) and whenever the connection is lost,  *)
(* tries until it has a new one.                                           *)
(*                                                                         *)
(* The worker's loop is modelled as far as the others wait for it: it      *)
(* tests _stop, empties its queue and waits in epoll_wait(-1), where only  *)
(* an event or a signal that comes while it waits wakes it.                *)
(***************************************************************************)
EXTENDS Integers, Sequences

CONSTANTS
  ClientFds,      \* descriptor numbers
  SocketIds,      \* bound: sockets told apart before an identity is used again
  SocketFails,    \* whether ::socket may fail
  MaxSends        \* bound: messages sent

ASSUME SocketClientAssumption ==
  /\ ClientFds \subseteq Nat /\ ClientFds # {}
  /\ SocketIds \in Nat \ {0} /\ SocketFails \in BOOLEAN /\ MaxSends \in Nat

NoFd == -1

VARIABLES
  clStop, clActive, clBusy, clFd,  \* _stop, _active, _connect_in_progress, _fd
  retry,      \* the retry thread: "none", "loop", "sleep", "connecting" or "done"
  program,    \* the program's thread: "new", "run", "send", "stop", "delete", "end"
  sendFd,     \* the descriptor a call of sendMessage has read
  file,       \* file[s]: the socket that is open as s, 0 for none
  owned,      \* owned[s]: the worker has s in its table
  wpc,        \* the worker's thread: "loop", "handle", "poll", "wait" or "exit"
  clSendq, clReadq,  \* the worker's _sendQueue, _readQueue
  made, sends,       \* the last socket created, messages sent
  arrived     \* messages that left: <<current socket at the call, socket used>>

clientState == <<clStop, clActive, clBusy, clFd>>
kernel == <<file, made>>
clVars == <<clientState, retry, program, sendFd, kernel, owned, wpc, clSendq, clReadq, sends, arrived>>

SocketClientInit ==
  /\ clStop = TRUE /\ clActive = FALSE /\ clBusy = FALSE /\ clFd = NoFd
  /\ retry = "none" /\ program = "new" /\ sendFd = NoFd
  /\ file = [s \in ClientFds |-> 0] /\ made = 0
  /\ owned = [s \in ClientFds |-> FALSE] /\ wpc = "loop"
  /\ clSendq = <<>> /\ clReadq = <<>> /\ sends = 0 /\ arrived = {}

(* The kernel: the lowest free number; SafeClose of a number.              *)
NewFd == CHOOSE s \in ClientFds : file[s] = 0 /\ \A t \in ClientFds : file[t] = 0 => s <= t
Current == IF clFd \in ClientFds THEN file[clFd] ELSE 0
SafeClose(f, s) == IF s \in ClientFds THEN [f EXCEPT ![s] = 0] ELSE f

(* pushMessage: the message, then pthread_kill, which finds the worker in  *)
(* epoll_wait or is lost.  (A signal that comes later than the message     *)
(* could only wake a worker that has taken it.)                            *)
Wake == wpc' = IF wpc = "wait" THEN "loop" ELSE wpc
pushMessage(m) == clSendq' = Append(clSendq, m) /\ Wake
addSocket(s) == pushMessage([op |-> "new", s |-> s])

(* ::socket in connectServer, once the other checks have been passed.      *)
CreateSocket ==
  /\ made' = (made % SocketIds) + 1
  /\ file' = [file EXCEPT ![NewFd] = made']
  /\ clFd' = NewFd

-----------------------------------------------------------------------------
(* The program's thread.  connect() with a timeout waits for the outcome;  *)
(* without one it leaves the work to the retry thread.                     *)

clConnect(ok) ==
  /\ program = "new" /\ clStop
  /\ clStop' = FALSE
  /\ \/ CreateSocket /\ UNCHANGED clBusy
     \/ SocketFails /\ ~ok /\ clFd' = NoFd /\ clBusy' = TRUE /\ UNCHANGED kernel
  /\ clActive' = ok
  /\ IF ok THEN addSocket(NewFd) ELSE UNCHANGED <<clSendq, wpc>>
  /\ program' = "run"
  /\ UNCHANGED <<retry, sendFd, owned, clReadq, sends, arrived>>

clConnectAsync ==
  /\ program = "new" /\ clStop
  /\ clStop' = FALSE
  /\ retry' = "loop"
  /\ program' = "run"
  /\ UNCHANGED <<clActive, clBusy, clFd, sendFd, kernel, owned, wpc, clSendq, clReadq, sends, arrived>>

(* receiveMessage: the close of the current socket starts the retry thread *)
(* again, after the last one has been joined.                              *)
clReceive ==
  /\ program = "run" /\ clReadq # <<>>
  /\ clReadq' = Tail(clReadq)
  /\ IF Head(clReadq).op = "close" /\ Head(clReadq).s = clFd
     THEN /\ retry \in {"none", "done"}
          /\ clActive' = FALSE /\ retry' = "loop"
     ELSE UNCHANGED <<clActive, retry>>
  /\ UNCHANGED <<clStop, clBusy, clFd, program, sendFd, kernel, owned, wpc, clSendq, sends, arrived>>

(* sendMessage reads _fd, then queues the message.                         *)
clSendRead ==
  /\ program = "run" /\ sends < MaxSends
  /\ sendFd' = clFd
  /\ program' = "send"
  /\ UNCHANGED <<clientState, retry, kernel, owned, wpc, clSendq, clReadq, sends, arrived>>

clSendPush ==
  /\ program = "send"
  /\ pushMessage([op |-> "message", s |-> sendFd, current |-> Current])
  /\ sends' = sends + 1
  /\ program' = "run"
  /\ UNCHANGED <<clientState, retry, sendFd, kernel, owned, clReadq, arrived>>

clBeginStop ==
  /\ program = "run" /\ ~clStop
  /\ clStop' = TRUE
  /\ program' = "stop"
  /\ UNCHANGED <<clActive, clBusy, clFd, retry, sendFd, kernel, owned, wpc, clSendq, clReadq, sends, arrived>>

(* stop(): the retry thread is joined; ~WorkerProcess sets the worker's    *)
(* _stop and signals it.                                                   *)
clDeleteWorker ==
  /\ program = "stop" /\ retry \in {"none", "done"}
  /\ retry' = "none" /\ program' = "delete"
  /\ Wake
  /\ UNCHANGED <<clientState, sendFd, kernel, owned, clSendq, clReadq, sends, arrived>>

(* What ~WorkerProcess closes: its table, and descriptors in its queue.    *)
ClosedByWorker ==
  {s \in ClientFds : owned[s] \/ \E i \in DOMAIN clSendq : clSendq[i].op = "new" /\ clSendq[i].s = s}

(* The worker's thread is joined, its sockets and queue released, the read *)
(* queue drained, _fd closed.                                              *)
clEndStop ==
  /\ program = "delete" /\ wpc = "exit"
  /\ file' = SafeClose([s \in ClientFds |-> IF s \in ClosedByWorker THEN 0 ELSE file[s]], clFd)
  /\ owned' = [s \in ClientFds |-> FALSE]
  /\ clSendq' = <<>> /\ clReadq' = <<>> /\ clFd' = NoFd
  /\ program' = "end"
  /\ UNCHANGED <<clStop, clActive, clBusy, retry, sendFd, made, wpc, sends, arrived>>

-----------------------------------------------------------------------------
(* The retry thread.                                                       *)

(* Fault: the loop does not look at isstop().                              *)
retryLoopNoStop ==
  /\ retry = "loop"
  /\ IF ~clActive
     THEN /\ file' = SafeClose(file, clFd) /\ clFd' = NoFd
          /\ retry' = "sleep"
          /\ UNCHANGED <<clSendq, wpc>>
     ELSE /\ addSocket(clFd)
          /\ retry' = "done"
          /\ UNCHANGED <<file, clFd>>
  /\ UNCHANGED <<clStop, clActive, clBusy, program, sendFd, made, owned, clReadq, sends, arrived>>

(* Fault: the socket of the attempt that failed is forgotten, not closed.  *)
retryLoopKeepsFd ==
  /\ retry = "loop"
  /\ IF ~clStop /\ ~clActive
     THEN /\ clFd' = NoFd
          /\ retry' = "sleep"
          /\ UNCHANGED <<clSendq, wpc, file>>
     ELSE /\ IF clActive THEN addSocket(clFd) ELSE UNCHANGED <<clSendq, wpc>>
          /\ retry' = "done"
          /\ UNCHANGED <<file, clFd>>
  /\ UNCHANGED <<clStop, clActive, clBusy, program, sendFd, made, owned, clReadq, sends, arrived>>

(* The head of the loop: the last socket is closed (again, if the worker   *)
(* has), or the new one goes to the worker and the thread ends.            *)
retryLoop ==
  /\ retry = "loop"
  /\ IF ~clStop /\ ~clActive
     THEN /\ file' = SafeClose(file, clFd) /\ clFd' = NoFd
          /\ retry' = "sleep"
          /\ UNCHANGED <<clSendq, wpc>>
     ELSE /\ IF clActive THEN addSocket(clFd) ELSE UNCHANGED <<clSendq, wpc>>
          /\ retry' = "done"
          /\ UNCHANGED <<file, clFd>>
  /\ UNCHANGED <<clStop, clActive, clBusy, program, sendFd, made, owned, clReadq, sends, arrived>>

(* connectServer: a socket is created and connect() begins.                *)
connectServer ==
  /\ retry = "sleep" /\ ~clBusy
  /\ clBusy' = TRUE
  /\ CreateSocket
  /\ retry' = "connecting"
  /\ UNCHANGED <<clStop, clActive, program, sendFd, owned, wpc, clSendq, clReadq, sends, arrived>>

(* The attempt ends in connectServer: there is no socket, and the progress *)
(* flag stays set; or an earlier attempt has left it so.                   *)
NoAttempt ==
  /\ retry = "sleep"
  /\ \/ clBusy /\ UNCHANGED <<clBusy, clFd>>
     \/ ~clBusy /\ SocketFails /\ clBusy' = TRUE /\ clFd' = NoFd
  /\ retry' = "loop"
  /\ UNCHANGED <<clStop, clActive, program, sendFd, kernel, owned, wpc, clSendq, clReadq, sends, arrived>>

(* connectSignal returns.                                                  *)
Connecting(ok) ==
  /\ retry = "connecting"
  /\ clBusy' = FALSE
  /\ clActive' = ok
  /\ retry' = "loop"
  /\ UNCHANGED <<clStop, clFd, program, sendFd, kernel, owned, wpc, clSendq, clReadq, sends, arrived>>

-----------------------------------------------------------------------------
(* The worker's thread.                                                    *)
WorkerElse == <<clientState, retry, program, sendFd, kernel, owned, clSendq, clReadq, sends, arrived>>

(* The head of its loop: while (!isstop()).                                *)
workerLoop ==
  /\ wpc = "loop"
  /\ wpc' = IF program = "delete" THEN "exit" ELSE "handle"
  /\ UNCHANGED WorkerElse

(* The queue is found empty; from here to epoll_wait a signal is lost.     *)
workerPoll ==
  /\ \/ wpc = "handle" /\ clSendq = <<>> /\ wpc' = "poll"
     \/ wpc = "poll" /\ wpc' = "wait"
  /\ UNCHANGED WorkerElse

(* Data or room on the connection wakes it, too.                           *)
workerEvent ==
  /\ wpc = "wait" /\ \E s \in ClientFds : owned[s]
  /\ wpc' = "loop"
  /\ UNCHANGED WorkerElse

(* One message of its queue.                                               *)

(* Fault: the queue is a stack.                                            *)
TakenNewest == [msg |-> clSendq[Len(clSendq)], rest |-> SubSeq(clSendq, 1, Len(clSendq) - 1)]

Taken == [msg |-> Head(clSendq), rest |-> Tail(clSendq)]

clWorker ==
  /\ wpc = "handle" /\ clSendq # <<>>
  /\ LET m == Taken.msg IN
       \/ /\ m.op = "new"
          /\ owned' = [owned EXCEPT ![m.s] = TRUE]
          /\ clReadq' = Append(clReadq, [op |-> "establish", s |-> m.s])
          /\ UNCHANGED arrived
       \/ /\ m.op = "message"
          /\ arrived' = arrived \cup {<<m.current, file[s]>> :
                            s \in {t \in ClientFds : owned[t] /\ (m.s = t \/ m.s = NoFd)}}
          /\ UNCHANGED <<owned, clReadq>>
  /\ clSendq' = Taken.rest
  /\ UNCHANGED <<clientState, retry, program, sendFd, kernel, wpc, sends>>

(* The end of its connection, which a send or epoll_wait finds.            *)
removeOwned(s) ==
  /\ owned[s] /\ wpc \in {"handle", "wait"}
  /\ Wake
  /\ owned' = [owned EXCEPT ![s] = FALSE]
  /\ file' = [file EXCEPT ![s] = 0]
  /\ clReadq' = Append(clReadq, [op |-> "close", s |-> s])
  /\ UNCHANGED <<clientState, retry, program, sendFd, made, clSendq, sends, arrived>>

-----------------------------------------------------------------------------
clRetry == retryLoop \/ connectServer \/ NoAttempt \/ \E ok \in BOOLEAN : Connecting(ok)

SocketClientNext ==
  \/ \E ok \in BOOLEAN : clConnect(ok)
  \/ clConnectAsync \/ clReceive \/ clSendRead \/ clSendPush
  \/ clBeginStop \/ clDeleteWorker \/ clEndStop
  \/ clRetry \/ workerLoop \/ clWorker \/ workerPoll \/ workerEvent
  \/ \E s \in ClientFds : removeOwned(s)

SocketClientSpec == SocketClientInit /\ [][SocketClientNext]_clVars

-----------------------------------------------------------------------------
(* The client has at most one socket open, whichever threads are at work,  *)
(* the worker has no other, and a client that was stopped has none: every  *)
(* socket the retry thread or connect() made is closed by someone.         *)
OneSocket ==
  /\ \A s, t \in ClientFds : file[s] # 0 /\ file[t] # 0 => s = t
  /\ \A s \in ClientFds : owned[s] => file[s] # 0
  /\ program = "end" => \A s \in ClientFds : file[s] = 0

(* A message never reaches a later connection than the one that was        *)
(* current when it was queued: what is sent while there is none is dropped *)
(* (queued with descriptor -1, or a number not registered yet), although   *)
(* numbers are reused and -1 means every connection.                       *)
NoCarryOver == \A x \in arrived : x[1] = x[2]

(* stop() returns, whether or not the server can be reached and whatever   *)
(* the retry thread is doing, unless the signal of ~WorkerProcess came     *)
(* between the worker's last look at its queue and epoll_wait: then it     *)
(* waits, and stop() for it, until something happens on the connection.    *)
SignalLost == program = "delete" /\ wpc = "wait"
StopReturns == program = "stop" ~> program = "end" \/ SignalLost
=============================================================================
