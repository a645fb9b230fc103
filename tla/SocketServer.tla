---------------------------- MODULE SocketServer ----------------------------
(***************************************************************************)
(* The socket server (src/src/socket/SocketServer.cpp): WorkerNumber + 1   *)
(* WorkerProcess threads and the application's thread, which takes events  *)
(* from the shared read queue, passes accepted descriptors on to workers,  *)
(* and sends, closes, sets options and stops through the workers' queues.  *)
(***************************************************************************)
EXTENDS WorkerProcess

CONSTANTS
  Api,         \* the calls the application makes besides receiveMessage
  MaxCalls,    \* bound: how often it sends, closes or sets an option
  OptionSets   \* the <<option, value>> pairs setsockopt is called with

ASSUME ServerAssumption ==
  /\ Api \subseteq {"close", "sendMessage", "setsockopt", "stop"}
  /\ MaxCalls \in Nat
  /\ OptionSets \subseteq (Options \X Nat)

VARIABLES
  mpc,      \* what the application's thread is doing
  target,   \* the worker it is about to push to, to signal or to stop
  last,     \* the last worker it has to push to
  request,  \* what it pushes
  calls,    \* calls made so far
  (* what the application knows from the events it was given *)
  view,     \* view[s]: the connection it takes s for
  status,   \* status[c]: whether c was announced and closed, or an event
            \* about c did not fit what the application knew ("bogus")
  heard     \* heard[c]: pairs <<origin, number>> of the messages it took for c's

mainVars == <<mpc, target, last, request, calls, view, status, heard>>
vars == <<kernelVars, workerVars, mainVars>>

Sessions == Conns \cup {Listener}

MainPCs == {"idle", "push", "kill", "stopflag", "stopkill", "join", "drain",
            "stopped"}

TypeOK ==
  /\ WorkerTypeOK
  /\ mpc \in MainPCs
  /\ target \in Workers
  /\ last \in Workers
  /\ request \in Message
  /\ calls \in Nat
  /\ view \in [Fds -> Files]
  /\ status \in [Files -> {"new", "open", "ended", "bogus"}]
  /\ heard \in [Files -> Seq(Files \X Nat)]

NoRequest == allocateMessage(0, "MESSAGE", None, 0)

(* start() has created the threads and is about to hand the listening      *)
(* socket to the master.                                                   *)
Init ==
  /\ WorkerInit
  /\ mpc = "push"
  /\ target = 0
  /\ last = 0
  /\ request = allocateMessage(ListenFd, "NEW_LISTENING", Listener, 0)
  /\ calls = 0
  /\ view = [s \in Fds |-> None]
  /\ status = [c \in Files |-> "new"]
  /\ heard = [c \in Files |-> <<>>]
-----------------------------------------------------------------------------
(* Fault: the modulus counts the master too.                                *)
RouteOffByOne(s) == IF WorkerNumber = 0 THEN 0 ELSE (s % (WorkerNumber + 1)) + 1

(* Fault: the disabled branch of getWorkerProcess.                          *)
RouteLeastConnections(s) ==
  CHOOSE w \in Workers : \A v \in Workers : total[w] <= total[v]

(* getWorkerProcess: the master alone, or a worker fixed by the number.    *)
getWorkerProcess(s) == IF WorkerNumber = 0 THEN 0 ELSE (s % WorkerNumber) + 1

(* pushMessage, first half: m is queued for w; the signal is still to come. *)
Enqueue(w, m) ==
  /\ sendQueue' = [sendQueue EXCEPT ![w] = Append(@, m)]
  /\ target' = w
  /\ mpc' = "kill"

(* Everything of a worker that the application's thread leaves alone when  *)
(* it only queues requests.                                                *)
OthersUnchanged ==
  UNCHANGED <<kernelVars, sockets, total, opts, rcvd, stop, threadVars>>

(* The loop of setsockopt over all workers, and start()'s addSocket.       *)
PushMessage ==
  /\ mpc = "push"
  /\ Enqueue(target, request)
  /\ OthersUnchanged
  /\ UNCHANGED <<readQueue, last, request, calls, view, status, heard>>

(* pushMessage, second half: pthread_kill.                                 *)
PushSignal ==
  /\ mpc = "kill"
  /\ Wake(target)
  /\ IF target < last
     THEN mpc' = "push" /\ target' = target + 1 /\ UNCHANGED <<last, request>>
     ELSE mpc' = "idle" /\ target' = 0 /\ last' = 0 /\ request' = NoRequest
  /\ UNCHANGED <<kernelVars, sockets, total, opts, rcvd, sendQueue, readQueue, stop,
                 cur, back, lost, batch, calls, view, status, heard>>

(* What the application learns from an event.                              *)
Learn(m) ==
  \/ /\ m.op = "ESTABLISH"
     /\ view' = [view EXCEPT ![m.s] = m.c]
     /\ status' = [status EXCEPT ![m.c] = IF view[m.s] = None THEN "open" ELSE "bogus"]
     /\ UNCHANGED heard
  \/ /\ m.op = "CLOSE"
     /\ view' = [view EXCEPT ![m.s] = None]
     /\ status' = [status EXCEPT ![m.c] = IF view[m.s] = m.c THEN "ended" ELSE "bogus"]
     /\ UNCHANGED heard
  \/ /\ m.op = "MESSAGE"
     /\ heard' = [heard EXCEPT ![view[m.s]] = Append(@, <<m.c, m.n>>)]
     /\ UNCHANGED <<view, status>>

(* receiveMessage: events go to the application, an accepted descriptor to *)
(* the worker that is to own it.  Only this thread takes from the queue.   *)
receiveMessage ==
  LET m == Head(readQueue) IN
  /\ mpc = "idle"
  /\ readQueue # <<>>
  /\ readQueue' = Tail(readQueue)
  /\ IF m.op = "NEW_SOCKET"
     THEN /\ Enqueue(getWorkerProcess(m.s), m)
          /\ last' = getWorkerProcess(m.s)
          /\ UNCHANGED <<view, status, heard>>
     ELSE /\ Learn(m)
          /\ UNCHANGED <<sendQueue, mpc, target, last>>
  /\ OthersUnchanged
  /\ UNCHANGED <<request, calls>>

(* The application closes, or writes to, a number it takes for a           *)
(* connection.                                                             *)
AppRequest(op) ==
  /\ mpc = "idle"
  /\ calls < MaxCalls
  /\ calls' = calls + 1
  /\ \E s \in Fds :
       /\ view[s] # None
       /\ Enqueue(getWorkerProcess(s), allocateMessage(s, op, view[s], 0))
       /\ last' = getWorkerProcess(s)
  /\ OthersUnchanged
  /\ UNCHANGED <<readQueue, request, view, status, heard>>

close == "close" \in Api /\ AppRequest("CLOSE")
sendMessage == "sendMessage" \in Api /\ AppRequest("MESSAGE")

setsockopt ==
  /\ "setsockopt" \in Api
  /\ mpc = "idle"
  /\ calls < MaxCalls
  /\ calls' = calls + 1
  /\ \E o \in OptionSets : request' = allocateMessage(o[1], "SOL", None, o[2])
  /\ mpc' = "push"
  /\ target' = 0
  /\ last' = WorkerNumber
  /\ OthersUnchanged
  /\ UNCHANGED <<sendQueue, readQueue, view, status, heard>>
-----------------------------------------------------------------------------
(* stop(): the workers are destroyed one after the other.                  *)

Stop ==
  /\ "stop" \in Api
  /\ mpc = "idle"
  /\ mpc' = "stopflag"
  /\ target' = 0
  /\ UNCHANGED <<kernelVars, workerVars, last, request, calls, view, status, heard>>

(* WorkerProcess::stop sets the flag, ...                                  *)
StopFlag ==
  /\ mpc = "stopflag"
  /\ stop' = [stop EXCEPT ![target] = TRUE]
  /\ mpc' = "stopkill"
  /\ UNCHANGED <<kernelVars, sockets, total, opts, rcvd, sendQueue, readQueue, threadVars,
                 target, last, request, calls, view, status, heard>>

(* ... signals the thread, ...                                             *)
StopSignal ==
  /\ mpc = "stopkill"
  /\ Wake(target)
  /\ mpc' = "join"
  /\ UNCHANGED <<kernelVars, sockets, total, opts, rcvd, sendQueue, readQueue, stop,
                 cur, back, lost, batch,
                 target, last, request, calls, view, status, heard>>

(* ... waits for it to end, closes its sockets and those still on their    *)
(* way to it.                                                              *)
Owned(w) == {s \in Fds : sockets[w][s] # "null"}
(* Fault: stop() does not close the descriptors still on their way.         *)
ArrivingForgotten(w) == {}

Arriving(w) == {sendQueue[w][i].s : i \in {j \in 1 .. Len(sendQueue[w]) :
                                             sendQueue[w][j].op = "NEW_SOCKET"}}

Join ==
  /\ mpc = "join"
  /\ pc[target] = "exit"
  /\ CloseFiles(Owned(target) \cup Arriving(target))
  /\ sockets' = [sockets EXCEPT ![target] = [s \in Fds |-> "null"]]
  /\ sendQueue' = [sendQueue EXCEPT ![target] = <<>>]
  /\ IF target < WorkerNumber
     THEN mpc' = "stopflag" /\ target' = target + 1
     ELSE mpc' = "drain" /\ UNCHANGED target
  /\ UNCHANGED <<total, opts, rcvd, readQueue, stop, threadVars,
                 last, request, calls, view, status, heard>>

(* The rest of stop(): the events nobody took are released, and the        *)
(* listening descriptor is closed (again: its worker already has).         *)
Drain ==
  /\ mpc = "drain"
  /\ readQueue' = <<>>
  /\ CloseFiles({ListenFd})
  /\ mpc' = "stopped"
  /\ UNCHANGED <<sockets, total, opts, rcvd, sendQueue, stop, threadVars,
                 target, last, request, calls, view, status, heard>>

Call == close \/ sendMessage \/ setsockopt \/ Stop
Main == PushMessage \/ PushSignal \/ receiveMessage \/ StopFlag \/ StopSignal \/ Join \/ Drain

Next ==
  \/ Client /\ UNCHANGED mainVars
  \/ \E w \in Workers : Worker(w) /\ UNCHANGED mainVars
  \/ Main
  \/ Call

Spec == Init /\ [][Next]_vars

(* Threads that can run are run; clients and the application need do       *)
(* nothing.                                                                *)
Fairness ==
  /\ \A w \in Workers : WF_vars(Worker(w) /\ UNCHANGED mainVars)
  /\ WF_vars(Main)

FairSpec == Spec /\ Fairness
-----------------------------------------------------------------------------
(* Properties.                                                             *)

Events == INSTANCE ConnectionEvents

(* The events receiveMessage returns implement the abstract contract: on   *)
(* every descriptor number they form sessions ESTABLISH MESSAGE* CLOSE,    *)
(* each about one connection, with its messages complete and in order,     *)
(* although the numbers are reused and worker threads race to push events. *)
SessionsWellFormed == Events!EventsSpec

(* Who is responsible for descriptor s: a worker whose table has it, a     *)
(* request that carries it to a worker, an accepted descriptor waiting in  *)
(* the read queue, or start() before it has handed over the listening one. *)
Carries(m, s) == m.op \in {"NEW_SOCKET", "NEW_LISTENING"} /\ m.s = s

Owners(s) ==
  {<<"table", w, 0>> : w \in {v \in Workers : sockets[v][s] # "null"}}
  \cup (UNION {{<<"send", w, i>> : i \in {j \in 1 .. Len(sendQueue[w]) : Carries(sendQueue[w][j], s)}} :
                w \in Workers})
  \cup {<<"read", 0, i>> : i \in {j \in 1 .. Len(readQueue) : Carries(readQueue[j], s)}}
  \cup (IF mpc = "push" /\ Carries(request, s) THEN {<<"start", 0, 0>>} ELSE {})

(* Until stop() throws the read queue away, every open descriptor has      *)
(* exactly one owner and no owner has a closed one: no descriptor leaks,   *)
(* and a worker never closes or registers a number that has meanwhile been *)
(* given to somebody else.  (The listening descriptor also belongs to the  *)
(* server object, which closes it at the end of stop().)                   *)
OneOwner ==
  mpc # "stopped" =>
    \A s \in Fds :
      (s = ListenFd => ~stop[0]) =>
        IF file[s] = None THEN Owners(s) = {} ELSE \E h \in Owners(s) : Owners(s) = {h}

(* assert(so == nullptr) in newSocket never fails: when a worker is handed *)
(* a descriptor, the previous connection with that number is gone from its *)
(* table.                                                                  *)
NewSocketAssertion ==
  \A w \in Workers :
    LET m == Head(sendQueue[w]) IN
    pc[w] = "handle" /\ sendQueue[w] # <<>> /\ m.op \in {"NEW_SOCKET", "NEW_LISTENING"}
      => sockets[w][m.s] = "null"

(* _totalConnections counts the sockets in the table, plus the one that    *)
(* removeSocket has closed and not yet subtracted; so the assertion        *)
(* _totalConnections > 0 holds and the counter cannot wrap around.         *)
CountsConnections ==
  \A w \in Workers :
    pc[w] # "exit" =>
      total[w] = Cardinality(Owned(w)) + (IF pc[w] = "closed" THEN 1 ELSE 0)

(* A send or close the application makes for one connection is never       *)
(* carried out on another one that has got the same number since.          *)
RequestMeetsItsConnection ==
  \A w \in Workers :
    LET m == Head(sendQueue[w]) IN
    pc[w] = "handle" /\ sendQueue[w] # <<>> /\ m.op \in {"CLOSE", "MESSAGE"}
      /\ sockets[w][m.s] # "null"
      => file[m.s] = m.c

Closed(c) == \A s \in Fds : file[s] # c

(* Edge-triggered reading loses nothing: what a client sends on a          *)
(* registered connection reaches the application, unless the connection is *)
(* closed first.                                                           *)
MessagesDelivered ==
  \A c \in Conns : \A n \in 1 .. MaxMsgs :
    sent[c] >= n /\ (\E s \in Registered : file[s] = c)
      ~> Len(heard[c]) >= n \/ Closed(c)

(* Once the listening socket is registered, edge-triggered accepting loses *)
(* no client either.                                                       *)
ClientsAccepted ==
  \A c \in Conns :
    c \in backlog /\ ListenFd \in Registered ~> c \notin backlog

(* pthread_kill wakes a worker: what is pushed to it is handled.           *)
RequestsHandled ==
  \A w \in Workers : sendQueue[w] # <<>> ~> sendQueue[w] = <<>>
=============================================================================
