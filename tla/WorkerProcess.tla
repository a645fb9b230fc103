--------------------------- MODULE WorkerProcess ---------------------------
(***************************************************************************)
(* One I/O thread of the socket server (src/src/socket/WorkerProcess.cpp), *)
(* the edge-triggered epoll loop it runs (Poll.cpp) and the part of the    *)
(* kernel both rely on: the process's descriptor table, the readiness      *)
(* edges of the registered descriptors and the peers' ends of the          *)
(* connections.  A SocketServer runs WorkerNumber + 1 of these threads;    *)
(* worker 0 (the master) owns the listening socket.                        *)
(*                                                                         *)
(* A descriptor number is reused as soon as it is closed, so the model     *)
(* keeps apart the number s and the connection c it stands for.  The code  *)
(* only ever carries numbers: the field c of a message is a history        *)
(* variable that no guard reads.                                           *)
(***************************************************************************)
EXTENDS Integers, Sequences, FiniteSets

CONSTANTS
  WorkerNumber,  \* SocketServerInternal::_workerNumber
  Fds,           \* the descriptor numbers the process may be given
  ListenFd,      \* the number of the listening socket
  Conns,         \* the connections clients may open, each once
  MaxMsgs,       \* bound: messages a client sends on one connection
  Ends,          \* how clients may end a connection: "fin", "rst"
  Listener,      \* the listening socket, as the content of a descriptor
  None           \* "no connection"

ASSUME WorkerAssumption ==
  /\ WorkerNumber \in Nat
  /\ MaxMsgs \in Nat
  /\ Ends \subseteq {"fin", "rst"}
  /\ Fds \subseteq Nat
  /\ ListenFd \in Fds
  /\ Listener \notin Conns
  /\ None \notin Conns \cup {Listener}

Workers == 0 .. WorkerNumber

(* What a descriptor can stand for: nothing, the listening socket or a     *)
(* connection.                                                             *)
Files == Conns \cup {Listener, None}

(* Socketmessage.  s is the descriptor, or the option number of a SOL      *)
(* message; n is the message number on its connection, or the option value. *)
Opcodes == {"MESSAGE", "ESTABLISH", "CLOSE", "NEW_SOCKET", "NEW_LISTENING", "SOL"}
Message == [op : Opcodes, s : Nat, c : Files, n : Nat]
allocateMessage(s, op, c, n) == [op |-> op, s |-> s, c |-> c, n |-> n]

(* The options workers look at: BUNDLE_SOL_MAXSIZE, and one option that    *)
(* stands for the silence and threshold limits of checkSocket.             *)
MAXSIZE == 1
LIMITS == 2
Options == {MAXSIZE, LIMITS}

VARIABLES
  (* kernel *)
  file,       \* file[s]: what descriptor s stands for
  peer,       \* peer[c]: the client's end of c
  sent,       \* sent[c]: messages the client has written on c
  backlog,    \* connections completed but not accepted yet
  edge,       \* registered descriptors with a readiness edge to report
  (* the workers *)
  sockets,    \* sockets[w][s]: the _sockets table, "null" or the kind
  total,      \* _totalConnections
  opts,       \* _opts
  rcvd,       \* rcvd[c]: messages split off c's stream
  sendQueue,  \* _sendQueue, requests of the main thread to w
  readQueue,  \* _recvQueue, shared by the workers, read by the main thread
  stop,       \* _stop
  pc,         \* where w is in run()
  cur,        \* the descriptor w is working on
  back,       \* where removeSocket returns to
  lost,       \* the connection removeSocket has just closed (history)
  batch       \* events epoll_wait has returned and w has not looked at

kernelVars == <<file, peer, sent, backlog, edge>>
threadVars == <<pc, cur, back, lost, batch>>
workerVars == <<sockets, total, opts, rcvd, sendQueue, readQueue, stop, threadVars>>

PCs == {"top", "sweep", "handle", "poll", "wait", "events", "accept", "read",
        "write", "closed", "exit"}

WorkerTypeOK ==
  /\ file \in [Fds -> Files]
  /\ peer \in [Conns -> {"idle", "up", "fin", "rst"}]
  /\ sent \in [Conns -> Nat]
  /\ backlog \subseteq Conns
  /\ edge \subseteq Fds
  /\ sockets \in [Workers -> [Fds -> {"null", "listening", "socket"}]]
  /\ total \in [Workers -> Int]
  /\ opts \in [Workers -> [Options -> Nat]]
  /\ rcvd \in [Conns -> Nat]
  /\ sendQueue \in [Workers -> Seq(Message)]
  /\ readQueue \in Seq(Message)
  /\ stop \in [Workers -> BOOLEAN]
  /\ pc \in [Workers -> PCs]
  /\ cur \in [Workers -> Fds]
  /\ back \in [Workers -> {"sweep", "handle", "events"}]
  /\ lost \in [Workers -> Files]
  /\ batch \in [Workers -> [Fds -> {"none", "in", "out", "err"}]]

(* The workers just after start(): the threads run, nothing is queued.     *)
WorkerInit ==
  /\ file = [s \in Fds |-> IF s = ListenFd THEN Listener ELSE None]
  /\ peer = [c \in Conns |-> "idle"]
  /\ sent = [c \in Conns |-> 0]
  /\ backlog = {}
  /\ edge = {}
  /\ sockets = [w \in Workers |-> [s \in Fds |-> "null"]]
  /\ total = [w \in Workers |-> 0]
  /\ opts = [w \in Workers |-> [o \in Options |-> 0]]
  /\ rcvd = [c \in Conns |-> 0]
  /\ sendQueue = [w \in Workers |-> <<>>]
  /\ readQueue = <<>>
  /\ stop = [w \in Workers |-> FALSE]
  /\ pc = [w \in Workers |-> "top"]
  /\ cur = [w \in Workers |-> ListenFd]
  /\ back = [w \in Workers |-> "handle"]
  /\ lost = [w \in Workers |-> None]
  /\ batch = [w \in Workers |-> [s \in Fds |-> "none"]]
-----------------------------------------------------------------------------
(* The clients.                                                            *)

(* The descriptors registered with some worker's epoll.                    *)
Registered == {s \in Fds : \E w \in Workers : sockets[w][s] # "null"}

(* What happens to f raises an edge on the registered descriptors of f.    *)
RaiseEdge(f) == edge' = edge \cup {s \in Registered : file[s] = f}

(* A client opens c: the kernel completes the connection by itself as long *)
(* as the process listens.                                                 *)
Connect(c) ==
  /\ peer[c] = "idle"
  /\ \E s \in Fds : file[s] = Listener
  /\ peer' = [peer EXCEPT ![c] = "up"]
  /\ backlog' = backlog \cup {c}
  /\ RaiseEdge(Listener)
  /\ UNCHANGED <<file, sent, workerVars>>

PeerSend(c) ==
  /\ peer[c] = "up"
  /\ sent[c] < MaxMsgs
  /\ sent' = [sent EXCEPT ![c] = @ + 1]
  /\ RaiseEdge(c)
  /\ UNCHANGED <<file, peer, backlog, workerVars>>

(* An orderly close (recv will return 0) or a reset (EPOLLERR, and an error *)
(* from recv and send).                                                    *)
PeerEnd(c) ==
  /\ peer[c] \in {"up", "fin"}
  /\ \E e \in Ends : peer[c] # e /\ peer' = [peer EXCEPT ![c] = e]
  /\ RaiseEdge(c)
  /\ UNCHANGED <<file, sent, backlog, workerVars>>

Client == \E c \in Conns : Connect(c) \/ PeerSend(c) \/ PeerEnd(c)
-----------------------------------------------------------------------------
(* The parts of a worker's step.                                           *)

(* ::close of the descriptors S.  Closing the listening socket drops the   *)
(* connections still waiting on it.                                        *)
CloseFiles(S) ==
  /\ file' = [s \in Fds |-> IF s \in S THEN None ELSE file[s]]
  /\ backlog' = IF \E s \in S : file[s] = Listener THEN {} ELSE backlog
  /\ edge' = edge \ S
  /\ UNCHANGED <<peer, sent>>

Goto(w, p) == pc' = [pc EXCEPT ![w] = p]

(* The same, leaving the call that worked on cur[w].                       *)
Return(w, p) ==
  /\ Goto(w, p)
  /\ cur' = [cur EXCEPT ![w] = ListenFd]

(* removeSocket of a descriptor that is in the table, up to and including  *)
(* the destruction of the Socket, which closes the descriptor.             *)
BeginRemove(w, s, ret) ==
  /\ sockets' = [sockets EXCEPT ![w][s] = "null"]
  /\ CloseFiles({s})
  /\ lost' = [lost EXCEPT ![w] = file[s]]
  /\ cur' = [cur EXCEPT ![w] = s]
  /\ back' = [back EXCEPT ![w] = ret]
  /\ Goto(w, "closed")

(* The rest of removeSocket.  Another thread may have been given the       *)
(* number between the two.                                                 *)
removeSocket(w) ==
  /\ pc[w] = "closed"
  /\ readQueue' = Append(readQueue, allocateMessage(cur[w], "CLOSE", lost[w], 0))
  /\ total' = [total EXCEPT ![w] = @ - 1]
  /\ Return(w, back[w])
  /\ back' = [back EXCEPT ![w] = "handle"]
  /\ lost' = [lost EXCEPT ![w] = None]
  /\ UNCHANGED <<kernelVars, sockets, opts, rcvd, sendQueue, stop, batch>>

(* Head of the loop in run(), and checkSocket when no limit is configured. *)
run(w) ==
  /\ pc[w] = "top"
  /\ Goto(w, IF stop[w] THEN "exit" ELSE IF opts[w][LIMITS] = 0 THEN "handle" ELSE "sweep")
  /\ UNCHANGED <<kernelVars, sockets, total, opts, rcvd, sendQueue, readQueue, stop,
                 cur, back, lost, batch>>

(* checkSocket: with a limit configured, any connection may turn out to be *)
(* too silent or too talkative; the listening socket is skipped.           *)
checkSocket(w) ==
  /\ pc[w] = "sweep"
  /\ \/ /\ \E s \in Fds : sockets[w][s] = "socket" /\ BeginRemove(w, s, "sweep")
        /\ UNCHANGED <<total, opts, rcvd, sendQueue, readQueue, stop, batch>>
     \/ /\ Goto(w, "handle")
        /\ UNCHANGED <<kernelVars, sockets, total, opts, rcvd, sendQueue, readQueue, stop,
                       cur, back, lost, batch>>
-----------------------------------------------------------------------------
(* handleMessage: one request of the main thread.  The worker is the only  *)
(* consumer of its queue, so taking the request and acting on it is one    *)
(* step.                                                                   *)

Request(w, op) ==
  /\ pc[w] = "handle"
  /\ sendQueue[w] # <<>>
  /\ Head(sendQueue[w]).op = op
  /\ sendQueue' = [sendQueue EXCEPT ![w] = Tail(@)]

(* Nothing left to do: go and poll.                                        *)
HandleNone(w) ==
  /\ pc[w] = "handle"
  /\ sendQueue[w] = <<>>
  /\ Goto(w, "poll")
  /\ UNCHANGED <<kernelVars, sockets, total, opts, rcvd, sendQueue, readQueue, stop,
                 cur, back, lost, batch>>

HandleClose(w) ==
  LET s == Head(sendQueue[w]).s IN
  /\ Request(w, "CLOSE")
  /\ IF sockets[w][s] = "null"
     THEN UNCHANGED <<kernelVars, sockets, threadVars>>
     ELSE BeginRemove(w, s, "handle") /\ UNCHANGED batch
  /\ UNCHANGED <<total, opts, rcvd, readQueue, stop>>

(* Socket::sendMessage fails on the listening socket and on a connection   *)
(* its peer has reset; otherwise the message is written or kept for later. *)
SendFails(s) == file[s] = Listener \/ (file[s] \in Conns /\ peer[file[s]] = "rst")

HandleMessage(w) ==
  LET m == Head(sendQueue[w]) IN
  /\ Request(w, "MESSAGE")
  /\ \/ /\ sockets[w][m.s] = "null"
        /\ UNCHANGED <<kernelVars, sockets, threadVars>>
     \/ /\ sockets[w][m.s] # "null"
        /\ SendFails(m.s)
        /\ BeginRemove(w, m.s, "handle")
        /\ UNCHANGED batch
     \/ /\ sockets[w][m.s] # "null"
        /\ ~SendFails(m.s)
        /\ UNCHANGED <<kernelVars, sockets, threadVars>>
  /\ UNCHANGED <<total, opts, rcvd, readQueue, stop>>

(* newSocket: refuse a connection over the limit, else enter it into the   *)
(* table and epoll (which reports it at once) and announce it.             *)
TooMany(w) == opts[w][MAXSIZE] # 0 /\ total[w] >= opts[w][MAXSIZE]

(* Fault: newSocket counts a connection before it may refuse it.            *)
newSocketCountsRefused(w, kind) ==
  LET m == Head(sendQueue[w]) IN
  /\ total' = [total EXCEPT ![w] = @ + 1]
  /\ IF TooMany(w)
     THEN /\ CloseFiles({m.s})
          /\ UNCHANGED <<sockets, readQueue>>
     ELSE /\ sockets' = [sockets EXCEPT ![w][m.s] = kind]
          /\ edge' = edge \cup {m.s}
          /\ readQueue' = Append(readQueue, allocateMessage(m.s, "ESTABLISH", file[m.s], 0))
          /\ UNCHANGED <<file, peer, sent, backlog>>
  /\ UNCHANGED <<opts, rcvd, stop, threadVars>>

newSocket(w, kind) ==
  LET m == Head(sendQueue[w]) IN
  /\ IF TooMany(w)
     THEN /\ CloseFiles({m.s})
          /\ UNCHANGED <<sockets, total, readQueue>>
     ELSE /\ sockets' = [sockets EXCEPT ![w][m.s] = kind]
          /\ edge' = edge \cup {m.s}
          /\ readQueue' = Append(readQueue, allocateMessage(m.s, "ESTABLISH", file[m.s], 0))
          /\ total' = [total EXCEPT ![w] = @ + 1]
          /\ UNCHANGED <<file, peer, sent, backlog>>
  /\ UNCHANGED <<opts, rcvd, stop, threadVars>>

HandleNewSocket(w) == Request(w, "NEW_SOCKET") /\ newSocket(w, "socket")
HandleNewListening(w) == Request(w, "NEW_LISTENING") /\ newSocket(w, "listening")

HandleOption(w) ==
  LET m == Head(sendQueue[w]) IN
  /\ Request(w, "SOL")
  /\ opts' = [opts EXCEPT ![w][m.s] = m.n]
  /\ UNCHANGED <<kernelVars, sockets, total, rcvd, readQueue, stop, threadVars>>

handleMessage(w) ==
  \/ HandleNone(w)
  \/ HandleClose(w)
  \/ HandleMessage(w)
  \/ HandleNewSocket(w)
  \/ HandleNewListening(w)
  \/ HandleOption(w)
-----------------------------------------------------------------------------
(* Poll::run.  Entering epoll_wait is a step of its own: a signal that     *)
(* arrives before it interrupts nothing.                                   *)

EnterWait(w) ==
  /\ pc[w] = "poll"
  /\ Goto(w, "wait")
  /\ UNCHANGED <<kernelVars, sockets, total, opts, rcvd, sendQueue, readQueue, stop,
                 cur, back, lost, batch>>

(* epoll_wait returns the registered descriptors with an edge; the flags   *)
(* are those of this moment.  A connection is always writable or readable, *)
(* the listening socket only reports waiting clients.                      *)
Flags(s) ==
  IF file[s] \in Conns /\ peer[file[s]] = "rst" THEN "err"
  ELSE IF file[s] \in Conns /\ rcvd[file[s]] = sent[file[s]] /\ peer[file[s]] = "up" THEN "out"
  ELSE IF file[s] = Listener /\ backlog = {} THEN "none"
  ELSE "in"

LeaveWait(w) ==
  LET ready == {s \in edge : sockets[w][s] # "null" /\ Flags(s) # "none"} IN
  /\ pc[w] = "wait"
  /\ ready # {}
  /\ edge' = edge \ ready
  /\ batch' = [batch EXCEPT ![w] = [s \in Fds |-> IF s \in ready THEN Flags(s) ELSE "none"]]
  /\ Goto(w, "events")
  /\ UNCHANGED <<file, peer, sent, backlog, sockets, total, opts, rcvd, sendQueue, readQueue, stop,
                 cur, back, lost>>

(* pthread_kill of w: epoll_wait fails with EINTR.  Elsewhere the handler  *)
(* does nothing and the calls it interrupts are retried.                   *)
Wake(w) == pc' = IF pc[w] = "wait" THEN [pc EXCEPT ![w] = "top"] ELSE pc

(* Fault: an event with EPOLLOUT, as nearly all have, is not read from.     *)
HandleEventOutFirst(w) ==
  /\ pc[w] = "events"
  /\ \E s \in Fds :
       /\ batch[w][s] # "none"
       /\ batch' = [batch EXCEPT ![w][s] = "none"]
       /\ cur' = [cur EXCEPT ![w] = s]
       /\ Goto(w, IF sockets[w][s] = "listening" THEN "accept" ELSE "write")
  /\ UNCHANGED <<kernelVars, sockets, back, lost, total, opts, rcvd, sendQueue, readQueue, stop>>

(* The dispatch of one event: errorSocket, readSocket (which accepts on    *)
(* the listening socket) or writeSocket alone.                             *)
HandleEvent(w) ==
  /\ pc[w] = "events"
  /\ \E s \in Fds :
       /\ batch[w][s] # "none"
       /\ batch' = [batch EXCEPT ![w][s] = "none"]
       /\ \/ /\ sockets[w][s] # "null"
             /\ batch[w][s] = "err"
             /\ BeginRemove(w, s, "events")
          \/ /\ sockets[w][s] # "null"
             /\ batch[w][s] # "err"
             /\ cur' = [cur EXCEPT ![w] = s]
             /\ Goto(w, IF batch[w][s] = "out" THEN "write"
                        ELSE IF sockets[w][s] = "listening" THEN "accept" ELSE "read")
             /\ UNCHANGED <<kernelVars, sockets, back, lost>>
  /\ UNCHANGED <<total, opts, rcvd, sendQueue, readQueue, stop>>

EventsDone(w) ==
  /\ pc[w] = "events"
  /\ \A s \in Fds : batch[w][s] = "none"
  /\ Goto(w, "top")
  /\ UNCHANGED <<kernelVars, sockets, total, opts, rcvd, sendQueue, readQueue, stop,
                 cur, back, lost, batch>>

(* Fault: acceptSocket takes one connection per event.                      *)
acceptSocketOnce(w) ==
  /\ pc[w] = "accept"
  /\ Return(w, "events")
  /\ \/ /\ ~stop[w]
        /\ \E c \in backlog, s \in {f \in Fds : file[f] = None} :
             /\ file' = [file EXCEPT ![s] = c]
             /\ backlog' = backlog \ {c}
             /\ readQueue' = Append(readQueue, allocateMessage(s, "NEW_SOCKET", c, 0))
     \/ /\ stop[w] \/ backlog = {} \/ \A f \in Fds : file[f] # None
        /\ UNCHANGED <<file, backlog, readQueue>>
  /\ UNCHANGED <<peer, sent, edge, sockets, total, opts, rcvd, sendQueue, stop,
                 back, lost, batch>>

(* Fault: the master registers accepted connections itself.                 *)
acceptSocketKeeps(w) ==
  /\ pc[w] = "accept"
  /\ \/ /\ \E c \in backlog, s \in {f \in Fds : file[f] = None} :
             /\ file' = [file EXCEPT ![s] = c]
             /\ backlog' = backlog \ {c}
             /\ sockets' = [sockets EXCEPT ![w][s] = "socket"]
             /\ edge' = edge \cup {s}
             /\ readQueue' = Append(readQueue, allocateMessage(s, "ESTABLISH", c, 0))
             /\ total' = [total EXCEPT ![w] = @ + 1]
        /\ UNCHANGED <<pc, cur>>
     \/ /\ backlog = {} \/ \A f \in Fds : file[f] # None
        /\ Return(w, "events")
        /\ UNCHANGED <<file, backlog, readQueue, sockets, edge, total>>
  /\ UNCHANGED <<peer, sent, opts, rcvd, sendQueue, stop, back, lost, batch>>

(* acceptSocket: one round of the loop.  The number may be any free one:   *)
(* the rest of the process opens and closes descriptors too.  With none    *)
(* free accept fails and the loop is left.                                 *)
acceptSocket(w) ==
  /\ pc[w] = "accept"
  /\ \/ /\ ~stop[w]
        /\ \E c \in backlog, s \in {f \in Fds : file[f] = None} :
             /\ file' = [file EXCEPT ![s] = c]
             /\ backlog' = backlog \ {c}
             /\ readQueue' = Append(readQueue, allocateMessage(s, "NEW_SOCKET", c, 0))
        /\ UNCHANGED <<pc, cur>>
     \/ /\ stop[w] \/ backlog = {} \/ \A f \in Fds : file[f] # None
        /\ Return(w, "events")
        /\ UNCHANGED <<file, backlog, readQueue>>
  /\ UNCHANGED <<peer, sent, edge, sockets, total, opts, rcvd, sendQueue, stop,
                 back, lost, batch>>

(* readSocket: one call of Socket::receiveMessage.  It yields the next     *)
(* message (also after a reset, when the bytes were read before it), fails *)
(* (the splitter rejects the stream, end of file, reset) or finds nothing. *)
readSocket(w) ==
  LET s == cur[w]
      c == file[s]
      more == rcvd[c] < sent[c]
  IN
  /\ pc[w] = "read"
  /\ \/ /\ ~stop[w]
        /\ more
        /\ rcvd' = [rcvd EXCEPT ![c] = @ + 1]
        /\ readQueue' = Append(readQueue, allocateMessage(s, "MESSAGE", c, rcvd[c] + 1))
        /\ UNCHANGED <<kernelVars, sockets, pc, cur, back, lost>>
     \/ /\ ~stop[w]
        /\ more \/ peer[c] \in {"fin", "rst"}
        /\ BeginRemove(w, s, "events")
        /\ UNCHANGED <<rcvd, readQueue>>
     \/ /\ ~stop[w]
        /\ ~more
        /\ peer[c] = "up"
        /\ Goto(w, "write")
        /\ UNCHANGED <<kernelVars, sockets, rcvd, readQueue, cur, back, lost>>
     \/ /\ stop[w]
        /\ Return(w, "events")
        /\ UNCHANGED <<kernelVars, sockets, rcvd, readQueue, back, lost>>
  /\ UNCHANGED <<total, opts, sendQueue, stop, batch>>

(* writeSocket: flush what Socket::sendMessage kept.  Only with something  *)
(* to send, and EPOLLOUT among the flags, can it fail.                     *)
writeSocket(w) ==
  /\ pc[w] = "write"
  /\ \/ /\ SendFails(cur[w])
        /\ BeginRemove(w, cur[w], "events")
     \/ /\ Return(w, "events")
        /\ UNCHANGED <<kernelVars, sockets, back, lost>>
  /\ UNCHANGED <<total, opts, rcvd, sendQueue, readQueue, stop, batch>>

pollRun(w) ==
  \/ EnterWait(w)
  \/ LeaveWait(w)
  \/ HandleEvent(w)
  \/ EventsDone(w)
  \/ acceptSocket(w)
  \/ readSocket(w)
  \/ writeSocket(w)

Worker(w) ==
  \/ run(w)
  \/ checkSocket(w)
  \/ handleMessage(w)
  \/ removeSocket(w)
  \/ pollRun(w)
=============================================================================
