------------------------- MODULE SocketServerProofs -------------------------
(***************************************************************************)
(* The socket server, for any number of workers, descriptors and           *)
(* connections: who owns a descriptor (the type invariant, OneOwner,       *)
(* NewSocketAssertion), CountsConnections, that receiveMessage implements  *)
(* ConnectionEvents, and RequestMeetsItsConnection without separate        *)
(* workers.                                                                *)
(*                                                                         *)
(* Ownership follows a descriptor through the server.  It is accepted into *)
(* the read queue, moved to the queue of its home (the worker that         *)
(* getWorkerProcess names, the master for the listening socket), from      *)
(* there into its home's table, and closed by its home.  At each moment it *)
(* is in one place only, and it is open exactly as long as it is in one.   *)
(*                                                                         *)
(* Sessions follow a number through the connections it stands for.  The    *)
(* application and the home of s may be at different places of its         *)
(* history; the events of s in the read queue lead from the one to the     *)
(* other, and each connection enters this history once.                    *)
(***************************************************************************)
EXTENDS SocketServer, FiniteSetTheorems, TLAPS

(* The worker responsible for s and the entry of s in its table.           *)
Home(s) == IF s = ListenFd THEN 0 ELSE getWorkerProcess(s)
Kind(s) == IF s = ListenFd THEN "listening" ELSE "socket"

(* The places where a descriptor can be.                                   *)
InTable(s) == sockets[Home(s)][s] # "null"
InQueue(q, s) == \E i \in 1 .. Len(q) : Carries(q[i], s)
InSend(s) == InQueue(sendQueue[Home(s)], s)
InRead(s) == InQueue(readQueue, s)
InStart(s) == mpc = "push" /\ Carries(request, s)

(* A queue carries a descriptor at most once.                              *)
Distinct(q) ==
  \A i, j \in 1 .. Len(q) :
    Carries(q[i], q[i].s) /\ Carries(q[j], q[i].s) => i = j

(* What is queued for a worker, and what workers report.                   *)
GoodRequest(m) ==
  /\ m.op \in {"MESSAGE", "CLOSE"} => m.s \in Fds
  /\ m.op = "NEW_SOCKET" => m.s \in Fds /\ m.s # ListenFd
  /\ m.op = "NEW_LISTENING" => m.s = ListenFd
  /\ m.op = "SOL" => m.s \in Options
  /\ m.op # "ESTABLISH"

GoodEvent(m) ==
  /\ m.op \in {"ESTABLISH", "CLOSE", "MESSAGE", "NEW_SOCKET"}
  /\ m.s \in Fds
  /\ m.op = "NEW_SOCKET" => m.s # ListenFd

AllRequests(q) == \A i \in 1 .. Len(q) : GoodRequest(q[i])
AllEvents(q) == \A i \in 1 .. Len(q) : GoodEvent(q[i])

Queues ==
  /\ \A w \in Workers : AllRequests(sendQueue[w]) /\ Distinct(sendQueue[w])
  /\ AllEvents(readQueue) /\ Distinct(readQueue)

(* Only its home has, or is about to get, a descriptor.                    *)
Homes ==
  /\ \A w \in Workers, s \in Fds :
       sockets[w][s] # "null" => w = Home(s) /\ sockets[w][s] = Kind(s)
  /\ \A w \in Workers, s \in Fds : InQueue(sendQueue[w], s) => w = Home(s)

(* The number of the listening socket is never given to a connection.      *)
Descriptors ==
  \A s \in Fds : file[s] \in (IF s = ListenFd THEN {Listener} ELSE Conns) \cup {None}

(* A descriptor is in at most one place, ...                               *)
Exclusive ==
  \A s \in Fds :
    /\ InTable(s) => ~InSend(s) /\ ~InRead(s) /\ ~InStart(s)
    /\ InSend(s) => ~InRead(s) /\ ~InStart(s)
    /\ InRead(s) => ~InStart(s)

Somewhere(s) == InTable(s) \/ InSend(s) \/ InRead(s) \/ InStart(s)

(* ... it is open while it is in one, ...                                  *)
Backed == \A s \in Fds : Somewhere(s) => file[s] # None

(* ... and an open one is in one (see OneOwner for the exceptions).        *)
Kept ==
  \A s \in Fds :
    mpc # "stopped" /\ (s = ListenFd => ~stop[0]) /\ file[s] # None => Somewhere(s)

(* A worker that reads, writes or accepts does so on its own socket.       *)
Working ==
  \A w \in Workers :
    /\ pc[w] = "read" => sockets[w][cur[w]] = "socket"
    /\ pc[w] = "accept" => sockets[w][cur[w]] = "listening"
    /\ pc[w] = "write" => sockets[w][cur[w]] # "null"

(* What the application's thread is pushing, and what stop() has achieved. *)
Pushing ==
  /\ request.op \in {"MESSAGE", "SOL", "NEW_LISTENING"}
  /\ request.op = "SOL" => request.s \in Options
  /\ request.op = "NEW_LISTENING" =>
       request.s = ListenFd /\ mpc \in {"push", "kill"} /\ target = 0 /\ last = 0
  /\ mpc = "push" \/ (mpc = "kill" /\ target < last) => request.op # "MESSAGE"

MasterGone ==
  \/ mpc \in {"drain", "stopped"}
  \/ mpc \in {"stopflag", "stopkill", "join"} /\ target > 0

Stopping ==
  /\ mpc \in {"stopkill", "join"} => stop[target]
  /\ MasterGone => /\ stop[0]
                   /\ pc[0] = "exit"
                   /\ sendQueue[0] = <<>>
                   /\ \A s \in Fds : sockets[0][s] = "null"

Ownership == Homes /\ Descriptors /\ Exclusive /\ Backed /\ Kept
Inv == TypeOK /\ Queues /\ Ownership /\ Working /\ Pushing /\ Stopping
-----------------------------------------------------------------------------
(* Queues.                                                                 *)

(* Appending a request or an event adds what it carries, ...               *)
LEMMA AppendToQueue ==
  ASSUME NEW q \in Seq(Message), NEW m \in Message
  PROVE  /\ Append(q, m) \in Seq(Message)
         /\ \A s : InQueue(Append(q, m), s) <=> InQueue(q, s) \/ Carries(m, s)
         /\ AllRequests(q) /\ GoodRequest(m) => AllRequests(Append(q, m))
         /\ AllEvents(q) /\ GoodEvent(m) => AllEvents(Append(q, m))
<1>1. /\ Append(q, m) \in Seq(Message)
      /\ Len(Append(q, m)) = Len(q) + 1
      /\ Append(q, m)[Len(q) + 1] = m
      /\ \A i \in 1 .. Len(q) : Append(q, m)[i] = q[i]
      /\ Len(q) \in Nat
  OBVIOUS
<1>2. ASSUME NEW s
      PROVE  InQueue(Append(q, m), s) <=> InQueue(q, s) \/ Carries(m, s)
  BY <1>1 DEF InQueue
<1>3. ASSUME AllRequests(q), GoodRequest(m)
      PROVE  AllRequests(Append(q, m))
  BY <1>1, <1>3 DEF AllRequests
<1>4. ASSUME AllEvents(q), GoodEvent(m)
      PROVE  AllEvents(Append(q, m))
  BY <1>1, <1>4 DEF AllEvents
<1>5. QED
  BY <1>1, <1>2, <1>3, <1>4

(* ... which must not be carried already;                                  *)
LEMMA AppendKeepsDistinct ==
  ASSUME NEW q \in Seq(Message), NEW m \in Message, Distinct(q),
         Carries(m, m.s) => ~InQueue(q, m.s)
  PROVE  Distinct(Append(q, m))
<1>1. /\ Len(Append(q, m)) = Len(q) + 1
      /\ Append(q, m)[Len(q) + 1] = m
      /\ \A i \in 1 .. Len(q) : Append(q, m)[i] = q[i]
      /\ Len(q) \in Nat
  OBVIOUS
<1>2. ASSUME NEW i \in 1 .. Len(q), Carries(q[i], m.s) PROVE Carries(m, m.s) => FALSE
  BY <1>2 DEF InQueue
<1>3. SUFFICES ASSUME NEW i \in 1 .. Len(q) + 1, NEW j \in 1 .. Len(q) + 1,
                      Carries(Append(q, m)[i], Append(q, m)[i].s),
                      Carries(Append(q, m)[j], Append(q, m)[i].s),
                      i # j
               PROVE  FALSE
  BY <1>1 DEF Distinct
<1>4. CASE i \in 1 .. Len(q) /\ j \in 1 .. Len(q)
  BY <1>1, <1>3, <1>4 DEF Distinct
<1>5. CASE i = Len(q) + 1 /\ j \in 1 .. Len(q)
  BY <1>1, <1>2, <1>3, <1>5
<1>6. CASE j = Len(q) + 1 /\ i \in 1 .. Len(q)
  BY <1>1, <1>2, <1>3, <1>6 DEF Carries
<1>7. QED
  BY <1>1, <1>3, <1>4, <1>5, <1>6

(* taking the head away takes away what it carries.                        *)
LEMMA TailOfQueue ==
  ASSUME NEW q \in Seq(Message), q # <<>>, Distinct(q)
  PROVE  /\ Tail(q) \in Seq(Message)
         /\ Head(q) \in Message
         /\ Distinct(Tail(q))
         /\ \A s : InQueue(Tail(q), s) <=> InQueue(q, s) /\ ~Carries(Head(q), s)
         /\ \A s : Carries(Head(q), s) => InQueue(q, s)
         /\ AllRequests(q) => AllRequests(Tail(q)) /\ GoodRequest(Head(q))
         /\ AllEvents(q) => AllEvents(Tail(q)) /\ GoodEvent(Head(q))
<1>1. /\ Tail(q) \in Seq(Message)
      /\ Head(q) \in Message
      /\ Head(q) = q[1]
      /\ Len(q) \in Nat \ {0}
      /\ Len(Tail(q)) = Len(q) - 1
      /\ \A i \in 1 .. Len(q) - 1 : Tail(q)[i] = q[i + 1]
  OBVIOUS
<1>2. \A i \in 1 .. Len(q) - 1 : i + 1 \in 1 .. Len(q) /\ i + 1 # 1
  BY <1>1
<1>3. Distinct(Tail(q))
  BY <1>1, <1>2 DEF Distinct
<1>4. ASSUME NEW s
      PROVE  /\ InQueue(Tail(q), s) <=> InQueue(q, s) /\ ~Carries(Head(q), s)
             /\ Carries(Head(q), s) => InQueue(q, s)
  <2>1. Carries(Head(q), s) => InQueue(q, s)
    BY <1>1 DEF InQueue
  <2>2. ASSUME InQueue(Tail(q), s) PROVE InQueue(q, s) /\ ~Carries(Head(q), s)
    <3>1. PICK i \in 1 .. Len(q) - 1 : Carries(q[i + 1], s)
      BY <1>1, <2>2 DEF InQueue
    <3>2. InQueue(q, s)
      BY <1>2, <3>1 DEF InQueue
    <3>3. ASSUME Carries(Head(q), s) PROVE FALSE
      <4>1. Carries(q[1], q[1].s) /\ q[1].s = s /\ 1 \in 1 .. Len(q)
        BY <1>1, <3>3 DEF Carries
      <4>2. QED
        BY <1>2, <3>1, <4>1 DEF Distinct
    <3>4. QED
      BY <3>2, <3>3
  <2>3. ASSUME InQueue(q, s), ~Carries(Head(q), s) PROVE InQueue(Tail(q), s)
    <3>1. PICK i \in 1 .. Len(q) : Carries(q[i], s)
      BY <2>3 DEF InQueue
    <3>2. i # 1 /\ i - 1 \in 1 .. Len(q) - 1 /\ Tail(q)[i - 1] = q[i]
      BY <1>1, <2>3, <3>1
    <3>3. QED
      BY <1>1, <3>1, <3>2 DEF InQueue
  <2>4. QED
    BY <2>1, <2>2, <2>3
<1>5. AllRequests(q) => AllRequests(Tail(q)) /\ GoodRequest(Head(q))
  BY <1>1, <1>2 DEF AllRequests
<1>6. AllEvents(q) => AllEvents(Tail(q)) /\ GoodEvent(Head(q))
  BY <1>1, <1>2 DEF AllEvents
<1>7. QED
  BY <1>1, <1>3, <1>4, <1>5, <1>6

(* An empty queue carries nothing.                                         *)
LEMMA EmptyQueue ==
  /\ \A s : ~InQueue(<<>>, s)
  /\ Distinct(<<>>) /\ AllRequests(<<>>) /\ AllEvents(<<>>)
BY DEF InQueue, Distinct, AllRequests, AllEvents

(* The home of a descriptor is a worker.                                   *)
LEMMA HomeIsWorker ==
  ASSUME NEW s \in Fds
  PROVE  /\ Home(s) \in Workers /\ getWorkerProcess(s) \in Workers
         /\ 0 \in Workers
BY WorkerAssumption DEF Home, getWorkerProcess, Workers

(* Messages are messages.                                                  *)
LEMMA AllocatedMessage ==
  ASSUME NEW s \in Nat, NEW op \in Opcodes, NEW c \in Files, NEW n \in Nat
  PROVE  /\ allocateMessage(s, op, c, n) \in Message
         /\ allocateMessage(s, op, c, n).op = op
         /\ allocateMessage(s, op, c, n).s = s
BY DEF allocateMessage, Message
-----------------------------------------------------------------------------
(* The initial states.                                                     *)
LEMMA InitInv == Init => Inv
<1> SUFFICES ASSUME Init PROVE Inv
  OBVIOUS
<1> USE DEF Init, WorkerInit
<1>1. request \in Message /\ request.op = "NEW_LISTENING" /\ request.s = ListenFd
  BY WorkerAssumption, AllocatedMessage DEF Opcodes, Files
<1>2. 0 \in Workers /\ Workers \subseteq Int
  BY WorkerAssumption DEF Workers
<1>3. WorkerTypeOK
  BY <1>2, WorkerAssumption DEF WorkerTypeOK, Files, PCs
<1>4. TypeOK
  BY <1>1, <1>2, <1>3 DEF TypeOK, MainPCs, Files
<1>5. Queues
  BY EmptyQueue DEF Queues
<1>6. \A s \in Fds : ~InTable(s) /\ ~InSend(s) /\ ~InRead(s) /\ (InStart(s) <=> s = ListenFd)
  BY <1>1, EmptyQueue, HomeIsWorker DEF InTable, InSend, InRead, InStart, Carries
<1>7. Ownership
  BY <1>6, EmptyQueue, WorkerAssumption
     DEF Ownership, Homes, Descriptors, Exclusive, Backed, Kept, Somewhere
<1>8. Working /\ Pushing /\ Stopping
  BY <1>1 DEF Working, Pushing, Stopping, MasterGone
<1>9. QED
  BY <1>4, <1>5, <1>7, <1>8 DEF Inv
-----------------------------------------------------------------------------
(* Parts of the steps.                                                     *)

(* A request is taken from the queue.                                      *)
LEMMA RequestTaken ==
  ASSUME Inv, NEW w \in Workers, NEW op, Request(w, op)
  PROVE  /\ Head(sendQueue[w]) \in Message
         /\ GoodRequest(Head(sendQueue[w]))
         /\ Head(sendQueue[w]).op = op
         /\ sendQueue' \in [Workers -> Seq(Message)]
         /\ \A v \in Workers : AllRequests(sendQueue'[v]) /\ Distinct(sendQueue'[v])
         /\ \A v \in Workers : v # w => sendQueue'[v] = sendQueue[v]
         /\ \A s : InQueue(sendQueue'[w], s) <=>
                     InQueue(sendQueue[w], s) /\ ~Carries(Head(sendQueue[w]), s)
         /\ \A s : Carries(Head(sendQueue[w]), s) => InQueue(sendQueue[w], s)
<1>1. /\ sendQueue \in [Workers -> Seq(Message)]
      /\ \A v \in Workers : AllRequests(sendQueue[v]) /\ Distinct(sendQueue[v])
  BY DEF Inv, TypeOK, WorkerTypeOK, Queues
<1>2. /\ sendQueue[w] \in Seq(Message)
      /\ sendQueue[w] # <<>>
      /\ Head(sendQueue[w]).op = op
      /\ sendQueue' = [sendQueue EXCEPT ![w] = Tail(sendQueue[w])]
  BY <1>1 DEF Request
<1>3. /\ sendQueue'[w] = Tail(sendQueue[w])
      /\ \A v \in Workers : v # w => sendQueue'[v] = sendQueue[v]
  BY <1>1, <1>2
<1>4. /\ Tail(sendQueue[w]) \in Seq(Message)
      /\ Head(sendQueue[w]) \in Message
      /\ Distinct(Tail(sendQueue[w]))
      /\ \A s : InQueue(Tail(sendQueue[w]), s) <=>
                   InQueue(sendQueue[w], s) /\ ~Carries(Head(sendQueue[w]), s)
      /\ \A s : Carries(Head(sendQueue[w]), s) => InQueue(sendQueue[w], s)
      /\ AllRequests(Tail(sendQueue[w])) /\ GoodRequest(Head(sendQueue[w]))
  BY <1>1, <1>2, TailOfQueue
<1>5. sendQueue' \in [Workers -> Seq(Message)]
  BY <1>1, <1>2, <1>4
<1>6. \A v \in Workers : AllRequests(sendQueue'[v]) /\ Distinct(sendQueue'[v])
  BY <1>1, <1>3, <1>4
<1>7. QED
  BY <1>2, <1>3, <1>4, <1>5, <1>6

(* A request is queued.                                                    *)
LEMMA RequestQueued ==
  ASSUME Inv, NEW w \in Workers, NEW m \in Message, GoodRequest(m),
         Carries(m, m.s) => ~InQueue(sendQueue[w], m.s),
         Enqueue(w, m)
  PROVE  /\ sendQueue' \in [Workers -> Seq(Message)]
         /\ \A v \in Workers : AllRequests(sendQueue'[v]) /\ Distinct(sendQueue'[v])
         /\ \A v \in Workers : v # w => sendQueue'[v] = sendQueue[v]
         /\ \A s : InQueue(sendQueue'[w], s) <=> InQueue(sendQueue[w], s) \/ Carries(m, s)
<1>1. /\ sendQueue \in [Workers -> Seq(Message)]
      /\ \A v \in Workers : AllRequests(sendQueue[v]) /\ Distinct(sendQueue[v])
  BY DEF Inv, TypeOK, WorkerTypeOK, Queues
<1>2. /\ sendQueue[w] \in Seq(Message)
      /\ sendQueue' = [sendQueue EXCEPT ![w] = Append(sendQueue[w], m)]
  BY <1>1 DEF Enqueue
<1>3. /\ sendQueue'[w] = Append(sendQueue[w], m)
      /\ \A v \in Workers : v # w => sendQueue'[v] = sendQueue[v]
  BY <1>1, <1>2
<1>4. /\ Append(sendQueue[w], m) \in Seq(Message)
      /\ AllRequests(Append(sendQueue[w], m))
      /\ \A s : InQueue(Append(sendQueue[w], m), s) <=> InQueue(sendQueue[w], s) \/ Carries(m, s)
  BY <1>1, <1>2, AppendToQueue
<1>5. Distinct(Append(sendQueue[w], m))
  BY <1>1, <1>2, AppendKeepsDistinct
<1>6. sendQueue' \in [Workers -> Seq(Message)]
  BY <1>1, <1>2, <1>4
<1>7. \A v \in Workers : AllRequests(sendQueue'[v]) /\ Distinct(sendQueue'[v])
  BY <1>1, <1>3, <1>4, <1>5
<1>8. QED
  BY <1>3, <1>4, <1>6, <1>7

(* An event is reported.                                                   *)
LEMMA EventReported ==
  ASSUME Inv, NEW s \in Fds, NEW op \in {"ESTABLISH", "CLOSE", "MESSAGE", "NEW_SOCKET"},
         NEW c \in Files, NEW n \in Nat,
         op = "NEW_SOCKET" => s # ListenFd /\ ~InRead(s),
         readQueue' = Append(readQueue, allocateMessage(s, op, c, n))
  PROVE  /\ readQueue' \in Seq(Message)
         /\ AllEvents(readQueue') /\ Distinct(readQueue')
         /\ \A t : InQueue(readQueue', t) <=>
                     InQueue(readQueue, t) \/ (op = "NEW_SOCKET" /\ t = s)
<1> DEFINE m == allocateMessage(s, op, c, n)
<1>1. m \in Message /\ m.op = op /\ m.s = s
  BY AllocatedMessage, WorkerAssumption DEF Opcodes
<1> HIDE DEF m
<1>2. GoodEvent(m) /\ \A t : Carries(m, t) <=> op = "NEW_SOCKET" /\ t = s
  BY <1>1 DEF GoodEvent, Carries
<1>3. readQueue \in Seq(Message) /\ AllEvents(readQueue) /\ Distinct(readQueue)
  BY DEF Inv, TypeOK, WorkerTypeOK, Queues
<1>4. readQueue' = Append(readQueue, m)
  BY DEF m
<1>5. Carries(m, m.s) => ~InQueue(readQueue, m.s)
  BY <1>1, <1>2 DEF InRead
<1>6. Distinct(Append(readQueue, m))
  BY <1>1, <1>3, <1>5, AppendKeepsDistinct
<1>7. QED
  BY <1>1, <1>2, <1>3, <1>4, <1>6, AppendToQueue

(* Descriptors are closed.                                                 *)
LEMMA FilesClosed ==
  ASSUME Inv, NEW S \in SUBSET Fds, CloseFiles(S)
  PROVE  /\ file' \in [Fds -> Files] /\ peer' = peer /\ sent' = sent
         /\ backlog' \subseteq Conns /\ edge' \subseteq Fds
         /\ \A t \in Fds : file'[t] = IF t \in S THEN None ELSE file[t]
<1>1. file \in [Fds -> Files] /\ backlog \subseteq Conns /\ edge \subseteq Fds /\ None \in Files
  BY DEF Inv, TypeOK, WorkerTypeOK, Files
<1>2. QED
  BY <1>1 DEF CloseFiles

(* A worker removes one of its sockets.                                    *)
LEMMA SocketRemoved ==
  ASSUME Inv, NEW w \in Workers, NEW s \in Fds, NEW ret \in {"sweep", "handle", "events"},
         BeginRemove(w, s, ret)
  PROVE  /\ file' \in [Fds -> Files] /\ peer' = peer /\ sent' = sent
         /\ backlog' \subseteq Conns /\ edge' \subseteq Fds
         /\ \A t \in Fds : file'[t] = IF t = s THEN None ELSE file[t]
         /\ sockets' \in [Workers -> [Fds -> {"null", "listening", "socket"}]]
         /\ \A v \in Workers, t \in Fds :
              sockets'[v][t] = IF v = w /\ t = s THEN "null" ELSE sockets[v][t]
         /\ pc' \in [Workers -> PCs] /\ pc' = [pc EXCEPT ![w] = "closed"]
         /\ cur' \in [Workers -> Fds] /\ cur' = [cur EXCEPT ![w] = s]
         /\ back' \in [Workers -> {"sweep", "handle", "events"}]
         /\ lost' \in [Workers -> Files]
<1>1. WorkerTypeOK
  BY DEF Inv, TypeOK
<1>2. CloseFiles({s}) /\ {s} \in SUBSET Fds
  BY DEF BeginRemove
<1>3. /\ file' \in [Fds -> Files] /\ peer' = peer /\ sent' = sent
      /\ backlog' \subseteq Conns /\ edge' \subseteq Fds
      /\ \A t \in Fds : file'[t] = IF t = s THEN None ELSE file[t]
  BY <1>2, FilesClosed
<1>4. /\ sockets' \in [Workers -> [Fds -> {"null", "listening", "socket"}]]
      /\ \A v \in Workers, t \in Fds :
           sockets'[v][t] = IF v = w /\ t = s THEN "null" ELSE sockets[v][t]
  BY <1>1 DEF BeginRemove, WorkerTypeOK
<1>5. pc' \in [Workers -> PCs] /\ pc' = [pc EXCEPT ![w] = "closed"]
  BY <1>1 DEF BeginRemove, Goto, WorkerTypeOK, PCs
<1>6. cur' \in [Workers -> Fds] /\ cur' = [cur EXCEPT ![w] = s]
  BY <1>1 DEF BeginRemove, WorkerTypeOK
<1>7. /\ back' \in [Workers -> {"sweep", "handle", "events"}]
      /\ lost' \in [Workers -> Files]
  BY <1>1 DEF BeginRemove, WorkerTypeOK
<1>8. QED
  BY <1>3, <1>4, <1>5, <1>6, <1>7

(* What a worker has, it is the home of; nobody else has it.               *)
LEMMA OwnSocket ==
  ASSUME Inv, NEW w \in Workers, NEW s \in Fds, sockets[w][s] # "null"
  PROVE  /\ w = Home(s) /\ InTable(s)
         /\ ~InSend(s) /\ ~InRead(s) /\ ~InStart(s)
         /\ file[s] \in IF s = ListenFd THEN {Listener} ELSE Conns
         /\ \A v \in Workers : ~InQueue(sendQueue[v], s)
         /\ \A v \in Workers : v # w => sockets[v][s] = "null"
         /\ sockets[w][s] = Kind(s)
<1>1. w = Home(s) /\ sockets[w][s] = Kind(s)
  BY DEF Inv, Ownership, Homes
<1>2. InTable(s)
  BY <1>1 DEF InTable
<1>3. ~InSend(s) /\ ~InRead(s) /\ ~InStart(s)
  BY <1>2 DEF Inv, Ownership, Exclusive
<1>4. file[s] # None
  BY <1>2 DEF Inv, Ownership, Backed, Somewhere
<1>5. file[s] \in IF s = ListenFd THEN {Listener} ELSE Conns
  BY <1>4 DEF Inv, Ownership, Descriptors
<1>6. \A v \in Workers : ~InQueue(sendQueue[v], s)
  BY <1>3 DEF Inv, Ownership, Homes, InSend
<1>7. \A v \in Workers : v # w => sockets[v][s] = "null"
  BY <1>1 DEF Inv, Ownership, Homes
<1>8. QED
  BY <1>1, <1>2, <1>3, <1>5, <1>6, <1>7
-----------------------------------------------------------------------------
(* Steps that move no descriptor.                                          *)

(* If every descriptor stays where it is, the ownership facts remain.      *)
LEMMA NobodyMoves ==
  ASSUME Inv,
         file' = file, sockets' = sockets,
         \A w \in Workers, s \in Fds : InQueue(sendQueue'[w], s) <=> InQueue(sendQueue[w], s),
         \A s \in Fds : InQueue(readQueue', s) <=> InQueue(readQueue, s),
         \A s \in Fds : (mpc' = "push" /\ Carries(request', s)) <=> InStart(s),
         mpc' # "stopped" => mpc # "stopped",
         stop[0] => stop'[0]
  PROVE  Ownership'
<1>1. ASSUME NEW s \in Fds
      PROVE  /\ InTable(s)' <=> InTable(s)
             /\ InSend(s)' <=> InSend(s)
             /\ InRead(s)' <=> InRead(s)
             /\ InStart(s)' <=> InStart(s)
  <2>1. Home(s) \in Workers /\ Home(s)' = Home(s)
    BY HomeIsWorker DEF Home, getWorkerProcess
  <2>2. QED
    BY <2>1 DEF InTable, InSend, InRead, InStart
<1>2. Homes'
  BY DEF Inv, Ownership, Homes
<1>3. Descriptors'
  BY DEF Inv, Ownership, Descriptors
<1>4. Exclusive'
  BY <1>1 DEF Inv, Ownership, Exclusive
<1>5. \A s \in Fds : Somewhere(s)' <=> Somewhere(s)
  BY <1>1 DEF Somewhere
<1>6. Backed'
  BY <1>5 DEF Inv, Ownership, Backed
<1>7. Kept'
  BY <1>5 DEF Inv, Ownership, Kept
<1>8. QED
  BY <1>2, <1>3, <1>4, <1>6, <1>7 DEF Ownership

(* What is left to show for a step of a worker.                            *)
LEMMA WorkerStep ==
  ASSUME Inv, NEW w \in Workers, pc[w] # "exit",
         UNCHANGED <<stop, mainVars>>, WorkerTypeOK', Queues', Ownership',
         \A v \in Workers : v # w =>
           pc'[v] = pc[v] /\ cur'[v] = cur[v] /\ sockets'[v] = sockets[v]
             /\ sendQueue'[v] = sendQueue[v],
         pc'[w] = "read" => sockets'[w][cur'[w]] = "socket",
         pc'[w] = "accept" => sockets'[w][cur'[w]] = "listening",
         pc'[w] = "write" => sockets'[w][cur'[w]] # "null"
  PROVE  Inv'
<1>1. TypeOK'
  BY DEF Inv, TypeOK, mainVars
<1>2. Working'
  <2>1. SUFFICES ASSUME NEW v \in Workers
                 PROVE  /\ pc'[v] = "read" => sockets'[v][cur'[v]] = "socket"
                        /\ pc'[v] = "accept" => sockets'[v][cur'[v]] = "listening"
                        /\ pc'[v] = "write" => sockets'[v][cur'[v]] # "null"
    BY DEF Working
  <2>2. QED
    BY DEF Inv, Working
<1>3. Pushing'
  BY DEF Inv, Pushing, mainVars
<1>4. Stopping'
  BY HomeIsWorker, WorkerAssumption DEF Inv, Stopping, MasterGone, mainVars
<1>5. QED
  BY <1>1, <1>2, <1>3, <1>4 DEF Inv

(* The clients touch neither the descriptors nor the workers.              *)
LEMMA ClientStep ==
  ASSUME Inv, Client, UNCHANGED mainVars
  PROVE  Inv'
<1>1. PICK c \in Conns : Connect(c) \/ PeerSend(c) \/ PeerEnd(c)
  BY DEF Client
<1>2. UNCHANGED <<file, workerVars>>
  BY <1>1 DEF Connect, PeerSend, PeerEnd
<1>3. /\ peer' \in [Conns -> {"idle", "up", "fin", "rst"}]
      /\ sent' \in [Conns -> Nat]
      /\ backlog' \subseteq Conns
      /\ edge' \subseteq Fds
  <2>1. WorkerTypeOK
    BY DEF Inv, TypeOK
  <2>2. edge' \subseteq Fds
    BY <1>1, <2>1 DEF WorkerTypeOK, Connect, PeerSend, PeerEnd, RaiseEdge, Registered
  <2>3. CASE Connect(c)
    BY <2>1, <2>2, <2>3 DEF WorkerTypeOK, Connect
  <2>4. CASE PeerSend(c)
    BY <2>1, <2>2, <2>4 DEF WorkerTypeOK, PeerSend
  <2>5. CASE PeerEnd(c)
    BY <2>1, <2>2, <2>5, WorkerAssumption DEF WorkerTypeOK, PeerEnd
  <2>6. QED
    BY <1>1, <2>3, <2>4, <2>5
<1>4. TypeOK'
  BY <1>2, <1>3 DEF Inv, TypeOK, WorkerTypeOK, workerVars, threadVars, mainVars
<1>5. Queues' /\ Working' /\ Pushing' /\ Stopping'
  BY <1>2 DEF Inv, Queues, Working, Pushing, Stopping, MasterGone, workerVars, threadVars, mainVars
<1>6. Ownership'
  BY <1>2, NobodyMoves DEF workerVars, mainVars, InStart
<1>7. QED
  BY <1>4, <1>5, <1>6 DEF Inv

(* The steps of a worker between two handlers.                             *)
LEMMA QuietStep ==
  ASSUME Inv, NEW w \in Workers, UNCHANGED mainVars,
         \/ run(w)
         \/ pc[w] = "sweep" /\ Goto(w, "handle")
              /\ UNCHANGED <<kernelVars, sockets, total, opts, rcvd, sendQueue, readQueue, stop,
                             cur, back, lost, batch>>
         \/ HandleNone(w) \/ EnterWait(w) \/ LeaveWait(w) \/ EventsDone(w)
  PROVE  Inv'
<1>1. /\ UNCHANGED <<file, peer, sent, backlog, sockets, total, opts, rcvd, sendQueue, readQueue,
                     stop, cur, back, lost>>
      /\ \E p \in {"top", "exit", "handle", "sweep", "poll", "wait", "events"} : Goto(w, p)
      /\ pc[w] # "exit"
      /\ \/ UNCHANGED <<edge, batch>>
         \/ LeaveWait(w)
  BY DEF run, HandleNone, EnterWait, LeaveWait, EventsDone, kernelVars
<1>2. edge' \subseteq Fds /\ batch' \in [Workers -> [Fds -> {"none", "in", "out", "err"}]]
  <2>1. edge \subseteq Fds /\ batch \in [Workers -> [Fds -> {"none", "in", "out", "err"}]]
    BY DEF Inv, TypeOK, WorkerTypeOK
  <2>2. CASE UNCHANGED <<edge, batch>>
    BY <2>1, <2>2
  <2>3. CASE LeaveWait(w)
    <3>1. PICK ready : edge' = edge \ ready /\ batch' =
            [batch EXCEPT ![w] = [s \in Fds |-> IF s \in ready THEN Flags(s) ELSE "none"]]
      BY <2>3 DEF LeaveWait
    <3>2. \A s : Flags(s) \in {"none", "in", "out", "err"}
      BY DEF Flags
    <3>3. [s \in Fds |-> IF s \in ready THEN Flags(s) ELSE "none"]
            \in [Fds -> {"none", "in", "out", "err"}]
      BY <3>2
    <3>4. QED
      BY <2>1, <3>1, <3>3
  <2>4. QED
    BY <1>1, <2>2, <2>3
<1>3. PICK p \in {"top", "exit", "handle", "sweep", "poll", "wait", "events"} : Goto(w, p)
  BY <1>1
<1>4. /\ pc' \in [Workers -> PCs] /\ pc'[w] = p
      /\ \A v \in Workers : v # w => pc'[v] = pc[v]
  BY <1>3 DEF Inv, TypeOK, WorkerTypeOK, Goto, PCs
<1>5. WorkerTypeOK'
  BY <1>1, <1>2, <1>4 DEF Inv, TypeOK, WorkerTypeOK
<1>6. Queues'
  BY <1>1 DEF Inv, Queues
<1>7. Ownership'
  BY <1>1, NobodyMoves DEF mainVars, InStart
<1>8. QED
  BY <1>1, <1>4, <1>5, <1>6, <1>7, WorkerStep
-----------------------------------------------------------------------------
(* Steps in which a worker closes one of its sockets.                      *)
LEMMA RemoveStep ==
  ASSUME Inv, NEW w \in Workers, NEW s \in Fds, NEW ret \in {"sweep", "handle", "events"},
         pc[w] # "exit", sockets[w][s] # "null", BeginRemove(w, s, ret),
         UNCHANGED <<total, opts, rcvd, readQueue, stop, mainVars>>,
         batch' \in [Workers -> [Fds -> {"none", "in", "out", "err"}]],
         sendQueue' \in [Workers -> Seq(Message)],
         \A v \in Workers : AllRequests(sendQueue'[v]) /\ Distinct(sendQueue'[v]),
         \A v \in Workers : v # w => sendQueue'[v] = sendQueue[v],
         \A v \in Workers, t \in Fds : InQueue(sendQueue'[v], t) <=> InQueue(sendQueue[v], t)
  PROVE  Inv'
<1>1. /\ file' \in [Fds -> Files] /\ peer' = peer /\ sent' = sent
      /\ backlog' \subseteq Conns /\ edge' \subseteq Fds
      /\ \A t \in Fds : file'[t] = IF t = s THEN None ELSE file[t]
  BY SocketRemoved
<1>2. /\ sockets' \in [Workers -> [Fds -> {"null", "listening", "socket"}]]
      /\ \A v \in Workers, t \in Fds :
           sockets'[v][t] = IF v = w /\ t = s THEN "null" ELSE sockets[v][t]
      /\ \A v \in Workers : v # w => sockets'[v] = sockets[v]
  <2>1. /\ sockets' \in [Workers -> [Fds -> {"null", "listening", "socket"}]]
        /\ \A v \in Workers, t \in Fds :
             sockets'[v][t] = IF v = w /\ t = s THEN "null" ELSE sockets[v][t]
    BY SocketRemoved
  <2>2. \A v \in Workers : v # w => sockets'[v] = sockets[v]
    BY DEF BeginRemove, Inv, TypeOK, WorkerTypeOK
  <2>3. QED
    BY <2>1, <2>2
<1>3. /\ pc' \in [Workers -> PCs] /\ pc'[w] = "closed"
      /\ \A v \in Workers : v # w => pc'[v] = pc[v]
      /\ cur' \in [Workers -> Fds]
      /\ \A v \in Workers : v # w => cur'[v] = cur[v]
      /\ back' \in [Workers -> {"sweep", "handle", "events"}]
      /\ lost' \in [Workers -> Files]
  <2>1. /\ pc' \in [Workers -> PCs] /\ pc' = [pc EXCEPT ![w] = "closed"]
        /\ cur' \in [Workers -> Fds] /\ cur' = [cur EXCEPT ![w] = s]
        /\ back' \in [Workers -> {"sweep", "handle", "events"}]
        /\ lost' \in [Workers -> Files]
    BY SocketRemoved
  <2>2. pc \in [Workers -> PCs] /\ cur \in [Workers -> Fds]
    BY DEF Inv, TypeOK, WorkerTypeOK
  <2>3. QED
    BY <2>1, <2>2
<1>4. WorkerTypeOK'
  BY <1>1, <1>2, <1>3 DEF Inv, TypeOK, WorkerTypeOK
<1>5. Queues'
  BY DEF Inv, Queues
<1>6. w = Home(s) /\ ~InSend(s) /\ ~InRead(s) /\ ~InStart(s)
  BY OwnSocket
<1>7. ASSUME NEW t \in Fds
      PROVE  /\ InTable(t)' <=> InTable(t) /\ t # s
             /\ InSend(t)' <=> InSend(t)
             /\ InRead(t)' <=> InRead(t)
             /\ InStart(t)' <=> InStart(t)
  <2>1. Home(t) \in Workers /\ Home(t)' = Home(t)
    BY HomeIsWorker DEF Home, getWorkerProcess
  <2>2. QED
    BY <1>2, <1>6, <2>1 DEF InTable, InSend, InRead, InStart, mainVars
<1>8. Ownership'
  <2>1. Homes'
    <3>1. \A v \in Workers, t \in Fds :
            sockets'[v][t] # "null" => v = Home(t) /\ sockets'[v][t] = Kind(t)
      BY <1>2 DEF Inv, Ownership, Homes
    <3>2. \A v \in Workers, t \in Fds : InQueue(sendQueue'[v], t) => v = Home(t)
      BY DEF Inv, Ownership, Homes
    <3>3. QED
      BY <3>1, <3>2 DEF Homes
  <2>2. Descriptors'
    BY <1>1 DEF Inv, Ownership, Descriptors
  <2>3. Exclusive'
    BY <1>7 DEF Inv, Ownership, Exclusive
  <2>4. Backed'
    BY <1>1, <1>6, <1>7 DEF Inv, Ownership, Backed, Somewhere
  <2>5. Kept'
    BY <1>1, <1>7 DEF Inv, Ownership, Kept, Somewhere, mainVars
  <2>6. QED
    BY <2>1, <2>2, <2>3, <2>4, <2>5 DEF Ownership
<1>9. QED
  BY <1>2, <1>3, <1>4, <1>5, <1>8, WorkerStep

(* checkSocket.                                                            *)
LEMMA CheckStep ==
  ASSUME Inv, NEW w \in Workers, checkSocket(w), UNCHANGED mainVars
  PROVE  Inv'
<1>1. CASE \E s \in Fds : sockets[w][s] = "socket" /\ BeginRemove(w, s, "sweep")
             /\ UNCHANGED <<total, opts, rcvd, sendQueue, readQueue, stop, batch>>
  <2>1. PICK s \in Fds : sockets[w][s] = "socket" /\ BeginRemove(w, s, "sweep")
                          /\ UNCHANGED <<total, opts, rcvd, sendQueue, readQueue, stop, batch>>
    BY <1>1
  <2>2. pc[w] # "exit" /\ sockets[w][s] # "null"
    BY <2>1 DEF checkSocket
  <2>3. /\ batch' \in [Workers -> [Fds -> {"none", "in", "out", "err"}]]
        /\ sendQueue' \in [Workers -> Seq(Message)]
        /\ \A v \in Workers : AllRequests(sendQueue'[v]) /\ Distinct(sendQueue'[v])
    BY <2>1 DEF Inv, TypeOK, WorkerTypeOK, Queues
  <2>4. QED
    BY <2>1, <2>2, <2>3, RemoveStep
<1>2. CASE pc[w] = "sweep" /\ Goto(w, "handle")
             /\ UNCHANGED <<kernelVars, sockets, total, opts, rcvd, sendQueue, readQueue, stop,
                            cur, back, lost, batch>>
  BY <1>2, QuietStep
<1>3. QED
  BY <1>1, <1>2 DEF checkSocket

(* handleMessage, when the request closes the socket it names ...          *)
LEMMA RequestCloses ==
  ASSUME Inv, NEW w \in Workers, NEW op \in {"CLOSE", "MESSAGE"}, Request(w, op),
         NEW s \in Fds, s = Head(sendQueue[w]).s, sockets[w][s] # "null",
         BeginRemove(w, s, "handle"),
         UNCHANGED <<total, opts, rcvd, readQueue, stop, batch, mainVars>>
  PROVE  Inv'
<1>1. /\ sendQueue' \in [Workers -> Seq(Message)]
      /\ \A v \in Workers : AllRequests(sendQueue'[v]) /\ Distinct(sendQueue'[v])
      /\ \A v \in Workers : v # w => sendQueue'[v] = sendQueue[v]
      /\ \A t : InQueue(sendQueue'[w], t) <=>
                  InQueue(sendQueue[w], t) /\ ~Carries(Head(sendQueue[w]), t)
  BY RequestTaken
<1>2. \A t : ~Carries(Head(sendQueue[w]), t)
  BY DEF Request, Carries
<1>3. \A v \in Workers, t \in Fds : InQueue(sendQueue'[v], t) <=> InQueue(sendQueue[v], t)
  BY <1>1, <1>2
<1>4. pc[w] # "exit" /\ batch' \in [Workers -> [Fds -> {"none", "in", "out", "err"}]]
  BY DEF Request, Inv, TypeOK, WorkerTypeOK
<1>5. QED
  BY <1>1, <1>3, <1>4, RemoveStep

(* ... or only sets an option, or changes nothing at all.                  *)
LEMMA RequestIgnored ==
  ASSUME Inv, NEW w \in Workers, NEW op \in {"CLOSE", "MESSAGE", "SOL"}, Request(w, op),
         UNCHANGED <<kernelVars, sockets, total, rcvd, readQueue, stop, threadVars, mainVars>>,
         opts' \in [Workers -> [Options -> Nat]]
  PROVE  Inv'
<1>1. /\ sendQueue' \in [Workers -> Seq(Message)]
      /\ \A v \in Workers : AllRequests(sendQueue'[v]) /\ Distinct(sendQueue'[v])
      /\ \A v \in Workers : v # w => sendQueue'[v] = sendQueue[v]
      /\ \A t : InQueue(sendQueue'[w], t) <=>
                  InQueue(sendQueue[w], t) /\ ~Carries(Head(sendQueue[w]), t)
  BY RequestTaken
<1>2. \A t : ~Carries(Head(sendQueue[w]), t)
  BY DEF Request, Carries
<1>3. \A v \in Workers, t \in Fds : InQueue(sendQueue'[v], t) <=> InQueue(sendQueue[v], t)
  BY <1>1, <1>2
<1>4. WorkerTypeOK'
  BY <1>1 DEF Inv, TypeOK, WorkerTypeOK, kernelVars, threadVars
<1>5. Queues'
  BY <1>1 DEF Inv, Queues
<1>6. Ownership'
  BY <1>3, NobodyMoves DEF kernelVars, mainVars, InStart
<1>7. pc[w] = "handle" /\ pc' = pc /\ cur' = cur
  BY DEF Request, threadVars
<1>8. QED
  BY <1>1, <1>4, <1>5, <1>6, <1>7, WorkerStep

(* HandleClose, HandleMessage and HandleOption.                            *)
LEMMA CloseStep ==
  ASSUME Inv, NEW w \in Workers, HandleClose(w), UNCHANGED mainVars
  PROVE  Inv'
<1> DEFINE s == Head(sendQueue[w]).s
<1>1. Request(w, "CLOSE") /\ UNCHANGED <<total, opts, rcvd, readQueue, stop>>
  BY DEF HandleClose
<1>2. s \in Fds
  BY <1>1, RequestTaken DEF GoodRequest
<1>3. CASE sockets[w][s] = "null"
  <2>1. UNCHANGED <<kernelVars, sockets, threadVars>>
    BY <1>3 DEF HandleClose
  <2>2. opts' \in [Workers -> [Options -> Nat]]
    BY <1>1 DEF Inv, TypeOK, WorkerTypeOK
  <2>3. QED
    BY <1>1, <2>1, <2>2, RequestIgnored
<1>4. CASE sockets[w][s] # "null"
  <2>1. BeginRemove(w, s, "handle") /\ UNCHANGED batch
    BY <1>4 DEF HandleClose
  <2>2. QED
    BY <1>1, <1>2, <1>4, <2>1, RequestCloses
<1>5. QED
  BY <1>3, <1>4

LEMMA MessageStep ==
  ASSUME Inv, NEW w \in Workers, HandleMessage(w), UNCHANGED mainVars
  PROVE  Inv'
<1> DEFINE s == Head(sendQueue[w]).s
<1>1. Request(w, "MESSAGE") /\ UNCHANGED <<total, opts, rcvd, readQueue, stop>>
  BY DEF HandleMessage
<1>2. s \in Fds
  BY <1>1, RequestTaken DEF GoodRequest
<1>3. CASE UNCHANGED <<kernelVars, sockets, threadVars>>
  <2>1. opts' \in [Workers -> [Options -> Nat]]
    BY <1>1 DEF Inv, TypeOK, WorkerTypeOK
  <2>2. QED
    BY <1>1, <1>3, <2>1, RequestIgnored
<1>4. CASE sockets[w][s] # "null" /\ BeginRemove(w, s, "handle") /\ UNCHANGED batch
  BY <1>1, <1>2, <1>4, RequestCloses
<1>5. QED
  BY <1>3, <1>4 DEF HandleMessage

LEMMA OptionStep ==
  ASSUME Inv, NEW w \in Workers, HandleOption(w), UNCHANGED mainVars
  PROVE  Inv'
<1> DEFINE m == Head(sendQueue[w])
<1>1. Request(w, "SOL") /\ opts' = [opts EXCEPT ![w][m.s] = m.n]
      /\ UNCHANGED <<kernelVars, sockets, total, rcvd, readQueue, stop, threadVars>>
  BY DEF HandleOption
<1>2. m \in Message /\ m.s \in Options
  BY <1>1, RequestTaken DEF GoodRequest
<1>3. m.n \in Nat
  BY <1>2 DEF Message
<1>4. opts' \in [Workers -> [Options -> Nat]]
  BY <1>1, <1>2, <1>3 DEF Inv, TypeOK, WorkerTypeOK
<1>5. QED
  BY <1>1, <1>4, RequestIgnored
-----------------------------------------------------------------------------
(* newSocket: the descriptor the request carries goes into the table, or   *)
(* is closed.                                                              *)
LEMMA NewSocketStep ==
  ASSUME Inv, NEW w \in Workers, NEW op \in {"NEW_SOCKET", "NEW_LISTENING"},
         NEW kind \in {"socket", "listening"},
         kind = "listening" <=> op = "NEW_LISTENING",
         Request(w, op), newSocket(w, kind), UNCHANGED mainVars
  PROVE  Inv'
<1> DEFINE m == Head(sendQueue[w])
           s == m.s
<1>1. /\ sendQueue' \in [Workers -> Seq(Message)]
      /\ \A v \in Workers : AllRequests(sendQueue'[v]) /\ Distinct(sendQueue'[v])
      /\ \A v \in Workers : v # w => sendQueue'[v] = sendQueue[v]
      /\ \A t : InQueue(sendQueue'[w], t) <=> InQueue(sendQueue[w], t) /\ ~Carries(m, t)
      /\ \A t : Carries(m, t) => InQueue(sendQueue[w], t)
      /\ GoodRequest(m) /\ m.op = op
  BY RequestTaken
<1>2. s \in Fds /\ Kind(s) = kind /\ \A t : Carries(m, t) <=> t = s
  BY <1>1, WorkerAssumption DEF GoodRequest, Kind, Carries
<1>3. w = Home(s) /\ InSend(s)
  BY <1>1, <1>2 DEF Inv, Ownership, Homes, InSend
<1>4. ~InTable(s) /\ ~InRead(s) /\ ~InStart(s) /\ file[s] # None
  BY <1>2, <1>3 DEF Inv, Ownership, Exclusive, Backed, Somewhere
<1>5. UNCHANGED <<opts, rcvd, stop, threadVars>> /\ pc[w] = "handle"
  BY DEF newSocket, Request
<1> HIDE DEF m
<1>6. ASSUME NEW t \in Fds
      PROVE  InSend(t)' <=> InSend(t) /\ t # s
  <2>1. Home(t) \in Workers /\ Home(t)' = Home(t)
    BY HomeIsWorker DEF Home, getWorkerProcess
  <2>2. QED
    BY <1>1, <1>2, <1>3, <2>1 DEF InSend
<1>7. \A v \in Workers, t \in Fds : InQueue(sendQueue'[v], t) => v = Home(t)
  BY <1>1 DEF Inv, Ownership, Homes
<1>8. CASE TooMany(w)
  <2>1. CloseFiles({s}) /\ UNCHANGED <<sockets, total, readQueue>>
    BY <1>8 DEF newSocket, m
  <2>2. /\ file' \in [Fds -> Files] /\ peer' = peer /\ sent' = sent
        /\ backlog' \subseteq Conns /\ edge' \subseteq Fds
        /\ \A t \in Fds : file'[t] = IF t = s THEN None ELSE file[t]
    BY <1>2, <2>1, FilesClosed
  <2>3. WorkerTypeOK'
    BY <1>1, <1>5, <2>1, <2>2 DEF Inv, TypeOK, WorkerTypeOK, threadVars
  <2>4. Queues'
    BY <1>1, <2>1 DEF Inv, Queues
  <2>5. ASSUME NEW t \in Fds
        PROVE  /\ InTable(t)' <=> InTable(t)
               /\ InRead(t)' <=> InRead(t)
               /\ InStart(t)' <=> InStart(t)
    BY <2>1 DEF InTable, InRead, InStart, mainVars, Home, getWorkerProcess
  <2>6. Homes'
    BY <1>7, <2>1 DEF Inv, Ownership, Homes
  <2>7. Descriptors'
    BY <2>2 DEF Inv, Ownership, Descriptors
  <2>8. Exclusive'
    BY <1>6, <2>5 DEF Inv, Ownership, Exclusive
  <2>9. Backed'
    BY <1>4, <1>6, <2>2, <2>5 DEF Inv, Ownership, Backed, Somewhere
  <2>10. Kept'
    BY <1>5, <1>6, <2>2, <2>5 DEF Inv, Ownership, Kept, Somewhere, mainVars
  <2>11. Ownership'
    BY <2>6, <2>7, <2>8, <2>9, <2>10 DEF Ownership
  <2>12. QED
    BY <1>1, <1>5, <2>1, <2>3, <2>4, <2>11, WorkerStep DEF threadVars
<1>9. CASE ~TooMany(w)
  <2>1. /\ sockets' = [sockets EXCEPT ![w][s] = kind]
        /\ edge' = edge \cup {s}
        /\ readQueue' = Append(readQueue, allocateMessage(s, "ESTABLISH", file[s], 0))
        /\ total' = [total EXCEPT ![w] = @ + 1]
        /\ UNCHANGED <<file, peer, sent, backlog>>
    BY <1>9 DEF newSocket, m
  <2>2. file[s] \in Files
    BY <1>2 DEF Inv, TypeOK, WorkerTypeOK
  <2>3. /\ readQueue' \in Seq(Message)
        /\ AllEvents(readQueue') /\ Distinct(readQueue')
        /\ \A t : InQueue(readQueue', t) <=> InQueue(readQueue, t)
    BY <1>2, <2>1, <2>2, EventReported
  <2>4. /\ sockets' \in [Workers -> [Fds -> {"null", "listening", "socket"}]]
        /\ \A v \in Workers, t \in Fds :
             sockets'[v][t] = IF v = w /\ t = s THEN kind ELSE sockets[v][t]
        /\ \A v \in Workers : v # w => sockets'[v] = sockets[v]
    BY <1>2, <2>1 DEF Inv, TypeOK, WorkerTypeOK
  <2>5. edge' \subseteq Fds /\ total' \in [Workers -> Int]
    <3>1. edge \subseteq Fds /\ total \in [Workers -> Int]
      BY DEF Inv, TypeOK, WorkerTypeOK
    <3>2. total[w] + 1 \in Int
      BY <3>1
    <3>3. QED
      BY <1>2, <2>1, <3>1, <3>2
  <2>6. WorkerTypeOK'
    BY <1>1, <1>5, <2>1, <2>3, <2>4, <2>5 DEF Inv, TypeOK, WorkerTypeOK, threadVars
  <2>7. Queues'
    BY <1>1, <2>3 DEF Queues
  <2>8. ASSUME NEW t \in Fds
        PROVE  /\ InTable(t)' <=> InTable(t) \/ t = s
               /\ InRead(t)' <=> InRead(t)
               /\ InStart(t)' <=> InStart(t)
    <3>1. Home(t) \in Workers /\ Home(t)' = Home(t)
      BY HomeIsWorker DEF Home, getWorkerProcess
    <3>2. InTable(t)' <=> InTable(t) \/ t = s
      BY <1>2, <1>3, <2>4, <3>1 DEF InTable
    <3>3. QED
      BY <2>3, <3>2 DEF InRead, InStart, mainVars
  <2>9. Homes'
    <3>1. \A v \in Workers, t \in Fds :
            sockets'[v][t] # "null" => v = Home(t) /\ sockets'[v][t] = Kind(t)
      BY <1>2, <1>3, <2>4 DEF Inv, Ownership, Homes
    <3>2. QED
      BY <1>7, <3>1 DEF Homes
  <2>10. Descriptors'
    BY <2>1 DEF Inv, Ownership, Descriptors
  <2>11. Exclusive'
    BY <1>4, <1>6, <2>8 DEF Inv, Ownership, Exclusive
  <2>12. Backed'
    BY <1>4, <1>6, <2>1, <2>8 DEF Inv, Ownership, Backed, Somewhere
  <2>13. Kept'
    BY <1>5, <1>6, <2>1, <2>8 DEF Inv, Ownership, Kept, Somewhere, mainVars
  <2>14. Ownership'
    BY <2>9, <2>10, <2>11, <2>12, <2>13 DEF Ownership
  <2>15. QED
    BY <1>1, <1>5, <2>4, <2>6, <2>7, <2>14, WorkerStep DEF threadVars
<1>10. QED
  BY <1>8, <1>9

(* The rest of removeSocket only reports.                                  *)
LEMMA ReportStep ==
  ASSUME Inv, NEW w \in Workers, removeSocket(w), UNCHANGED mainVars
  PROVE  Inv'
<1>1. WorkerTypeOK
  BY DEF Inv, TypeOK
<1>2. /\ pc[w] = "closed"
      /\ readQueue' = Append(readQueue, allocateMessage(cur[w], "CLOSE", lost[w], 0))
      /\ UNCHANGED <<file, peer, sent, backlog, edge, sockets, opts, rcvd, sendQueue, stop, batch>>
  BY DEF removeSocket, kernelVars
<1>3. cur[w] \in Fds /\ lost[w] \in Files
  BY <1>1 DEF WorkerTypeOK
<1>4. /\ readQueue' \in Seq(Message)
      /\ AllEvents(readQueue') /\ Distinct(readQueue')
      /\ \A t : InQueue(readQueue', t) <=> InQueue(readQueue, t)
  BY <1>2, <1>3, EventReported
<1>5. total' \in [Workers -> Int]
  BY <1>1 DEF removeSocket, WorkerTypeOK
<1>6. /\ back[w] \in {"sweep", "handle", "events"}
      /\ pc' = [pc EXCEPT ![w] = back[w]]
      /\ cur' = [cur EXCEPT ![w] = ListenFd]
      /\ back' = [back EXCEPT ![w] = "handle"]
      /\ lost' = [lost EXCEPT ![w] = None]
  BY <1>1 DEF removeSocket, Return, Goto, WorkerTypeOK
<1>7. /\ pc' \in [Workers -> PCs] /\ cur' \in [Workers -> Fds]
      /\ back' \in [Workers -> {"sweep", "handle", "events"}]
      /\ lost' \in [Workers -> Files]
  BY <1>1, <1>6, WorkerAssumption DEF WorkerTypeOK, PCs, Files
<1>8. /\ pc'[w] \in {"sweep", "handle", "events"}
      /\ \A v \in Workers : v # w => pc'[v] = pc[v] /\ cur'[v] = cur[v]
  BY <1>1, <1>6 DEF WorkerTypeOK
<1>9. WorkerTypeOK'
  BY <1>1, <1>2, <1>4, <1>5, <1>7 DEF WorkerTypeOK
<1>10. Queues'
  BY <1>2, <1>4 DEF Inv, Queues
<1>11. Ownership'
  BY <1>2, <1>4, NobodyMoves DEF mainVars, InStart
<1>12. QED
  BY <1>2, <1>8, <1>9, <1>10, <1>11, WorkerStep
-----------------------------------------------------------------------------
(* The events of Poll::run.                                                *)

(* A worker turns to one of its sockets, or leaves it.                     *)
LEMMA TurnStep ==
  ASSUME Inv, NEW w \in Workers, NEW s \in Fds,
         NEW p \in {"events", "read", "write", "accept"},
         pc[w] # "exit", pc' = [pc EXCEPT ![w] = p], cur' = [cur EXCEPT ![w] = s],
         p = "read" => sockets[w][s] = "socket",
         p = "accept" => sockets[w][s] = "listening",
         p = "write" => sockets[w][s] # "null",
         batch' \in [Workers -> [Fds -> {"none", "in", "out", "err"}]],
         UNCHANGED <<file, peer, sent, backlog, edge, sockets, total, opts, rcvd, sendQueue,
                     readQueue, stop, back, lost, mainVars>>
  PROVE  Inv'
<1>1. pc \in [Workers -> PCs] /\ cur \in [Workers -> Fds]
  BY DEF Inv, TypeOK, WorkerTypeOK
<1>2. /\ pc' \in [Workers -> PCs] /\ cur' \in [Workers -> Fds]
      /\ pc'[w] = p /\ cur'[w] = s
      /\ \A v \in Workers : v # w => pc'[v] = pc[v] /\ cur'[v] = cur[v]
  BY <1>1 DEF PCs
<1>3. WorkerTypeOK'
  BY <1>2 DEF Inv, TypeOK, WorkerTypeOK
<1>4. Queues'
  BY DEF Inv, Queues
<1>5. Ownership'
  BY NobodyMoves DEF mainVars, InStart
<1>6. QED
  BY <1>2, <1>3, <1>4, <1>5, WorkerStep

LEMMA EventStep ==
  ASSUME Inv, NEW w \in Workers, HandleEvent(w), UNCHANGED mainVars
  PROVE  Inv'
<1>1. PICK s \in Fds :
        /\ batch' = [batch EXCEPT ![w][s] = "none"]
        /\ sockets[w][s] # "null"
        /\ \/ BeginRemove(w, s, "events")
           \/ /\ cur' = [cur EXCEPT ![w] = s]
              /\ Goto(w, IF batch[w][s] = "out" THEN "write"
                         ELSE IF sockets[w][s] = "listening" THEN "accept" ELSE "read")
              /\ UNCHANGED <<kernelVars, sockets, back, lost>>
  BY DEF HandleEvent
<1>2. pc[w] # "exit" /\ UNCHANGED <<total, opts, rcvd, sendQueue, readQueue, stop>>
  BY DEF HandleEvent
<1>3. batch' \in [Workers -> [Fds -> {"none", "in", "out", "err"}]]
  BY <1>1 DEF Inv, TypeOK, WorkerTypeOK
<1>4. CASE BeginRemove(w, s, "events")
  <2>1. /\ sendQueue' \in [Workers -> Seq(Message)]
        /\ \A v \in Workers : AllRequests(sendQueue'[v]) /\ Distinct(sendQueue'[v])
    BY <1>2 DEF Inv, TypeOK, WorkerTypeOK, Queues
  <2>2. QED
    BY <1>1, <1>2, <1>3, <1>4, <2>1, RemoveStep
<1>5. CASE /\ cur' = [cur EXCEPT ![w] = s]
           /\ Goto(w, IF batch[w][s] = "out" THEN "write"
                      ELSE IF sockets[w][s] = "listening" THEN "accept" ELSE "read")
           /\ UNCHANGED <<kernelVars, sockets, back, lost>>
  <2> DEFINE p == IF batch[w][s] = "out" THEN "write"
                  ELSE IF sockets[w][s] = "listening" THEN "accept" ELSE "read"
  <2>1. sockets[w][s] \in {"socket", "listening"}
    BY <1>1 DEF Inv, TypeOK, WorkerTypeOK
  <2>2. /\ p \in {"events", "read", "write", "accept"}
        /\ p = "read" => sockets[w][s] = "socket"
        /\ p = "accept" => sockets[w][s] = "listening"
    BY <2>1
  <2>3. pc' = [pc EXCEPT ![w] = p]
    BY <1>5 DEF Goto
  <2> HIDE DEF p
  <2>4. QED
    BY <1>1, <1>2, <1>3, <1>5, <2>2, <2>3, TurnStep DEF kernelVars
<1>6. QED
  BY <1>1, <1>4, <1>5

(* acceptSocket: a free number is put into the read queue; it cannot be    *)
(* that of the listening socket.                                           *)
LEMMA AcceptStep ==
  ASSUME Inv, NEW w \in Workers, acceptSocket(w), UNCHANGED mainVars
  PROVE  Inv'
<1>1. /\ pc[w] = "accept"
      /\ UNCHANGED <<peer, sent, edge, sockets, total, opts, rcvd, sendQueue, stop,
                     back, lost, batch>>
  BY DEF acceptSocket
<1>2. cur[w] \in Fds /\ sockets[w][cur[w]] = "listening"
  BY <1>1 DEF Inv, TypeOK, WorkerTypeOK, Working
<1>3. file[ListenFd] = Listener /\ Listener # None
  BY <1>2, OwnSocket, WorkerAssumption DEF Kind
<1>4. CASE \E c \in backlog, s \in {f \in Fds : file[f] = None} :
             /\ file' = [file EXCEPT ![s] = c]
             /\ backlog' = backlog \ {c}
             /\ readQueue' = Append(readQueue, allocateMessage(s, "NEW_SOCKET", c, 0))
             /\ UNCHANGED <<pc, cur>>
  <2>1. PICK c \in backlog, s \in {f \in Fds : file[f] = None} :
             /\ file' = [file EXCEPT ![s] = c]
             /\ backlog' = backlog \ {c}
             /\ readQueue' = Append(readQueue, allocateMessage(s, "NEW_SOCKET", c, 0))
             /\ UNCHANGED <<pc, cur>>
    BY <1>4
  <2>2. s \in Fds /\ file[s] = None /\ c \in Conns /\ c \in Files /\ c # None /\ s # ListenFd
    BY <1>3, WorkerAssumption DEF Inv, TypeOK, WorkerTypeOK, Files
  <2>3. ~InTable(s) /\ ~InSend(s) /\ ~InRead(s) /\ ~InStart(s)
    BY <2>2 DEF Inv, Ownership, Backed, Somewhere
  <2>4. /\ readQueue' \in Seq(Message)
        /\ AllEvents(readQueue') /\ Distinct(readQueue')
        /\ \A t : InQueue(readQueue', t) <=> InQueue(readQueue, t) \/ t = s
    BY <2>1, <2>2, <2>3, EventReported
  <2>5. /\ file' \in [Fds -> Files] /\ backlog' \subseteq Conns
        /\ \A t \in Fds : file'[t] = IF t = s THEN c ELSE file[t]
    BY <2>1, <2>2 DEF Inv, TypeOK, WorkerTypeOK
  <2>6. WorkerTypeOK'
    BY <1>1, <2>1, <2>4, <2>5 DEF Inv, TypeOK, WorkerTypeOK
  <2>7. Queues'
    BY <1>1, <2>4 DEF Inv, Queues
  <2>8. ASSUME NEW t \in Fds
        PROVE  /\ InTable(t)' <=> InTable(t)
               /\ InSend(t)' <=> InSend(t)
               /\ InRead(t)' <=> InRead(t) \/ t = s
               /\ InStart(t)' <=> InStart(t)
    <3>1. Home(t)' = Home(t)
      BY DEF Home, getWorkerProcess
    <3>2. QED
      BY <1>1, <2>4, <3>1 DEF InTable, InSend, InRead, InStart, mainVars
  <2>9. Homes'
    BY <1>1 DEF Inv, Ownership, Homes
  <2>10. Descriptors'
    BY <2>2, <2>5 DEF Inv, Ownership, Descriptors
  <2>11. Exclusive'
    BY <2>3, <2>8 DEF Inv, Ownership, Exclusive
  <2>12. Backed'
    BY <2>2, <2>5, <2>8 DEF Inv, Ownership, Backed, Somewhere
  <2>13. Kept'
    BY <1>1, <2>5, <2>8 DEF Inv, Ownership, Kept, Somewhere, mainVars
  <2>14. Ownership'
    BY <2>9, <2>10, <2>11, <2>12, <2>13 DEF Ownership
  <2>15. QED
    BY <1>1, <1>2, <2>1, <2>6, <2>7, <2>14, WorkerStep
<1>5. CASE Return(w, "events") /\ UNCHANGED <<file, backlog, readQueue>>
  <2>1. batch' \in [Workers -> [Fds -> {"none", "in", "out", "err"}]] /\ ListenFd \in Fds
    BY <1>1, WorkerAssumption DEF Inv, TypeOK, WorkerTypeOK
  <2>2. QED
    BY <1>1, <1>5, <2>1, TurnStep DEF Return, Goto
<1>6. QED
  BY <1>4, <1>5 DEF acceptSocket

(* readSocket works on a connection, whose messages it counts.             *)
LEMMA ReadStep ==
  ASSUME Inv, NEW w \in Workers, readSocket(w), UNCHANGED mainVars
  PROVE  Inv'
<1> DEFINE s == cur[w]
           c == file[s]
<1>1. pc[w] = "read" /\ UNCHANGED <<total, opts, sendQueue, stop, batch>>
  BY DEF readSocket
<1>2. s \in Fds /\ sockets[w][s] = "socket"
  BY <1>1 DEF Inv, TypeOK, WorkerTypeOK, Working
<1>3. c \in Conns
  BY <1>2, OwnSocket DEF Kind
<1>4. /\ batch' \in [Workers -> [Fds -> {"none", "in", "out", "err"}]]
      /\ sendQueue' \in [Workers -> Seq(Message)]
      /\ \A v \in Workers : AllRequests(sendQueue'[v]) /\ Distinct(sendQueue'[v])
  BY <1>1 DEF Inv, TypeOK, WorkerTypeOK, Queues
<1>5. CASE /\ rcvd' = [rcvd EXCEPT ![c] = @ + 1]
           /\ readQueue' = Append(readQueue, allocateMessage(s, "MESSAGE", c, rcvd[c] + 1))
           /\ UNCHANGED <<kernelVars, sockets, pc, cur, back, lost>>
  <2>1. rcvd \in [Conns -> Nat]
    BY DEF Inv, TypeOK, WorkerTypeOK
  <2>2. rcvd[c] + 1 \in Nat /\ c \in Files
    BY <1>3, <2>1 DEF Files
  <2>3. rcvd' \in [Conns -> Nat]
    BY <1>3, <1>5, <2>1, <2>2
  <2>4. /\ readQueue' \in Seq(Message)
        /\ AllEvents(readQueue') /\ Distinct(readQueue')
        /\ \A t : InQueue(readQueue', t) <=> InQueue(readQueue, t)
    BY <1>2, <1>5, <2>2, EventReported
  <2>5. WorkerTypeOK'
    BY <1>1, <1>5, <2>3, <2>4 DEF Inv, TypeOK, WorkerTypeOK, kernelVars
  <2>6. Queues'
    BY <1>4, <2>4 DEF Queues
  <2>7. Ownership'
    BY <1>1, <1>5, <2>4, NobodyMoves DEF mainVars, InStart, kernelVars
  <2>8. QED
    BY <1>1, <1>2, <1>5, <2>5, <2>6, <2>7, WorkerStep
<1>6. CASE BeginRemove(w, s, "events") /\ UNCHANGED <<rcvd, readQueue>>
  BY <1>1, <1>2, <1>4, <1>6, RemoveStep
<1>7. CASE /\ Goto(w, "write")
           /\ UNCHANGED <<kernelVars, sockets, rcvd, readQueue, cur, back, lost>>
  <2>1. cur' = [cur EXCEPT ![w] = s]
    BY <1>7 DEF Inv, TypeOK, WorkerTypeOK
  <2>2. QED
    BY <1>1, <1>2, <1>4, <1>7, <2>1, TurnStep DEF Goto, kernelVars
<1>8. CASE /\ Return(w, "events")
           /\ UNCHANGED <<kernelVars, sockets, rcvd, readQueue, back, lost>>
  BY <1>1, <1>4, <1>8, TurnStep, WorkerAssumption DEF Return, Goto, kernelVars
<1>9. QED
  BY <1>5, <1>6, <1>7, <1>8 DEF readSocket

LEMMA WriteStep ==
  ASSUME Inv, NEW w \in Workers, writeSocket(w), UNCHANGED mainVars
  PROVE  Inv'
<1>1. pc[w] = "write" /\ UNCHANGED <<total, opts, rcvd, sendQueue, readQueue, stop, batch>>
  BY DEF writeSocket
<1>2. cur[w] \in Fds /\ sockets[w][cur[w]] # "null"
  BY <1>1 DEF Inv, TypeOK, WorkerTypeOK, Working
<1>3. /\ batch' \in [Workers -> [Fds -> {"none", "in", "out", "err"}]]
      /\ sendQueue' \in [Workers -> Seq(Message)]
      /\ \A v \in Workers : AllRequests(sendQueue'[v]) /\ Distinct(sendQueue'[v])
  BY <1>1 DEF Inv, TypeOK, WorkerTypeOK, Queues
<1>4. CASE BeginRemove(w, cur[w], "events")
  BY <1>1, <1>2, <1>3, <1>4, RemoveStep
<1>5. CASE Return(w, "events") /\ UNCHANGED <<kernelVars, sockets, back, lost>>
  BY <1>1, <1>3, <1>5, TurnStep, WorkerAssumption DEF Return, Goto, kernelVars
<1>6. QED
  BY <1>4, <1>5 DEF writeSocket

(* All steps of a worker.                                                  *)
LEMMA AnyWorkerStep ==
  ASSUME Inv, NEW w \in Workers, Worker(w), UNCHANGED mainVars
  PROVE  Inv'
<1>1. CASE run(w) \/ HandleNone(w) \/ EnterWait(w) \/ LeaveWait(w) \/ EventsDone(w)
  BY <1>1, QuietStep
<1>2. CASE checkSocket(w)
  BY <1>2, CheckStep
<1>3. CASE HandleClose(w)
  BY <1>3, CloseStep
<1>4. CASE HandleMessage(w)
  BY <1>4, MessageStep
<1>5. CASE HandleNewSocket(w)
  BY <1>5, NewSocketStep DEF HandleNewSocket
<1>6. CASE HandleNewListening(w)
  BY <1>6, NewSocketStep DEF HandleNewListening
<1>7. CASE HandleOption(w)
  BY <1>7, OptionStep
<1>8. CASE removeSocket(w)
  BY <1>8, ReportStep
<1>9. CASE HandleEvent(w)
  BY <1>9, EventStep
<1>10. CASE acceptSocket(w)
  BY <1>10, AcceptStep
<1>11. CASE readSocket(w)
  BY <1>11, ReadStep
<1>12. CASE writeSocket(w)
  BY <1>12, WriteStep
<1>13. QED
  BY <1>1, <1>2, <1>3, <1>4, <1>5, <1>6, <1>7, <1>8, <1>9, <1>10, <1>11, <1>12
     DEF Worker, handleMessage, pollRun
-----------------------------------------------------------------------------
(* The application's thread.                                               *)

(* The signal changes nothing but where a waiting worker is.               *)
LEMMA Signalled ==
  ASSUME Inv, NEW w \in Workers, Wake(w), cur' = cur, sockets' = sockets
  PROVE  /\ pc' \in [Workers -> PCs]
         /\ Working'
         /\ pc[0] = "exit" => pc'[0] = "exit"
<1>1. pc \in [Workers -> PCs]
  BY DEF Inv, TypeOK, WorkerTypeOK
<1>2. \A v \in Workers : pc'[v] = IF v = w /\ pc[w] = "wait" THEN "top" ELSE pc[v]
  BY <1>1 DEF Wake
<1>3. pc' \in [Workers -> PCs]
  BY <1>1 DEF Wake, PCs
<1>4. Working'
  BY <1>2 DEF Inv, Working
<1>5. pc[0] = "exit" => pc'[0] = "exit"
  BY <1>2, HomeIsWorker, WorkerAssumption
<1>6. QED
  BY <1>3, <1>4, <1>5

(* pushMessage queues the listening socket or an option.                   *)
LEMMA PushStep ==
  ASSUME Inv, PushMessage
  PROVE  Inv'
<1>1. /\ mpc = "push" /\ mpc' = "kill" /\ target' = target
      /\ Enqueue(target, request)
      /\ UNCHANGED <<file, peer, sent, backlog, edge, sockets, total, opts, rcvd, readQueue, stop,
                     pc, cur, back, lost, batch>>
      /\ UNCHANGED <<last, request, calls, view, status, heard>>
  BY DEF PushMessage, Enqueue, OthersUnchanged, kernelVars, threadVars
<1>2. target \in Workers /\ request \in Message
  BY DEF Inv, TypeOK
<1>3. /\ request.op \in {"SOL", "NEW_LISTENING"}
      /\ request.op = "SOL" => request.s \in Options
      /\ request.op = "NEW_LISTENING" => request.s = ListenFd /\ target = 0 /\ last = 0
  BY <1>1 DEF Inv, Pushing
<1>4. GoodRequest(request) /\ \A s : Carries(request, s) <=> request.op = "NEW_LISTENING" /\ s = ListenFd
  BY <1>3 DEF GoodRequest, Carries
<1>5. ListenFd \in Fds /\ Home(ListenFd) = 0
  BY WorkerAssumption DEF Home
<1>6. request.op = "NEW_LISTENING" =>
        /\ InStart(ListenFd) /\ ~InTable(ListenFd) /\ ~InSend(ListenFd) /\ ~InRead(ListenFd)
        /\ ~InQueue(sendQueue[target], ListenFd)
  <2>1. request.op = "NEW_LISTENING" => InStart(ListenFd)
    BY <1>1, <1>4 DEF InStart
  <2>2. InStart(ListenFd) => ~InTable(ListenFd) /\ ~InSend(ListenFd) /\ ~InRead(ListenFd)
    BY <1>5 DEF Inv, Ownership, Exclusive
  <2>3. QED
    BY <1>3, <1>5, <2>1, <2>2 DEF InSend
<1>7. /\ sendQueue' \in [Workers -> Seq(Message)]
      /\ \A v \in Workers : AllRequests(sendQueue'[v]) /\ Distinct(sendQueue'[v])
      /\ \A v \in Workers : v # target => sendQueue'[v] = sendQueue[v]
      /\ \A s : InQueue(sendQueue'[target], s) <=>
                  InQueue(sendQueue[target], s) \/ Carries(request, s)
  BY <1>1, <1>2, <1>4, <1>6, RequestQueued
<1>8. TypeOK'
  BY <1>1, <1>7 DEF Inv, TypeOK, WorkerTypeOK, MainPCs
<1>9. Queues'
  BY <1>1, <1>7 DEF Inv, Queues
<1>10. Working' /\ Pushing' /\ Stopping'
  BY <1>1, <1>3 DEF Inv, Working, Pushing, Stopping, MasterGone
<1>11. ASSUME NEW s \in Fds
       PROVE  /\ InTable(s)' <=> InTable(s)
              /\ InSend(s)' <=> InSend(s) \/ InStart(s)
              /\ InRead(s)' <=> InRead(s)
              /\ ~InStart(s)'
  <2>1. Home(s) \in Workers /\ Home(s)' = Home(s)
    BY HomeIsWorker DEF Home, getWorkerProcess
  <2>2. InStart(s) <=> request.op = "NEW_LISTENING" /\ s = ListenFd
    BY <1>1, <1>4 DEF InStart
  <2>3. InSend(s)' <=> InSend(s) \/ InStart(s)
    BY <1>3, <1>4, <1>5, <1>7, <2>1, <2>2 DEF InSend
  <2>4. QED
    BY <1>1, <2>1, <2>3 DEF InTable, InRead, InStart
<1>12. Homes'
  <2>1. \A v \in Workers, s \in Fds :
          sockets'[v][s] # "null" => v = Home(s) /\ sockets'[v][s] = Kind(s)
    BY <1>1 DEF Inv, Ownership, Homes
  <2>2. \A v \in Workers, s \in Fds : InQueue(sendQueue'[v], s) => v = Home(s)
    BY <1>3, <1>4, <1>5, <1>7 DEF Inv, Ownership, Homes
  <2>3. QED
    BY <2>1, <2>2 DEF Homes
<1>13. Descriptors'
  BY <1>1 DEF Inv, Ownership, Descriptors
<1>14. Exclusive'
  BY <1>11 DEF Inv, Ownership, Exclusive
<1>15. \A s \in Fds : Somewhere(s)' <=> Somewhere(s)
  BY <1>11 DEF Somewhere
<1>16. Backed' /\ Kept'
  BY <1>1, <1>15 DEF Inv, Ownership, Backed, Kept
<1>17. QED
  BY <1>8, <1>9, <1>10, <1>12, <1>13, <1>14, <1>16 DEF Inv, Ownership

(* pthread_kill.                                                           *)
LEMMA SignalStep ==
  ASSUME Inv, PushSignal
  PROVE  Inv'
<1>1. /\ mpc = "kill" /\ Wake(target)
      /\ UNCHANGED <<file, peer, sent, backlog, edge, sockets, total, opts, rcvd, sendQueue,
                     readQueue, stop, cur, back, lost, batch, calls, view, status, heard>>
  BY DEF PushSignal, kernelVars
<1>2. \/ target < last /\ mpc' = "push" /\ target' = target + 1 /\ UNCHANGED <<last, request>>
      \/ mpc' = "idle" /\ target' = 0 /\ last' = 0 /\ request' = NoRequest
  BY DEF PushSignal
<1>3. NoRequest \in Message /\ NoRequest.op = "MESSAGE"
  BY AllocatedMessage DEF NoRequest, Opcodes, Files
<1>4. target \in Workers /\ last \in Workers /\ request \in Message
  BY DEF Inv, TypeOK
<1>5. pc' \in [Workers -> PCs] /\ Working'
  BY <1>1, <1>4, Signalled
<1>6. target' \in Workers /\ last' \in Workers /\ request' \in Message
  BY <1>2, <1>3, <1>4, WorkerAssumption DEF Workers
<1>7. TypeOK'
  BY <1>1, <1>2, <1>5, <1>6 DEF Inv, TypeOK, WorkerTypeOK, MainPCs
<1>8. Queues'
  BY <1>1 DEF Inv, Queues
<1>9. Pushing'
  BY <1>1, <1>2, <1>3, <1>4, WorkerAssumption DEF Inv, Pushing, Workers
<1>10. Stopping'
  BY <1>1, <1>2 DEF Stopping, MasterGone
<1>11. \A s \in Fds : (mpc' = "push" /\ Carries(request', s)) <=> InStart(s)
  BY <1>1, <1>2, <1>4, WorkerAssumption DEF Inv, Pushing, Workers, InStart, Carries
<1>12. Ownership'
  BY <1>1, <1>2, <1>11, NobodyMoves
<1>13. QED
  BY <1>5, <1>7, <1>8, <1>9, <1>10, <1>12 DEF Inv

(* A call that queues a request which carries no descriptor.               *)
LEMMA AppRequestStep ==
  ASSUME Inv, NEW op \in {"CLOSE", "MESSAGE"}, AppRequest(op)
  PROVE  Inv'
<1>1. PICK s \in Fds :
        /\ view[s] # None
        /\ Enqueue(getWorkerProcess(s), allocateMessage(s, op, view[s], 0))
        /\ last' = getWorkerProcess(s)
  BY DEF AppRequest
<1> DEFINE w == getWorkerProcess(s)
           m == allocateMessage(s, op, view[s], 0)
<1>2. /\ mpc = "idle" /\ mpc' = "kill" /\ target' = w /\ last' = w /\ calls' = calls + 1
      /\ UNCHANGED <<file, peer, sent, backlog, edge, sockets, total, opts, rcvd, readQueue, stop,
                     pc, cur, back, lost, batch>>
      /\ UNCHANGED <<request, view, status, heard>>
  BY <1>1 DEF AppRequest, Enqueue, OthersUnchanged, kernelVars, threadVars
<1>3. view[s] \in Files
  BY DEF Inv, TypeOK
<1>4. m \in Message /\ m.op = op /\ m.s = s
  BY <1>3, AllocatedMessage, WorkerAssumption DEF Opcodes
<1>5. w \in Workers
  BY HomeIsWorker
<1> HIDE DEF m, w
<1>6. GoodRequest(m) /\ \A t : ~Carries(m, t)
  BY <1>4 DEF GoodRequest, Carries
<1>7. Enqueue(w, m)
  BY <1>1 DEF w, m
<1>8. /\ sendQueue' \in [Workers -> Seq(Message)]
      /\ \A v \in Workers : AllRequests(sendQueue'[v]) /\ Distinct(sendQueue'[v])
      /\ \A v \in Workers : v # w => sendQueue'[v] = sendQueue[v]
      /\ \A t : InQueue(sendQueue'[w], t) <=> InQueue(sendQueue[w], t) \/ Carries(m, t)
  BY <1>4, <1>5, <1>6, <1>7, RequestQueued
<1>9. TypeOK'
  <2>1. calls' \in Nat
    BY <1>2 DEF Inv, TypeOK
  <2>2. QED
    BY <1>2, <1>5, <1>8, <2>1 DEF Inv, TypeOK, WorkerTypeOK, MainPCs
<1>10. Queues'
  BY <1>2, <1>8 DEF Inv, Queues
<1>11. Working' /\ Stopping'
  BY <1>2 DEF Inv, Working, Stopping, MasterGone
<1>12. Pushing'
  BY <1>2, <1>5, WorkerAssumption DEF Inv, Pushing, Workers
<1>13. \A v \in Workers, t \in Fds : InQueue(sendQueue'[v], t) <=> InQueue(sendQueue[v], t)
  BY <1>6, <1>8
<1>14. Ownership'
  BY <1>2, <1>13, NobodyMoves DEF InStart
<1>15. QED
  BY <1>9, <1>10, <1>11, <1>12, <1>14 DEF Inv

LEMMA SetsockoptStep ==
  ASSUME Inv, setsockopt
  PROVE  Inv'
<1>1. /\ mpc = "idle" /\ mpc' = "push" /\ target' = 0 /\ last' = WorkerNumber
      /\ calls' = calls + 1
      /\ UNCHANGED <<file, peer, sent, backlog, edge, sockets, total, opts, rcvd, sendQueue,
                     readQueue, stop, pc, cur, back, lost, batch>>
      /\ UNCHANGED <<view, status, heard>>
  BY DEF setsockopt, OthersUnchanged, kernelVars, threadVars
<1>2. PICK o \in OptionSets : request' = allocateMessage(o[1], "SOL", None, o[2])
  BY DEF setsockopt
<1>3. o[1] \in Options /\ o[2] \in Nat
  BY <1>2, ServerAssumption
<1>4. request' \in Message /\ request'.op = "SOL" /\ request'.s = o[1]
  <2>1. o[1] \in Nat /\ None \in Files /\ "SOL" \in Opcodes
    BY <1>3 DEF Opcodes, Files, Options, MAXSIZE, LIMITS
  <2>2. QED
    BY <1>2, <1>3, <2>1, AllocatedMessage
<1>5. target' \in Workers /\ last' \in Workers
  BY <1>1, WorkerAssumption DEF Workers
<1>6. TypeOK'
  <2>1. calls' \in Nat
    BY <1>1 DEF Inv, TypeOK
  <2>2. QED
    BY <1>1, <1>4, <1>5, <2>1 DEF Inv, TypeOK, WorkerTypeOK, MainPCs
<1>7. Queues' /\ Working' /\ Stopping'
  BY <1>1 DEF Inv, Queues, Working, Stopping, MasterGone
<1>8. Pushing'
  BY <1>1, <1>3, <1>4 DEF Pushing
<1>9. Ownership'
  BY <1>1, <1>4, NobodyMoves DEF InStart, Carries
<1>10. QED
  BY <1>6, <1>7, <1>8, <1>9 DEF Inv

(* receiveMessage: an accepted descriptor moves on to its home, any other  *)
(* event is the application's.                                             *)
LEMMA ReceiveStep ==
  ASSUME Inv, receiveMessage
  PROVE  Inv'
<1> DEFINE m == Head(readQueue)
<1>1. /\ mpc = "idle" /\ readQueue # <<>> /\ readQueue' = Tail(readQueue)
      /\ UNCHANGED <<file, peer, sent, backlog, edge, sockets, total, opts, rcvd, stop,
                     pc, cur, back, lost, batch, request, calls>>
  BY DEF receiveMessage, OthersUnchanged, kernelVars, threadVars
<1>2. readQueue \in Seq(Message) /\ AllEvents(readQueue) /\ Distinct(readQueue)
  BY DEF Inv, TypeOK, WorkerTypeOK, Queues
<1>3. /\ readQueue' \in Seq(Message) /\ m \in Message
      /\ AllEvents(readQueue') /\ Distinct(readQueue') /\ GoodEvent(m)
      /\ \A s : InQueue(readQueue', s) <=> InQueue(readQueue, s) /\ ~Carries(m, s)
      /\ \A s : Carries(m, s) => InQueue(readQueue, s)
  BY <1>1, <1>2, TailOfQueue
<1>4. m.s \in Fds /\ m.c \in Files /\ m.n \in Nat
  BY <1>3 DEF GoodEvent, Message
<1> HIDE DEF m
<1>5. CASE m.op = "NEW_SOCKET"
  <2> DEFINE w == getWorkerProcess(m.s)
             s == m.s
  <2>1. /\ Enqueue(w, m) /\ mpc' = "kill" /\ target' = w /\ last' = w
        /\ UNCHANGED <<view, status, heard>>
    BY <1>5 DEF receiveMessage, Enqueue, m
  <2>2. w \in Workers /\ w = Home(s) /\ s \in Fds
    BY <1>3, <1>4, <1>5, HomeIsWorker DEF GoodEvent, Home
  <2> HIDE DEF w
  <2>3. \A t : Carries(m, t) <=> t = s
    BY <1>5 DEF Carries
  <2>4. InRead(s) /\ ~InTable(s) /\ ~InSend(s)
    BY <1>3, <1>4, <2>3 DEF InRead, Inv, Ownership, Exclusive
  <2>5. GoodRequest(m)
    BY <1>3, <1>5 DEF GoodRequest, GoodEvent
  <2>6. ~InQueue(sendQueue[w], s)
    BY <2>2, <2>4 DEF InSend
  <2>7. /\ sendQueue' \in [Workers -> Seq(Message)]
        /\ \A v \in Workers : AllRequests(sendQueue'[v]) /\ Distinct(sendQueue'[v])
        /\ \A v \in Workers : v # w => sendQueue'[v] = sendQueue[v]
        /\ \A t : InQueue(sendQueue'[w], t) <=> InQueue(sendQueue[w], t) \/ Carries(m, t)
    BY <1>3, <2>1, <2>2, <2>5, <2>6, RequestQueued
  <2>8. TypeOK'
    BY <1>1, <1>3, <2>1, <2>2, <2>7 DEF Inv, TypeOK, WorkerTypeOK, MainPCs
  <2>9. Queues'
    BY <1>3, <2>7 DEF Queues
  <2>10. Working' /\ Stopping'
    BY <1>1, <2>1 DEF Inv, Working, Stopping, MasterGone
  <2>11. Pushing'
    BY <1>1, <2>1, <2>2, WorkerAssumption DEF Inv, Pushing, Workers
  <2>12. ASSUME NEW t \in Fds
         PROVE  /\ InTable(t)' <=> InTable(t)
                /\ InSend(t)' <=> InSend(t) \/ t = s
                /\ InRead(t)' <=> InRead(t) /\ t # s
                /\ ~InStart(t)' /\ ~InStart(t)
    <3>1. Home(t) \in Workers /\ Home(t)' = Home(t)
      BY HomeIsWorker DEF Home, getWorkerProcess
    <3>2. InSend(t)' <=> InSend(t) \/ t = s
      BY <2>2, <2>3, <2>7, <3>1 DEF InSend
    <3>3. QED
      BY <1>1, <1>3, <2>1, <2>3, <3>1, <3>2 DEF InTable, InRead, InStart
  <2>13. Homes'
    <3>1. \A v \in Workers, t \in Fds :
            sockets'[v][t] # "null" => v = Home(t) /\ sockets'[v][t] = Kind(t)
      BY <1>1 DEF Inv, Ownership, Homes
    <3>2. \A v \in Workers, t \in Fds : InQueue(sendQueue'[v], t) => v = Home(t)
      BY <2>2, <2>3, <2>7 DEF Inv, Ownership, Homes
    <3>3. QED
      BY <3>1, <3>2 DEF Homes
  <2>14. Descriptors'
    BY <1>1 DEF Inv, Ownership, Descriptors
  <2>15. Exclusive'
    BY <2>4, <2>12 DEF Inv, Ownership, Exclusive
  <2>16. \A t \in Fds : Somewhere(t)' <=> Somewhere(t)
    BY <2>4, <2>12 DEF Somewhere
  <2>17. Backed' /\ Kept'
    BY <1>1, <2>1, <2>16 DEF Inv, Ownership, Backed, Kept
  <2>18. QED
    BY <2>8, <2>9, <2>10, <2>11, <2>13, <2>14, <2>15, <2>17 DEF Inv, Ownership
<1>6. CASE m.op # "NEW_SOCKET"
  <2>1. Learn(m) /\ UNCHANGED <<sendQueue, mpc, target, last>>
    BY <1>6 DEF receiveMessage, m
  <2>2. /\ view \in [Fds -> Files]
        /\ status \in [Files -> {"new", "open", "ended", "bogus"}]
        /\ heard \in [Files -> Seq(Files \X Nat)]
    BY DEF Inv, TypeOK
  <2>3. view' \in [Fds -> Files]
    BY <1>4, <2>1, <2>2 DEF Learn, Files
  <2>4. status' \in [Files -> {"new", "open", "ended", "bogus"}]
    BY <1>4, <2>1, <2>2 DEF Learn
  <2>5. heard' \in [Files -> Seq(Files \X Nat)]
    <3>1. CASE heard' = heard
      BY <2>2, <3>1
    <3>2. CASE heard' = [heard EXCEPT ![view[m.s]] = Append(@, <<m.c, m.n>>)]
      <4>1. view[m.s] \in Files /\ <<m.c, m.n>> \in Files \X Nat
        BY <1>4, <2>2
      <4>2. Append(heard[view[m.s]], <<m.c, m.n>>) \in Seq(Files \X Nat)
        BY <2>2, <4>1
      <4>3. QED
        BY <2>2, <3>2, <4>1, <4>2
    <3>3. QED
      BY <2>1, <3>1, <3>2 DEF Learn
  <2>6. TypeOK'
    BY <1>1, <1>3, <2>1, <2>3, <2>4, <2>5 DEF Inv, TypeOK, WorkerTypeOK
  <2>7. Queues' /\ Working' /\ Pushing' /\ Stopping'
    BY <1>1, <1>3, <2>1 DEF Inv, Queues, Working, Pushing, Stopping, MasterGone
  <2>8. \A s : ~Carries(m, s)
    BY <1>3, <1>6 DEF GoodEvent, Carries
  <2>9. Ownership'
    BY <1>1, <1>3, <2>1, <2>8, NobodyMoves DEF InStart
  <2>10. QED
    BY <2>6, <2>7, <2>9 DEF Inv
<1>7. QED
  BY <1>5, <1>6
-----------------------------------------------------------------------------
(* stop().                                                                 *)
LEMMA StopStep ==
  ASSUME Inv, Stop \/ StopFlag \/ StopSignal
  PROVE  Inv'
<1>1. /\ UNCHANGED <<file, peer, sent, backlog, edge, sockets, total, opts, rcvd, sendQueue,
                     readQueue, cur, back, lost, batch, last, request, calls, view, status, heard>>
      /\ mpc \in {"idle", "stopflag", "stopkill"} /\ mpc' \in {"stopflag", "stopkill", "join"}
  BY DEF Stop, StopFlag, StopSignal, kernelVars, workerVars, threadVars
<1>2. target \in Workers /\ target' \in Workers
  BY WorkerAssumption DEF Inv, TypeOK, Stop, StopFlag, StopSignal, Workers
<1>3. /\ stop' \in [Workers -> BOOLEAN]
      /\ \A v \in Workers : stop[v] => stop'[v]
      /\ mpc' \in {"stopkill", "join"} => stop'[target']
  <2>1. stop \in [Workers -> BOOLEAN] /\ (mpc = "stopkill" => stop[target])
    BY DEF Inv, TypeOK, WorkerTypeOK, Stopping
  <2>2. CASE Stop
    BY <2>1, <2>2 DEF Stop, workerVars
  <2>3. CASE StopFlag
    <3>1. stop' = [stop EXCEPT ![target] = TRUE] /\ target' = target
      BY <2>3 DEF StopFlag
    <3>2. QED
      BY <1>2, <2>1, <3>1
  <2>4. CASE StopSignal
    BY <2>1, <2>4 DEF StopSignal
  <2>5. QED
    BY <2>2, <2>3, <2>4
<1>4. pc' \in [Workers -> PCs] /\ Working' /\ (pc[0] = "exit" => pc'[0] = "exit")
  <2>1. CASE Stop \/ StopFlag
    <3>1. pc' = pc
      BY <2>1 DEF Stop, StopFlag, workerVars, threadVars
    <3>2. QED
      BY <1>1, <3>1 DEF Inv, TypeOK, WorkerTypeOK, Working
  <2>2. CASE StopSignal
    <3>1. Wake(target)
      BY <2>2 DEF StopSignal
    <3>2. QED
      BY <1>1, <1>2, <3>1, Signalled
  <2>3. QED
    BY <2>1, <2>2
<1>5. TypeOK'
  BY <1>1, <1>2, <1>3, <1>4 DEF Inv, TypeOK, WorkerTypeOK, MainPCs
<1>6. Queues'
  BY <1>1 DEF Inv, Queues
<1>7. Pushing'
  BY <1>1 DEF Inv, Pushing
<1>8. MasterGone' => MasterGone
  BY <1>1, <1>2, WorkerAssumption DEF MasterGone, Stop, StopFlag, StopSignal, Workers
<1>9. Stopping'
  <2>1. 0 \in Workers
    BY WorkerAssumption DEF Workers
  <2>2. MasterGone => /\ stop[0] /\ pc[0] = "exit" /\ sendQueue[0] = <<>>
                      /\ \A s \in Fds : sockets[0][s] = "null"
    BY DEF Inv, Stopping
  <2>3. QED
    BY <1>1, <1>3, <1>4, <1>8, <2>1, <2>2 DEF Stopping
<1>10. stop[0] => stop'[0]
  BY <1>3, WorkerAssumption DEF Workers
<1>11. Ownership'
  BY <1>1, <1>10, NobodyMoves DEF InStart
<1>12. QED
  BY <1>4, <1>5, <1>6, <1>7, <1>9, <1>11 DEF Inv

(* The worker that has ended loses what it has and what is on its way to   *)
(* it; its descriptors are closed.                                         *)
LEMMA JoinStep ==
  ASSUME Inv, Join
  PROVE  Inv'
<1> DEFINE w == target
           S == Owned(w) \cup Arriving(w)
<1>1. /\ mpc = "join" /\ pc[w] = "exit" /\ CloseFiles(S)
      /\ sockets' = [sockets EXCEPT ![w] = [s \in Fds |-> "null"]]
      /\ sendQueue' = [sendQueue EXCEPT ![w] = <<>>]
      /\ UNCHANGED <<total, opts, rcvd, readQueue, stop, pc, cur, back, lost, batch,
                     last, request, calls, view, status, heard>>
  BY DEF Join, threadVars
<1>2. \/ w < WorkerNumber /\ mpc' = "stopflag" /\ target' = w + 1
      \/ mpc' = "drain" /\ target' = w
  BY DEF Join
<1>3. w \in Workers /\ target' \in Workers /\ stop[w] /\ 0 \in Workers /\ w \in Nat
  BY <1>1, <1>2, WorkerAssumption DEF Inv, TypeOK, Stopping, Workers
<1>4. S \in SUBSET Fds
  <2>1. sendQueue[w] \in Seq(Message) /\ AllRequests(sendQueue[w])
    BY <1>3 DEF Inv, TypeOK, WorkerTypeOK, Queues
  <2>2. Arriving(w) \subseteq Fds
    BY <2>1 DEF Arriving, AllRequests, GoodRequest
  <2>3. QED
    BY <2>2 DEF Owned
<1>5. /\ file' \in [Fds -> Files] /\ peer' = peer /\ sent' = sent
      /\ backlog' \subseteq Conns /\ edge' \subseteq Fds
      /\ \A t \in Fds : file'[t] = IF t \in S THEN None ELSE file[t]
  BY <1>1, <1>4, FilesClosed
<1>6. /\ sockets' \in [Workers -> [Fds -> {"null", "listening", "socket"}]]
      /\ \A v \in Workers, t \in Fds : sockets'[v][t] = IF v = w THEN "null" ELSE sockets[v][t]
      /\ \A v \in Workers : v # w => sockets'[v] = sockets[v]
  BY <1>1, <1>3 DEF Inv, TypeOK, WorkerTypeOK
<1>7. /\ sendQueue' \in [Workers -> Seq(Message)]
      /\ \A v \in Workers : sendQueue'[v] = IF v = w THEN <<>> ELSE sendQueue[v]
  BY <1>1, <1>3 DEF Inv, TypeOK, WorkerTypeOK
<1>8. TypeOK'
  BY <1>1, <1>2, <1>3, <1>5, <1>6, <1>7 DEF Inv, TypeOK, WorkerTypeOK, MainPCs
<1>9. Queues'
  BY <1>1, <1>7, EmptyQueue DEF Inv, Queues
<1>10. Working'
  BY <1>1, <1>6 DEF Inv, Working
<1>11. Pushing'
  BY <1>1, <1>2 DEF Inv, Pushing
<1>12. Stopping'
  <2>1. CASE w = 0
    <3>1. /\ stop'[0] /\ pc'[0] = "exit" /\ sendQueue'[0] = <<>>
          /\ \A s \in Fds : sockets'[0][s] = "null"
      BY <1>1, <1>3, <1>6, <1>7, <2>1
    <3>2. QED
      BY <1>2, <3>1 DEF Stopping
  <2>2. CASE w # 0
    <3>1. MasterGone
      BY <1>1, <1>3, <2>2 DEF MasterGone
    <3>2. /\ stop[0] /\ pc[0] = "exit" /\ sendQueue[0] = <<>>
          /\ \A s \in Fds : sockets[0][s] = "null"
      BY <3>1 DEF Inv, Stopping
    <3>3. /\ stop'[0] /\ pc'[0] = "exit" /\ sendQueue'[0] = <<>>
          /\ \A s \in Fds : sockets'[0][s] = "null"
      BY <1>1, <1>3, <1>6, <1>7, <2>2, <3>2
    <3>4. QED
      BY <1>2, <3>3 DEF Stopping
  <2>3. QED
    BY <2>1, <2>2
<1> HIDE DEF S
<1>13. ASSUME NEW t \in Fds
       PROVE  /\ InTable(t)' <=> InTable(t) /\ Home(t) # w
              /\ InSend(t)' <=> InSend(t) /\ Home(t) # w
              /\ InRead(t)' <=> InRead(t)
              /\ ~InStart(t)' /\ ~InStart(t)
  <2>1. Home(t) \in Workers /\ Home(t)' = Home(t)
    BY HomeIsWorker DEF Home, getWorkerProcess
  <2>2. InTable(t)' <=> InTable(t) /\ Home(t) # w
    BY <1>6, <2>1 DEF InTable
  <2>3. InSend(t)' <=> InSend(t) /\ Home(t) # w
    BY <1>7, <2>1, EmptyQueue DEF InSend
  <2>4. QED
    BY <1>1, <1>2, <2>2, <2>3 DEF InRead, InStart
<1>14. ASSUME NEW t \in Fds
       PROVE  /\ t \in S => Home(t) = w /\ (InTable(t) \/ InSend(t))
              /\ Home(t) = w /\ InTable(t) => t \in S
              /\ Home(t) = w /\ InSend(t) /\ t # ListenFd => t \in S
  <2>1. t \in Owned(w) <=> sockets[w][t] # "null"
    BY DEF Owned
  <2>2. t \in Arriving(w) => InQueue(sendQueue[w], t)
    BY DEF Arriving, InQueue, Carries
  <2>3. InQueue(sendQueue[w], t) /\ t # ListenFd => t \in Arriving(w)
    <3>1. AllRequests(sendQueue[w])
      BY <1>3 DEF Inv, Queues
    <3>2. QED
      BY <3>1 DEF Arriving, InQueue, Carries, AllRequests, GoodRequest
  <2>4. sockets[w][t] # "null" => Home(t) = w
    BY <1>3 DEF Inv, Ownership, Homes
  <2>5. InQueue(sendQueue[w], t) => Home(t) = w
    BY <1>3 DEF Inv, Ownership, Homes
  <2>6. QED
    BY <2>1, <2>2, <2>3, <2>4, <2>5 DEF S, InTable, InSend
<1>15. Homes'
  <2>1. \A v \in Workers, t \in Fds :
          sockets'[v][t] # "null" => v = Home(t) /\ sockets'[v][t] = Kind(t)
    BY <1>6 DEF Inv, Ownership, Homes
  <2>2. \A v \in Workers, t \in Fds : InQueue(sendQueue'[v], t) => v = Home(t)
    BY <1>7, EmptyQueue DEF Inv, Ownership, Homes
  <2>3. QED
    BY <2>1, <2>2 DEF Homes
<1>16. Descriptors'
  BY <1>5 DEF Inv, Ownership, Descriptors
<1>17. Exclusive'
  BY <1>13 DEF Inv, Ownership, Exclusive
<1>18. Backed'
  <2>1. SUFFICES ASSUME NEW t \in Fds, Somewhere(t)' PROVE file'[t] # None
    BY DEF Backed
  <2>2. Somewhere(t) /\ (InRead(t) \/ Home(t) # w)
    BY <1>13, <2>1 DEF Somewhere
  <2>3. file[t] # None
    BY <2>2 DEF Inv, Ownership, Backed
  <2>4. InRead(t) => ~InTable(t) /\ ~InSend(t)
    BY DEF Inv, Ownership, Exclusive
  <2>5. t \notin S
    BY <1>14, <2>2, <2>4
  <2>6. QED
    BY <1>5, <2>3, <2>5
<1>19. Kept'
  <2>1. SUFFICES ASSUME NEW t \in Fds, t = ListenFd => ~stop[0], file'[t] # None
                 PROVE  Somewhere(t)'
    BY <1>1 DEF Kept
  <2>2. t \notin S /\ file[t] # None
    BY <1>5, <2>1
  <2>3. Somewhere(t)
    BY <1>1, <2>1, <2>2 DEF Inv, Ownership, Kept
  <2>4. t = ListenFd => w # 0
    BY <1>3, <2>1
  <2>5. t = ListenFd => Home(t) # w
    BY <2>4 DEF Home
  <2>6. QED
    BY <1>13, <1>14, <2>2, <2>3, <2>5 DEF Somewhere
<1>20. QED
  BY <1>8, <1>9, <1>10, <1>11, <1>12, <1>15, <1>16, <1>17, <1>18, <1>19 DEF Inv, Ownership

(* The rest of stop() closes the listening descriptor, which nobody has    *)
(* any more.                                                               *)
LEMMA DrainStep ==
  ASSUME Inv, Drain
  PROVE  Inv'
<1>1. /\ mpc = "drain" /\ mpc' = "stopped" /\ readQueue' = <<>> /\ CloseFiles({ListenFd})
      /\ UNCHANGED <<sockets, total, opts, rcvd, sendQueue, stop, pc, cur, back, lost, batch,
                     target, last, request, calls, view, status, heard>>
  BY DEF Drain, threadVars
<1>2. {ListenFd} \in SUBSET Fds /\ Home(ListenFd) = 0
  BY WorkerAssumption DEF Home
<1>3. /\ file' \in [Fds -> Files] /\ peer' = peer /\ sent' = sent
      /\ backlog' \subseteq Conns /\ edge' \subseteq Fds
      /\ \A t \in Fds : file'[t] = IF t = ListenFd THEN None ELSE file[t]
  BY <1>1, <1>2, FilesClosed
<1>4. TypeOK'
  BY <1>1, <1>3 DEF Inv, TypeOK, WorkerTypeOK, MainPCs
<1>5. Queues'
  BY <1>1, EmptyQueue DEF Inv, Queues
<1>6. Working' /\ Pushing'
  BY <1>1 DEF Inv, Working, Pushing
<1>7. /\ stop[0] /\ pc[0] = "exit" /\ sendQueue[0] = <<>>
      /\ \A s \in Fds : sockets[0][s] = "null"
  BY <1>1 DEF Inv, Stopping, MasterGone
<1>8. Stopping'
  BY <1>1, <1>7 DEF Stopping
<1>9. ASSUME NEW t \in Fds
      PROVE  /\ InTable(t)' <=> InTable(t)
             /\ InSend(t)' <=> InSend(t)
             /\ ~InRead(t)' /\ ~InStart(t)'
  <2>1. Home(t)' = Home(t)
    BY DEF Home, getWorkerProcess
  <2>2. QED
    BY <1>1, <2>1, EmptyQueue DEF InTable, InSend, InRead, InStart
<1>10. ~InTable(ListenFd) /\ ~InSend(ListenFd)
  BY <1>2, <1>7, EmptyQueue DEF InTable, InSend
<1>11. Homes'
  BY <1>1 DEF Inv, Ownership, Homes
<1>12. Descriptors'
  BY <1>3 DEF Inv, Ownership, Descriptors
<1>13. Exclusive'
  BY <1>9 DEF Inv, Ownership, Exclusive
<1>14. Backed'
  BY <1>3, <1>9, <1>10 DEF Inv, Ownership, Backed, Somewhere
<1>15. Kept'
  BY <1>1 DEF Kept
<1>16. QED
  BY <1>4, <1>5, <1>6, <1>8, <1>11, <1>12, <1>13, <1>14, <1>15 DEF Inv, Ownership
-----------------------------------------------------------------------------
(* The theorems.                                                           *)

(* Inv is an invariant.                                                    *)
THEOREM ServerInv == Spec => []Inv
<1>1. Init => Inv
  BY InitInv
<1>2. ASSUME Inv, [Next]_vars
      PROVE  Inv'
  <2>1. CASE Client /\ UNCHANGED mainVars
    BY <1>2, <2>1, ClientStep
  <2>2. CASE \E w \in Workers : Worker(w) /\ UNCHANGED mainVars
    BY <1>2, <2>2, AnyWorkerStep
  <2>3. CASE PushMessage
    BY <1>2, <2>3, PushStep
  <2>4. CASE PushSignal
    BY <1>2, <2>4, SignalStep
  <2>5. CASE receiveMessage
    BY <1>2, <2>5, ReceiveStep
  <2>6. CASE Stop \/ StopFlag \/ StopSignal
    BY <1>2, <2>6, StopStep
  <2>7. CASE Join
    BY <1>2, <2>7, JoinStep
  <2>8. CASE Drain
    BY <1>2, <2>8, DrainStep
  <2>9. CASE close \/ sendMessage
    BY <1>2, <2>9, AppRequestStep DEF close, sendMessage
  <2>10. CASE setsockopt
    BY <1>2, <2>10, SetsockoptStep
  <2>11. CASE UNCHANGED vars
    <3>1. UNCHANGED <<file, peer, sent, backlog, edge, sockets, total, opts, rcvd, sendQueue,
                      readQueue, stop, pc, cur, back, lost, batch, mainVars>>
      BY <2>11 DEF vars, kernelVars, workerVars, threadVars
    <3>2. TypeOK'
      BY <1>2, <3>1 DEF Inv, TypeOK, WorkerTypeOK, mainVars
    <3>3. Queues' /\ Working' /\ Pushing' /\ Stopping'
      BY <1>2, <3>1 DEF Inv, Queues, Working, Pushing, Stopping, MasterGone, mainVars
    <3>4. Ownership'
      BY <1>2, <3>1, NobodyMoves DEF mainVars, InStart
    <3>5. QED
      BY <3>2, <3>3, <3>4 DEF Inv
  <2>12. QED
    BY <1>2, <2>1, <2>2, <2>3, <2>4, <2>5, <2>6, <2>7, <2>8, <2>9, <2>10, <2>11
       DEF Next, Main, Call
<1>3. QED
  BY <1>1, <1>2, PTL DEF Spec

(* The members of the server, of its workers and of the queues keep their  *)
(* types; in particular readSocket only ever counts messages of            *)
(* connections and handleMessage only sees requests for descriptors.       *)
THEOREM ServerTypeOK == Spec => []TypeOK
<1>1. Inv => TypeOK
  BY DEF Inv
<1>2. QED
  BY <1>1, ServerInv, PTL

(* assert(so == nullptr) of newSocket holds for any number of workers.     *)
THEOREM ServerNewSocketAssertion == Spec => []NewSocketAssertion
<1>1. Inv => NewSocketAssertion
  <2>1. SUFFICES ASSUME Inv, NEW w \in Workers, sendQueue[w] # <<>>,
                        Head(sendQueue[w]).op \in {"NEW_SOCKET", "NEW_LISTENING"}
                 PROVE  sockets[w][Head(sendQueue[w]).s] = "null"
    BY DEF NewSocketAssertion
  <2> DEFINE s == Head(sendQueue[w]).s
  <2>2. sendQueue[w] \in Seq(Message) /\ Distinct(sendQueue[w]) /\ AllRequests(sendQueue[w])
    BY <2>1 DEF Inv, TypeOK, WorkerTypeOK, Queues
  <2>3. /\ GoodRequest(Head(sendQueue[w]))
        /\ Carries(Head(sendQueue[w]), s) => InQueue(sendQueue[w], s)
    BY <2>1, <2>2, TailOfQueue
  <2>4. s \in Fds /\ InQueue(sendQueue[w], s)
    BY <2>1, <2>3, WorkerAssumption DEF GoodRequest, Carries
  <2>5. QED
    BY <2>1, <2>4, OwnSocket
<1>2. QED
  BY <1>1, ServerInv, PTL

(* Until stop() throws the read queue away every open descriptor has       *)
(* exactly one owner and no owner has a closed one, for any number of      *)
(* workers, descriptors, connections and calls.                            *)
THEOREM ServerOneOwner == Spec => []OneOwner
<1>1. Inv => OneOwner
  <2>1. SUFFICES ASSUME Inv, mpc # "stopped", NEW s \in Fds, s = ListenFd => ~stop[0]
                 PROVE  IF file[s] = None THEN Owners(s) = {}
                        ELSE \E h \in Owners(s) : Owners(s) = {h}
    BY DEF OneOwner
  <2> DEFINE Table(h) == \E w \in Workers : h = <<"table", w, 0>> /\ sockets[w][s] # "null"
             Send(h) == \E w \in Workers : \E i \in 1 .. Len(sendQueue[w]) :
                          h = <<"send", w, i>> /\ Carries(sendQueue[w][i], s)
             Read(h) == \E i \in 1 .. Len(readQueue) :
                          h = <<"read", 0, i>> /\ Carries(readQueue[i], s)
             Start(h) == h = <<"start", 0, 0>> /\ InStart(s)
  <2>2. \A h : h \in Owners(s) <=> Table(h) \/ Send(h) \/ Read(h) \/ Start(h)
    <3> DEFINE A == {<<"table", w, 0>> : w \in {v \in Workers : sockets[v][s] # "null"}}
               B == UNION {{<<"send", w, i>> :
                              i \in {j \in 1 .. Len(sendQueue[w]) : Carries(sendQueue[w][j], s)}} :
                           w \in Workers}
               C == {<<"read", 0, i>> :
                       i \in {j \in 1 .. Len(readQueue) : Carries(readQueue[j], s)}}
               D == IF mpc = "push" /\ Carries(request, s) THEN {<<"start", 0, 0>>} ELSE {}
    <3>1. Owners(s) = A \cup B \cup C \cup D
      BY DEF Owners
    <3>2. \A h : h \in A <=> Table(h)
      OBVIOUS
    <3>3. \A h : h \in B <=> Send(h)
      OBVIOUS
    <3>4. \A h : h \in C <=> Read(h)
      OBVIOUS
    <3>5. \A h : h \in D <=> Start(h)
      BY DEF InStart
    <3> HIDE DEF A, B, C, D, Table, Send, Read, Start
    <3>6. QED
      BY <3>1, <3>2, <3>3, <3>4, <3>5
  <2>3. \A h : /\ Table(h) => InTable(s) /\ h = <<"table", Home(s), 0>>
               /\ Send(h) => InSend(s)
               /\ Read(h) => InRead(s)
               /\ Start(h) => InStart(s)
    <3>1. \A w \in Workers : sockets[w][s] # "null" => w = Home(s)
      BY <2>1 DEF Inv, Ownership, Homes
    <3>2. \A w \in Workers : InQueue(sendQueue[w], s) => w = Home(s)
      BY <2>1 DEF Inv, Ownership, Homes
    <3>3. \A h : Table(h) => InTable(s) /\ h = <<"table", Home(s), 0>>
      BY <3>1 DEF InTable
    <3>4. \A h : Send(h) => InSend(s)
      BY <3>2 DEF InSend, InQueue
    <3>5. \A h : Read(h) => InRead(s)
      BY DEF InRead, InQueue
    <3>6. QED
      BY <3>3, <3>4, <3>5
  <2>4. ASSUME NEW h, Send(h), NEW g, Send(g) PROVE h = g
    <3>1. PICK w \in Workers : \E i \in 1 .. Len(sendQueue[w]) :
                 h = <<"send", w, i>> /\ Carries(sendQueue[w][i], s)
      BY <2>4
    <3>2. PICK i \in 1 .. Len(sendQueue[w]) : h = <<"send", w, i>> /\ Carries(sendQueue[w][i], s)
      BY <3>1
    <3>3. PICK v \in Workers : \E j \in 1 .. Len(sendQueue[v]) :
                 g = <<"send", v, j>> /\ Carries(sendQueue[v][j], s)
      BY <2>4
    <3>4. PICK j \in 1 .. Len(sendQueue[v]) : g = <<"send", v, j>> /\ Carries(sendQueue[v][j], s)
      BY <3>3
    <3>5. w = v
      BY <2>1, <3>2, <3>4 DEF InQueue, Inv, Ownership, Homes
    <3>6. i = j
      BY <2>1, <3>2, <3>4, <3>5 DEF Inv, Queues, Distinct, Carries
    <3>7. QED
      BY <3>2, <3>4, <3>5, <3>6
  <2>5. ASSUME NEW h, Read(h), NEW g, Read(g) PROVE h = g
    <3>1. PICK i \in 1 .. Len(readQueue) : h = <<"read", 0, i>> /\ Carries(readQueue[i], s)
      BY <2>5
    <3>2. PICK j \in 1 .. Len(readQueue) : g = <<"read", 0, j>> /\ Carries(readQueue[j], s)
      BY <2>5
    <3>3. i = j
      BY <2>1, <3>1, <3>2 DEF Inv, Queues, Distinct, Carries
    <3>4. QED
      BY <3>1, <3>2, <3>3
  <2>6. /\ InTable(s) => Table(<<"table", Home(s), 0>>)
        /\ InSend(s) => \E h : Send(h)
        /\ InRead(s) => \E h : Read(h)
        /\ InStart(s) => Start(<<"start", 0, 0>>)
    BY HomeIsWorker DEF InTable, InSend, InRead, InQueue
  <2> HIDE DEF Table, Send, Read
  <2>7. ASSUME NEW h \in Owners(s), NEW g \in Owners(s) PROVE h = g
    <3>1. /\ InTable(s) => ~InSend(s) /\ ~InRead(s) /\ ~InStart(s)
          /\ InSend(s) => ~InRead(s) /\ ~InStart(s)
          /\ InRead(s) => ~InStart(s)
      BY <2>1 DEF Inv, Ownership, Exclusive
    <3>2. /\ Table(h) \/ Send(h) \/ Read(h) \/ Start(h)
          /\ Table(g) \/ Send(g) \/ Read(g) \/ Start(g)
      BY <2>2
    <3>3. QED
      BY <2>3, <2>4, <2>5, <3>1, <3>2
  <2>8. (\E h : h \in Owners(s)) <=> Somewhere(s)
    BY <2>2, <2>3, <2>6 DEF Somewhere
  <2>9. file[s] # None <=> Somewhere(s)
    BY <2>1 DEF Inv, Ownership, Backed, Kept
  <2>10. CASE file[s] = None
    BY <2>8, <2>9, <2>10
  <2>11. CASE file[s] # None
    <3>1. PICK h : h \in Owners(s)
      BY <2>8, <2>9, <2>11
    <3>2. Owners(s) = {h}
      BY <2>7, <3>1
    <3>3. QED
      BY <2>11, <3>1, <3>2
  <2>12. QED
    BY <2>10, <2>11
<1>2. QED
  BY <1>1, ServerInv, PTL
-----------------------------------------------------------------------------
(* Counting the connections.                                               *)

(* What _totalConnections of worker w says while its thread runs.  The     *)
(* table is finite: it has got its entries one by one.                     *)
Closing(w) == IF pc[w] = "closed" THEN 1 ELSE 0
CountedIn(w) ==
  /\ IsFiniteSet(Owned(w))
  /\ pc[w] # "exit" => total[w] = Cardinality(Owned(w)) + Closing(w)
Counted == \A w \in Workers : CountedIn(w)

(* Only the worker that takes the step needs to be looked at.              *)
LEMMA CountedElsewhere ==
  ASSUME Counted, NEW w \in Workers, CountedIn(w)',
         \A v \in Workers : v # w =>
           pc'[v] = pc[v] /\ total'[v] = total[v] /\ sockets'[v] = sockets[v]
  PROVE  Counted'
<1>1. SUFFICES ASSUME NEW v \in Workers, v # w PROVE CountedIn(v)'
  BY DEF Counted
<1>2. Owned(v)' = Owned(v)
  BY <1>1 DEF Owned
<1>3. Closing(v)' = Closing(v)
  BY <1>1 DEF Closing
<1>4. CountedIn(v)
  BY DEF Counted
<1>5. QED
  BY <1>1, <1>2, <1>3, <1>4 DEF CountedIn

(* A step that leaves the tables and the counters alone, neither starts    *)
(* nor ends the closing of a connection and revives no thread.             *)
LEMMA CountedStays ==
  ASSUME Counted, UNCHANGED <<sockets, total>>,
         \A v \in Workers : /\ pc'[v] = "closed" <=> pc[v] = "closed"
                            /\ pc[v] = "exit" => pc'[v] = "exit"
  PROVE  Counted'
<1>1. SUFFICES ASSUME NEW v \in Workers PROVE CountedIn(v)'
  BY DEF Counted
<1>2. Owned(v)' = Owned(v)
  BY DEF Owned
<1>3. Closing(v)' = Closing(v)
  BY DEF Closing
<1>4. CountedIn(v)
  BY DEF Counted
<1>5. QED
  BY <1>2, <1>3, <1>4 DEF CountedIn

(* The first half of removeSocket takes the socket from the table and      *)
(* leaves it counted.                                                      *)
LEMMA CountedRemove ==
  ASSUME Inv, Counted, NEW w \in Workers, NEW s \in Fds, NEW ret, UNCHANGED total,
         pc[w] \notin {"closed", "exit"}, sockets[w][s] # "null", BeginRemove(w, s, ret)
  PROVE  Counted'
<1>1. /\ sockets \in [Workers -> [Fds -> {"null", "listening", "socket"}]]
      /\ pc \in [Workers -> PCs] /\ total \in [Workers -> Int]
  BY DEF Inv, TypeOK, WorkerTypeOK
<1>2. /\ pc'[w] = "closed"
      /\ \A v \in Workers : v # w => pc'[v] = pc[v] /\ sockets'[v] = sockets[v]
      /\ \A t \in Fds : sockets'[w][t] = IF t = s THEN "null" ELSE sockets[w][t]
  BY <1>1 DEF BeginRemove, Goto
<1>3. Owned(w)' = Owned(w) \ {s} /\ s \in Owned(w)
  BY <1>2 DEF Owned
<1>4. IsFiniteSet(Owned(w)) /\ total[w] = Cardinality(Owned(w))
  <2>1. IsFiniteSet(Owned(w)) /\ total[w] = Cardinality(Owned(w)) + 0
    BY DEF Counted, CountedIn, Closing
  <2>2. Cardinality(Owned(w)) \in Nat
    BY <2>1, FS_CardinalityType
  <2>3. QED
    BY <2>1, <2>2
<1>5. IsFiniteSet(Owned(w) \ {s}) /\ Cardinality(Owned(w) \ {s}) = Cardinality(Owned(w)) - 1
  BY <1>3, <1>4, FS_RemoveElement
<1>6. Cardinality(Owned(w)) \in Nat
  BY <1>4, FS_CardinalityType
<1>7. CountedIn(w)'
  BY <1>2, <1>3, <1>4, <1>5, <1>6 DEF CountedIn, Closing
<1>8. QED
  BY <1>2, <1>7, CountedElsewhere

(* The second half counts it off.                                          *)
LEMMA CountedReport ==
  ASSUME Inv, Counted, NEW w \in Workers, removeSocket(w)
  PROVE  Counted'
<1>1. /\ pc \in [Workers -> PCs] /\ total \in [Workers -> Int]
      /\ back[w] \in {"sweep", "handle", "events"}
  BY DEF Inv, TypeOK, WorkerTypeOK
<1>2. /\ pc[w] = "closed" /\ sockets' = sockets
      /\ pc'[w] = back[w] /\ total'[w] = total[w] - 1
      /\ \A v \in Workers : v # w => pc'[v] = pc[v] /\ total'[v] = total[v]
  BY <1>1 DEF removeSocket, Return, Goto
<1>3. Owned(w)' = Owned(w)
  BY <1>2 DEF Owned
<1>4. IsFiniteSet(Owned(w)) /\ total[w] = Cardinality(Owned(w)) + 1
  BY <1>2 DEF Counted, CountedIn, Closing
<1>5. Cardinality(Owned(w)) \in Nat
  BY <1>4, FS_CardinalityType
<1>6. CountedIn(w)'
  BY <1>1, <1>2, <1>3, <1>4, <1>5 DEF CountedIn, Closing
<1>7. QED
  BY <1>2, <1>6, CountedElsewhere

(* newSocket enters a socket that was not in the table, and counts it; a   *)
(* refused one changes neither.                                            *)
LEMMA CountedNew ==
  ASSUME Inv, Counted, NEW w \in Workers, NEW kind \in {"socket", "listening"},
         NEW op \in {"NEW_SOCKET", "NEW_LISTENING"}, Request(w, op), newSocket(w, kind)
  PROVE  Counted'
<1> DEFINE m == Head(sendQueue[w])
<1>1. /\ sockets \in [Workers -> [Fds -> {"null", "listening", "socket"}]]
      /\ pc \in [Workers -> PCs] /\ total \in [Workers -> Int]
  BY DEF Inv, TypeOK, WorkerTypeOK
<1>2. pc' = pc /\ pc[w] = "handle"
  BY DEF newSocket, Request, threadVars
<1>3. CASE TooMany(w)
  <2>1. sockets' = sockets /\ total' = total
    BY <1>3 DEF newSocket
  <2>2. QED
    BY <1>2, <2>1, CountedStays
<1>4. CASE ~TooMany(w)
  <2>1. m.s \in Fds /\ InQueue(sendQueue[w], m.s)
    <3>1. GoodRequest(m) /\ m.op = op /\ (Carries(m, m.s) => InQueue(sendQueue[w], m.s))
      BY RequestTaken
    <3>2. QED
      BY <3>1, WorkerAssumption DEF GoodRequest, Carries
  <2>2. sockets[w][m.s] = "null"
    BY <2>1, OwnSocket
  <2>3. /\ sockets' = [sockets EXCEPT ![w][m.s] = kind]
        /\ total' = [total EXCEPT ![w] = total[w] + 1]
    BY <1>4 DEF newSocket
  <2> HIDE DEF m
  <2>4. /\ \A v \in Workers : v # w => total'[v] = total[v] /\ sockets'[v] = sockets[v]
        /\ \A t \in Fds : sockets'[w][t] = IF t = m.s THEN kind ELSE sockets[w][t]
        /\ total'[w] = total[w] + 1
    BY <1>1, <2>1, <2>3
  <2>5. Owned(w)' = Owned(w) \cup {m.s} /\ m.s \notin Owned(w)
    BY <2>1, <2>2, <2>4 DEF Owned
  <2>6. IsFiniteSet(Owned(w)) /\ total[w] = Cardinality(Owned(w))
    <3>1. IsFiniteSet(Owned(w)) /\ total[w] = Cardinality(Owned(w)) + 0
      BY <1>2 DEF Counted, CountedIn, Closing
    <3>2. Cardinality(Owned(w)) \in Nat
      BY <3>1, FS_CardinalityType
    <3>3. QED
      BY <3>1, <3>2
  <2>7. /\ IsFiniteSet(Owned(w) \cup {m.s})
        /\ Cardinality(Owned(w) \cup {m.s}) = Cardinality(Owned(w)) + 1
    BY <2>5, <2>6, FS_AddElement
  <2>8. Cardinality(Owned(w)) \in Nat
    BY <2>6, FS_CardinalityType
  <2>9. CountedIn(w)'
    BY <1>2, <2>4, <2>5, <2>6, <2>7, <2>8 DEF CountedIn, Closing
  <2>10. QED
    BY <1>2, <2>4, <2>9, CountedElsewhere
<1>5. QED
  BY <1>3, <1>4

(* Every step of a worker.                                                 *)
LEMMA CountedWorker ==
  ASSUME Inv, Counted, NEW w \in Workers, Worker(w)
  PROVE  Counted'
<1>1. pc \in [Workers -> PCs]
  BY DEF Inv, TypeOK, WorkerTypeOK
<1>2. ASSUME pc[w] \notin {"closed", "exit"}, UNCHANGED <<sockets, total>>,
             NEW p \in PCs \ {"closed"}, Goto(w, p)
      PROVE  Counted'
  BY <1>1, <1>2, CountedStays DEF Goto
<1>3. CASE run(w)
  BY <1>2, <1>3 DEF run, PCs
<1>4. CASE checkSocket(w)
  BY <1>2, <1>4, CountedRemove DEF checkSocket, PCs
<1>5. CASE handleMessage(w)
  <2>1. CASE HandleNone(w)
    BY <1>2, <2>1 DEF HandleNone, PCs
  <2>2. CASE HandleClose(w) \/ HandleMessage(w)
    <3>1. Head(sendQueue[w]).s \in Fds
      BY <2>2, RequestTaken DEF HandleClose, HandleMessage, GoodRequest
    <3>2. pc[w] = "handle" /\ UNCHANGED total
      BY <2>2 DEF HandleClose, HandleMessage, Request
    <3>3. CASE UNCHANGED <<kernelVars, sockets, threadVars>>
      BY <3>2, <3>3, CountedStays DEF threadVars
    <3>4. CASE /\ sockets[w][Head(sendQueue[w]).s] # "null"
               /\ BeginRemove(w, Head(sendQueue[w]).s, "handle")
      BY <3>1, <3>2, <3>4, CountedRemove
    <3>5. QED
      BY <2>2, <3>3, <3>4 DEF HandleClose, HandleMessage
  <2>3. CASE HandleNewSocket(w) \/ HandleNewListening(w)
    BY <2>3, CountedNew DEF HandleNewSocket, HandleNewListening
  <2>4. CASE HandleOption(w)
    BY <2>4, CountedStays DEF HandleOption, threadVars
  <2>5. QED
    BY <1>5, <2>1, <2>2, <2>3, <2>4 DEF handleMessage
<1>6. CASE removeSocket(w)
  BY <1>6, CountedReport
<1>7. CASE EnterWait(w) \/ LeaveWait(w) \/ EventsDone(w)
  BY <1>2, <1>7 DEF EnterWait, LeaveWait, EventsDone, PCs
<1>8. CASE HandleEvent(w)
  <2>1. pc[w] = "events" /\ UNCHANGED total
    BY <1>8 DEF HandleEvent
  <2>2. PICK s \in Fds :
          \/ sockets[w][s] # "null" /\ BeginRemove(w, s, "events")
          \/ UNCHANGED sockets /\ \E p \in {"write", "accept", "read"} : Goto(w, p)
    BY <1>8 DEF HandleEvent
  <2>3. QED
    BY <1>2, <2>1, <2>2, CountedRemove DEF PCs
<1>9. CASE acceptSocket(w)
  <2>1. pc[w] = "accept" /\ UNCHANGED <<sockets, total>> /\ (pc' = pc \/ Goto(w, "events"))
    BY <1>9 DEF acceptSocket, Return
  <2>2. QED
    BY <1>2, <2>1, CountedStays DEF PCs
<1>10. CASE readSocket(w) \/ writeSocket(w)
  <2>1. /\ cur[w] \in Fds /\ sockets[w][cur[w]] # "null"
        /\ pc[w] \in {"read", "write"} /\ UNCHANGED total
    BY <1>10 DEF readSocket, writeSocket, Inv, TypeOK, WorkerTypeOK, Working
  <2>2. CASE BeginRemove(w, cur[w], "events")
    BY <2>1, <2>2, CountedRemove
  <2>3. CASE UNCHANGED sockets /\ (pc' = pc \/ Goto(w, "write") \/ Goto(w, "events"))
    BY <1>2, <2>1, <2>3, CountedStays DEF PCs
  <2>4. QED
    BY <1>10, <2>2, <2>3 DEF readSocket, writeSocket, Return
<1>11. QED
  BY <1>3, <1>4, <1>5, <1>6, <1>7, <1>8, <1>9, <1>10 DEF Worker, pollRun

(* stop() empties the table of a worker whose thread has ended; nothing    *)
(* else the application's thread does concerns a table.                    *)
LEMMA CountedMain ==
  ASSUME Inv, Counted, Main \/ Call
  PROVE  Counted'
<1>1. pc \in [Workers -> PCs] /\ target \in Workers
  BY DEF Inv, TypeOK, WorkerTypeOK
<1>2. CASE PushSignal \/ StopSignal
  BY <1>1, <1>2, CountedStays DEF PushSignal, StopSignal, Wake
<1>3. CASE Join
  <2>1. /\ pc[target] = "exit" /\ UNCHANGED <<total, pc>>
        /\ sockets' = [sockets EXCEPT ![target] = [s \in Fds |-> "null"]]
    BY <1>3 DEF Join, threadVars
  <2>2. PICK w \in Workers : w = target
    BY <1>1
  <2>3. Owned(w)' = {} /\ \A v \in Workers : v # w => sockets'[v] = sockets[v]
    BY <2>1, <2>2 DEF Owned, Inv, TypeOK, WorkerTypeOK
  <2>4. CountedIn(w)'
    BY <2>1, <2>2, <2>3, FS_EmptySet DEF CountedIn
  <2>5. QED
    BY <2>1, <2>3, <2>4, CountedElsewhere
<1>4. CASE PushMessage \/ receiveMessage \/ StopFlag \/ Drain \/ Call
  <2>1. UNCHANGED <<sockets, total, pc>>
    BY <1>4 DEF PushMessage, receiveMessage, StopFlag, Drain, Call, close, sendMessage,
                AppRequest, setsockopt, Stop, OthersUnchanged, workerVars, threadVars
  <2>2. QED
    BY <2>1, CountedStays
<1>5. QED
  BY <1>2, <1>3, <1>4 DEF Main

(* _totalConnections counts the sockets in the table of its worker, plus   *)
(* the one removeSocket is closing, for any number of workers, descriptors *)
(* and connections and whatever the limits are set to: the counter never   *)
(* falls below zero, so MAXSIZE is compared with the true number.          *)
THEOREM ServerCountsConnections == Spec => []CountsConnections
<1>1. Init => Counted
  <2>1. SUFFICES ASSUME Init, NEW w \in Workers PROVE CountedIn(w)
    BY DEF Counted
  <2>2. Owned(w) = {} /\ total[w] = 0 /\ pc[w] = "top"
    BY <2>1 DEF Init, WorkerInit, Owned
  <2>3. QED
    BY <2>2, FS_EmptySet DEF CountedIn, Closing
<1>2. Inv /\ Counted /\ [Next]_vars => Counted'
  <2>1. SUFFICES ASSUME Inv, Counted, [Next]_vars PROVE Counted'
    OBVIOUS
  <2>2. CASE Client
    <3>1. UNCHANGED <<sockets, total, pc>>
      BY <2>2 DEF Client, Connect, PeerSend, PeerEnd, workerVars, threadVars
    <3>2. QED
      BY <2>1, <3>1, CountedStays
  <2>3. CASE \E w \in Workers : Worker(w)
    BY <2>1, <2>3, CountedWorker
  <2>4. CASE Main \/ Call
    BY <2>1, <2>4, CountedMain
  <2>5. CASE UNCHANGED vars
    BY <2>1, <2>5, CountedStays DEF vars, workerVars, threadVars
  <2>6. QED
    BY <2>1, <2>2, <2>3, <2>4, <2>5 DEF Next
<1>3. Counted => CountsConnections
  BY DEF Counted, CountedIn, Closing, CountsConnections
<1>4. QED
  BY <1>1, <1>2, <1>3, ServerInv, PTL DEF Spec
-----------------------------------------------------------------------------
(* Sessions.                                                               *)

(* The events about descriptor s.                                          *)
EventOf(m, s) == m.op \in {"ESTABLISH", "MESSAGE", "CLOSE"} /\ m.s = s

(* Where a session is: the connection and how many of its messages have    *)
(* been seen; <<None, 0>> between two sessions.                            *)
Marks == Files \X Int
Between == <<None, 0>>

(* Event m takes descriptor s from mark a to mark b.                       *)
StepOf(s, a, m, b) ==
  IF EventOf(m, s)
  THEN /\ m.c \in Files \ {None}
       /\ m.op = "ESTABLISH" => a = Between /\ b = <<m.c, 0>>
       /\ m.op = "MESSAGE" => a = <<m.c, m.n - 1>> /\ b = <<m.c, m.n>>
       /\ m.op = "CLOSE" => a[1] = m.c /\ b = Between
  ELSE b = a

(* The events of queue q take s from a to b.                               *)
Chain(q, s, a, b) ==
  \E h \in [0 .. Len(q) -> Marks] :
    /\ h[0] = a /\ h[Len(q)] = b
    /\ \A i \in 1 .. Len(q) : StepOf(s, h[i - 1], q[i], h[i])

(* How far the application is with s, ...                                  *)
Known(s) == IF view[s] = None THEN Between ELSE <<view[s], Len(heard[view[s]])>>

(* ... and how far the worker of s is, which has forgotten s but not yet   *)
(* said so when it is between the two halves of removeSocket.              *)
Got(c) == IF c \in Conns THEN rcvd[c] ELSE 0
Leaves(w, s) == pc[w] = "closed" /\ cur[w] = s
Reached(s) ==
  IF Leaves(Home(s), s) THEN <<lost[Home(s)], Got(lost[Home(s)])>>
  ELSE IF InTable(s) THEN <<file[s], Got(file[s])>>
  ELSE Between

(* The events in the read queue lead from the one to the other.            *)
PipelineOf(s) ==
  \E e \in Marks :
    Chain(readQueue, s, Known(s), e) /\ (pc[Home(s)] # "exit" => e = Reached(s))
Pipeline == \A s \in Fds : PipelineOf(s)

(* A connection is announced by one event: it is fresh until a worker has  *)
(* queued it.                                                              *)
Announces(m, c) == m.op = "ESTABLISH" /\ m.c = c
Announced(q, c) == \E i \in 1 .. Len(q) : Announces(q[i], c)
Fresh(c) == status[c] = "new" /\ ~Announced(readQueue, c)

Viewed ==
  /\ \A s \in Fds : view[s] # None => status[view[s]] # "new"
  /\ \A s, t \in Fds : view[s] # None /\ view[s] = view[t] => s = t
  /\ \A c \in Sessions : status[c] = "new" => heard[c] = <<>>

Once(q) ==
  \A i, j \in 1 .. Len(q) : q[i].op = "ESTABLISH" /\ Announces(q[j], q[i].c) => i = j

AnnouncedOnce ==
  Once(readQueue) /\ \A c \in Files : Announced(readQueue, c) => status[c] = "new"

Waits(c) == c \in backlog \/ peer[c] = "idle"

Unannounced ==
  /\ \A c \in Conns : Waits(c) => Fresh(c) /\ \A s \in Fds : file[s] # c
  /\ \A c \in Conns : peer[c] = "idle" => c \notin backlog
  /\ \A c \in Conns : Fresh(c) => rcvd[c] = 0
  /\ \A s \in Fds : file[s] # None => (InTable(s) <=> ~Fresh(file[s]))
  /\ \A s, t \in Fds : file[s] # None /\ file[s] = file[t] => s = t

(* removeSocket has closed a connection that nobody has any more.          *)
Left(w) ==
  /\ Home(cur[w]) = w /\ sockets[w][cur[w]] = "null"
  /\ lost[w] # None /\ ~Fresh(lost[w])
  /\ \A s \in Fds : file[s] # lost[w]
Leaving == \A w \in Workers : pc[w] = "closed" => Left(w)

(* Stopping ends with throwing the read queue away.                        *)
InSession == Pipeline /\ Viewed /\ AnnouncedOnce /\ Unannounced /\ Leaving
SessionInv == mpc # "stopped" => InSession
-----------------------------------------------------------------------------
(* Chains of events.                                                       *)

LEMMA ChainEmpty ==
  ASSUME NEW s, NEW a \in Marks
  PROVE  Chain(<<>>, s, a, a)
<1> DEFINE h == [i \in 0 .. 0 |-> a]
<1>1. h \in [0 .. Len(<<>>) -> Marks] /\ h[0] = a /\ h[Len(<<>>)] = a
  OBVIOUS
<1>2. \A i \in 1 .. Len(<<>>) : StepOf(s, h[i - 1], <<>>[i], h[i])
  OBVIOUS
<1>3. QED
  BY <1>1, <1>2 DEF Chain

LEMMA ChainAppend ==
  ASSUME NEW q \in Seq(Message), NEW m \in Message, NEW s, NEW a, NEW b, NEW c \in Marks,
         Chain(q, s, a, b), StepOf(s, b, m, c)
  PROVE  Chain(Append(q, m), s, a, c)
<1>1. PICK h \in [0 .. Len(q) -> Marks] :
        /\ h[0] = a /\ h[Len(q)] = b
        /\ \A i \in 1 .. Len(q) : StepOf(s, h[i - 1], q[i], h[i])
  BY DEF Chain
<1>2. /\ Len(q) \in Nat /\ Len(Append(q, m)) = Len(q) + 1
      /\ Append(q, m)[Len(q) + 1] = m
      /\ \A i \in 1 .. Len(q) : Append(q, m)[i] = q[i]
  OBVIOUS
<1> DEFINE g == [i \in 0 .. Len(q) + 1 |-> IF i = Len(q) + 1 THEN c ELSE h[i]]
<1>3. /\ g \in [0 .. Len(Append(q, m)) -> Marks]
      /\ g[0] = a /\ g[Len(q) + 1] = c /\ g[Len(q)] = b
      /\ \A i \in 0 .. Len(q) : g[i] = h[i]
  BY <1>1, <1>2
<1> HIDE DEF g
<1>4. ASSUME NEW i \in 1 .. Len(q) + 1 PROVE StepOf(s, g[i - 1], Append(q, m)[i], g[i])
  <2>1. CASE i = Len(q) + 1
    <3>1. g[i - 1] = b /\ g[i] = c /\ Append(q, m)[i] = m
      BY <1>2, <1>3, <2>1
    <3>2. QED
      BY <3>1
  <2>2. CASE i \in 1 .. Len(q)
    <3>1. g[i - 1] = h[i - 1] /\ g[i] = h[i] /\ Append(q, m)[i] = q[i]
      BY <1>2, <1>3, <2>2
    <3>2. QED
      BY <1>1, <2>2, <3>1
  <2>3. QED
    BY <1>2, <2>1, <2>2
<1>5. QED
  BY <1>2, <1>3, <1>4 DEF Chain

LEMMA ChainTail ==
  ASSUME NEW q \in Seq(Message), q # <<>>, NEW s, NEW a, NEW b, Chain(q, s, a, b)
  PROVE  \E c \in Marks : StepOf(s, a, Head(q), c) /\ Chain(Tail(q), s, c, b)
<1>1. PICK h \in [0 .. Len(q) -> Marks] :
        /\ h[0] = a /\ h[Len(q)] = b
        /\ \A i \in 1 .. Len(q) : StepOf(s, h[i - 1], q[i], h[i])
  BY DEF Chain
<1>2. /\ Len(q) \in Nat \ {0} /\ Head(q) = q[1] /\ Len(Tail(q)) = Len(q) - 1
      /\ \A i \in 1 .. Len(q) - 1 : Tail(q)[i] = q[i + 1]
  OBVIOUS
<1> DEFINE g == [i \in 0 .. Len(q) - 1 |-> h[i + 1]]
<1>3. /\ g \in [0 .. Len(Tail(q)) -> Marks]
      /\ g[0] = h[1] /\ g[Len(Tail(q))] = b
      /\ \A i \in 0 .. Len(q) - 1 : g[i] = h[i + 1]
  BY <1>1, <1>2
<1>4. h[1] \in Marks /\ StepOf(s, a, Head(q), h[1])
  <2>1. 1 \in 1 .. Len(q) /\ 1 - 1 = 0 /\ 1 \in 0 .. Len(q)
    BY <1>2
  <2>2. StepOf(s, h[1 - 1], q[1], h[1])
    BY <1>1, <2>1
  <2>3. QED
    BY <1>1, <1>2, <2>1, <2>2
<1> HIDE DEF g
<1>5. ASSUME NEW i \in 1 .. Len(Tail(q)) PROVE StepOf(s, g[i - 1], Tail(q)[i], g[i])
  <2>1. /\ i + 1 \in 1 .. Len(q) /\ g[i - 1] = h[(i + 1) - 1] /\ g[i] = h[i + 1]
        /\ Tail(q)[i] = q[i + 1]
    BY <1>2, <1>3
  <2>2. StepOf(s, h[(i + 1) - 1], q[i + 1], h[i + 1])
    BY <1>1, <2>1
  <2>3. QED
    BY <2>1, <2>2
<1>6. Chain(Tail(q), s, h[1], b)
  BY <1>3, <1>5 DEF Chain
<1>7. QED
  BY <1>4, <1>6

(* A mark is a mark.                                                       *)
LEMMA StepOfMark ==
  ASSUME NEW s, NEW a \in Marks, NEW m \in Message, NEW b, StepOf(s, a, m, b)
  PROVE  b \in Marks
BY WorkerAssumption DEF StepOf, Marks, Message, Between, EventOf, Files

(* A step after which worker and application are where they were.          *)
LEMMA PipelineStays ==
  ASSUME NEW s \in Fds, PipelineOf(s), readQueue' = readQueue, Known(s)' = Known(s),
         pc'[Home(s)] # "exit" => pc[Home(s)] # "exit" /\ Reached(s)' = Reached(s)
  PROVE  PipelineOf(s)'
<1>1. PICK e \in Marks :
        Chain(readQueue, s, Known(s), e) /\ (pc[Home(s)] # "exit" => e = Reached(s))
  BY DEF PipelineOf
<1>2. QED
  BY <1>1 DEF PipelineOf

(* A step that reports m, which takes s from where its worker was to where *)
(* it is now.                                                              *)
LEMMA PipelineGrows ==
  ASSUME readQueue \in Seq(Message), NEW s \in Fds, PipelineOf(s), Known(s)' = Known(s),
         NEW m \in Message, readQueue' = Append(readQueue, m),
         pc'[Home(s)] # "exit" <=> pc[Home(s)] # "exit",
         EventOf(m, s) => pc[Home(s)] # "exit",
         pc[Home(s)] # "exit" => StepOf(s, Reached(s), m, Reached(s)')
  PROVE  PipelineOf(s)'
<1>1. PICK e \in Marks :
        Chain(readQueue, s, Known(s), e) /\ (pc[Home(s)] # "exit" => e = Reached(s))
  BY DEF PipelineOf
<1>3. CASE pc[Home(s)] = "exit"
  <2>1. StepOf(s, e, m, e)
    BY <1>3 DEF StepOf
  <2>2. Chain(Append(readQueue, m), s, Known(s), e)
    BY <1>1, <2>1, ChainAppend
  <2>3. QED
    BY <1>3, <2>2 DEF PipelineOf
<1>4. CASE pc[Home(s)] # "exit"
  <2>1. Reached(s)' \in Marks
    BY <1>1, <1>4, StepOfMark
  <2>2. Chain(Append(readQueue, m), s, Known(s), Reached(s)')
    BY <1>1, <1>4, <2>1, ChainAppend
  <2>3. QED
    BY <1>4, <2>1, <2>2 DEF PipelineOf
<1>5. QED
  BY <1>3, <1>4

(* The announcements in a queue that grows ...                             *)
LEMMA AnnouncedAppend ==
  ASSUME NEW q \in Seq(Message), NEW m \in Message
  PROVE  /\ \A c : Announced(Append(q, m), c) <=> Announced(q, c) \/ Announces(m, c)
         /\ Once(q) /\ (m.op = "ESTABLISH" => ~Announced(q, m.c)) => Once(Append(q, m))
<1>1. /\ Len(q) \in Nat /\ Len(Append(q, m)) = Len(q) + 1
      /\ Append(q, m)[Len(q) + 1] = m
      /\ \A i \in 1 .. Len(q) : Append(q, m)[i] = q[i]
  OBVIOUS
<1>2. /\ \A i \in 1 .. Len(q) + 1 : i \in 1 .. Len(q) \/ i = Len(q) + 1
      /\ \A i \in 1 .. Len(q) : i \in 1 .. Len(q) + 1
      /\ Len(q) + 1 \in 1 .. Len(q) + 1
  BY <1>1
<1>3. \A c : Announced(Append(q, m), c) <=> Announced(q, c) \/ Announces(m, c)
  BY <1>1, <1>2 DEF Announced
<1>4. ASSUME Once(q), m.op = "ESTABLISH" => ~Announced(q, m.c) PROVE Once(Append(q, m))
  BY <1>1, <1>2, <1>4 DEF Once, Announced, Announces
<1>5. QED
  BY <1>3, <1>4

(* ... or shrinks.                                                         *)
LEMMA AnnouncedTail ==
  ASSUME NEW q \in Seq(Message), q # <<>>, Once(q)
  PROVE  /\ \A c : Announced(q, c) <=> Announced(Tail(q), c) \/ Announces(Head(q), c)
         /\ \A c : Announces(Head(q), c) => ~Announced(Tail(q), c)
         /\ Once(Tail(q))
<1>1. /\ Len(q) \in Nat \ {0} /\ Head(q) = q[1] /\ Len(Tail(q)) = Len(q) - 1
      /\ \A i \in 1 .. Len(q) - 1 : Tail(q)[i] = q[i + 1]
  OBVIOUS
<1>2. \A i \in 1 .. Len(q) - 1 : i + 1 \in 1 .. Len(q) /\ i + 1 # 1
  BY <1>1
<1>3. ASSUME NEW c PROVE Announced(q, c) <=> Announced(Tail(q), c) \/ Announces(Head(q), c)
  <2>1. ASSUME NEW i \in 1 .. Len(q), Announces(q[i], c)
        PROVE  Announced(Tail(q), c) \/ Announces(Head(q), c)
    <3>1. CASE i = 1
      BY <1>1, <2>1, <3>1
    <3>2. CASE i # 1
      <4>1. i - 1 \in 1 .. Len(Tail(q)) /\ Tail(q)[i - 1] = q[i]
        BY <1>1, <3>2
      <4>2. QED
        BY <2>1, <4>1 DEF Announced
    <3>3. QED
      BY <3>1, <3>2
  <2>2. QED
    BY <1>1, <1>2, <2>1 DEF Announced
<1>4. ASSUME NEW c, Announces(Head(q), c) PROVE ~Announced(Tail(q), c)
  BY <1>1, <1>2, <1>4 DEF Announced, Announces, Once
<1>5. Once(Tail(q))
  BY <1>1, <1>2 DEF Once
<1>6. QED
  BY <1>3, <1>4, <1>5

(* An event other than ESTABLISH announces nothing.                        *)
LEMMA NothingAnnounced ==
  ASSUME readQueue \in Seq(Message), AnnouncedOnce, NEW m \in Message, m.op # "ESTABLISH",
         readQueue' = Append(readQueue, m), UNCHANGED status
  PROVE  AnnouncedOnce' /\ \A c : Fresh(c)' <=> Fresh(c)
<1>1. \A c : ~Announces(m, c)
  BY DEF Announces
<1>2. /\ Once(readQueue')
      /\ \A c : Announced(readQueue', c) <=> Announced(readQueue, c)
  BY <1>1, AnnouncedAppend DEF AnnouncedOnce
<1>3. QED
  BY <1>2 DEF AnnouncedOnce, Fresh

(* A step that reports nothing, and closes at most descriptors S that are  *)
(* in no table, or in that of a worker whose thread has ended.             *)
LEMMA SessionClosed ==
  ASSUME Inv, InSession, UNCHANGED <<view, status, heard, readQueue, rcvd>>,
         NEW S \in SUBSET Fds,
         \A t \in Fds : file'[t] = IF t \in S THEN None ELSE file[t],
         \A t \in Fds \ S : InTable(t)' <=> InTable(t),
         \A t \in S : ~InTable(t)' /\ (InTable(t) => pc[Home(t)] = "exit"),
         \A v \in Workers : /\ pc'[v] = "closed" <=> pc[v] = "closed"
                            /\ pc[v] = "exit" => pc'[v] = "exit"
                            /\ pc[v] = "closed" => cur'[v] = cur[v] /\ lost'[v] = lost[v],
         \A c \in Conns : /\ Waits(c)' => Waits(c)
                          /\ peer'[c] = "idle" => c \notin backlog'
  PROVE  InSession'
<1>1. \A c : (Fresh(c)' <=> Fresh(c)) /\ Got(c)' = Got(c)
  BY DEF Fresh, Got
<1>2. Pipeline'
  <2>1. SUFFICES ASSUME NEW s \in Fds PROVE PipelineOf(s)'
    BY DEF Pipeline
  <2>2. PipelineOf(s) /\ Home(s) \in Workers
    BY HomeIsWorker DEF InSession, Pipeline
  <2>3. Known(s)' = Known(s)
    BY DEF Known
  <2>4. ASSUME pc'[Home(s)] # "exit" PROVE pc[Home(s)] # "exit" /\ Reached(s)' = Reached(s)
    <3>1. pc[Home(s)] # "exit"
      BY <2>2, <2>4
    <3>2. (Leaves(Home(s), s)' <=> Leaves(Home(s), s)) /\ (InTable(s)' <=> InTable(s))
      BY <2>2, <3>1 DEF Leaves
    <3>3. Leaves(Home(s), s) => lost'[Home(s)] = lost[Home(s)]
      BY <2>2 DEF Leaves
    <3>4. InTable(s) => file'[s] = file[s]
      BY <3>1
    <3>5. QED
      BY <1>1, <3>1, <3>2, <3>3, <3>4 DEF Reached
  <2>5. QED
    BY <2>2, <2>3, <2>4, PipelineStays
<1>3. Viewed' /\ AnnouncedOnce'
  BY DEF InSession, Viewed, AnnouncedOnce
<1>4. Unannounced'
  BY <1>1, WorkerAssumption DEF InSession, Unannounced
<1>5. Leaving'
  <2>1. SUFFICES ASSUME NEW v \in Workers, pc'[v] = "closed" PROVE Left(v)'
    BY DEF Leaving
  <2>2. /\ pc[v] = "closed" /\ cur'[v] = cur[v] /\ lost'[v] = lost[v] /\ cur[v] \in Fds
        /\ Left(v)
    BY <2>1 DEF Inv, TypeOK, WorkerTypeOK, InSession, Leaving
  <2>3. sockets'[v][cur[v]] = "null"
    BY <2>2 DEF Left, InTable
  <2>4. \A s \in Fds : file'[s] # lost[v]
    BY <2>2 DEF Left
  <2>5. QED
    BY <1>1, <2>2, <2>3, <2>4 DEF Left
<1>6. QED
  BY <1>2, <1>3, <1>4, <1>5 DEF InSession

(* A step that moves no descriptor and reports nothing.                    *)
LEMMA SessionQuiet ==
  ASSUME Inv, InSession,
         UNCHANGED <<view, status, heard, readQueue, file, sockets, rcvd>>,
         \A v \in Workers : /\ pc'[v] = "closed" <=> pc[v] = "closed"
                            /\ pc[v] = "exit" => pc'[v] = "exit"
                            /\ pc[v] = "closed" => cur'[v] = cur[v] /\ lost'[v] = lost[v],
         \A c \in Conns : /\ Waits(c)' => Waits(c)
                          /\ peer'[c] = "idle" => c \notin backlog'
  PROVE  InSession'
<1>1. \A t \in Fds : InTable(t)' <=> InTable(t)
  BY DEF InTable
<1>2. {} \in SUBSET Fds
  OBVIOUS
<1>3. QED
  BY <1>1, <1>2, SessionClosed

(* What a worker has in its table is announced, and it alone has it.       *)
LEMMA TableSession ==
  ASSUME Inv, InSession, NEW w \in Workers, NEW s \in Fds, sockets[w][s] # "null"
  PROVE  /\ w = Home(s) /\ InTable(s) /\ file[s] # None /\ ~Fresh(file[s])
         /\ \A t \in Fds : file[t] = file[s] => t = s
         /\ \A v \in Workers : pc[v] = "closed" => lost[v] # file[s]
<1>1. w = Home(s) /\ InTable(s) /\ file[s] # None
  BY OwnSocket, WorkerAssumption
<1>2. ~Fresh(file[s]) /\ \A t \in Fds : file[t] = file[s] => t = s
  BY <1>1 DEF InSession, Unannounced
<1>3. QED
  BY <1>1, <1>2 DEF InSession, Leaving, Left

(* The first half of removeSocket: the worker has forgotten s, and still   *)
(* has to say so.                                                          *)
LEMMA SessionRemove ==
  ASSUME Inv, InSession, NEW w \in Workers, NEW s \in Fds,
         NEW ret \in {"sweep", "handle", "events"},
         UNCHANGED <<view, status, heard, readQueue, rcvd>>,
         pc[w] \notin {"closed", "exit"}, sockets[w][s] # "null", BeginRemove(w, s, ret)
  PROVE  InSession'
<1>1. /\ w = Home(s) /\ InTable(s) /\ file[s] # None /\ ~Fresh(file[s])
      /\ \A t \in Fds : file[t] = file[s] => t = s
      /\ \A v \in Workers : pc[v] = "closed" => lost[v] # file[s]
  BY TableSession
<1>2. /\ peer' = peer
      /\ \A t \in Fds : file'[t] = IF t = s THEN None ELSE file[t]
      /\ \A v \in Workers, t \in Fds :
           sockets'[v][t] = IF v = w /\ t = s THEN "null" ELSE sockets[v][t]
  BY SocketRemoved
<1>3. /\ pc'[w] = "closed" /\ cur'[w] = s /\ lost'[w] = file[s]
      /\ \A v \in Workers : v # w => pc'[v] = pc[v] /\ cur'[v] = cur[v] /\ lost'[v] = lost[v]
      /\ backlog' \subseteq backlog
  BY DEF BeginRemove, Goto, CloseFiles, Inv, TypeOK, WorkerTypeOK
<1>4. \A c : (Fresh(c)' <=> Fresh(c)) /\ Got(c)' = Got(c)
  BY DEF Fresh, Got
<1>5. \A t \in Fds : InTable(t)' <=> InTable(t) /\ t # s
  BY <1>1, <1>2, HomeIsWorker DEF InTable
<1>6. Pipeline'
  <2>1. SUFFICES ASSUME NEW t \in Fds PROVE PipelineOf(t)'
    BY DEF Pipeline
  <2>2. PipelineOf(t) /\ Home(t) \in Workers
    BY HomeIsWorker DEF InSession, Pipeline
  <2>3. Known(t)' = Known(t)
    BY DEF Known
  <2>4. pc'[Home(t)] # "exit" => pc[Home(t)] # "exit"
    BY <1>3, <2>2
  <2>5. Reached(t)' = Reached(t)
    <3>1. CASE t = s
      <4>1. Leaves(Home(s), s)' /\ ~Leaves(Home(s), s)
        BY <1>1, <1>3 DEF Leaves
      <4>2. Reached(s)' = <<lost'[Home(s)], Got(lost[Home(s)])'>>
        BY <4>1 DEF Reached
      <4>3. Reached(s) = <<file[s], Got(file[s])>>
        BY <1>1, <4>1 DEF Reached
      <4>4. QED
        BY <1>1, <1>3, <1>4, <3>1, <4>2, <4>3
    <3>2. CASE t # s
      <4>1. Leaves(Home(t), t)' <=> Leaves(Home(t), t)
        BY <1>3, <2>2, <3>2 DEF Leaves
      <4>2. Leaves(Home(t), t) => lost'[Home(t)] = lost[Home(t)]
        BY <1>3, <2>2 DEF Leaves
      <4>3. QED
        BY <1>2, <1>4, <1>5, <3>2, <4>1, <4>2 DEF Reached
    <3>3. QED
      BY <3>1, <3>2
  <2>6. QED
    BY <2>2, <2>3, <2>4, <2>5, PipelineStays
<1>7. Viewed' /\ AnnouncedOnce'
  BY DEF InSession, Viewed, AnnouncedOnce
<1>8. Unannounced'
  BY <1>2, <1>3, <1>4, <1>5, WorkerAssumption DEF InSession, Unannounced, Waits
<1>9. Leaving'
  <2>1. SUFFICES ASSUME NEW v \in Workers, pc'[v] = "closed" PROVE Left(v)'
    BY DEF Leaving
  <2>2. CASE v = w
    BY <1>1, <1>2, <1>3, <1>4, <2>2 DEF Left
  <2>3. CASE v # w
    <3>1. pc[v] = "closed" /\ cur'[v] = cur[v] /\ lost'[v] = lost[v] /\ cur[v] \in Fds
      BY <1>3, <2>1, <2>3 DEF Inv, TypeOK, WorkerTypeOK
    <3>2. Left(v)
      BY <3>1 DEF InSession, Leaving
    <3>3. QED
      BY <1>2, <1>4, <2>3, <3>1, <3>2 DEF Left
  <2>4. QED
    BY <2>2, <2>3
<1>10. QED
  BY <1>6, <1>7, <1>8, <1>9 DEF InSession

(* The second half of removeSocket says so.                                *)
LEMMA SessionReport ==
  ASSUME Inv, InSession, NEW w \in Workers, removeSocket(w), UNCHANGED <<view, status, heard>>
  PROVE  InSession'
<1> DEFINE s == cur[w]
           m == allocateMessage(s, "CLOSE", lost[w], 0)
<1>1. s \in Fds /\ lost[w] \in Files /\ readQueue \in Seq(Message)
  BY DEF Inv, TypeOK, WorkerTypeOK
<1>2. pc[w] = "closed" /\ readQueue' = Append(readQueue, m) /\ back[w] \notin {"closed", "exit"}
  BY DEF removeSocket, Inv, TypeOK, WorkerTypeOK
<1>3. Home(s) = w /\ sockets[w][s] = "null" /\ lost[w] # None
  BY <1>2 DEF InSession, Leaving, Left
<1>4. m \in Message /\ m.op = "CLOSE" /\ m.s = s /\ m.c = lost[w]
  BY <1>1, AllocatedMessage, WorkerAssumption DEF Opcodes, allocateMessage
<1>5. UNCHANGED <<file, peer, backlog, sockets, rcvd>>
  BY DEF removeSocket, kernelVars
<1>6. /\ pc'[w] \notin {"closed", "exit"}
      /\ \A v \in Workers : v # w => pc'[v] = pc[v] /\ cur'[v] = cur[v] /\ lost'[v] = lost[v]
  BY <1>2 DEF removeSocket, Return, Goto, Inv, TypeOK, WorkerTypeOK
<1> HIDE DEF s, m
<1>7. AnnouncedOnce' /\ \A c : Fresh(c)' <=> Fresh(c)
  BY <1>1, <1>2, <1>4, NothingAnnounced DEF InSession
<1>8. \A c : Got(c)' = Got(c)
  BY <1>5 DEF Got
<1>9. \A t \in Fds : InTable(t)' <=> InTable(t)
  BY <1>5 DEF InTable
<1>10. ASSUME NEW t \in Fds PROVE PipelineOf(t)'
  <2>1. PipelineOf(t) /\ Home(t) \in Workers /\ Known(t)' = Known(t)
    BY HomeIsWorker DEF InSession, Pipeline, Known
  <2>2. /\ pc'[Home(t)] # "exit" <=> pc[Home(t)] # "exit"
        /\ EventOf(m, t) => pc[Home(t)] # "exit"
    BY <1>2, <1>3, <1>4, <1>6, <2>1 DEF EventOf
  <2>3. StepOf(t, Reached(t), m, Reached(t)')
    <3>1. CASE t = s
      <4>1. Leaves(Home(t), t) /\ ~Leaves(Home(t), t)' /\ ~InTable(t)'
        BY <1>2, <1>3, <1>6, <1>9, <3>1 DEF Leaves, InTable, s
      <4>2. Reached(t) = <<lost[w], Got(lost[w])>> /\ Reached(t)' = Between
        BY <1>3, <3>1, <4>1 DEF Reached
      <4>3. QED
        BY <1>1, <1>3, <1>4, <3>1, <4>2 DEF StepOf, EventOf
    <3>2. CASE t # s
      <4>1. Leaves(Home(t), t)' <=> Leaves(Home(t), t)
        BY <1>2, <1>6, <2>1, <3>2 DEF Leaves, s
      <4>2. Leaves(Home(t), t) => lost'[Home(t)] = lost[Home(t)]
        BY <1>6, <2>1, <3>2 DEF Leaves, s
      <4>3. Reached(t)' = Reached(t)
        BY <1>5, <1>8, <1>9, <4>1, <4>2 DEF Reached
      <4>4. QED
        BY <1>4, <3>2, <4>3 DEF StepOf, EventOf
    <3>3. QED
      BY <3>1, <3>2
  <2>4. QED
    BY <1>1, <1>2, <1>4, <2>1, <2>2, <2>3, PipelineGrows
<1>11. Viewed'
  BY DEF InSession, Viewed
<1>12. Unannounced'
  BY <1>5, <1>7, <1>9 DEF InSession, Unannounced, Waits
<1>13. Leaving'
  BY <1>5, <1>6, <1>7 DEF InSession, Leaving, Left
<1>14. QED
  BY <1>7, <1>10, <1>11, <1>12, <1>13 DEF InSession, Pipeline

(* newSocket: a refused connection is closed unannounced, ...              *)
LEMMA SessionNew ==
  ASSUME Inv, InSession, NEW w \in Workers, NEW kind \in {"socket", "listening"},
         NEW op \in {"NEW_SOCKET", "NEW_LISTENING"}, Request(w, op), newSocket(w, kind),
         UNCHANGED <<view, status, heard>>
  PROVE  InSession'
<1> DEFINE r == Head(sendQueue[w])
           s == r.s
           c == file[s]
           m == allocateMessage(s, "ESTABLISH", c, 0)
<1>1. s \in Fds /\ InQueue(sendQueue[w], s)
  <2>1. GoodRequest(r) /\ r.op = op /\ (Carries(r, r.s) => InQueue(sendQueue[w], r.s))
    BY RequestTaken
  <2>2. QED
    BY <2>1, WorkerAssumption DEF GoodRequest, Carries
<1>2. /\ w = Home(s) /\ ~InTable(s) /\ c # None /\ c \in Conns \cup {Listener}
  <2>1. w = Home(s)
    BY <1>1 DEF Inv, Ownership, Homes
  <2>2. ~InTable(s) /\ c # None
    BY <1>1, <2>1 DEF Inv, Ownership, Exclusive, InSend, Backed, Somewhere
  <2>3. QED
    BY <1>1, <2>1, <2>2 DEF Inv, Ownership, Descriptors
<1>3. Fresh(c) /\ (c \in Conns => rcvd[c] = 0) /\ \A t \in Fds : file[t] = c => t = s
  BY <1>1, <1>2 DEF InSession, Unannounced
<1>4. pc[w] = "handle" /\ UNCHANGED <<pc, cur, lost, rcvd>>
  BY DEF newSocket, Request, threadVars
<1>5. CASE TooMany(w)
  <2>1. CloseFiles({s}) /\ UNCHANGED <<sockets, readQueue>>
    BY <1>5 DEF newSocket
  <2>2. /\ \A t \in Fds : file'[t] = IF t \in {s} THEN None ELSE file[t]
        /\ {s} \in SUBSET Fds
    BY <1>1, <2>1, FilesClosed
  <2>3. \A d \in Conns : (Waits(d)' => Waits(d)) /\ (peer'[d] = "idle" => d \notin backlog')
    BY <2>1 DEF CloseFiles, Waits, InSession, Unannounced
  <2>4. \A t \in Fds : InTable(t)' <=> InTable(t)
    BY <2>1 DEF InTable
  <2> HIDE DEF s
  <2>5. /\ \A t \in Fds \ {s} : InTable(t)' <=> InTable(t)
        /\ \A t \in {s} : ~InTable(t)' /\ (InTable(t) => pc[Home(t)] = "exit")
    BY <1>1, <1>2, <2>4
  <2>6. QED
    BY <1>4, <2>1, <2>2, <2>3, <2>5, SessionClosed
(* ... an accepted one is announced, for the first time.                   *)
<1>6. CASE ~TooMany(w)
  <2>1. /\ sockets' = [sockets EXCEPT ![w][s] = kind]
        /\ readQueue' = Append(readQueue, m)
        /\ UNCHANGED <<file, peer, backlog>>
    BY <1>6 DEF newSocket
  <2>2. m \in Message /\ m.op = "ESTABLISH" /\ m.s = s /\ m.c = c
    BY <1>1, <1>2, AllocatedMessage, WorkerAssumption DEF Opcodes, allocateMessage, Files
  <2>3. /\ readQueue \in Seq(Message)
        /\ sockets \in [Workers -> [Fds -> {"null", "listening", "socket"}]]
        /\ c \in Files
    BY <1>2 DEF Inv, TypeOK, WorkerTypeOK, Files
  <2> HIDE DEF r, s, c, m
  <2>4. \A v \in Workers, t \in Fds :
          sockets'[v][t] = IF v = w /\ t = s THEN kind ELSE sockets[v][t]
    BY <1>1, <2>1, <2>3
  <2>5. \A t \in Fds : InTable(t)' <=> InTable(t) \/ t = s
    BY <1>2, <2>4, HomeIsWorker DEF InTable
  <2>6. /\ \A d : Announced(readQueue', d) <=> Announced(readQueue, d) \/ d = c
        /\ Once(readQueue')
    <3>1. \A d : Announces(m, d) <=> d = c
      BY <2>2 DEF Announces
    <3>2. Once(readQueue) /\ ~Announced(readQueue, c)
      BY <1>3 DEF InSession, AnnouncedOnce, Fresh
    <3>3. QED
      BY <2>1, <2>2, <2>3, <3>1, <3>2, AnnouncedAppend
  <2>7. \A d : Fresh(d)' <=> Fresh(d) /\ d # c
    BY <2>6 DEF Fresh
  <2>8. AnnouncedOnce'
    BY <1>3, <2>6 DEF InSession, AnnouncedOnce, Fresh
  <2>9. \A d : Got(d)' = Got(d)
    BY <1>4 DEF Got
  <2>10. ASSUME NEW t \in Fds PROVE PipelineOf(t)'
    <3>1. PipelineOf(t) /\ Home(t) \in Workers /\ Known(t)' = Known(t)
      BY HomeIsWorker DEF InSession, Pipeline, Known
    <3>2. /\ pc'[Home(t)] # "exit" <=> pc[Home(t)] # "exit"
          /\ EventOf(m, t) => pc[Home(t)] # "exit"
      BY <1>2, <1>4, <2>2, <3>1 DEF EventOf
    <3>3. StepOf(t, Reached(t), m, Reached(t)')
      <4>1. CASE t = s
        <5>1. ~Leaves(Home(t), t) /\ ~Leaves(Home(t), t)' /\ InTable(t)' /\ ~InTable(t)
          BY <1>1, <1>2, <1>4, <2>5, <4>1 DEF Leaves
        <5>2. Got(c) = 0
          BY <1>3 DEF Got
        <5>3. Reached(t) = Between /\ Reached(t)' = <<c, 0>>
          <6>1. Reached(t) = Between
            BY <5>1 DEF Reached
          <6>2. Reached(t)' = <<file'[t], Got(file[t])'>>
            BY <5>1 DEF Reached
          <6>3. QED
            BY <2>1, <2>9, <4>1, <5>2, <6>1, <6>2 DEF c
        <5>4. QED
          BY <1>2, <2>2, <2>3, <4>1, <5>3 DEF StepOf, EventOf
      <4>2. CASE t # s
        <5>1. Leaves(Home(t), t)' <=> Leaves(Home(t), t)
          BY <1>4 DEF Leaves
        <5>2. Reached(t)' = Reached(t)
          BY <1>4, <2>1, <2>5, <2>9, <4>2, <5>1 DEF Reached
        <5>3. QED
          BY <2>2, <4>2, <5>2 DEF StepOf, EventOf
      <4>3. QED
        BY <4>1, <4>2
    <3>4. QED
      BY <2>1, <2>2, <2>3, <3>1, <3>2, <3>3, PipelineGrows
  <2>11. Viewed'
    BY DEF InSession, Viewed
  <2>12. Unannounced'
    BY <1>1, <1>3, <1>4, <2>1, <2>5, <2>7 DEF InSession, Unannounced, Waits, c
  <2>13. Leaving'
    <3>1. SUFFICES ASSUME NEW v \in Workers, pc'[v] = "closed" PROVE Left(v)'
      BY DEF Leaving
    <3>2. v # w /\ Left(v) /\ cur[v] \in Fds
      BY <1>4, <3>1 DEF InSession, Leaving, Inv, TypeOK, WorkerTypeOK
    <3>3. QED
      BY <1>4, <2>1, <2>4, <2>7, <3>2 DEF Left
  <2>14. QED
    BY <2>8, <2>10, <2>11, <2>12, <2>13 DEF InSession, Pipeline
<1>7. QED
  BY <1>5, <1>6

(* acceptSocket gives a number to a connection nobody has heard of, which  *)
(* may be the number of one whose end is still to be reported.             *)
LEMMA SessionAccept ==
  ASSUME Inv, InSession, NEW s \in Fds, NEW c \in backlog, file[s] = None,
         file' = [file EXCEPT ![s] = c], backlog' = backlog \ {c},
         readQueue' = Append(readQueue, allocateMessage(s, "NEW_SOCKET", c, 0)),
         UNCHANGED <<peer, sockets, rcvd, pc, cur, lost, view, status, heard>>
  PROVE  InSession'
<1> DEFINE m == allocateMessage(s, "NEW_SOCKET", c, 0)
<1>1. /\ c \in Conns /\ readQueue \in Seq(Message)
      /\ \A t \in Fds : file'[t] = IF t = s THEN c ELSE file[t]
  BY DEF Inv, TypeOK, WorkerTypeOK
<1>2. m \in Message /\ m.op = "NEW_SOCKET" /\ readQueue' = Append(readQueue, m)
  <2>1. s \in Nat /\ "NEW_SOCKET" \in Opcodes /\ c \in Files /\ 0 \in Nat
    BY <1>1, WorkerAssumption DEF Opcodes, Files
  <2>2. QED
    BY <2>1, AllocatedMessage
<1> HIDE DEF m
<1>3. ~InTable(s)
  BY DEF Inv, Ownership, Backed, Somewhere
<1>4. Fresh(c) /\ peer[c] # "idle" /\ \A t \in Fds : file[t] # c
  BY <1>1 DEF InSession, Unannounced, Waits
<1>5. AnnouncedOnce' /\ \A d : Fresh(d)' <=> Fresh(d)
  BY <1>1, <1>2, NothingAnnounced DEF InSession
<1>6. \A d : Got(d)' = Got(d)
  BY DEF Got
<1>7. \A t \in Fds : InTable(t)' <=> InTable(t)
  BY DEF InTable
<1>8. ASSUME NEW t \in Fds PROVE PipelineOf(t)'
  <2>1. PipelineOf(t) /\ Known(t)' = Known(t)
    BY DEF InSession, Pipeline, Known
  <2>2. ~EventOf(m, t)
    BY <1>2 DEF EventOf
  <2>3. InTable(t) => file'[t] = file[t]
    BY <1>1, <1>3
  <2>4. Reached(t)' = Reached(t)
    BY <1>6, <1>7, <2>3 DEF Reached, Leaves
  <2>5. StepOf(t, Reached(t), m, Reached(t)')
    BY <2>2, <2>4 DEF StepOf
  <2>6. QED
    BY <1>1, <1>2, <2>1, <2>2, <2>5, PipelineGrows
<1>9. Viewed'
  BY DEF InSession, Viewed
<1>10. Unannounced'
  <2>1. \A d \in Conns : Waits(d)' => Waits(d) /\ d # c
    BY <1>4 DEF Waits
  <2>2. QED
    BY <1>1, <1>3, <1>4, <1>5, <1>7, <2>1, WorkerAssumption DEF InSession, Unannounced
<1>11. Leaving'
  BY <1>1, <1>4, <1>5 DEF InSession, Leaving, Left
<1>12. QED
  BY <1>5, <1>8, <1>9, <1>10, <1>11 DEF InSession, Pipeline

(* readSocket reports the next message of the connection it reads.         *)
LEMMA SessionRead ==
  ASSUME Inv, InSession, NEW w \in Workers, pc[w] = "read",
         rcvd' = [rcvd EXCEPT ![file[cur[w]]] = @ + 1],
         readQueue' = Append(readQueue, allocateMessage(cur[w], "MESSAGE", file[cur[w]],
                                                        rcvd[file[cur[w]]] + 1)),
         UNCHANGED <<file, peer, backlog, sockets, pc, cur, lost, view, status, heard>>
  PROVE  InSession'
<1>0. PICK s, c : s = cur[w] /\ c = file[s]
  OBVIOUS
<1> DEFINE m == allocateMessage(s, "MESSAGE", c, rcvd[c] + 1)
<1>1. /\ s \in Fds /\ sockets[w][s] = "socket" /\ readQueue \in Seq(Message)
      /\ rcvd \in [Conns -> Nat]
  BY <1>0 DEF Inv, TypeOK, WorkerTypeOK, Working
<1>2. c \in Conns
  BY <1>0, <1>1, OwnSocket DEF Kind
<1>3. /\ w = Home(s) /\ InTable(s) /\ c # None /\ ~Fresh(c)
      /\ \A t \in Fds : file[t] = c => t = s
      /\ \A v \in Workers : pc[v] = "closed" => lost[v] # c
  BY <1>0, <1>1, TableSession
<1>4. m \in Message /\ m.op = "MESSAGE" /\ m.s = s /\ m.c = c /\ m.n = rcvd[c] + 1
  <2>1. c \in Files /\ s \in Nat /\ rcvd[c] + 1 \in Nat /\ "MESSAGE" \in Opcodes
    BY <1>1, <1>2, WorkerAssumption DEF Opcodes, Files
  <2>2. QED
    BY <2>1, AllocatedMessage DEF allocateMessage
<1>5. /\ readQueue' = Append(readQueue, m)
      /\ \A d \in Conns : rcvd'[d] = IF d = c THEN rcvd[c] + 1 ELSE rcvd[d]
  BY <1>0, <1>1, <1>2
<1> HIDE DEF m
<1>6. AnnouncedOnce' /\ \A d : Fresh(d)' <=> Fresh(d)
  BY <1>1, <1>4, <1>5, NothingAnnounced DEF InSession
<1>7. /\ Got(c) = rcvd[c] /\ Got(c)' = rcvd[c] + 1
      /\ \A d : d # c => Got(d)' = Got(d)
  BY <1>2, <1>5 DEF Got
<1>8. \A t \in Fds : InTable(t)' <=> InTable(t)
  BY DEF InTable
<1>9. ASSUME NEW t \in Fds PROVE PipelineOf(t)'
  <2>1. PipelineOf(t) /\ Home(t) \in Workers /\ Known(t)' = Known(t)
    BY HomeIsWorker DEF InSession, Pipeline, Known
  <2>2. EventOf(m, t) => pc[Home(t)] # "exit"
    BY <1>3, <1>4 DEF EventOf
  <2>3. StepOf(t, Reached(t), m, Reached(t)')
    <3>1. CASE t = s
      <4>1. ~Leaves(Home(t), t) /\ ~Leaves(Home(t), t)' /\ InTable(t)' /\ InTable(t)
        BY <1>3, <1>8, <2>1, <3>1 DEF Leaves
      <4>2. Reached(t) = <<file[t], Got(file[t])>> /\ Reached(t)' = <<file'[t], Got(file[t])'>>
        BY <4>1 DEF Reached
      <4>3. Reached(t) = <<c, rcvd[c]>> /\ Reached(t)' = <<c, rcvd[c] + 1>>
        BY <1>0, <1>7, <3>1, <4>2
      <4>4. m.n - 1 = rcvd[c] /\ c \in Files
        BY <1>1, <1>2, <1>4 DEF Files
      <4>5. QED
        BY <1>3, <1>4, <3>1, <4>3, <4>4 DEF StepOf, EventOf
    <3>2. CASE t # s
      <4>1. Leaves(Home(t), t)' <=> Leaves(Home(t), t)
        BY DEF Leaves
      <4>2. Leaves(Home(t), t) => lost[Home(t)] # c
        BY <1>3, <2>1 DEF Leaves
      <4>3. file[t] # c
        BY <1>3, <3>2
      <4>4. Reached(t)' = Reached(t)
        BY <1>7, <1>8, <4>1, <4>2, <4>3 DEF Reached
      <4>5. QED
        BY <1>4, <3>2, <4>4 DEF StepOf, EventOf
    <3>3. QED
      BY <3>1, <3>2
  <2>4. QED
    BY <1>1, <1>4, <1>5, <2>1, <2>2, <2>3, PipelineGrows
<1>10. Viewed'
  BY DEF InSession, Viewed
<1>11. Unannounced'
  BY <1>3, <1>5, <1>6, <1>8 DEF InSession, Unannounced, Waits
<1>12. Leaving'
  BY <1>6 DEF InSession, Leaving, Left
<1>13. QED
  BY <1>6, <1>9, <1>10, <1>11, <1>12 DEF InSession, Pipeline

(* stop() closes the sockets of a worker whose thread has ended, and those *)
(* that were on their way to it.                                           *)
LEMMA SessionJoin ==
  ASSUME Inv, InSession, Join
  PROVE  InSession'
<1> DEFINE S == Owned(target) \cup Arriving(target)
<1>1. /\ target \in Workers /\ pc[target] = "exit" /\ CloseFiles(S)
      /\ sockets' = [sockets EXCEPT ![target] = [s \in Fds |-> "null"]]
      /\ UNCHANGED <<view, status, heard, readQueue, rcvd, pc, cur, lost>>
  BY DEF Join, Inv, TypeOK, threadVars
<1>2. S \in SUBSET Fds /\ \A t \in S : Home(t) = target
  <2>1. \A t \in Owned(target) : t \in Fds /\ Home(t) = target
    BY <1>1, OwnSocket DEF Owned
  <2>2. ASSUME NEW t \in Arriving(target) PROVE t \in Fds /\ Home(t) = target
    <3>1. PICK i \in 1 .. Len(sendQueue[target]) :
            sendQueue[target][i].op = "NEW_SOCKET" /\ t = sendQueue[target][i].s
      BY <2>2 DEF Arriving
    <3>2. t \in Fds /\ InQueue(sendQueue[target], t)
      BY <1>1, <3>1 DEF Inv, Queues, AllRequests, GoodRequest, InQueue, Carries
    <3>3. QED
      BY <1>1, <3>2 DEF Inv, Ownership, Homes
  <2>3. QED
    BY <2>1, <2>2
<1>3. \A t \in Fds : file'[t] = IF t \in S THEN None ELSE file[t]
  BY <1>1, <1>2, FilesClosed
<1>4. \A t \in Fds : InTable(t)' <=> InTable(t) /\ Home(t) # target
  BY <1>1, HomeIsWorker DEF InTable, Inv, TypeOK, WorkerTypeOK
<1>5. \A t \in Fds \ S : Home(t) = target => ~InTable(t)
  BY DEF Owned, InTable
<1>6. \A c \in Conns : (Waits(c)' => Waits(c)) /\ (peer'[c] = "idle" => c \notin backlog')
  BY <1>1 DEF CloseFiles, Waits, InSession, Unannounced
<1> HIDE DEF S
<1>7. /\ \A t \in Fds \ S : InTable(t)' <=> InTable(t)
      /\ \A t \in S : ~InTable(t)' /\ (InTable(t) => pc[Home(t)] = "exit")
  BY <1>1, <1>2, <1>4, <1>5
<1>8. QED
  BY <1>1, <1>2, <1>3, <1>6, <1>7, SessionClosed
-----------------------------------------------------------------------------
(* receiveMessage.                                                         *)

(* What the application knows when it takes an event is what the event     *)
(* takes for granted.                                                      *)
LEMMA SessionHead ==
  ASSUME Inv, InSession, readQueue # <<>>, NEW m, m = Head(readQueue),
         m.op \in {"ESTABLISH", "MESSAGE", "CLOSE"}
  PROVE  /\ m \in Message /\ m.s \in Fds /\ m.c \in Sessions /\ m.c \in Files \ {None}
         /\ m.op = "ESTABLISH" => view[m.s] = None /\ status[m.c] = "new"
         /\ m.op = "MESSAGE" => view[m.s] = m.c /\ Len(heard[m.c]) = m.n - 1
         /\ m.op = "CLOSE" => view[m.s] = m.c
<1>1. readQueue \in Seq(Message) /\ Distinct(readQueue) /\ AllEvents(readQueue)
  BY DEF Inv, TypeOK, WorkerTypeOK, Queues
<1>2. m \in Message /\ m.s \in Fds
  BY <1>1, TailOfQueue DEF GoodEvent
<1>3. PICK e : Chain(readQueue, m.s, Known(m.s), e)
  BY <1>2 DEF InSession, Pipeline, PipelineOf
<1>4. PICK b \in Marks : StepOf(m.s, Known(m.s), m, b)
  BY <1>1, <1>3, ChainTail
<1>5. EventOf(m, m.s)
  BY DEF EventOf
<1>6. /\ m.c \in Files \ {None}
      /\ m.op = "ESTABLISH" => Known(m.s) = Between
      /\ m.op = "MESSAGE" => Known(m.s) = <<m.c, m.n - 1>>
      /\ m.op = "CLOSE" => Known(m.s)[1] = m.c
  BY <1>4, <1>5 DEF StepOf
<1>7. /\ Known(m.s) = Between => view[m.s] = None
      /\ Known(m.s)[1] = view[m.s]
      /\ view[m.s] # None => Known(m.s)[2] = Len(heard[view[m.s]])
  BY DEF Known, Between
<1>8. m.op = "ESTABLISH" => status[m.c] = "new"
  <2>1. m.op = "ESTABLISH" => Announced(readQueue, m.c)
    BY <1>1, AnnouncedTail DEF Announces, InSession, AnnouncedOnce
  <2>2. QED
    BY <1>6, <2>1 DEF InSession, AnnouncedOnce
<1>9. m.c \in Sessions
  BY <1>6 DEF Files, Sessions
<1>10. ASSUME m.op = "MESSAGE" PROVE view[m.s] = m.c /\ Len(heard[m.c]) = m.n - 1
  BY <1>6, <1>7, <1>10
<1>11. QED
  BY <1>2, <1>6, <1>7, <1>8, <1>9, <1>10

(* Taking the head of the read queue, when the application learns from it  *)
(* what it says.                                                           *)
LEMMA SessionTakes ==
  ASSUME Inv, InSession, readQueue # <<>>, readQueue' = Tail(readQueue),
         UNCHANGED <<file, peer, backlog, sockets, rcvd, pc, cur, lost>>,
         Viewed', AnnouncedOnce', \A c \in Files : Fresh(c)' <=> Fresh(c),
         \A t \in Fds, b \in Marks : StepOf(t, Known(t), Head(readQueue), b) => Known(t)' = b
  PROVE  InSession'
<1>1. ASSUME NEW t \in Fds PROVE PipelineOf(t)'
  <2>1. PICK e \in Marks :
          Chain(readQueue, t, Known(t), e) /\ (pc[Home(t)] # "exit" => e = Reached(t))
    BY DEF InSession, Pipeline, PipelineOf
  <2>2. readQueue \in Seq(Message)
    BY DEF Inv, TypeOK, WorkerTypeOK
  <2>3. PICK b \in Marks :
          StepOf(t, Known(t), Head(readQueue), b) /\ Chain(Tail(readQueue), t, b, e)
    BY <2>1, <2>2, ChainTail
  <2>4. Known(t)' = b
    BY <2>3
  <2>5. Reached(t)' = Reached(t)
    BY DEF Reached, Leaves, InTable, Got
  <2>6. Chain(readQueue', t, Known(t)', e)
    BY <2>3, <2>4
  <2>7. QED
    BY <2>1, <2>5, <2>6 DEF PipelineOf
<1>2. \A t \in Fds : (InTable(t)' <=> InTable(t)) /\ file[t] \in Files
  BY DEF InTable, Inv, TypeOK, WorkerTypeOK
<1>3. Unannounced'
  BY <1>2 DEF InSession, Unannounced, Waits, Files
<1>4. \A v \in Workers : lost[v] \in Files
  BY DEF Inv, TypeOK, WorkerTypeOK
<1>5. Leaving'
  BY <1>4 DEF InSession, Leaving, Left
<1>6. QED
  BY <1>1, <1>3, <1>5 DEF InSession, Pipeline

(* An accepted descriptor is no event.                                     *)
LEMMA SessionPass ==
  ASSUME Inv, InSession, readQueue # <<>>, readQueue' = Tail(readQueue),
         Head(readQueue).op = "NEW_SOCKET",
         UNCHANGED <<file, peer, backlog, sockets, rcvd, pc, cur, lost, view, status, heard>>
  PROVE  InSession'
<1>1. readQueue \in Seq(Message) /\ Once(readQueue)
  BY DEF Inv, TypeOK, WorkerTypeOK, InSession, AnnouncedOnce
<1>2. \A c : ~Announces(Head(readQueue), c)
  BY DEF Announces
<1>3. Once(readQueue') /\ \A c : Announced(readQueue', c) <=> Announced(readQueue, c)
  BY <1>1, <1>2, AnnouncedTail
<1>4. AnnouncedOnce' /\ \A c \in Files : Fresh(c)' <=> Fresh(c)
  BY <1>3 DEF AnnouncedOnce, Fresh, InSession
<1>5. Viewed'
  BY DEF InSession, Viewed
<1>6. \A t \in Fds, b \in Marks : StepOf(t, Known(t), Head(readQueue), b) => Known(t)' = b
  BY DEF StepOf, EventOf, Known
<1>7. QED
  BY <1>4, <1>5, <1>6, SessionTakes

(* An event of each kind: what the application learns is a step of the     *)
(* abstract specification.                                                 *)
LEMMA SessionOpens ==
  ASSUME Inv, InSession, readQueue # <<>>, readQueue' = Tail(readQueue),
         NEW m, m = Head(readQueue), m.op = "ESTABLISH", Learn(m),
         UNCHANGED <<file, peer, backlog, sockets, rcvd, pc, cur, lost>>
  PROVE  InSession' /\ Events!EventsNext
<1>1. PICK s, c : s = m.s /\ c = m.c
  OBVIOUS
<1>2. s \in Fds /\ c \in Sessions /\ c \in Files \ {None} /\ view[s] = None /\ status[c] = "new"
  BY <1>1, SessionHead
<1>3. /\ view' = [view EXCEPT ![s] = c] /\ heard' = heard
      /\ status' = [status EXCEPT ![c] = "open"]
  BY <1>1, <1>2 DEF Learn
<1>4. /\ readQueue \in Seq(Message) /\ Once(readQueue)
      /\ view \in [Fds -> Files] /\ status \in [Files -> {"new", "open", "ended", "bogus"}]
  BY DEF Inv, TypeOK, WorkerTypeOK, InSession, AnnouncedOnce
<1>5. /\ \A t \in Fds : view'[t] = IF t = s THEN c ELSE view[t]
      /\ \A d \in Files : status'[d] = IF d = c THEN "open" ELSE status[d]
  BY <1>2, <1>3, <1>4
<1>6. \A d : Announces(m, d) <=> d = c
  BY <1>1 DEF Announces
<1>7. /\ Once(readQueue') /\ Announced(readQueue, c)
      /\ \A d : Announced(readQueue', d) <=> Announced(readQueue, d) /\ d # c
  BY <1>4, <1>6, AnnouncedTail
<1>8. AnnouncedOnce' /\ \A d \in Files : Fresh(d)' <=> Fresh(d)
  BY <1>2, <1>5, <1>7 DEF AnnouncedOnce, Fresh, InSession
<1>9. Viewed'
  <2>1. Sessions \subseteq Files
    BY DEF Sessions, Files
  <2>2. QED
    BY <1>2, <1>3, <1>4, <1>5, <2>1 DEF InSession, Viewed
<1>10. ASSUME NEW t \in Fds, NEW b \in Marks, StepOf(t, Known(t), m, b) PROVE Known(t)' = b
  <2>1. CASE t = s
    <3>1. b = <<c, 0>>
      BY <1>1, <1>10, <2>1 DEF StepOf, EventOf
    <3>2. heard[c] = <<>>
      BY <1>2 DEF InSession, Viewed
    <3>3. Known(t)' = <<c, Len(heard[c])>>
      BY <1>2, <1>3, <1>5, <2>1 DEF Known
    <3>4. QED
      BY <3>1, <3>2, <3>3
  <2>2. CASE t # s
    <3>1. b = Known(t)
      BY <1>1, <1>10, <2>2 DEF StepOf, EventOf
    <3>2. QED
      BY <1>3, <1>5, <2>2, <3>1 DEF Known
  <2>3. QED
    BY <2>1, <2>2
<1>11. InSession'
  BY <1>8, <1>9, <1>10, SessionTakes
<1>12. Events!Establish(s, c)
  BY <1>2, <1>3 DEF Events!Establish
<1>13. QED
  BY <1>2, <1>11, <1>12 DEF Events!EventsNext

LEMMA SessionHears ==
  ASSUME Inv, InSession, readQueue # <<>>, readQueue' = Tail(readQueue),
         NEW m, m = Head(readQueue), m.op = "MESSAGE", Learn(m),
         UNCHANGED <<file, peer, backlog, sockets, rcvd, pc, cur, lost>>
  PROVE  InSession' /\ Events!EventsNext
<1>1. PICK s, c : s = m.s /\ c = m.c
  OBVIOUS
<1>2. /\ s \in Fds /\ c \in Files \ {None} /\ view[s] = c /\ Len(heard[c]) = m.n - 1
      /\ m.n \in Nat
  BY <1>1, SessionHead DEF Message
<1>3. /\ view' = view /\ status' = status
      /\ heard' = [heard EXCEPT ![c] = Append(@, <<c, m.n>>)]
  BY <1>1, <1>2 DEF Learn
<1>4. /\ readQueue \in Seq(Message) /\ Once(readQueue)
      /\ heard \in [Files -> Seq(Files \X Nat)] /\ view \in [Fds -> Files]
  BY DEF Inv, TypeOK, WorkerTypeOK, InSession, AnnouncedOnce
<1>5. /\ \A d \in Files : d # c => heard'[d] = heard[d]
      /\ heard'[c] = Append(heard[c], <<c, m.n>>)
      /\ Len(heard'[c]) = m.n
  <2>1. /\ \A d \in Files : d # c => heard'[d] = heard[d]
        /\ heard'[c] = Append(heard[c], <<c, m.n>>)
    BY <1>2, <1>3, <1>4
  <2>2. heard[c] \in Seq(Files \X Nat) /\ <<c, m.n>> \in Files \X Nat
    BY <1>2, <1>4
  <2>3. Len(Append(heard[c], <<c, m.n>>)) = Len(heard[c]) + 1
    BY <2>2
  <2>4. QED
    BY <1>2, <2>1, <2>3
<1>6. \A d : ~Announces(m, d)
  BY DEF Announces
<1>7. Once(readQueue') /\ \A d : Announced(readQueue', d) <=> Announced(readQueue, d)
  BY <1>4, <1>6, AnnouncedTail
<1>8. AnnouncedOnce' /\ \A d \in Files : Fresh(d)' <=> Fresh(d)
  BY <1>3, <1>7 DEF AnnouncedOnce, Fresh, InSession
<1>9. Viewed'
  <2>1. Sessions \subseteq Files /\ status[c] # "new"
    BY <1>2 DEF Sessions, Files, InSession, Viewed
  <2>2. QED
    BY <1>3, <1>5, <2>1 DEF InSession, Viewed
<1>10. ASSUME NEW t \in Fds, NEW b \in Marks, StepOf(t, Known(t), m, b) PROVE Known(t)' = b
  <2>1. CASE t = s
    <3>1. b = <<c, m.n>>
      BY <1>1, <1>10, <2>1 DEF StepOf, EventOf
    <3>2. QED
      BY <1>2, <1>3, <1>5, <2>1, <3>1 DEF Known
  <2>2. CASE t # s
    <3>1. b = Known(t)
      BY <1>1, <1>10, <2>2 DEF StepOf, EventOf
    <3>2. view[t] # None => view[t] # c
      BY <1>2, <2>2 DEF InSession, Viewed
    <3>3. QED
      BY <1>3, <1>4, <1>5, <3>1, <3>2 DEF Known
  <2>3. QED
    BY <2>1, <2>2
<1>11. InSession'
  BY <1>8, <1>9, <1>10, SessionTakes
<1>12. Events!Deliver(s)
  <2>1. m.n = Len(heard[c]) + 1
    BY <1>2, <1>4
  <2>2. QED
    BY <1>2, <1>3, <2>1 DEF Events!Deliver
<1>13. QED
  BY <1>2, <1>11, <1>12 DEF Events!EventsNext

LEMMA SessionEnds ==
  ASSUME Inv, InSession, readQueue # <<>>, readQueue' = Tail(readQueue),
         NEW m, m = Head(readQueue), m.op = "CLOSE", Learn(m),
         UNCHANGED <<file, peer, backlog, sockets, rcvd, pc, cur, lost>>
  PROVE  InSession' /\ Events!EventsNext
<1>1. PICK s, c : s = m.s /\ c = m.c
  OBVIOUS
<1>2. s \in Fds /\ c \in Files \ {None} /\ view[s] = c
  BY <1>1, SessionHead
<1>3. /\ view' = [view EXCEPT ![s] = None] /\ heard' = heard
      /\ status' = [status EXCEPT ![c] = "ended"]
  BY <1>1, <1>2 DEF Learn
<1>4. /\ readQueue \in Seq(Message) /\ Once(readQueue)
      /\ view \in [Fds -> Files] /\ status \in [Files -> {"new", "open", "ended", "bogus"}]
  BY DEF Inv, TypeOK, WorkerTypeOK, InSession, AnnouncedOnce
<1>5. /\ \A t \in Fds : view'[t] = IF t = s THEN None ELSE view[t]
      /\ \A d \in Files : status'[d] = IF d = c THEN "ended" ELSE status[d]
      /\ status[c] # "new"
  BY <1>2, <1>3, <1>4 DEF InSession, Viewed
<1>6. \A d : ~Announces(m, d)
  BY DEF Announces
<1>7. Once(readQueue') /\ \A d : Announced(readQueue', d) <=> Announced(readQueue, d)
  BY <1>4, <1>6, AnnouncedTail
<1>8. AnnouncedOnce' /\ \A d \in Files : Fresh(d)' <=> Fresh(d)
  BY <1>5, <1>7 DEF AnnouncedOnce, Fresh, InSession
<1>9. Viewed'
  <2>1. Sessions \subseteq Files
    BY DEF Sessions, Files
  <2>2. QED
    BY <1>2, <1>3, <1>4, <1>5, <2>1 DEF InSession, Viewed
<1>10. ASSUME NEW t \in Fds, NEW b \in Marks, StepOf(t, Known(t), m, b) PROVE Known(t)' = b
  <2>1. CASE t = s
    <3>1. b = Between
      BY <1>1, <1>10, <2>1 DEF StepOf, EventOf
    <3>2. QED
      BY <1>5, <2>1, <3>1 DEF Known
  <2>2. CASE t # s
    <3>1. b = Known(t)
      BY <1>1, <1>10, <2>2 DEF StepOf, EventOf
    <3>2. QED
      BY <1>3, <1>5, <2>2, <3>1 DEF Known
  <2>3. QED
    BY <2>1, <2>2
<1>11. InSession'
  BY <1>8, <1>9, <1>10, SessionTakes
<1>12. Events!Lose(s)
  BY <1>2, <1>3 DEF Events!Lose
<1>13. QED
  BY <1>2, <1>11, <1>12 DEF Events!EventsNext

(* Every call of receiveMessage.                                           *)
LEMMA SessionReceive ==
  ASSUME Inv, InSession, receiveMessage
  PROVE  InSession' /\ (UNCHANGED <<view, status, heard>> \/ Events!EventsNext)
<1>1. /\ readQueue # <<>> /\ readQueue' = Tail(readQueue)
      /\ UNCHANGED <<file, peer, backlog, sockets, rcvd, pc, cur, lost>>
  BY DEF receiveMessage, OthersUnchanged, kernelVars, threadVars
<1>2. PICK m : m = Head(readQueue)
  OBVIOUS
<1>3. CASE m.op = "NEW_SOCKET"
  <2>1. UNCHANGED <<view, status, heard>>
    BY <1>2, <1>3 DEF receiveMessage
  <2>2. QED
    BY <1>1, <1>2, <1>3, <2>1, SessionPass
<1>4. CASE m.op # "NEW_SOCKET"
  <2>1. Learn(m)
    BY <1>2, <1>4 DEF receiveMessage
  <2>2. m.op \in {"ESTABLISH", "CLOSE", "MESSAGE"}
    BY <2>1 DEF Learn
  <2>3. QED
    BY <1>1, <1>2, <2>1, <2>2, SessionOpens, SessionHears, SessionEnds
<1>5. QED
  BY <1>3, <1>4
-----------------------------------------------------------------------------
(* Every step of a worker.                                                 *)
LEMMA SessionWorker ==
  ASSUME Inv, InSession, NEW w \in Workers, Worker(w), UNCHANGED mainVars
  PROVE  InSession'
<1>1. /\ pc \in [Workers -> PCs] /\ cur \in [Workers -> Fds]
      /\ UNCHANGED <<view, status, heard>>
  BY DEF Inv, TypeOK, WorkerTypeOK, mainVars
<1> DEFINE Rest == UNCHANGED <<readQueue, file, peer, backlog, sockets, rcvd, lost>>
<1>2. ASSUME Rest, \A v \in Workers : /\ pc'[v] = "closed" <=> pc[v] = "closed"
                                      /\ pc[v] = "exit" => pc'[v] = "exit"
                                      /\ pc[v] = "closed" => cur'[v] = cur[v]
      PROVE  InSession'
  <2>1. \A c \in Conns : (Waits(c)' => Waits(c)) /\ (peer'[c] = "idle" => c \notin backlog')
    BY <1>2 DEF Waits, InSession, Unannounced
  <2>2. QED
    BY <1>1, <1>2, <2>1, SessionQuiet
<1>3. ASSUME Rest, pc[w] \notin {"closed", "exit"}, NEW p \in PCs \ {"closed"}, Goto(w, p),
             cur' = cur \/ \E s : cur' = [cur EXCEPT ![w] = s]
      PROVE  InSession'
  <2>1. /\ pc'[w] = p
        /\ \A v \in Workers : v # w => pc'[v] = pc[v] /\ cur'[v] = cur[v]
    BY <1>1, <1>3 DEF Goto
  <2>2. QED
    BY <1>2, <1>3, <2>1
<1>4. ASSUME NEW s \in Fds, NEW ret \in {"sweep", "handle", "events"},
             UNCHANGED <<readQueue, rcvd>>, pc[w] \notin {"closed", "exit"},
             sockets[w][s] # "null", BeginRemove(w, s, ret)
      PROVE  InSession'
  BY <1>1, <1>4, SessionRemove
<1> HIDE DEF Rest
<1>5. CASE run(w)
  BY <1>3, <1>5 DEF run, PCs, kernelVars, Rest
<1>6. CASE checkSocket(w)
  <2>1. pc[w] = "sweep" /\ UNCHANGED <<readQueue, rcvd>>
    BY <1>6 DEF checkSocket
  <2>2. \/ \E s \in Fds : sockets[w][s] = "socket" /\ BeginRemove(w, s, "sweep")
        \/ Rest /\ Goto(w, "handle") /\ cur' = cur
    BY <1>6 DEF checkSocket, kernelVars, Rest
  <2>3. QED
    BY <1>3, <1>4, <2>1, <2>2 DEF PCs
<1>7. CASE handleMessage(w)
  <2>1. CASE HandleNone(w)
    BY <1>3, <2>1 DEF HandleNone, PCs, kernelVars, Rest
  <2>2. CASE HandleClose(w) \/ HandleMessage(w)
    <3>1. Head(sendQueue[w]).s \in Fds
      BY <2>2, RequestTaken DEF HandleClose, HandleMessage, GoodRequest
    <3>2. pc[w] = "handle" /\ UNCHANGED <<readQueue, rcvd>>
      BY <2>2 DEF HandleClose, HandleMessage, Request
    <3>3. CASE UNCHANGED <<kernelVars, sockets, threadVars>>
      BY <1>2, <3>2, <3>3 DEF threadVars, kernelVars, Rest
    <3>4. CASE /\ sockets[w][Head(sendQueue[w]).s] # "null"
               /\ BeginRemove(w, Head(sendQueue[w]).s, "handle")
      BY <1>4, <3>1, <3>2, <3>4
    <3>5. QED
      BY <2>2, <3>3, <3>4 DEF HandleClose, HandleMessage
  <2>3. CASE HandleNewSocket(w) \/ HandleNewListening(w)
    BY <1>1, <2>3, SessionNew DEF HandleNewSocket, HandleNewListening
  <2>4. CASE HandleOption(w)
    BY <1>2, <2>4 DEF HandleOption, threadVars, kernelVars, Rest
  <2>5. QED
    BY <1>7, <2>1, <2>2, <2>3, <2>4 DEF handleMessage
<1>8. CASE removeSocket(w)
  BY <1>1, <1>8, SessionReport
<1>9. CASE EnterWait(w) \/ LeaveWait(w) \/ EventsDone(w)
  BY <1>3, <1>9 DEF EnterWait, LeaveWait, EventsDone, PCs, kernelVars, Rest
<1>10. CASE HandleEvent(w)
  <2>1. pc[w] = "events" /\ UNCHANGED <<readQueue, rcvd>>
    BY <1>10 DEF HandleEvent
  <2>2. PICK s \in Fds :
          \/ sockets[w][s] # "null" /\ BeginRemove(w, s, "events")
          \/ /\ Rest /\ cur' = [cur EXCEPT ![w] = s]
             /\ \E p \in {"write", "accept", "read"} : Goto(w, p)
    BY <1>10 DEF HandleEvent, kernelVars, Rest
  <2>3. QED
    BY <1>3, <1>4, <2>1, <2>2 DEF PCs
<1>11. CASE acceptSocket(w)
  <2>1. pc[w] = "accept" /\ UNCHANGED <<peer, sockets, rcvd, lost>>
    BY <1>11 DEF acceptSocket
  <2>2. CASE Return(w, "events") /\ UNCHANGED <<file, backlog, readQueue>>
    BY <1>3, <2>1, <2>2 DEF Return, PCs, Rest
  <2>3. CASE \E c \in backlog, s \in {f \in Fds : file[f] = None} :
               /\ file' = [file EXCEPT ![s] = c]
               /\ backlog' = backlog \ {c}
               /\ readQueue' = Append(readQueue, allocateMessage(s, "NEW_SOCKET", c, 0))
               /\ UNCHANGED <<pc, cur>>
    BY <1>1, <2>1, <2>3, SessionAccept
  <2>4. QED
    BY <1>11, <2>2, <2>3 DEF acceptSocket
<1>12. CASE readSocket(w)
  <2>1. /\ cur[w] \in Fds /\ sockets[w][cur[w]] # "null" /\ pc[w] = "read"
    BY <1>12 DEF readSocket, Inv, TypeOK, WorkerTypeOK, Working
  <2>2. CASE BeginRemove(w, cur[w], "events") /\ UNCHANGED <<rcvd, readQueue>>
    BY <1>4, <2>1, <2>2
  <2>3. CASE /\ rcvd' = [rcvd EXCEPT ![file[cur[w]]] = @ + 1]
             /\ readQueue' = Append(readQueue, allocateMessage(cur[w], "MESSAGE", file[cur[w]],
                                                               rcvd[file[cur[w]]] + 1))
             /\ UNCHANGED <<kernelVars, sockets, pc, cur, back, lost>>
    BY <1>1, <2>1, <2>3, SessionRead DEF kernelVars
  <2>4. CASE Rest /\ (Goto(w, "write") \/ Goto(w, "events"))
                  /\ (cur' = cur \/ cur' = [cur EXCEPT ![w] = ListenFd])
    BY <1>3, <2>1, <2>4 DEF PCs
  <2>5. QED
    BY <1>12, <2>2, <2>3, <2>4 DEF readSocket, Return, kernelVars, Rest
<1>13. CASE writeSocket(w)
  <2>1. /\ cur[w] \in Fds /\ sockets[w][cur[w]] # "null" /\ pc[w] = "write"
        /\ UNCHANGED <<readQueue, rcvd>>
    BY <1>13 DEF writeSocket, Inv, TypeOK, WorkerTypeOK, Working
  <2>2. CASE BeginRemove(w, cur[w], "events")
    BY <1>4, <2>1, <2>2
  <2>3. CASE Return(w, "events") /\ UNCHANGED <<kernelVars, sockets, back, lost>>
    BY <1>3, <2>1, <2>3 DEF Return, PCs, kernelVars, Rest
  <2>4. QED
    BY <1>13, <2>2, <2>3 DEF writeSocket
<1>14. QED
  BY <1>5, <1>6, <1>7, <1>8, <1>9, <1>10, <1>11, <1>12, <1>13 DEF Worker, pollRun

(* Every other step of the application's thread.                           *)
LEMMA SessionMain ==
  ASSUME Inv, InSession, Main \/ Call, ~receiveMessage, ~Drain
  PROVE  InSession' /\ UNCHANGED <<view, status, heard>>
<1>1. target \in Workers /\ pc \in [Workers -> PCs]
  BY DEF Inv, TypeOK, WorkerTypeOK
<1>2. CASE Join
  BY <1>2, SessionJoin DEF Join
<1>3. CASE ~Join
  <2>1. /\ UNCHANGED <<view, status, heard, readQueue, file, peer, backlog, sockets, rcvd>>
        /\ UNCHANGED <<cur, lost>> /\ (pc' = pc \/ Wake(target))
    BY <1>3 DEF Main, PushMessage, PushSignal, StopFlag, StopSignal, Call, close, sendMessage,
                AppRequest, setsockopt, Stop, OthersUnchanged, kernelVars, workerVars, threadVars
  <2>2. \A v \in Workers : /\ pc'[v] = "closed" <=> pc[v] = "closed"
                           /\ pc[v] = "exit" => pc'[v] = "exit"
    BY <1>1, <2>1 DEF Wake
  <2>3. \A c \in Conns : (Waits(c)' => Waits(c)) /\ (peer'[c] = "idle" => c \notin backlog')
    BY <2>1 DEF Waits, InSession, Unannounced
  <2>4. QED
    BY <2>1, <2>2, <2>3, SessionQuiet
<1>4. QED
  BY <1>2, <1>3

(* The clients' steps.                                                     *)
LEMMA SessionClient ==
  ASSUME Inv, InSession, Client, UNCHANGED mainVars
  PROVE  InSession'
<1>1. UNCHANGED <<view, status, heard, readQueue, file, sockets, rcvd, pc, cur, lost>>
  BY DEF Client, Connect, PeerSend, PeerEnd, workerVars, threadVars, mainVars
<1>2. peer \in [Conns -> {"idle", "up", "fin", "rst"}]
  BY DEF Inv, TypeOK, WorkerTypeOK
<1>3. \A c \in Conns : (Waits(c)' => Waits(c)) /\ (peer'[c] = "idle" => c \notin backlog')
  <2>1. \A c \in Conns : peer[c] = "idle" => c \notin backlog
    BY DEF InSession, Unannounced
  <2>2. PICK d \in Conns : Connect(d) \/ PeerSend(d) \/ PeerEnd(d)
    BY DEF Client
  <2>3. CASE Connect(d)
    BY <1>2, <2>1, <2>3 DEF Connect, Waits
  <2>4. CASE PeerSend(d)
    BY <1>2, <2>1, <2>4 DEF PeerSend, Waits
  <2>5. CASE PeerEnd(d)
    <3>1. peer[d] # "idle" /\ backlog' = backlog
      BY <2>5 DEF PeerEnd
    <3>2. \A c \in Conns : peer'[c] = "idle" => peer[c] = "idle"
      BY <1>2, <2>5, WorkerAssumption DEF PeerEnd
    <3>3. QED
      BY <2>1, <3>1, <3>2 DEF Waits
  <2>6. QED
    BY <2>2, <2>3, <2>4, <2>5
<1>4. QED
  BY <1>1, <1>3, SessionQuiet

(* Initially nothing is known and nothing is queued.                       *)
LEMMA SessionInit == Init => InSession
<1> SUFFICES ASSUME Init PROVE InSession
  OBVIOUS
<1> USE DEF Init, WorkerInit
<1>1. Inv
  BY InitInv
<1>2. \A c : ~Announced(<<>>, c)
  BY DEF Announced
<1>3. \A c \in Files : Fresh(c)
  BY <1>2 DEF Fresh
<1>4. \A s \in Fds : ~InTable(s) /\ (file[s] # None => s = ListenFd)
  BY HomeIsWorker DEF InTable
<1>5. Pipeline
  <2>1. SUFFICES ASSUME NEW s \in Fds PROVE PipelineOf(s)
    BY DEF Pipeline
  <2>2. Known(s) = Between /\ Reached(s) = Between
    BY <1>4, HomeIsWorker DEF Known, Reached, Leaves
  <2>3. Between \in Marks
    BY DEF Between, Marks, Files
  <2>4. Chain(<<>>, s, Between, Between)
    BY <2>3, ChainEmpty
  <2>5. QED
    BY <2>2, <2>3, <2>4 DEF PipelineOf
<1>6. Viewed
  BY DEF Viewed, Sessions, Files
<1>7. AnnouncedOnce
  BY <1>2 DEF AnnouncedOnce, Once
<1>8. Unannounced
  BY <1>3, <1>4, WorkerAssumption DEF Unannounced, Waits, Files
<1>9. Leaving
  BY DEF Leaving
<1>10. QED
  BY <1>5, <1>6, <1>7, <1>8, <1>9 DEF InSession

(* One step: the invariant is kept, and the application's knowledge takes  *)
(* a step of ConnectionEvents, or none.                                    *)
LEMMA SessionStep ==
  ASSUME Inv, SessionInv, [Next]_vars
  PROVE  SessionInv' /\ [Events!EventsNext]_<<view, status, heard>>
<1>1. CASE UNCHANGED vars
  <2>1. UNCHANGED <<mpc, view, status, heard>>
    BY <1>1 DEF vars, mainVars
  <2>2. ASSUME InSession PROVE InSession'
    <3>1. UNCHANGED <<file, peer, backlog, sockets, rcvd, readQueue, pc, cur, lost>>
      BY <1>1 DEF vars, kernelVars, workerVars, threadVars
    <3>2. \A c \in Conns : (Waits(c)' => Waits(c)) /\ (peer'[c] = "idle" => c \notin backlog')
      BY <2>2, <3>1 DEF Waits, InSession, Unannounced
    <3>3. QED
      BY <2>1, <2>2, <3>1, <3>2, SessionQuiet
  <2>3. QED
    BY <2>1, <2>2 DEF SessionInv
<1>2. CASE Client /\ UNCHANGED mainVars
  BY <1>2, SessionClient DEF mainVars, SessionInv
<1>3. CASE \E w \in Workers : Worker(w) /\ UNCHANGED mainVars
  BY <1>3, SessionWorker DEF mainVars, SessionInv
<1>4. CASE Main \/ Call
  <2>1. mpc # "stopped"
    BY <1>4 DEF Main, PushMessage, PushSignal, receiveMessage, StopFlag, StopSignal, Join,
                Drain, Call, close, sendMessage, AppRequest, setsockopt, Stop
  <2>2. InSession
    BY <2>1 DEF SessionInv
  <2>3. CASE Drain
    BY <2>3 DEF Drain, SessionInv
  <2>4. CASE receiveMessage
    BY <2>2, <2>4, SessionReceive DEF SessionInv
  <2>5. QED
    BY <1>4, <2>2, <2>3, <2>4, SessionMain DEF SessionInv
<1>5. QED
  BY <1>1, <1>2, <1>3, <1>4 DEF Next

(* receiveMessage implements the abstract contract for any number of       *)
(* workers, descriptors, connections and messages: on each descriptor      *)
(* number the application sees sessions ESTABLISH MESSAGE* CLOSE, each     *)
(* about one connection, its messages numbered 1, 2, ... without gap or    *)
(* repetition, although close() frees the number for acceptSocket before   *)
(* removeSocket has queued the CLOSE, and although the workers push to one *)
(* queue.                                                                  *)
THEOREM ServerSessionsWellFormed == Spec => SessionsWellFormed
<1>1. Init => SessionInv /\ Events!EventsInit
  <2>1. Init => Events!EventsInit
    BY DEF Init, Events!EventsInit, Files, Sessions
  <2>2. QED
    BY <2>1, SessionInit DEF SessionInv
<1>2. Inv /\ SessionInv /\ [Next]_vars => SessionInv' /\ [Events!EventsNext]_Events!eventVars
  BY SessionStep DEF Events!eventVars
<1>3. QED
  BY <1>1, <1>2, ServerInv, PTL DEF Spec, SessionsWellFormed, Events!EventsSpec
-----------------------------------------------------------------------------
(* Requests of a server without separate workers.                          *)

(* While the server is not being stopped its master is alive.              *)
Alive ==
  /\ pc[0] = "exit" => stop[0]
  /\ mpc \in {"idle", "push", "kill"} => ~stop[0]

(* s is to be registered, or is still in the read queue before that.       *)
Pending(s) == InSend(s) \/ InStart(s)
Moving(s) == InRead(s) \/ Pending(s)

(* The application takes s for c, or will when it comes to the             *)
(* announcement in the read queue; a request for c is queued under the     *)
(* number s.                                                               *)
AnnouncedAs(q, s, c) == \E i \in 1 .. Len(q) : q[i].op = "ESTABLISH" /\ q[i].s = s /\ q[i].c = c
Expects(s, c) == (c # None /\ view[s] = c) \/ AnnouncedAs(readQueue, s, c)

Asks(m) == m.op \in {"CLOSE", "MESSAGE"}
Asked(q, s, c) == \E i \in 1 .. Len(q) : Asks(q[i]) /\ q[i].s = s /\ q[i].c = c

(* In the read queue the events of the previous connection precede a       *)
(* reused number, ...                                                      *)
Ordered(q) ==
  \A i, j \in 1 .. Len(q) :
    q[i].op = "NEW_SOCKET" /\ EventOf(q[j], q[i].s) => j < i

(* ... and so do the requests for it in the queue of the master.           *)
Earlier(q) ==
  \A i, j \in 1 .. Len(q) : Asks(q[i]) /\ Carries(q[j], q[i].s) => i < j

Timely ==
  /\ \A s \in Fds, c \in Files : Expects(s, c) => ~Pending(s)
  /\ \A s \in Fds, c \in Files :
       Expects(s, c) \/ Asked(sendQueue[0], s, c) => (InTable(s) => file[s] = c)
  /\ \A s \in Fds : Moving(s) => ~Leaves(0, s)
  /\ Ordered(readQueue) /\ Earlier(sendQueue[0])

TimelyInv == mpc # "stopped" => Timely

(* The queues grow ...                                                     *)
LEMMA EventsGrow ==
  ASSUME NEW q \in Seq(Message), NEW m \in Message
  PROVE  /\ \A s, c : AnnouncedAs(Append(q, m), s, c) <=>
                        AnnouncedAs(q, s, c) \/ (m.op = "ESTABLISH" /\ m.s = s /\ m.c = c)
         /\ Ordered(q) /\ (EventOf(m, m.s) => ~InQueue(q, m.s)) => Ordered(Append(q, m))
<1>1. /\ Len(q) \in Nat /\ Len(Append(q, m)) = Len(q) + 1
      /\ Append(q, m)[Len(q) + 1] = m
      /\ \A i \in 1 .. Len(q) : Append(q, m)[i] = q[i]
  OBVIOUS
<1>2. /\ \A i \in 1 .. Len(q) + 1 : i \in 1 .. Len(q) \/ i = Len(q) + 1
      /\ \A i \in 1 .. Len(q) : i \in 1 .. Len(q) + 1 /\ i < Len(q) + 1
      /\ Len(q) + 1 \in 1 .. Len(q) + 1
  BY <1>1
<1>3. \A s, c : AnnouncedAs(Append(q, m), s, c) <=>
                  AnnouncedAs(q, s, c) \/ (m.op = "ESTABLISH" /\ m.s = s /\ m.c = c)
  BY <1>1, <1>2 DEF AnnouncedAs
<1>4. ASSUME Ordered(q), EventOf(m, m.s) => ~InQueue(q, m.s) PROVE Ordered(Append(q, m))
  <2>1. SUFFICES ASSUME NEW i \in 1 .. Len(q) + 1, NEW j \in 1 .. Len(q) + 1,
                        Append(q, m)[i].op = "NEW_SOCKET",
                        EventOf(Append(q, m)[j], Append(q, m)[i].s)
                 PROVE  j < i
    BY <1>1 DEF Ordered
  <2>2. CASE i \in 1 .. Len(q) /\ j \in 1 .. Len(q)
    BY <1>1, <1>4, <2>1, <2>2 DEF Ordered
  <2>3. CASE i \in 1 .. Len(q) /\ j = Len(q) + 1
    <3>1. EventOf(m, q[i].s) /\ m.s = q[i].s /\ q[i].op = "NEW_SOCKET"
      BY <1>1, <2>1, <2>3 DEF EventOf
    <3>2. InQueue(q, m.s)
      BY <2>3, <3>1 DEF InQueue, Carries
    <3>3. QED
      BY <1>4, <3>1, <3>2
  <2>4. CASE i = Len(q) + 1 /\ j \in 1 .. Len(q)
    BY <1>2, <2>4
  <2>5. CASE i = Len(q) + 1 /\ j = Len(q) + 1
    BY <1>1, <2>1, <2>5 DEF EventOf
  <2>6. QED
    BY <1>2, <2>2, <2>3, <2>4, <2>5
<1>5. QED
  BY <1>3, <1>4

LEMMA RequestsGrow ==
  ASSUME NEW q \in Seq(Message), NEW m \in Message
  PROVE  /\ \A s, c : Asked(Append(q, m), s, c) <=>
                        Asked(q, s, c) \/ (Asks(m) /\ m.s = s /\ m.c = c)
         /\ Earlier(q) /\ (Asks(m) => ~InQueue(q, m.s)) => Earlier(Append(q, m))
<1>1. /\ Len(q) \in Nat /\ Len(Append(q, m)) = Len(q) + 1
      /\ Append(q, m)[Len(q) + 1] = m
      /\ \A i \in 1 .. Len(q) : Append(q, m)[i] = q[i]
  OBVIOUS
<1>2. /\ \A i \in 1 .. Len(q) + 1 : i \in 1 .. Len(q) \/ i = Len(q) + 1
      /\ \A i \in 1 .. Len(q) : i \in 1 .. Len(q) + 1 /\ i < Len(q) + 1
      /\ Len(q) + 1 \in 1 .. Len(q) + 1
  BY <1>1
<1>3. \A s, c : Asked(Append(q, m), s, c) <=> Asked(q, s, c) \/ (Asks(m) /\ m.s = s /\ m.c = c)
  BY <1>1, <1>2 DEF Asked
<1>4. ASSUME Earlier(q), Asks(m) => ~InQueue(q, m.s) PROVE Earlier(Append(q, m))
  <2>1. SUFFICES ASSUME NEW i \in 1 .. Len(q) + 1, NEW j \in 1 .. Len(q) + 1,
                        Asks(Append(q, m)[i]), Carries(Append(q, m)[j], Append(q, m)[i].s)
                 PROVE  i < j
    BY <1>1 DEF Earlier
  <2>2. CASE i \in 1 .. Len(q) /\ j \in 1 .. Len(q)
    BY <1>1, <1>4, <2>1, <2>2 DEF Earlier
  <2>3. CASE i = Len(q) + 1 /\ j \in 1 .. Len(q)
    BY <1>1, <1>4, <2>1, <2>3 DEF InQueue
  <2>4. CASE i \in 1 .. Len(q) /\ j = Len(q) + 1
    BY <1>2, <2>4
  <2>5. CASE i = Len(q) + 1 /\ j = Len(q) + 1
    BY <1>1, <2>1, <2>5 DEF Asks, Carries
  <2>6. QED
    BY <1>2, <2>2, <2>3, <2>4, <2>5
<1>5. QED
  BY <1>3, <1>4

(* ... and shrink.                                                         *)
LEMMA QueuesShrink ==
  ASSUME NEW q \in Seq(Message), q # <<>>
  PROVE  /\ \A s, c : AnnouncedAs(Tail(q), s, c) => AnnouncedAs(q, s, c)
         /\ \A s, c : Asked(Tail(q), s, c) => Asked(q, s, c)
         /\ Head(q).op = "ESTABLISH" => AnnouncedAs(q, Head(q).s, Head(q).c)
         /\ Asks(Head(q)) => Asked(q, Head(q).s, Head(q).c)
         /\ Ordered(q) => Ordered(Tail(q))
         /\ Earlier(q) => Earlier(Tail(q))
<1>1. /\ Len(q) \in Nat \ {0} /\ Head(q) = q[1] /\ Len(Tail(q)) = Len(q) - 1
      /\ \A i \in 1 .. Len(q) - 1 : Tail(q)[i] = q[i + 1]
  OBVIOUS
<1>2. /\ \A i \in 1 .. Len(q) - 1 : i + 1 \in 1 .. Len(q)
      /\ \A i, j \in 1 .. Len(q) - 1 : i + 1 < j + 1 => i < j
      /\ 1 \in 1 .. Len(q)
  BY <1>1
<1>3. \A s, c : AnnouncedAs(Tail(q), s, c) => AnnouncedAs(q, s, c)
  BY <1>1, <1>2 DEF AnnouncedAs
<1>4. \A s, c : Asked(Tail(q), s, c) => Asked(q, s, c)
  BY <1>1, <1>2 DEF Asked
<1>5. /\ Head(q).op = "ESTABLISH" => AnnouncedAs(q, Head(q).s, Head(q).c)
      /\ Asks(Head(q)) => Asked(q, Head(q).s, Head(q).c)
  BY <1>1, <1>2 DEF AnnouncedAs, Asked
<1>6. Ordered(q) => Ordered(Tail(q))
  BY <1>1, <1>2 DEF Ordered
<1>7. Earlier(q) => Earlier(Tail(q))
  BY <1>1, <1>2 DEF Earlier
<1>8. QED
  BY <1>3, <1>4, <1>5, <1>6, <1>7

(* A reused number at the head of its queue has been waited for.           *)
LEMMA ReusedNumber ==
  ASSUME NEW q \in Seq(Message), q # <<>>, NEW s, Carries(Head(q), s)
  PROVE  /\ Ordered(q) /\ Head(q).op = "NEW_SOCKET" =>
              \A i \in 1 .. Len(q) : ~EventOf(q[i], s)
         /\ Earlier(q) => \A c : ~Asked(q, s, c)
<1>1. Len(q) \in Nat \ {0} /\ Head(q) = q[1] /\ Head(q).s = s /\ 1 \in 1 .. Len(q)
  BY DEF Carries
<1>2. ASSUME Ordered(q), Head(q).op = "NEW_SOCKET", NEW i \in 1 .. Len(q), EventOf(q[i], s)
      PROVE  FALSE
  BY <1>1, <1>2 DEF Ordered
<1>3. ASSUME Earlier(q), NEW c, Asked(q, s, c) PROVE FALSE
  <2>1. PICK i \in 1 .. Len(q) : Asks(q[i]) /\ q[i].s = s
    BY <1>3 DEF Asked
  <2>2. i < 1
    BY <1>1, <1>3, <2>1 DEF Earlier
  <2>3. QED
    BY <2>2
<1>4. QED
  BY <1>2, <1>3

(* A chain without events of s goes nowhere: the first mark that differed  *)
(* would have a predecessor that does not.                                 *)
LEMMA ChainQuiet ==
  ASSUME NEW q \in Seq(Message), NEW s, NEW a, NEW b, Chain(q, s, a, b),
         \A i \in 1 .. Len(q) : ~EventOf(q[i], s)
  PROVE  a = b
<1>1. PICK h \in [0 .. Len(q) -> Marks] :
        /\ h[0] = a /\ h[Len(q)] = b
        /\ \A i \in 1 .. Len(q) : StepOf(s, h[i - 1], q[i], h[i])
  BY DEF Chain
<1> DEFINE T == {i \in Nat : i \in 0 .. Len(q) /\ h[i] # a}
<1>2. SUFFICES ASSUME a # b PROVE FALSE
  OBVIOUS
<1>3. T \subseteq Nat /\ Len(q) \in T
  BY <1>1, <1>2
<1>4. PICK m \in T : \A n \in T : m <= n
  <2>1. T # {}
    BY <1>3
  <2> HIDE DEF T
  <2>2. IsWellFoundedOn(OpToRel(<, Nat), Nat)
    BY NatLessThanWellFounded
  <2>3. PICK m \in T : \A n \in T : ~ (<<n, m>> \in OpToRel(<, Nat))
    BY <1>3, <2>1, <2>2, WFMin
  <2>4. \A n \in T : n \in Nat /\ m \in Nat /\ ~(n < m)
    BY <1>3, <2>3 DEF OpToRel
  <2>5. \A n \in T : m <= n
    BY <2>4
  <2>6. QED
    BY <2>5
<1>5. m \in 1 .. Len(q) /\ h[m] # a
  BY <1>1, <1>4
<1>6. h[m - 1] = a
  BY <1>4, <1>5
<1>7. StepOf(s, h[m - 1], q[m], h[m]) /\ ~EventOf(q[m], s)
  BY <1>1, <1>5
<1>8. QED
  BY <1>5, <1>6, <1>7 DEF StepOf

(* There is one worker, and it is everybody's home.                        *)
LEMMA OneWorker ==
  ASSUME WorkerNumber = 0
  PROVE  /\ Workers = {0} /\ \A s : Home(s) = 0 /\ getWorkerProcess(s) = 0
BY DEF Workers, Home, getWorkerProcess

(* A step that makes the application expect nothing new, queues requests   *)
(* only for what it expects, and registers nothing.                        *)
LEMMA TimelyKept ==
  ASSUME Timely,
         \A s \in Fds, c \in Files :
           Expects(s, c)' => Expects(s, c) /\ (Pending(s)' => Pending(s)),
         \A s \in Fds, c \in Files :
           Asked(sendQueue'[0], s, c) => Asked(sendQueue[0], s, c) \/ Expects(s, c),
         \A s \in Fds : InTable(s)' => InTable(s) /\ file'[s] = file[s],
         \A s \in Fds : Moving(s)' /\ Leaves(0, s)' => Moving(s) /\ Leaves(0, s),
         Ordered(readQueue'), Earlier(sendQueue'[0])
  PROVE  Timely'
<1>1. \A s \in Fds, c \in Files : Expects(s, c)' => ~Pending(s)'
  BY DEF Timely
<1>2. ASSUME NEW s \in Fds, NEW c \in Files,
             Expects(s, c)' \/ Asked(sendQueue'[0], s, c), InTable(s)'
      PROVE  file'[s] = c
  <2>1. Expects(s, c) \/ Asked(sendQueue[0], s, c)
    BY <1>2
  <2>2. InTable(s) /\ file'[s] = file[s]
    BY <1>2
  <2>3. QED
    BY <2>1, <2>2 DEF Timely
<1>3. \A s \in Fds : Moving(s)' => ~Leaves(0, s)'
  BY DEF Timely
<1>4. QED
  BY <1>1, <1>2, <1>3 DEF Timely

(* The same for a step of the worker, after which the queues are as they   *)
(* were or without a request it has taken, and no socket has been added.   *)
LEMMA TimelyWork ==
  ASSUME WorkerNumber = 0, Inv, Timely, UNCHANGED mainVars, UNCHANGED readQueue,
         sendQueue' = sendQueue \/ \E op : Request(0, op),
         \A s \in Fds : InTable(s)' => InTable(s) /\ file'[s] = file[s],
         \A s \in Fds : Leaves(0, s)' => Leaves(0, s) \/ InTable(s)
  PROVE  Timely'
<1>1. Home(0) = 0 /\ (\A s : Home(s) = 0) /\ 0 \in Workers
  BY OneWorker
<1>2. sendQueue[0] \in Seq(Message) /\ sendQueue \in [Workers -> Seq(Message)]
  BY <1>1 DEF Inv, TypeOK, WorkerTypeOK
<1>3. /\ Earlier(sendQueue'[0])
      /\ \A s, c : Asked(sendQueue'[0], s, c) => Asked(sendQueue[0], s, c)
      /\ \A s : InQueue(sendQueue'[0], s) => InQueue(sendQueue[0], s)
  <2>1. CASE sendQueue' = sendQueue
    BY <2>1 DEF Timely
  <2>2. CASE \E op : Request(0, op)
    <3>1. PICK op : Request(0, op)
      BY <2>2
    <3>2. \A s : InQueue(sendQueue'[0], s) => InQueue(sendQueue[0], s)
      BY <1>1, <3>1, RequestTaken
    <3>3. sendQueue[0] # <<>> /\ sendQueue'[0] = Tail(sendQueue[0])
      BY <1>1, <1>2, <3>1 DEF Request
    <3>4. QED
      BY <1>2, <3>2, <3>3, QueuesShrink DEF Timely
  <2>3. QED
    BY <2>1, <2>2
<1>4. \A s \in Fds : /\ InRead(s)' <=> InRead(s)
                     /\ InStart(s)' <=> InStart(s)
                     /\ InSend(s)' => InSend(s)
  BY <1>1, <1>3 DEF InRead, InStart, InSend, mainVars
<1>5. \A s \in Fds, c \in Files : Expects(s, c)' => Expects(s, c)
  BY DEF Expects, mainVars
<1>6. ASSUME NEW s \in Fds, Moving(s)', Leaves(0, s)' PROVE Moving(s) /\ Leaves(0, s)
  <2>1. Moving(s)
    BY <1>4, <1>6 DEF Moving, Pending
  <2>2. ~InTable(s)
    BY <2>1 DEF Inv, Ownership, Exclusive, Moving, Pending
  <2>3. QED
    BY <1>6, <2>1, <2>2
<1>7. \A s \in Fds : Pending(s)' => Pending(s)
  BY <1>4 DEF Pending
<1>8. QED
  BY <1>3, <1>5, <1>6, <1>7, TimelyKept DEF Timely

(* The worker removes one of its sockets.                                  *)
LEMMA TimelyRemove ==
  ASSUME WorkerNumber = 0, Inv, Timely, UNCHANGED mainVars, UNCHANGED readQueue,
         sendQueue' = sendQueue \/ \E op : Request(0, op),
         NEW s \in Fds, NEW ret \in {"sweep", "handle", "events"},
         sockets[0][s] # "null", BeginRemove(0, s, ret)
  PROVE  Timely'
<1>1. (\A t : Home(t) = 0) /\ 0 \in Workers
  BY OneWorker
<1>2. /\ \A t \in Fds : file'[t] = IF t = s THEN None ELSE file[t]
      /\ \A v \in Workers, t \in Fds :
           sockets'[v][t] = IF v = 0 /\ t = s THEN "null" ELSE sockets[v][t]
      /\ cur' = [cur EXCEPT ![0] = s]
  BY <1>1, SocketRemoved
<1>3. \A t \in Fds : InTable(t)' => InTable(t) /\ file'[t] = file[t]
  BY <1>1, <1>2 DEF InTable
<1>4. \A t \in Fds : Leaves(0, t)' => InTable(t)
  BY <1>1, <1>2 DEF Leaves, InTable, Inv, TypeOK, WorkerTypeOK
<1>5. QED
  BY <1>3, <1>4, TimelyWork

(* The worker reports an event of a descriptor that does not wait in the   *)
(* read queue, or a new descriptor.                                        *)
LEMMA TimelyEvent ==
  ASSUME WorkerNumber = 0, Inv, Timely, UNCHANGED <<sendQueue, sockets>>, UNCHANGED mainVars,
         NEW m \in Message, m.op # "ESTABLISH", readQueue' = Append(readQueue, m),
         EventOf(m, m.s) => ~InRead(m.s),
         \A s \in Fds : InTable(s) => file'[s] = file[s],
         pc'[0] # "closed"
  PROVE  Timely'
<1>1. readQueue \in Seq(Message)
  BY DEF Inv, TypeOK, WorkerTypeOK
<1>2. /\ \A s, c : AnnouncedAs(readQueue', s, c) <=> AnnouncedAs(readQueue, s, c)
      /\ Ordered(readQueue')
  BY <1>1, EventsGrow DEF InRead, Timely
<1>3. \A s \in Fds, c \in Files : Expects(s, c)' => Expects(s, c)
  BY <1>2 DEF Expects, mainVars
<1>4. \A s \in Fds : Pending(s)' <=> Pending(s)
  BY DEF Pending, InSend, InStart, mainVars
<1>5. \A s \in Fds : ~Leaves(0, s)'
  BY DEF Leaves
<1>6. \A s \in Fds : InTable(s)' <=> InTable(s)
  BY DEF InTable
<1>7. QED
  BY <1>2, <1>3, <1>4, <1>5, <1>6, TimelyKept DEF Timely

(* newSocket: nobody expects anything of the number yet.                   *)
LEMMA TimelyNew ==
  ASSUME WorkerNumber = 0, Inv, Timely, NEW kind \in {"socket", "listening"},
         NEW op \in {"NEW_SOCKET", "NEW_LISTENING"}, Request(0, op), newSocket(0, kind),
         UNCHANGED mainVars
  PROVE  Timely'
<1>1. (\A t : Home(t) = 0) /\ 0 \in Workers
  BY OneWorker
<1>2. PICK s : s = Head(sendQueue[0]).s
  OBVIOUS
<1>3. /\ s \in Fds /\ Carries(Head(sendQueue[0]), s)
      /\ InQueue(sendQueue[0], s) /\ ~InQueue(sendQueue'[0], s)
      /\ \A t : InQueue(sendQueue'[0], t) => InQueue(sendQueue[0], t)
  <2>1. /\ GoodRequest(Head(sendQueue[0])) /\ Head(sendQueue[0]).op = op
        /\ \A t : Carries(Head(sendQueue[0]), t) => InQueue(sendQueue[0], t)
        /\ \A t : InQueue(sendQueue'[0], t) <=>
                    InQueue(sendQueue[0], t) /\ ~Carries(Head(sendQueue[0]), t)
    BY <1>1, RequestTaken
  <2>2. s \in Fds /\ Carries(Head(sendQueue[0]), s)
    BY <1>2, <2>1, WorkerAssumption DEF GoodRequest, Carries
  <2>3. QED
    BY <2>1, <2>2
<1>4. InSend(s) /\ ~InTable(s) /\ ~InStart(s) /\ file[s] # None
  BY <1>1, <1>3 DEF InSend, Inv, Ownership, Exclusive, Backed, Somewhere
<1>5. pc[0] = "handle" /\ UNCHANGED <<pc, cur>>
  BY DEF newSocket, Request, threadVars
<1>6. CASE TooMany(0)
  <2>1. CloseFiles({s}) /\ UNCHANGED <<sockets, readQueue>> /\ {s} \in SUBSET Fds
    BY <1>2, <1>3, <1>6 DEF newSocket
  <2>2. \A t \in Fds : file'[t] = IF t \in {s} THEN None ELSE file[t]
    BY <2>1, FilesClosed
  <2>3. \A t \in Fds : InTable(t)' => InTable(t) /\ file'[t] = file[t]
    BY <1>4, <2>1, <2>2 DEF InTable
  <2>4. \A t \in Fds : Leaves(0, t)' => Leaves(0, t)
    BY <1>5 DEF Leaves
  <2>5. QED
    BY <2>1, <2>3, <2>4, TimelyWork
<1>7. CASE ~TooMany(0)
  <2>1. PICK c : c = file[s]
    OBVIOUS
  <2> DEFINE m == allocateMessage(s, "ESTABLISH", c, 0)
  <2>2. /\ sockets' = [sockets EXCEPT ![0][s] = kind]
        /\ readQueue' = Append(readQueue, m) /\ UNCHANGED file
    BY <1>2, <1>7, <2>1 DEF newSocket
  <2>3. /\ readQueue \in Seq(Message) /\ sendQueue \in [Workers -> Seq(Message)]
        /\ sockets \in [Workers -> [Fds -> {"null", "listening", "socket"}]]
        /\ file[s] \in Files
    BY <1>3 DEF Inv, TypeOK, WorkerTypeOK
  <2>4. m \in Message /\ m.op = "ESTABLISH" /\ m.s = s /\ m.c = c
    BY <1>3, <2>1, <2>3, AllocatedMessage, WorkerAssumption DEF Opcodes, allocateMessage
  <2> HIDE DEF m
  <2>5. \A t \in Fds : InTable(t)' <=> InTable(t) \/ t = s
    BY <1>1, <1>3, <2>2, <2>3 DEF InTable
  <2>6. ~InRead(s) /\ \A d \in Files : ~Expects(s, d)
    BY <1>3, <1>4 DEF Timely, Pending, Inv, Ownership, Exclusive
  <2>7. /\ \A t, d : AnnouncedAs(readQueue', t, d) <=>
                       AnnouncedAs(readQueue, t, d) \/ (t = s /\ d = c)
        /\ Ordered(readQueue')
    BY <2>2, <2>3, <2>4, <2>6, EventsGrow DEF InRead, Timely
  <2>8. \A t \in Fds, d \in Files : Expects(t, d)' => Expects(t, d) \/ (t = s /\ d = c)
    BY <2>7 DEF Expects, mainVars
  <2>9. /\ sendQueue[0] \in Seq(Message) /\ sendQueue[0] # <<>>
        /\ sendQueue'[0] = Tail(sendQueue[0])
    BY <1>1, <2>3 DEF Request
  <2>10. /\ Earlier(sendQueue'[0])
         /\ \A t, d : Asked(sendQueue'[0], t, d) => Asked(sendQueue[0], t, d) /\ t # s
    BY <1>3, <2>9, QueuesShrink, ReusedNumber DEF Timely
  <2>11. \A t \in Fds : (Pending(t)' => Pending(t)) /\ ~Pending(s)'
    BY <1>1, <1>3, <1>4 DEF Pending, InSend, InStart, mainVars
  <2>12. \A t \in Fds, d \in Files : Expects(t, d)' => ~Pending(t)'
    BY <2>8, <2>11 DEF Timely
  <2>13. ASSUME NEW t \in Fds, NEW d \in Files,
                Expects(t, d)' \/ Asked(sendQueue'[0], t, d), InTable(t)'
         PROVE  file'[t] = d
    <3>1. CASE t = s
      BY <2>1, <2>2, <2>6, <2>8, <2>10, <2>13, <3>1
    <3>2. CASE t # s
      <4>1. (Expects(t, d) \/ Asked(sendQueue[0], t, d)) /\ InTable(t)
        BY <2>5, <2>8, <2>10, <2>13, <3>2
      <4>2. QED
        BY <2>2, <4>1 DEF Timely
    <3>3. QED
      BY <3>1, <3>2
  <2>14. \A t \in Fds : ~Leaves(0, t)'
    BY <1>5 DEF Leaves
  <2>15. QED
    BY <2>7, <2>10, <2>12, <2>13, <2>14 DEF Timely
<1>8. QED
  BY <1>6, <1>7
-----------------------------------------------------------------------------
(* Every step of the worker.                                               *)
LEMMA TimelyWorker ==
  ASSUME WorkerNumber = 0, Inv, Timely, Worker(0), UNCHANGED mainVars
  PROVE  Timely'
<1>1. (\A s : Home(s) = 0) /\ 0 \in Workers /\ pc \in [Workers -> PCs] /\ cur[0] \in Fds
  BY OneWorker DEF Inv, TypeOK, WorkerTypeOK
<1> DEFINE Taken == sendQueue' = sendQueue \/ \E op : Request(0, op)
           Rest == UNCHANGED <<readQueue, file, sockets>> /\ Taken
<1>2. ASSUME Rest, pc'[0] # "closed" \/ UNCHANGED <<pc, cur>> PROVE Timely'
  <2>1. \A s \in Fds : InTable(s)' => InTable(s) /\ file'[s] = file[s]
    BY <1>2 DEF InTable
  <2>2. \A s \in Fds : Leaves(0, s)' => Leaves(0, s)
    BY <1>2 DEF Leaves
  <2>3. QED
    BY <1>2, <2>1, <2>2, TimelyWork
<1>3. ASSUME Rest, NEW p \in PCs \ {"closed"}, Goto(0, p) PROVE Timely'
  BY <1>1, <1>2, <1>3 DEF Goto
<1>4. ASSUME NEW s \in Fds, NEW ret \in {"sweep", "handle", "events"}, Taken,
             UNCHANGED readQueue, sockets[0][s] # "null", BeginRemove(0, s, ret)
      PROVE  Timely'
  BY <1>4, TimelyRemove
<1> HIDE DEF Rest
<1>5. CASE run(0)
  BY <1>3, <1>5 DEF run, PCs, kernelVars, Rest
<1>6. CASE checkSocket(0)
  <2>1. UNCHANGED <<sendQueue, readQueue>>
    BY <1>6 DEF checkSocket
  <2>2. \/ \E s \in Fds : sockets[0][s] = "socket" /\ BeginRemove(0, s, "sweep")
        \/ Rest /\ Goto(0, "handle")
    BY <1>6 DEF checkSocket, kernelVars, Rest
  <2>3. QED
    BY <1>3, <1>4, <2>1, <2>2 DEF PCs
<1>7. CASE handleMessage(0)
  <2>1. CASE HandleNone(0)
    BY <1>3, <2>1 DEF HandleNone, PCs, kernelVars, Rest
  <2>2. CASE HandleClose(0) \/ HandleMessage(0)
    <3>1. Head(sendQueue[0]).s \in Fds
      BY <1>1, <2>2, RequestTaken DEF HandleClose, HandleMessage, GoodRequest
    <3>2. Taken /\ UNCHANGED readQueue
      BY <2>2 DEF HandleClose, HandleMessage
    <3>3. CASE UNCHANGED <<kernelVars, sockets, threadVars>>
      BY <1>2, <3>2, <3>3 DEF threadVars, kernelVars, Rest
    <3>4. CASE /\ sockets[0][Head(sendQueue[0]).s] # "null"
               /\ BeginRemove(0, Head(sendQueue[0]).s, "handle")
      BY <1>4, <3>1, <3>2, <3>4
    <3>5. QED
      BY <2>2, <3>3, <3>4 DEF HandleClose, HandleMessage
  <2>3. CASE HandleNewSocket(0) \/ HandleNewListening(0)
    BY <2>3, TimelyNew DEF HandleNewSocket, HandleNewListening
  <2>4. CASE HandleOption(0)
    BY <1>2, <2>4 DEF HandleOption, threadVars, kernelVars, Rest
  <2>5. QED
    BY <1>7, <2>1, <2>2, <2>3, <2>4 DEF handleMessage
<1>8. CASE removeSocket(0)
  <2> DEFINE m == allocateMessage(cur[0], "CLOSE", lost[0], 0)
  <2>1. m \in Message /\ m.op = "CLOSE" /\ m.s = cur[0]
    <3>1. cur[0] \in Nat /\ lost[0] \in Files
      BY <1>1, WorkerAssumption DEF Inv, TypeOK, WorkerTypeOK
    <3>2. QED
      BY <3>1, AllocatedMessage DEF Opcodes
  <2>2. /\ readQueue' = Append(readQueue, m) /\ UNCHANGED <<sendQueue, sockets, file>>
        /\ pc[0] = "closed" /\ pc' = [pc EXCEPT ![0] = back[0]]
    BY <1>8 DEF removeSocket, kernelVars, Return, Goto
  <2> HIDE DEF m
  <2>3. pc'[0] # "closed"
    BY <1>1, <2>2 DEF Inv, TypeOK, WorkerTypeOK
  <2>4. ~InRead(m.s)
    BY <1>1, <2>1, <2>2 DEF Timely, Leaves, Moving
  <2>5. QED
    BY <2>1, <2>2, <2>3, <2>4, TimelyEvent
<1>9. CASE EnterWait(0) \/ LeaveWait(0) \/ EventsDone(0)
  BY <1>3, <1>9 DEF EnterWait, LeaveWait, EventsDone, PCs, kernelVars, Rest
<1>10. CASE HandleEvent(0)
  <2>1. UNCHANGED <<sendQueue, readQueue>>
    BY <1>10 DEF HandleEvent
  <2>2. PICK s \in Fds :
          \/ sockets[0][s] # "null" /\ BeginRemove(0, s, "events")
          \/ Rest /\ \E p \in {"write", "accept", "read"} : Goto(0, p)
    BY <1>10 DEF HandleEvent, kernelVars, Rest
  <2>3. QED
    BY <1>3, <1>4, <2>1, <2>2 DEF PCs
<1>11. CASE acceptSocket(0)
  <2>1. pc[0] = "accept" /\ UNCHANGED <<sockets, sendQueue>>
    BY <1>11 DEF acceptSocket
  <2>2. CASE Return(0, "events") /\ UNCHANGED <<file, backlog, readQueue>>
    BY <1>3, <2>1, <2>2 DEF Return, PCs, Rest
  <2>3. CASE \E c \in backlog, s \in {f \in Fds : file[f] = None} :
               /\ file' = [file EXCEPT ![s] = c]
               /\ backlog' = backlog \ {c}
               /\ readQueue' = Append(readQueue, allocateMessage(s, "NEW_SOCKET", c, 0))
               /\ UNCHANGED <<pc, cur>>
    <3>1. PICK c \in backlog, s \in {f \in Fds : file[f] = None} :
               /\ file' = [file EXCEPT ![s] = c]
               /\ readQueue' = Append(readQueue, allocateMessage(s, "NEW_SOCKET", c, 0))
               /\ UNCHANGED pc
      BY <2>3
    <3> DEFINE m == allocateMessage(s, "NEW_SOCKET", c, 0)
    <3>2. m \in Message /\ m.op = "NEW_SOCKET"
      BY AllocatedMessage, WorkerAssumption DEF Opcodes, Inv, TypeOK, WorkerTypeOK, Files
    <3>3. readQueue' = Append(readQueue, m)
      BY <3>1
    <3> HIDE DEF m
    <3>4. ~InTable(s)
      BY DEF Inv, Ownership, Backed, Somewhere
    <3>5. \A t \in Fds : InTable(t) => file'[t] = file[t]
      BY <3>1, <3>4 DEF Inv, TypeOK, WorkerTypeOK
    <3>6. pc'[0] # "closed" /\ ~EventOf(m, m.s)
      BY <2>1, <3>1, <3>2 DEF EventOf
    <3>7. QED
      BY <2>1, <3>2, <3>3, <3>5, <3>6, TimelyEvent
  <2>4. QED
    BY <1>11, <2>2, <2>3 DEF acceptSocket
<1>12. CASE readSocket(0)
  <2>1. sockets[0][cur[0]] = "socket" /\ pc[0] = "read" /\ UNCHANGED sendQueue
    BY <1>1, <1>12 DEF readSocket, Inv, Working
  <2>2. CASE BeginRemove(0, cur[0], "events") /\ UNCHANGED <<rcvd, readQueue>>
    BY <1>1, <1>4, <2>1, <2>2
  <2>3. CASE /\ readQueue' = Append(readQueue, allocateMessage(cur[0], "MESSAGE", file[cur[0]],
                                                               rcvd[file[cur[0]]] + 1))
             /\ UNCHANGED <<kernelVars, sockets, pc, cur, back, lost>>
    <3> DEFINE m == allocateMessage(cur[0], "MESSAGE", file[cur[0]], rcvd[file[cur[0]]] + 1)
    <3>1. file[cur[0]] \in Conns /\ ~InRead(cur[0])
      BY <1>1, <2>1, OwnSocket DEF Kind
    <3>2. file[cur[0]] \in Files /\ cur[0] \in Nat /\ rcvd[file[cur[0]]] + 1 \in Nat
      <4>1. rcvd \in [Conns -> Nat]
        BY DEF Inv, TypeOK, WorkerTypeOK
      <4>2. rcvd[file[cur[0]]] \in Nat
        BY <3>1, <4>1
      <4>3. file[cur[0]] \in Files /\ cur[0] \in Nat
        BY <1>1, <3>1, WorkerAssumption DEF Files
      <4>4. QED
        BY <4>2, <4>3
    <3>3. m \in Message /\ m.op = "MESSAGE" /\ m.s = cur[0]
      BY <3>2, AllocatedMessage DEF Opcodes
    <3>4. readQueue' = Append(readQueue, m) /\ UNCHANGED <<file, sockets, pc>>
      BY <2>3 DEF kernelVars
    <3> HIDE DEF m
    <3>5. QED
      BY <2>1, <3>1, <3>3, <3>4, TimelyEvent
  <2>4. CASE Rest /\ (Goto(0, "write") \/ Goto(0, "events"))
    BY <1>3, <2>4 DEF PCs
  <2>5. QED
    BY <1>12, <2>2, <2>3, <2>4 DEF readSocket, Return, kernelVars, Rest
<1>13. CASE writeSocket(0)
  <2>1. sockets[0][cur[0]] # "null" /\ UNCHANGED <<readQueue, sendQueue>>
    BY <1>1, <1>13 DEF writeSocket, Inv, Working
  <2>2. CASE BeginRemove(0, cur[0], "events")
    BY <1>1, <1>4, <2>1, <2>2
  <2>3. CASE Return(0, "events") /\ UNCHANGED <<kernelVars, sockets, back, lost>>
    BY <1>3, <2>1, <2>3 DEF Return, PCs, kernelVars, Rest
  <2>4. QED
    BY <1>13, <2>2, <2>3 DEF writeSocket
<1>14. QED
  BY <1>5, <1>6, <1>7, <1>8, <1>9, <1>10, <1>11, <1>12, <1>13 DEF Worker, pollRun

(* The threads run until stop() says otherwise.                            *)
LEMMA AliveWorker ==
  ASSUME Inv, Alive, NEW w \in Workers, Worker(w), UNCHANGED mainVars
  PROVE  Alive'
<1>1. pc \in [Workers -> PCs] /\ back[w] \in {"sweep", "handle", "events"} /\ 0 \in Workers
  BY WorkerAssumption DEF Inv, TypeOK, WorkerTypeOK, Workers
<1>2. UNCHANGED stop
  BY DEF Worker, run, checkSocket, handleMessage, HandleNone, HandleClose, HandleMessage,
         HandleNewSocket, HandleNewListening, newSocket, HandleOption, removeSocket, pollRun,
         EnterWait, LeaveWait, HandleEvent, EventsDone, acceptSocket, readSocket, writeSocket
<1>3. pc' = pc \/ \E p : Goto(w, p) /\ (p = "exit" => stop[w])
  <2>1. CASE run(w)
    BY <2>1 DEF run
  <2>2. CASE removeSocket(w)
    BY <1>1, <2>2 DEF removeSocket, Return
  <2>3. CASE handleMessage(w)
    BY <2>3 DEF handleMessage, HandleNone, HandleClose, HandleMessage, HandleNewSocket,
                HandleNewListening, newSocket, HandleOption, BeginRemove, threadVars
  <2>4. CASE checkSocket(w)
    <3>1. (\E s \in Fds : BeginRemove(w, s, "sweep")) \/ Goto(w, "handle")
      BY <2>4 DEF checkSocket
    <3>2. Goto(w, "closed") \/ Goto(w, "handle")
      BY <3>1 DEF BeginRemove
    <3>3. QED
      BY <3>2
  <2>5. CASE HandleEvent(w)
    BY <2>5 DEF HandleEvent, BeginRemove
  <2>6. CASE EnterWait(w) \/ LeaveWait(w) \/ EventsDone(w) \/ acceptSocket(w)
    BY <2>6 DEF EnterWait, LeaveWait, EventsDone, acceptSocket, Return
  <2>7. CASE readSocket(w) \/ writeSocket(w)
    BY <2>7 DEF readSocket, writeSocket, BeginRemove, Return
  <2>8. QED
    BY <2>1, <2>2, <2>3, <2>4, <2>5, <2>6, <2>7 DEF Worker, pollRun
<1>4. pc'[0] = "exit" => stop[0]
  BY <1>1, <1>3 DEF Goto, Alive
<1>5. QED
  BY <1>2, <1>4 DEF Alive, mainVars

LEMMA AliveStep ==
  ASSUME Inv, Alive, [Next]_vars
  PROVE  Alive'
<1>1. /\ pc \in [Workers -> PCs] /\ target \in Workers /\ 0 \in Workers
      /\ stop \in [Workers -> BOOLEAN]
  BY WorkerAssumption DEF Inv, TypeOK, WorkerTypeOK, Workers
<1>2. CASE UNCHANGED vars
  BY <1>2 DEF Alive, vars, mainVars, workerVars, threadVars
<1>3. CASE Client /\ UNCHANGED mainVars
  BY <1>3 DEF Alive, Client, Connect, PeerSend, PeerEnd, mainVars, workerVars, threadVars
<1>4. CASE \E w \in Workers : Worker(w) /\ UNCHANGED mainVars
  BY <1>4, AliveWorker
<1>5. CASE StopFlag
  <2>1. mpc' = "stopkill" /\ pc' = pc /\ stop' = [stop EXCEPT ![target] = TRUE]
    BY <1>5 DEF StopFlag, threadVars
  <2>2. QED
    BY <1>1, <2>1 DEF Alive
<1>6. CASE (Main \/ Call) /\ ~StopFlag
  <2>1. /\ stop' = stop /\ (pc' = pc \/ Wake(target))
        /\ mpc' \in {"idle", "push", "kill"} => mpc \in {"idle", "push", "kill"}
    BY <1>6 DEF Main, PushMessage, PushSignal, receiveMessage, StopSignal, Join, Drain, Call,
                close, sendMessage, AppRequest, setsockopt, Stop, Enqueue, OthersUnchanged,
                workerVars, threadVars
  <2>2. pc'[0] = "exit" => pc[0] = "exit"
    BY <1>1, <2>1 DEF Wake
  <2>3. QED
    BY <2>1, <2>2 DEF Alive
<1>7. QED
  BY <1>2, <1>3, <1>4, <1>5, <1>6 DEF Next

(* A number that waits at the head of the read queue stands for nothing:   *)
(* its last connection has left, and the application knows.                *)
LEMMA NumberForgotten ==
  ASSUME WorkerNumber = 0, Inv, InSession, Timely, Alive, mpc = "idle", readQueue # <<>>,
         NEW s \in Fds, Carries(Head(readQueue), s), Head(readQueue).op = "NEW_SOCKET"
  PROVE  \A c \in Files : ~Expects(s, c)
<1>1. Home(s) = 0 /\ pc[0] # "exit" /\ readQueue \in Seq(Message) /\ Distinct(readQueue)
  BY OneWorker DEF Alive, Inv, TypeOK, WorkerTypeOK, Queues
<1>2. InRead(s)
  BY <1>1, TailOfQueue DEF InRead
<1>3. ~InTable(s) /\ ~Leaves(0, s)
  BY <1>2 DEF Inv, Ownership, Exclusive, Timely, Moving
<1>4. Reached(s) = Between
  BY <1>1, <1>3 DEF Reached
<1>5. \A i \in 1 .. Len(readQueue) : ~EventOf(readQueue[i], s)
  BY <1>1, ReusedNumber DEF Timely
<1>6. Chain(readQueue, s, Known(s), Between)
  BY <1>1, <1>4 DEF InSession, Pipeline, PipelineOf
<1>7. Known(s) = Between
  BY <1>1, <1>5, <1>6, ChainQuiet
<1>8. view[s] = None
  BY <1>7 DEF Known, Between
<1>9. \A c : ~AnnouncedAs(readQueue, s, c)
  BY <1>5 DEF AnnouncedAs, EventOf
<1>10. QED
  BY <1>8, <1>9 DEF Expects

(* receiveMessage passes such a number on, ...                             *)
LEMMA TimelyPass ==
  ASSUME WorkerNumber = 0, Inv, InSession, Timely, Alive, receiveMessage,
         Head(readQueue).op = "NEW_SOCKET"
  PROVE  Timely'
<1>1. (\A s : Home(s) = 0 /\ getWorkerProcess(s) = 0) /\ 0 \in Workers
  BY OneWorker
<1>2. PICK m : m = Head(readQueue)
  OBVIOUS
<1>3. /\ mpc = "idle" /\ readQueue # <<>> /\ readQueue' = Tail(readQueue)
      /\ Enqueue(0, m) /\ UNCHANGED <<view, request, file, sockets, pc, cur>>
  BY <1>1, <1>2 DEF receiveMessage, OthersUnchanged, kernelVars, threadVars
<1>4. /\ readQueue \in Seq(Message) /\ Distinct(readQueue) /\ AllEvents(readQueue)
      /\ sendQueue[0] \in Seq(Message) /\ sendQueue \in [Workers -> Seq(Message)]
  BY <1>1 DEF Inv, TypeOK, WorkerTypeOK, Queues
<1>5. /\ m \in Message /\ m.s \in Fds /\ InQueue(readQueue, m.s)
      /\ \A s : InQueue(readQueue', s) => InQueue(readQueue, s)
  BY <1>2, <1>3, <1>4, TailOfQueue DEF GoodEvent, Carries
<1>6. mpc' = "kill" /\ sendQueue'[0] = Append(sendQueue[0], m)
  BY <1>1, <1>3, <1>4 DEF Enqueue
<1>7. /\ Earlier(sendQueue'[0]) /\ ~Asks(m)
      /\ \A s, c : Asked(sendQueue'[0], s, c) => Asked(sendQueue[0], s, c)
      /\ \A s : InQueue(sendQueue'[0], s) => InQueue(sendQueue[0], s) \/ s = m.s
  <2>1. ~Asks(m) /\ \A s : Carries(m, s) => s = m.s
    BY <1>2 DEF Asks, Carries
  <2>2. QED
    BY <1>4, <1>5, <1>6, <2>1, RequestsGrow, AppendToQueue DEF Timely
<1>8. Ordered(readQueue') /\ \A s, c : AnnouncedAs(readQueue', s, c) => AnnouncedAs(readQueue, s, c)
  BY <1>3, <1>4, QueuesShrink DEF Timely
<1>9. \A c \in Files : ~Expects(m.s, c)
  BY <1>2, <1>3, <1>5, NumberForgotten DEF Carries
<1>10. \A s \in Fds, c \in Files : Expects(s, c)' => Expects(s, c) /\ s # m.s
  BY <1>3, <1>8, <1>9 DEF Expects
<1>11. \A s \in Fds : Pending(s)' => Pending(s) \/ s = m.s
  BY <1>1, <1>6, <1>7 DEF Pending, InSend, InStart
<1>12. \A s \in Fds : (InTable(s)' <=> InTable(s)) /\ (Leaves(0, s)' <=> Leaves(0, s))
  BY <1>3 DEF InTable, Leaves
<1>13. \A s \in Fds : Moving(s)' => Moving(s)
  BY <1>5, <1>11 DEF Moving, InRead
<1>14. QED
  BY <1>3, <1>7, <1>8, <1>10, <1>11, <1>12, <1>13, TimelyKept

(* ... or tells the application what it expects.                           *)
LEMMA TimelyLearn ==
  ASSUME WorkerNumber = 0, Inv, InSession, Timely, receiveMessage,
         Head(readQueue).op # "NEW_SOCKET"
  PROVE  Timely'
<1>1. PICK m : m = Head(readQueue)
  OBVIOUS
<1>2. /\ readQueue # <<>> /\ readQueue' = Tail(readQueue) /\ Learn(m)
      /\ UNCHANGED <<request, mpc, sendQueue, file, sockets, pc, cur>>
  BY <1>1 DEF receiveMessage, OthersUnchanged, kernelVars, threadVars
<1>3. /\ readQueue \in Seq(Message) /\ Distinct(readQueue) /\ view \in [Fds -> Files]
  BY DEF Inv, TypeOK, WorkerTypeOK, Queues
<1>4. Ordered(readQueue') /\ \A s, c : AnnouncedAs(readQueue', s, c) => AnnouncedAs(readQueue, s, c)
  BY <1>2, <1>3, QueuesShrink DEF Timely
<1>5. \A s \in Fds : InRead(s)' => InRead(s)
  BY <1>2, <1>3, TailOfQueue DEF InRead
<1>6. ASSUME NEW s \in Fds, NEW c \in Files, Expects(s, c)' PROVE Expects(s, c)
  <2>1. CASE m.op = "ESTABLISH"
    <3>1. AnnouncedAs(readQueue, m.s, m.c) /\ view' = [view EXCEPT ![m.s] = m.c]
      BY <1>1, <1>2, <1>3, <2>1, QueuesShrink DEF Learn
    <3>2. QED
      BY <1>3, <1>4, <1>6, <3>1 DEF Expects
  <2>2. CASE m.op = "CLOSE"
    <3>1. view' = [view EXCEPT ![m.s] = None]
      BY <1>2, <2>2 DEF Learn
    <3>2. QED
      BY <1>3, <1>4, <1>6, <3>1 DEF Expects
  <2>3. CASE m.op = "MESSAGE"
    <3>1. view' = view
      BY <1>2, <2>3 DEF Learn
    <3>2. QED
      BY <1>4, <1>6, <3>1 DEF Expects
  <2>4. QED
    BY <1>2, <2>1, <2>2, <2>3 DEF Learn
<1>7. \A s \in Fds : /\ Pending(s)' <=> Pending(s)
                     /\ InTable(s)' <=> InTable(s)
                     /\ Leaves(0, s)' <=> Leaves(0, s)
  BY <1>2 DEF Pending, InSend, InStart, InTable, Leaves
<1>8. \A s \in Fds : Moving(s)' => Moving(s)
  BY <1>5, <1>7 DEF Moving
<1>9. QED
  BY <1>2, <1>4, <1>6, <1>7, <1>8, TimelyKept DEF Timely

(* The application asks for what it knows.                                 *)
LEMMA TimelyRequest ==
  ASSUME WorkerNumber = 0, Inv, Timely, NEW op \in {"CLOSE", "MESSAGE"}, AppRequest(op)
  PROVE  Timely'
<1>1. (\A s : Home(s) = 0 /\ getWorkerProcess(s) = 0) /\ 0 \in Workers
  BY OneWorker
<1>2. PICK s \in Fds : view[s] # None /\ Enqueue(0, allocateMessage(s, op, view[s], 0))
  BY <1>1 DEF AppRequest
<1>3. PICK c : c = view[s]
  OBVIOUS
<1> DEFINE m == allocateMessage(s, op, c, 0)
<1>4. /\ UNCHANGED <<readQueue, view, request, file, sockets, pc, cur>>
  BY DEF AppRequest, OthersUnchanged, kernelVars, threadVars
<1>5. /\ c \in Files /\ sendQueue[0] \in Seq(Message) /\ sendQueue \in [Workers -> Seq(Message)]
  BY <1>1, <1>3 DEF Inv, TypeOK, WorkerTypeOK
<1>6. m \in Message /\ m.op = op /\ m.s = s /\ m.c = c
  BY <1>5, AllocatedMessage, WorkerAssumption DEF Opcodes, allocateMessage
<1>7. mpc' = "kill" /\ sendQueue'[0] = Append(sendQueue[0], m)
  BY <1>1, <1>2, <1>3, <1>5 DEF Enqueue
<1> HIDE DEF m
<1>8. Expects(s, c)
  BY <1>2, <1>3 DEF Expects
<1>9. ~InQueue(sendQueue[0], s)
  BY <1>1, <1>5, <1>8 DEF Timely, Pending, InSend
<1>10. /\ Earlier(sendQueue'[0])
       /\ \A t, d : Asked(sendQueue'[0], t, d) => Asked(sendQueue[0], t, d) \/ (t = s /\ d = c)
       /\ \A t : InQueue(sendQueue'[0], t) => InQueue(sendQueue[0], t)
  <2>1. \A t : ~Carries(m, t)
    BY <1>6 DEF Carries
  <2>2. QED
    BY <1>5, <1>6, <1>7, <1>9, <2>1, RequestsGrow, AppendToQueue DEF Timely
<1>11. \A t \in Fds : /\ Pending(t)' => Pending(t)
                      /\ InRead(t)' <=> InRead(t)
                      /\ InTable(t)' <=> InTable(t)
                      /\ Leaves(0, t)' <=> Leaves(0, t)
  BY <1>1, <1>4, <1>7, <1>10 DEF Pending, InSend, InStart, InRead, InTable, Leaves
<1>12. \A t \in Fds : Moving(t)' => Moving(t)
  BY <1>11 DEF Moving
<1>13. \A t \in Fds, d \in Files : Expects(t, d)' => Expects(t, d)
  BY <1>4 DEF Expects
<1>14. QED
  BY <1>4, <1>8, <1>10, <1>11, <1>12, <1>13, TimelyKept DEF Timely

(* The rest of what the application's thread does.                         *)
LEMMA TimelyMain ==
  ASSUME WorkerNumber = 0, Inv, InSession, Timely, Alive, Main \/ Call, ~Drain
  PROVE  Timely'
<1>1. /\ (\A s : Home(s) = 0) /\ Workers = {0} /\ target = 0 /\ last = 0
      /\ pc \in [Workers -> PCs] /\ sendQueue \in [Workers -> Seq(Message)]
      /\ sendQueue[0] \in Seq(Message) /\ request \in Message
  BY OneWorker DEF Inv, TypeOK, WorkerTypeOK
<1>2. CASE receiveMessage
  BY <1>2, TimelyPass, TimelyLearn
<1>3. CASE close \/ sendMessage
  BY <1>3, TimelyRequest DEF close, sendMessage
<1>4. CASE PushMessage
  <2>1. /\ mpc = "push" /\ mpc' = "kill" /\ sendQueue'[0] = Append(sendQueue[0], request)
        /\ UNCHANGED <<readQueue, view, file, sockets, pc, cur>>
    BY <1>1, <1>4 DEF PushMessage, Enqueue, OthersUnchanged, kernelVars, threadVars
  <2>2. ~Asks(request)
    BY <2>1 DEF Inv, Pushing, Asks
  <2>3. /\ Earlier(sendQueue'[0])
        /\ \A s, c : Asked(sendQueue'[0], s, c) => Asked(sendQueue[0], s, c)
        /\ \A s : InQueue(sendQueue'[0], s) => InQueue(sendQueue[0], s) \/ Carries(request, s)
    BY <1>1, <2>1, <2>2, RequestsGrow, AppendToQueue DEF Timely
  <2>4. \A s \in Fds : Pending(s)' => Pending(s)
    <3>1. SUFFICES ASSUME NEW s \in Fds, Pending(s)' PROVE Pending(s)
      OBVIOUS
    <3>2. InQueue(sendQueue'[0], s)
      BY <1>1, <2>1, <3>1 DEF Pending, InSend, InStart
    <3>3. CASE InQueue(sendQueue[0], s)
      BY <1>1, <3>3 DEF Pending, InSend
    <3>4. CASE Carries(request, s)
      BY <2>1, <3>4 DEF Pending, InStart
    <3>5. QED
      BY <2>3, <3>2, <3>3, <3>4
  <2>5. \A s \in Fds : /\ InRead(s)' <=> InRead(s)
                       /\ InTable(s)' <=> InTable(s)
                       /\ Leaves(0, s)' <=> Leaves(0, s)
    BY <2>1 DEF InRead, InTable, Leaves
  <2>6. \A s \in Fds : Moving(s)' => Moving(s)
    BY <2>4, <2>5 DEF Moving
  <2>7. \A s \in Fds, c \in Files : Expects(s, c)' => Expects(s, c)
    BY <2>1 DEF Expects
  <2>8. QED
    BY <2>1, <2>3, <2>4, <2>5, <2>6, <2>7, TimelyKept DEF Timely
<1>5. CASE Join
  <2>1. /\ mpc = "join" /\ mpc' # "push" /\ sendQueue'[0] = <<>>
        /\ (\A s \in Fds : sockets'[0][s] = "null")
        /\ UNCHANGED <<readQueue, view, pc, cur>>
    BY <1>1, <1>5 DEF Join, threadVars, Inv, TypeOK, WorkerTypeOK
  <2>2. \A s \in Fds : ~Pending(s)' /\ ~InTable(s)'
    BY <1>1, <2>1, EmptyQueue DEF Pending, InSend, InStart, InTable
  <2>3. \A s \in Fds : /\ InRead(s)' <=> InRead(s)
                       /\ Leaves(0, s)' <=> Leaves(0, s)
    BY <2>1 DEF InRead, Leaves
  <2>4. \A s \in Fds : Moving(s)' => Moving(s)
    BY <2>2, <2>3 DEF Moving
  <2>5. \A s \in Fds, c \in Files : Expects(s, c)' => Expects(s, c)
    BY <2>1 DEF Expects
  <2>6. Earlier(sendQueue'[0]) /\ \A s, c : ~Asked(sendQueue'[0], s, c)
    BY <2>1 DEF Earlier, Asked
  <2>7. QED
    BY <2>1, <2>2, <2>3, <2>4, <2>5, <2>6, TimelyKept DEF Timely
<1>6. CASE PushSignal \/ setsockopt \/ Stop \/ StopFlag \/ StopSignal
  <2>1. /\ UNCHANGED <<readQueue, sendQueue, view, file, sockets, cur>>
        /\ pc' = pc \/ Wake(0)
    BY <1>1, <1>6 DEF PushSignal, setsockopt, Stop, StopFlag, StopSignal, OthersUnchanged,
                      kernelVars, workerVars, threadVars
  <2>2. pc'[0] = "closed" <=> pc[0] = "closed"
    BY <1>1, <2>1 DEF Wake
  <2>3. \A s : ~InStart(s)'
    <3>1. CASE setsockopt
      <4>1. request'.op = "SOL"
        BY <3>1 DEF setsockopt, allocateMessage
      <4>2. QED
        BY <4>1 DEF InStart, Carries
    <3>2. CASE PushSignal
      <4>1. mpc' = "idle"
        BY <1>1, <3>2 DEF PushSignal
      <4>2. QED
        BY <4>1 DEF InStart
    <3>3. CASE Stop \/ StopFlag \/ StopSignal
      BY <3>3 DEF InStart, Stop, StopFlag, StopSignal
    <3>4. QED
      BY <1>6, <3>1, <3>2, <3>3
  <2>4. \A s \in Fds : /\ Pending(s)' => Pending(s)
                       /\ InRead(s)' <=> InRead(s)
                       /\ InTable(s)' <=> InTable(s)
                       /\ Leaves(0, s)' <=> Leaves(0, s)
    BY <2>1, <2>2, <2>3 DEF Pending, InSend, InRead, InTable, Leaves
  <2>5. \A s \in Fds : Moving(s)' => Moving(s)
    BY <2>4 DEF Moving
  <2>6. \A s \in Fds, c \in Files : Expects(s, c)' => Expects(s, c)
    BY <2>1 DEF Expects
  <2>7. QED
    BY <2>1, <2>4, <2>5, <2>6, TimelyKept DEF Timely
<1>7. QED
  BY <1>2, <1>3, <1>4, <1>5, <1>6 DEF Main, Call

(* The clients do not touch the queues.                                    *)
LEMMA TimelyStill ==
  ASSUME Timely, UNCHANGED <<readQueue, sendQueue, view, mpc, request, file, sockets, pc, cur>>
  PROVE  Timely'
<1>1. \A s \in Fds : /\ Pending(s)' <=> Pending(s)
                     /\ InRead(s)' <=> InRead(s)
                     /\ InTable(s)' <=> InTable(s)
                     /\ Leaves(0, s)' <=> Leaves(0, s)
  BY DEF Pending, InSend, InStart, InRead, InTable, Leaves
<1>2. \A s \in Fds : Moving(s)' => Moving(s)
  BY <1>1 DEF Moving
<1>3. \A s \in Fds, c \in Files : Expects(s, c)' => Expects(s, c)
  BY DEF Expects
<1>4. QED
  BY <1>1, <1>2, <1>3, TimelyKept DEF Timely

(* With WorkerNumber = 0 a send or close the application makes for one     *)
(* connection never meets another one with the same number: the master     *)
(* queues the CLOSE of the old connection before it accepts the new one,   *)
(* and receiveMessage hands the new one over behind the requests made for  *)
(* the old one.  (With workers of their own this fails: see the run        *)
(* stale_request.)                                                         *)
THEOREM ServerRequestMeetsItsConnection ==
  ASSUME WorkerNumber = 0
  PROVE  Spec => []RequestMeetsItsConnection
<1>1. Init => SessionInv /\ Alive /\ TimelyInv
  <2>1. SUFFICES ASSUME Init PROVE SessionInv /\ Alive /\ TimelyInv
    OBVIOUS
  <2>2. SessionInv
    BY <2>1, SessionInit DEF SessionInv
  <2>3. 0 \in Workers
    BY OneWorker
  <2>4. Alive
    BY <2>1, <2>3 DEF Init, WorkerInit, Alive
  <2>5. readQueue = <<>> /\ sendQueue[0] = <<>> /\ pc[0] = "top" /\ \A s \in Fds : view[s] = None
    BY <2>1, <2>3 DEF Init, WorkerInit
  <2>6. Ordered(<<>>) /\ Earlier(<<>>) /\ \A s, c : ~AnnouncedAs(<<>>, s, c) /\ ~Asked(<<>>, s, c)
    BY DEF Ordered, Earlier, AnnouncedAs, Asked
  <2>7. \A s \in Fds, c \in Files : ~Expects(s, c)
    BY <2>5, <2>6 DEF Expects
  <2>8. \A s \in Fds : ~Leaves(0, s)
    BY <2>5 DEF Leaves
  <2>9. QED
    BY <2>2, <2>4, <2>5, <2>6, <2>7, <2>8 DEF TimelyInv, Timely
<1>2. Inv /\ SessionInv /\ Alive /\ TimelyInv /\ [Next]_vars => SessionInv' /\ Alive' /\ TimelyInv'
  <2>1. SUFFICES ASSUME Inv, SessionInv, Alive, TimelyInv, [Next]_vars
                 PROVE  SessionInv' /\ Alive' /\ TimelyInv'
    OBVIOUS
  <2>2. SessionInv' /\ Alive'
    BY <2>1, SessionStep, AliveStep
  <2>3. CASE UNCHANGED vars
    BY <2>1, <2>2, <2>3, TimelyStill DEF TimelyInv, vars, kernelVars, workerVars, threadVars, mainVars
  <2>4. CASE Client /\ UNCHANGED mainVars
    <3>1. UNCHANGED <<readQueue, sendQueue, view, mpc, request, file, sockets, pc, cur>>
      BY <2>4 DEF Client, Connect, PeerSend, PeerEnd, workerVars, threadVars, mainVars
    <3>2. QED
      BY <2>1, <2>2, <3>1, TimelyStill DEF TimelyInv
  <2>5. CASE \E w \in Workers : Worker(w) /\ UNCHANGED mainVars
    <3>1. Worker(0) /\ UNCHANGED mainVars /\ mpc' = mpc
      BY <2>5, OneWorker DEF mainVars
    <3>2. QED
      BY <2>1, <2>2, <3>1, TimelyWorker DEF TimelyInv
  <2>6. CASE Main \/ Call
    <3>1. mpc # "stopped"
      BY <2>6 DEF Main, PushMessage, PushSignal, receiveMessage, StopFlag, StopSignal, Join,
                  Drain, Call, close, sendMessage, AppRequest, setsockopt, Stop
    <3>2. InSession /\ Timely
      BY <2>1, <3>1 DEF SessionInv, TimelyInv
    <3>3. CASE Drain
      BY <2>2, <3>3 DEF Drain, TimelyInv
    <3>4. QED
      BY <2>1, <2>2, <2>6, <3>2, <3>3, TimelyMain DEF TimelyInv
  <2>7. QED
    BY <2>1, <2>2, <2>3, <2>4, <2>5, <2>6 DEF Next
<1>3. Inv /\ TimelyInv => RequestMeetsItsConnection
  <2>1. SUFFICES ASSUME Inv, TimelyInv, NEW w \in Workers, NEW m, m = Head(sendQueue[w]),
                        pc[w] = "handle", sendQueue[w] # <<>>, m.op \in {"CLOSE", "MESSAGE"},
                        sockets[w][m.s] # "null"
                 PROVE  file[m.s] = m.c
    BY DEF RequestMeetsItsConnection
  <2>2. w = 0 /\ \A s : Home(s) = 0
    BY OneWorker
  <2>3. mpc # "stopped"
    BY <2>1, <2>2 DEF Inv, Stopping, MasterGone
  <2>4. sendQueue[0] \in Seq(Message) /\ AllRequests(sendQueue[0]) /\ Distinct(sendQueue[0])
    BY <2>1, <2>2 DEF Inv, TypeOK, WorkerTypeOK, Queues
  <2>5. m \in Message /\ m.s \in Fds /\ m.c \in Files
    BY <2>1, <2>2, <2>4, TailOfQueue DEF GoodRequest, Message
  <2>6. Asked(sendQueue[0], m.s, m.c)
    BY <2>1, <2>2, <2>4, QueuesShrink DEF Asks
  <2>7. InTable(m.s)
    BY <2>1, <2>2 DEF InTable
  <2>8. QED
    BY <2>1, <2>3, <2>5, <2>6, <2>7 DEF TimelyInv, Timely
<1>4. QED
  BY <1>1, <1>2, <1>3, ServerInv, PTL DEF Spec
=============================================================================
