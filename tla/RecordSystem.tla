----------------------------- MODULE RecordSystem -----------------------------
(***************************************************************************)
(* The record clients and the record server end to end: RecordClient over  *)
(* NetworkClient (src/src/recordclient, src/src/net), NetworkService with  *)
(* its tasks, RecordService, RecordProcessManager and the main loop        *)
(* (src/server/recordserver/src).  The socket layer is reduced to what     *)
(* ConnectionEvents promises of it, the slots to what SlotDatabase does    *)
(* with a queue: take a request, answer it, release it.                    *)
(***************************************************************************)
EXTENDS Integers, Sequences, FiniteSets, SequencesExt, Functions

CONSTANTS
  Clients,
  Sockets,          \* descriptor numbers of the server, as naturals
  Shards,           \* the shards configured
  SLOT_HASH_VALUE,  \* slots per shard
  Programs,         \* what the clients' programs may be: sets of requests
  MaxDrops          \* bound: connections that break

CallbackKinds == {"serialize", "unserialize", "alter"}
Call == [client : Clients, number : Nat, kind : CallbackKinds \cup {"delete", "select", "unknown"},
         shard : Nat, objectid : Nat, legal : BOOLEAN]

ASSUME RecordSystemAssumption ==
  /\ SLOT_HASH_VALUE \in Nat \ {0}
  /\ Programs \subseteq SUBSET Call
  /\ \A P \in Programs : \A r, q \in P : r.client = q.client /\ r.number = q.number => r = q
  /\ Sockets \subseteq Nat

NoSocket == -1
CLOSE == [op |-> "close"]
Slots == Shards \X (0..SLOT_HASH_VALUE - 1)

VARIABLES
  link,       \* link[c]: the server's descriptor of c's connection
  state,      \* state[c]: "new", "up", "lost" (not noticed), "retry" or "stopped"
  up,         \* per client: the requests its socket's worker has to send
  down,       \* per client: what was sent to it and it has not read
  unsent,     \* per client: how many of the last of them its worker of the server still has
  callbacks,  \* per client and kind: _serializeCallbacks, ...
  calls,      \* the program: the requests the clients make, each once
  asked,      \* the requests made
  handled,    \* per client: responses in the order msgParser took them
  inq,        \* what the server's main thread has to read, on its way or received
  tasks,      \* NetworkService::_tasks: the descriptors with a task
  slotw, slotr,  \* per slot: wlist and rlist
  slotpc,     \* per slot thread: "run", "final" (last round) or "exit"
  main,       \* main(): "run", "service" (halted), "manager" or "end"
  executed, released,  \* requests executed, and released: a sequence
  dropped     \* per client: the connections of it that broke

recordVars == <<link, state, up, down, unsent, callbacks, calls, asked, handled, inq, tasks, slotw, slotr,
                slotpc, main, executed, released, dropped>>
queueVars == <<up, down, unsent>>
clientVars == <<callbacks, calls, asked, handled>>

RecordSystemInit ==
  /\ link = [c \in Clients |-> NoSocket]
  /\ state = [c \in Clients |-> "new"]
  /\ up = [c \in Clients |-> <<>>]
  /\ down = [c \in Clients |-> <<>>] /\ unsent = [c \in Clients |-> 0]
  /\ callbacks = [c \in Clients |-> [k \in CallbackKinds |-> <<>>]]
  /\ calls \in Programs
  /\ asked = {} /\ handled = [c \in Clients |-> <<>>]
  /\ inq = <<>> /\ tasks = {}
  /\ slotw = [s \in Slots |-> <<>>] /\ slotr = [s \in Slots |-> <<>>]
  /\ slotpc = [s \in Slots |-> "run"]
  /\ main = "run" /\ executed = {} /\ released = <<>>
  /\ dropped = [c \in Clients |-> 0]

-----------------------------------------------------------------------------
(* The elements of q at the positions in K.                                *)
Keep(q, K) ==
  LET kept[i \in 0..Len(q)] ==
        IF i = 0 THEN <<>> ELSE IF i \in K THEN Append(kept[i - 1], q[i]) ELSE kept[i - 1]
  IN kept[Len(q)]

(* The connections.  The kernel gives the lowest free number; the worker   *)
(* closes a descriptor and announces it in one order.                      *)

FreeSockets == {s \in Sockets : \A c \in Clients : link[c] # s}
Owner(s) == {c \in Clients : link[c] = s}

connect(c) ==
  /\ state[c] \in {"new", "retry"} /\ main = "run" /\ FreeSockets # {}
  /\ \E r \in calls : r.client = c
  /\ LET s == CHOOSE x \in FreeSockets : \A y \in FreeSockets : x <= y IN
       /\ link' = [link EXCEPT ![c] = s]
       /\ inq' = Append(inq, [op |-> "establish", s |-> s])
  /\ state' = [state EXCEPT ![c] = "up"]
  /\ UNCHANGED <<queueVars, clientVars, tasks, slotw, slotr, slotpc, main, executed, released, dropped>>

(* The connection of number s is gone, if there is one.  What its client   *)
(* has not read survives in part; so does what it has sent, and the close  *)
(* is announced after that.  What the two workers had queued for it is     *)
(* released: it is in front of the next connection's NEW_SOCKET.           *)
Received(q, s, n) == Keep(q, {i \in DOMAIN q : i <= n \/ q[i].s # s \/ q[i].op # "message"})

Break(s, q) ==
  IF Owner(s) = {} THEN UNCHANGED <<link, state, queueVars, dropped>> /\ inq' = q
  ELSE LET c == CHOOSE x \in Clients : x \in Owner(s) IN
       /\ link' = [link EXCEPT ![c] = NoSocket]
       /\ up' = [up EXCEPT ![c] = <<>>] /\ unsent' = [unsent EXCEPT ![c] = 0]
       /\ \E n \in 0..Len(down[c]) - unsent[c] : down' = [down EXCEPT ![c] = Append(SubSeq(@, 1, n), CLOSE)]
       /\ \E n \in 0..Len(q) : inq' = Append(Received(q, s, n), [op |-> "close", s |-> s])
       /\ state' = [state EXCEPT ![c] = "lost"]
       /\ dropped' = [dropped EXCEPT ![c] = @ + 1]

Drops == FoldFunction(+, 0, dropped)

Drop(c) ==
  /\ link[c] # NoSocket /\ Drops < MaxDrops
  /\ Break(link[c], inq)
  /\ UNCHANGED <<clientVars, tasks, slotw, slotr, slotpc, main, executed, released>>

-----------------------------------------------------------------------------
(* RecordClient.  serialize, unserialize, addKey and removeKey queue the   *)
(* request at the socket's worker, which a signal wakes up if it arrives   *)
(* while the worker waits, and then remember the callback, whether or not  *)
(* there was a socket.                                                     *)

(* Fault: the callback is put in front of those that wait.                 *)
RememberInFront(r) ==
  callbacks' = IF r.kind \in CallbackKinds
               THEN [callbacks EXCEPT ![r.client][r.kind] = <<r>> \o @] ELSE callbacks

Remember(r) ==
  callbacks' = IF r.kind \in CallbackKinds
               THEN [callbacks EXCEPT ![r.client][r.kind] = Append(@, r)] ELSE callbacks

serialize(r) ==
  /\ r \notin asked /\ state[r.client] \notin {"new", "stopped"}
  /\ \A q \in calls : q.client = r.client /\ q.number < r.number => q \in asked
  /\ asked' = asked \cup {r}
  /\ Remember(r)
  /\ up' = IF link[r.client] = NoSocket THEN up ELSE [up EXCEPT ![r.client] = Append(@, r)]
  /\ UNCHANGED <<link, state, down, unsent, calls, handled, inq, tasks, slotw, slotr, slotpc, main, executed,
                 released, dropped>>

(* The worker of the client's socket, when it wakes up: the next of what   *)
(* was queued is sent.                                                     *)
ClientWorker(c) ==
  /\ up[c] # <<>>
  /\ up' = [up EXCEPT ![c] = Tail(@)]
  /\ inq' = Append(inq, [op |-> "message", s |-> link[c], msg |-> Head(up[c])])
  /\ UNCHANGED <<link, state, down, unsent, clientVars, tasks, slotw, slotr, slotpc, main, executed, released,
                 dropped>>

(* NetworkClient::stop: the worker closes the socket.                      *)
ClientStops(c) ==
  /\ state' = [state EXCEPT ![c] = "stopped"]
  /\ link' = [link EXCEPT ![c] = NoSocket]
  /\ up' = [up EXCEPT ![c] = <<>>]
  /\ down' = [down EXCEPT ![c] = <<>>] /\ unsent' = [unsent EXCEPT ![c] = 0]
  /\ inq' = IF link[c] = NoSocket THEN inq ELSE Append(inq, [op |-> "close", s |-> link[c]])
  /\ dropped' = [dropped EXCEPT ![c] = @ + 1]

(* NetworkClient::update and RecordClient::msgParser: the first callback   *)
(* of the response's kind is called; a response nobody waits for is        *)
(* ignored; a response of another kind stops the client.                   *)
update(c) ==
  /\ Len(down[c]) > unsent[c] /\ state[c] # "stopped"
  /\ LET e == Head(down[c]) IN
       \/ /\ e.op = "close"
          /\ state' = [state EXCEPT ![c] = "retry"]
          /\ down' = [down EXCEPT ![c] = Tail(@)]
          /\ UNCHANGED <<link, up, unsent, callbacks, handled, inq, dropped>>
       \/ /\ e.op = "message" /\ e.msg.kind \notin CallbackKinds
          /\ ClientStops(c)
          /\ UNCHANGED <<callbacks, handled>>
       \/ /\ e.op = "message" /\ e.msg.kind \in CallbackKinds
          /\ LET waiting == callbacks[c][e.msg.kind] IN
               IF waiting = <<>> THEN UNCHANGED <<callbacks, handled>>
               ELSE /\ callbacks' = [callbacks EXCEPT ![c][e.msg.kind] = Tail(@)]
                    /\ handled' = [handled EXCEPT ![c] =
                                     Append(@, [callback |-> Head(waiting), response |-> e.msg])]
          /\ down' = [down EXCEPT ![c] = Tail(@)]
          /\ UNCHANGED <<link, state, up, unsent, inq, dropped>>
  /\ UNCHANGED <<calls, asked, tasks, slotw, slotr, slotpc, main, executed, released>>

-----------------------------------------------------------------------------
(* The server's main thread.                                               *)

spawnConnection(s) == tasks' = tasks \cup {s}
closeConnection(s) == tasks' = tasks \ {s}

(* RecordProcess::request: the slot of an object.                          *)
SlotOf(r) == <<r.shard, r.objectid % SLOT_HASH_VALUE>>

(* RecordService::msgParser, RecordProcessManager::request: a request of a *)
(* wrong size, of an unknown kind or for a shard that is not configured is *)
(* refused.                                                                *)
Accepted(r) == r.legal /\ r.kind # "unknown" /\ r.shard \in Shards

(* A refused request costs its client the connection and is released at    *)
(* once; an accepted one is released by the slot's thread.                 *)
(* Fault: the parser reports success, so update() releases the message the *)
(* slot was given.                                                         *)
msgParserReleases(s, r) ==
  /\ released' = Append(released, r)
  /\ IF Accepted(r)
     THEN /\ slotw' = [slotw EXCEPT ![SlotOf(r)] = Append(@, [s |-> s, req |-> r])]
          /\ inq' = Tail(inq)
          /\ UNCHANGED <<link, state, queueVars, dropped>>
     ELSE Break(s, Tail(inq)) /\ UNCHANGED slotw

msgParser(s, r) ==
  IF Accepted(r)
  THEN /\ slotw' = [slotw EXCEPT ![SlotOf(r)] = Append(@, [s |-> s, req |-> r])]
       /\ inq' = Tail(inq)
       /\ UNCHANGED <<link, state, queueVars, dropped, released>>
  ELSE /\ Break(s, Tail(inq))
       /\ released' = Append(released, r)
       /\ UNCHANGED slotw

(* NetworkService::update, one event.  A message without a task is         *)
(* released.                                                               *)
ServiceUpdate ==
  /\ main = "run" /\ inq # <<>>
  /\ LET e == Head(inq) IN
       \/ /\ e.op \in {"establish", "close"}
          /\ IF e.op = "establish" THEN spawnConnection(e.s) ELSE closeConnection(e.s)
          /\ inq' = Tail(inq)
          /\ UNCHANGED <<link, state, queueVars, dropped, slotw, released>>
       \/ /\ e.op = "message" /\ UNCHANGED tasks
          /\ IF e.s \in tasks THEN msgParser(e.s, e.msg)
             ELSE /\ inq' = Tail(inq) /\ released' = Append(released, e.msg)
                  /\ UNCHANGED <<link, state, queueVars, dropped, slotw>>
  /\ UNCHANGED <<clientVars, slotr, slotpc, main, executed>>

(* The clients in C are sent r: the worker has one more to send to each.   *)
Answer(C, r) ==
  /\ down' = [c \in Clients |-> IF c \in C THEN Append(down[c], [op |-> "message", msg |-> r]) ELSE down[c]]
  /\ unsent' = [c \in Clients |-> IF c \in C THEN unsent[c] + 1 ELSE unsent[c]]

(* Fault: the response is sent to every task.                              *)
ManagerUpdateToAll(k) ==
  /\ main = "run" /\ slotr[k] # <<>>
  /\ slotr' = [slotr EXCEPT ![k] = Tail(@)]
  /\ Answer({c \in Clients : link[c] \in tasks}, Head(slotr[k]).req)
  /\ UNCHANGED <<link, state, up, clientVars, inq, tasks, slotw, slotpc, main, executed, released, dropped>>

(* RecordProcessManager::update, RecordProcess::update: one response, sent *)
(* to the task that has the request's descriptor number now.               *)
ManagerUpdate(k) ==
  /\ main = "run" /\ slotr[k] # <<>>
  /\ slotr' = [slotr EXCEPT ![k] = Tail(@)]
  /\ LET e == Head(slotr[k]) IN Answer({c \in Clients : link[c] = e.s /\ e.s \in tasks}, e.req)
  /\ UNCHANGED <<link, state, up, clientVars, inq, tasks, slotw, slotpc, main, executed, released, dropped>>

(* The server's worker of the connection, when it wakes up: the next of    *)
(* what was queued is sent.                                                *)
ServerWorker(c) ==
  /\ unsent[c] > 0
  /\ unsent' = [unsent EXCEPT ![c] = @ - 1]
  /\ UNCHANGED <<link, state, up, down, clientVars, inq, tasks, slotw, slotr, slotpc, main, executed, released,
                 dropped>>

(* Fault: reads are taken before writes.                                   *)
ExecuteReadsFirst(k) ==
  /\ slotpc[k] # "exit" /\ slotw[k] # <<>>
  /\ LET reads == {i \in DOMAIN slotw[k] : slotw[k][i].req.kind = "unserialize"}
         n == IF reads = {} THEN 1 ELSE CHOOSE i \in reads : \A j \in reads : i <= j
         e == slotw[k][n]
     IN /\ slotw' = [slotw EXCEPT ![k] = RemoveAt(@, n)]
        /\ slotr' = [slotr EXCEPT ![k] = Append(@, e)]
        /\ executed' = executed \cup {e.req}
        /\ released' = Append(released, e.req)
  /\ UNCHANGED <<link, state, queueVars, clientVars, inq, tasks, slotpc, main, dropped>>

(* Fault: unserialize leaves the loop without a response when the object   *)
(* is not found.                                                           *)
ExecuteSilent(k) ==
  /\ slotpc[k] # "exit" /\ slotw[k] # <<>>
  /\ slotw' = [slotw EXCEPT ![k] = Tail(@)]
  /\ LET e == Head(slotw[k]) IN
       /\ \/ e.req.kind = "unserialize" /\ UNCHANGED slotr
          \/ slotr' = [slotr EXCEPT ![k] = Append(@, e)]
       /\ executed' = executed \cup {e.req}
       /\ released' = Append(released, e.req)
  /\ UNCHANGED <<link, state, queueVars, clientVars, inq, tasks, slotpc, main, dropped>>

(* synchronous(): one request of the slot.  select is not answered.        *)
Execute(k) ==
  /\ slotpc[k] # "exit" /\ slotw[k] # <<>>
  /\ slotw' = [slotw EXCEPT ![k] = Tail(@)]
  /\ LET e == Head(slotw[k]) IN
       /\ slotr' = IF e.req.kind = "select" THEN slotr ELSE [slotr EXCEPT ![k] = Append(@, e)]
       /\ executed' = executed \cup {e.req}
       /\ released' = Append(released, e.req)
  /\ UNCHANGED <<link, state, queueVars, clientVars, inq, tasks, slotpc, main, dropped>>

(* main() is told to halt.  RecordService::stop ends the workers, with     *)
(* what they have not sent, closes every connection and releases what was  *)
(* not looked at; RecordProcessManager::stop waits for the slots, each of  *)
(* which makes a last round.                                               *)
Halt ==
  /\ main = "run"
  /\ main' = "service"
  /\ UNCHANGED <<link, state, queueVars, clientVars, inq, tasks, slotw, slotr, slotpc,
                 executed, released, dropped>>

InqRequests == Keep(inq, {i \in DOMAIN inq : inq[i].op = "message"})

ServiceStop ==
  /\ main = "service"
  /\ main' = "manager"
  /\ tasks' = {} /\ inq' = <<>>
  /\ released' = released \o [i \in DOMAIN InqRequests |-> InqRequests[i].msg]
  /\ link' = [c \in Clients |-> NoSocket]
  /\ state' = [c \in Clients |-> IF link[c] = NoSocket THEN state[c] ELSE "lost"]
  /\ up' = [c \in Clients |-> <<>>] /\ unsent' = [c \in Clients |-> 0]
  /\ down' = [c \in Clients |-> IF link[c] = NoSocket THEN down[c]
                                ELSE Append(SubSeq(down[c], 1, Len(down[c]) - unsent[c]), CLOSE)]
  /\ dropped' = [c \in Clients |-> IF link[c] = NoSocket THEN dropped[c] ELSE dropped[c] + 1]
  /\ UNCHANGED <<clientVars, slotw, slotr, slotpc, executed>>

(* The slot's thread leaves its loop when it sees isstop between two       *)
(* rounds, and ends after a round that found the list empty.               *)
SlotStops(k) ==
  /\ main = "manager"
  /\ \/ slotpc[k] = "run" /\ slotpc' = [slotpc EXCEPT ![k] = "final"]
     \/ slotpc[k] = "final" /\ slotw[k] = <<>> /\ slotpc' = [slotpc EXCEPT ![k] = "exit"]
  /\ UNCHANGED <<link, state, queueVars, clientVars, inq, tasks, slotw, slotr, main, executed,
                 released, dropped>>

ManagerStop ==
  /\ main = "manager" /\ \A k \in Slots : slotpc[k] = "exit"
  /\ main' = "end"
  /\ UNCHANGED <<link, state, queueVars, clientVars, inq, tasks, slotw, slotr, slotpc, executed,
                 released, dropped>>

-----------------------------------------------------------------------------
ClientStep == \E c \in Clients : connect(c) \/ update(c)
WorkerStep == \E c \in Clients : ClientWorker(c) \/ ServerWorker(c)
MainLoop == ServiceUpdate \/ (\E k \in Slots : ManagerUpdate(k)) \/ ServiceStop \/ ManagerStop
Slot(k) == Execute(k) \/ SlotStops(k)

RecordSystemNext ==
  \/ \E r \in calls : serialize(r)
  \/ \E c \in Clients : Drop(c)
  \/ Halt
  \/ ClientStep \/ WorkerStep \/ MainLoop
  \/ \E k \in Slots : Slot(k)

RecordSystemSpec == RecordSystemInit /\ [][RecordSystemNext]_recordVars

-----------------------------------------------------------------------------
NoneDropped == \A c \in Clients : dropped[c] = 0

(* The answers a client reads to its own requests to one slot come in the  *)
(* order of the requests, whatever happens to its connection: the read     *)
(* queue, the slot's lists, the send queue and the connection are all      *)
(* first in, first out.                                                    *)
AnswersKeepOrder ==
  \A c \in Clients : \A i, j \in DOMAIN handled[c] :
    LET a == handled[c][i].response
        b == handled[c][j].response
    IN i < j /\ a.client = c /\ b.client = c /\ SlotOf(a) = SlotOf(b) => a.number < b.number

(* An answer is routed by the descriptor number of the request.  It can    *)
(* reach another client only after the one that asked has lost its         *)
(* connection, and no answer is read twice.                                *)
MisroutedOnlyIfLost ==
  \A c \in Clients : \A i \in DOMAIN handled[c] :
    LET a == handled[c][i].response IN
    /\ a.client # c => dropped[a.client] > 0
    /\ \A d \in Clients : \A j \in DOMAIN handled[d] : handled[d][j].response = a => <<c, i>> = <<d, j>>

(* Callbacks are kept in a list per kind, answers come back per slot: a    *)
(* callback gets its own answer as long as no connection breaks and the    *)
(* client's requests of the kind all go to one slot.                       *)
CallbackGetsItsAnswer ==
  NoneDropped =>
    \A c \in Clients : \A i \in DOMAIN handled[c] :
      LET h == handled[c][i] IN
      \/ h.callback = h.response
      \/ \E r \in asked : r.client = c /\ r.kind = h.response.kind /\ SlotOf(r) # SlotOf(h.response)

(* The message buffer of a request is released once: by update() when it   *)
(* is refused or its task is gone, by the slot's thread, or by stop().     *)
(* And a server that was halted leaves none of those it took unexecuted    *)
(* and unreleased.                                                         *)
ReleasedOnce ==
  /\ \A i, j \in DOMAIN released : released[i] = released[j] => i = j
  /\ \A k \in Slots : \A i \in DOMAIN slotw[k] : slotw[k][i].req \notin ToSet(released)
  /\ main = "end" => \A k \in Slots : slotw[k] = <<>>

(* While no connection breaks, every request a slot can take is answered,  *)
(* and its client's program has been called back for it, but for one that  *)
(* stays with a worker: the signal that tells a worker of its queue may be *)
(* lost, and nothing is assumed of it.  The calls are finitely many and an *)
(* answer stays, so it is enough that again and again none is outstanding. *)
AtAWorker(r) ==
  \/ r \in ToSet(up[r.client])
  \/ \E c \in Clients : \E i \in DOMAIN down[c] :
       i > Len(down[c]) - unsent[c] /\ down[c][i].msg = r
Outstanding ==
  {r \in asked : /\ r.kind \in CallbackKinds /\ Accepted(r) /\ ~AtAWorker(r)
                 /\ \A i \in DOMAIN handled[r.client] : handled[r.client][i].response # r}
RequestAnswered == []<>(Outstanding = {} \/ ~NoneDropped \/ main # "run")
=============================================================================
