------------------------- MODULE SocketClientProofs -------------------------
(***************************************************************************)
(* OneSocket and NoCarryOver of SocketClient, for any descriptor numbers   *)
(* and any number of reconnections and messages.                           *)
(*                                                                         *)
(* The three threads share _fd without a lock.  What keeps them apart is   *)
(* that the registration of a socket moves around in a circle: the retry   *)
(* thread (or connect) makes a socket and queues it for the worker, the    *)
(* worker registers it, reports its end, and only the report, once it is   *)
(* received, starts the next attempt.  So at each moment at most one of    *)
(* the four has it, and nobody makes a socket before the circle is closed. *)
(***************************************************************************)
EXTENDS SocketClient, WellFoundedInduction, TLAPS

(* The entries of the worker's queues.                                     *)
Entry == [op : {"new"}, s : ClientFds]
           \cup [op : {"message"}, s : ClientFds \cup {NoFd}, current : Nat]
Event == [op : {"establish", "close"}, s : ClientFds]
WorkerStates == {"loop", "handle", "poll", "wait", "exit"}

ClientTypes ==
  /\ clStop \in BOOLEAN /\ clActive \in BOOLEAN /\ clBusy \in BOOLEAN
  /\ clFd \in ClientFds \cup {NoFd} /\ sendFd \in ClientFds \cup {NoFd}
  /\ retry \in {"none", "loop", "sleep", "connecting", "done"}
  /\ program \in {"new", "run", "send", "stop", "delete", "end"} /\ wpc \in WorkerStates
  /\ file \in [ClientFds -> Nat] /\ made \in Nat
  /\ owned \in [ClientFds -> BOOLEAN]
  /\ clSendq \in Seq(Entry) /\ clReadq \in Seq(Event)

(* Where the registration of the current socket is.                        *)
Queued == \E i \in 1 .. Len(clSendq) : clSendq[i].op = "new"
Held == \E s \in ClientFds : owned[s]
Reported == \E i \in 1 .. Len(clReadq) : clReadq[i].op = "close"
Attempting == retry \in {"loop", "sleep", "connecting"}

InOnePlace ==
  /\ Queued \/ Held \/ Reported => clActive /\ ~Attempting
  /\ Held => ~Queued /\ ~Reported
  /\ Queued => ~Reported
  /\ \A i, j \in 1 .. Len(clSendq) : clSendq[i].op = "new" /\ clSendq[j].op = "new" => i = j
  /\ \A i, j \in 1 .. Len(clReadq) : clReadq[i].op = "close" /\ clReadq[j].op = "close" => i = j

(* Only the current socket is open, and it is what is queued or held.      *)
HasSocket == clFd \in ClientFds /\ file[clFd] # 0
OnlyCurrent ==
  /\ \A s \in ClientFds : file[s] # 0 => s = clFd
  /\ Queued \/ Held => HasSocket
  /\ \A i \in 1 .. Len(clSendq) : clSendq[i].op = "new" => clSendq[i].s = clFd
  /\ \A s \in ClientFds : owned[s] => s = clFd

(* What the retry thread and the program's thread rely on.                 *)
Attempt ==
  /\ retry = "sleep" => clFd = NoFd /\ ~clActive
  /\ retry = "connecting" => HasSocket /\ ~clActive
  /\ retry = "loop" /\ clActive => HasSocket
  /\ program = "new" => clFd = NoFd /\ retry = "none" /\ ~clActive
  /\ program = "delete" => retry = "none"
  /\ program = "end" => clFd = NoFd /\ retry = "none" /\ clSendq = <<>> /\ ~Held

(* What is queued behind a socket's registration, or while it is held, was *)
(* sent when that socket was the current one.                              *)
SentOnIt ==
  \A i \in 1 .. Len(clSendq) :
    clSendq[i].op = "message" =>
      /\ Held => clSendq[i].current = file[clFd]
      /\ \A j \in 1 .. Len(clSendq) :
           j < i /\ clSendq[j].op = "new" => clSendq[i].current = file[clFd]

ClientInv == ClientTypes /\ InOnePlace /\ OnlyCurrent /\ Attempt /\ SentOnIt /\ NoCarryOver
-----------------------------------------------------------------------------
(* Queues and numbers.                                                     *)

LEMMA AppendEntry ==
  ASSUME NEW S, NEW q \in Seq(S), NEW m \in S
  PROVE  /\ Append(q, m) \in Seq(S)
         /\ Len(q) \in Nat /\ Len(Append(q, m)) = Len(q) + 1
         /\ Append(q, m)[Len(q) + 1] = m
         /\ \A i \in 1 .. Len(q) : Append(q, m)[i] = q[i]
OBVIOUS

LEMMA TailEntries ==
  ASSUME NEW S, NEW q \in Seq(S), q # <<>>
  PROVE  /\ Tail(q) \in Seq(S) /\ Head(q) \in S /\ Head(q) = q[1]
         /\ Len(q) \in Nat \ {0} /\ Len(Tail(q)) = Len(q) - 1
         /\ \A i \in 1 .. Len(q) - 1 : Tail(q)[i] = q[i + 1]
         /\ \A i \in 1 .. Len(q) - 1 : i + 1 \in 1 .. Len(q)
OBVIOUS

(* While no number is in use the kernel has one to give.                   *)
LEMMA FreeNumber ==
  ASSUME \A s \in ClientFds : file[s] = 0
  PROVE  NewFd \in ClientFds
<1>1. \E x \in ClientFds : \A y \in ClientFds : <<y, x>> \notin OpToRel(<, Nat)
  BY SocketClientAssumption, NatLessThanWellFounded, WFMin
<1>2. PICK x \in ClientFds : \A y \in ClientFds : <<y, x>> \notin OpToRel(<, Nat)
  BY <1>1
<1>3. \A y \in ClientFds : y \in Nat /\ x \in Nat /\ ~(y < x)
  BY <1>2, SocketClientAssumption DEF OpToRel
<1>4. file[x] = 0 /\ \A t \in ClientFds : file[t] = 0 => x <= t
  BY <1>3
<1>5. QED
  BY <1>4 DEF NewFd

(* ::socket: the new socket becomes the current one and the only one.      *)
LEMMA SocketCreated ==
  ASSUME ClientInv, \A s \in ClientFds : file[s] = 0, CreateSocket
  PROVE  /\ clFd' = NewFd /\ clFd' \in ClientFds
         /\ file' \in [ClientFds -> Nat] /\ made' \in Nat
         /\ file'[clFd'] # 0
         /\ \A s \in ClientFds : file'[s] # 0 => s = clFd'
<1>1. NewFd \in ClientFds
  BY FreeNumber
<1>2. made' \in Nat /\ made' # 0
  BY SocketClientAssumption DEF CreateSocket, ClientInv, ClientTypes
<1>3. QED
  BY <1>1, <1>2 DEF CreateSocket, ClientInv, ClientTypes

(* Nothing is registered before the program's first call.                  *)
LEMMA ClientInitInv == SocketClientInit => ClientInv
<1> SUFFICES ASSUME SocketClientInit PROVE ClientInv
  OBVIOUS
<1> USE DEF SocketClientInit
<1>1. ClientTypes
  <2>1. file \in [ClientFds -> Nat] /\ owned \in [ClientFds -> BOOLEAN]
    OBVIOUS
  <2>2. clSendq \in Seq(Entry) /\ clReadq \in Seq(Event)
    OBVIOUS
  <2>3. QED
    BY <2>1, <2>2 DEF ClientTypes, WorkerStates
<1>2. ~Queued /\ ~Held /\ ~Reported
  BY DEF Queued, Held, Reported
<1>3. InOnePlace /\ OnlyCurrent /\ Attempt /\ SentOnIt /\ NoCarryOver
  BY <1>2 DEF InOnePlace, OnlyCurrent, Attempt, SentOnIt, NoCarryOver
<1>4. QED
  BY <1>1, <1>3 DEF ClientInv
-----------------------------------------------------------------------------
(* The steps.                                                              *)

(* A socket goes to the worker: it is the last entry of the queue, nobody  *)
(* else has it.                                                            *)
LEMMA SocketQueued ==
  ASSUME ClientInv, ~Queued, ~Held, ~Reported, clFd' \in ClientFds, addSocket(clFd'),
         UNCHANGED <<owned, clReadq>>
  PROVE  /\ clSendq' \in Seq(Entry) /\ wpc' \in WorkerStates
         /\ Queued' /\ ~Held' /\ ~Reported'
         /\ \A i, j \in 1 .. Len(clSendq') :
              clSendq'[i].op = "new" /\ clSendq'[j].op = "new" => i = j
         /\ \A i \in 1 .. Len(clSendq') : clSendq'[i].op = "new" => clSendq'[i].s = clFd'
         /\ SentOnIt'
<1> DEFINE m == [op |-> "new", s |-> clFd']
<1>1. m \in Entry /\ m.op = "new" /\ m.s = clFd' /\ clSendq' = Append(clSendq, m)
  BY DEF Entry, addSocket, pushMessage
<1> HIDE DEF m
<1>2. clSendq \in Seq(Entry)
  BY DEF ClientInv, ClientTypes
<1>3. /\ clSendq' \in Seq(Entry)
      /\ Len(clSendq) \in Nat /\ Len(clSendq') = Len(clSendq) + 1
      /\ clSendq'[Len(clSendq) + 1] = m
      /\ \A i \in 1 .. Len(clSendq) : clSendq'[i] = clSendq[i]
  BY <1>1, <1>2, AppendEntry
<1>4. \A i \in 1 .. Len(clSendq') : clSendq'[i].op = "new" <=> i = Len(clSendq')
  BY <1>1, <1>3 DEF Queued
<1>5. Queued' /\ ~Held' /\ ~Reported'
  BY <1>3, <1>4 DEF Queued, Held, Reported
<1>6. SentOnIt'
  BY <1>3, <1>4, <1>5 DEF SentOnIt
<1>7. wpc' \in WorkerStates
  BY DEF addSocket, pushMessage, Wake, WorkerStates, ClientInv, ClientTypes
<1>8. QED
  BY <1>1, <1>3, <1>4, <1>5, <1>6, <1>7

(* connect(.., timeout).                                                   *)
LEMMA ConnectStep ==
  ASSUME ClientInv, NEW ok \in BOOLEAN, clConnect(ok)
  PROVE  ClientInv'
<1>1. /\ clFd = NoFd /\ retry = "none" /\ ~clActive
      /\ retry' = "none" /\ program' = "run" /\ clActive' = ok /\ clStop' = FALSE
      /\ UNCHANGED <<sendFd, owned, clReadq, sends, arrived>>
  BY DEF clConnect, ClientInv, Attempt
<1>2. ~Queued /\ ~Held /\ ~Reported /\ \A s \in ClientFds : file[s] = 0
  BY <1>1, SocketClientAssumption DEF ClientInv, InOnePlace, OnlyCurrent, NoFd
<1>3. /\ clFd' \in ClientFds \cup {NoFd} /\ clBusy' \in BOOLEAN
      /\ file' \in [ClientFds -> Nat] /\ made' \in Nat
      /\ \A s \in ClientFds : file'[s] # 0 => s = clFd'
      /\ ok => clFd' \in ClientFds /\ file'[clFd'] # 0
  <2>1. CASE CreateSocket /\ UNCHANGED clBusy
    BY <1>2, <2>1, SocketCreated DEF ClientInv, ClientTypes
  <2>2. CASE ~ok /\ clFd' = NoFd /\ clBusy' = TRUE /\ UNCHANGED kernel
    BY <1>2, <2>2 DEF ClientInv, ClientTypes, kernel
  <2>3. QED
    BY <2>1, <2>2 DEF clConnect
<1>4. CASE ok
  <2>1. addSocket(clFd')
    BY <1>4 DEF clConnect, CreateSocket
  <2>2. /\ clSendq' \in Seq(Entry) /\ wpc' \in WorkerStates
        /\ Queued' /\ ~Held' /\ ~Reported'
        /\ \A i, j \in 1 .. Len(clSendq') :
             clSendq'[i].op = "new" /\ clSendq'[j].op = "new" => i = j
        /\ \A i \in 1 .. Len(clSendq') : clSendq'[i].op = "new" => clSendq'[i].s = clFd'
        /\ SentOnIt'
    BY <1>1, <1>2, <1>3, <1>4, <2>1, SocketQueued
  <2>3. ClientTypes'
    BY <1>1, <1>3, <2>2 DEF ClientInv, ClientTypes
  <2>4. InOnePlace'
    BY <1>1, <1>4, <2>2 DEF ClientInv, InOnePlace, Attempting
  <2>5. OnlyCurrent'
    BY <1>1, <1>2, <1>3, <1>4, <2>2 DEF OnlyCurrent, HasSocket, Held
  <2>6. Attempt' /\ NoCarryOver'
    BY <1>1 DEF ClientInv, Attempt, NoCarryOver
  <2>7. QED
    BY <2>2, <2>3, <2>4, <2>5, <2>6 DEF ClientInv
<1>5. CASE ~ok
  <2>1. clSendq' = clSendq /\ wpc' = wpc
    BY <1>5 DEF clConnect
  <2>2. ~Queued' /\ ~Held' /\ ~Reported'
    BY <1>1, <1>2, <2>1 DEF Queued, Held, Reported
  <2>3. ClientTypes'
    BY <1>1, <1>3, <2>1 DEF ClientInv, ClientTypes
  <2>4. InOnePlace'
    BY <1>1, <2>1, <2>2 DEF ClientInv, InOnePlace
  <2>5. OnlyCurrent'
    BY <1>3, <2>2 DEF OnlyCurrent, Queued, Held
  <2>6. SentOnIt'
    BY <2>2 DEF SentOnIt, Queued
  <2>7. Attempt' /\ NoCarryOver'
    BY <1>1 DEF ClientInv, Attempt, NoCarryOver
  <2>8. QED
    BY <2>3, <2>4, <2>5, <2>6, <2>7 DEF ClientInv
<1>6. QED
  BY <1>4, <1>5

(* Steps that leave the sockets and the queues as they are: connect(.., 0), *)
(* the first half of sendMessage, the beginning of stop.                   *)
LEMMA ProgramStep ==
  ASSUME ClientInv, clConnectAsync \/ clSendRead \/ clBeginStop
  PROVE  ClientInv'
<1>1. /\ UNCHANGED <<clActive, clBusy, clFd, file, made, owned, wpc, clSendq, clReadq, arrived>>
      /\ clStop' \in BOOLEAN /\ sendFd' \in ClientFds \cup {NoFd}
      /\ program' \in {"run", "send", "stop"}
      /\ retry' = retry \/ (retry' = "loop" /\ ~clActive)
  BY DEF clConnectAsync, clSendRead, clBeginStop, clientState, kernel, ClientInv, ClientTypes,
         Attempt
<1>2. (Queued' <=> Queued) /\ (Held' <=> Held) /\ (Reported' <=> Reported)
  BY <1>1 DEF Queued, Held, Reported
<1>3. ClientTypes'
  BY <1>1 DEF ClientInv, ClientTypes
<1>4. InOnePlace'
  BY <1>1, <1>2 DEF ClientInv, InOnePlace, Attempting
<1>5. OnlyCurrent' /\ Attempt' /\ SentOnIt' /\ NoCarryOver'
  BY <1>1, <1>2 DEF ClientInv, OnlyCurrent, HasSocket, Attempt, SentOnIt, NoCarryOver
<1>6. QED
  BY <1>3, <1>4, <1>5 DEF ClientInv

(* receiveMessage: the close of the current socket closes the circle.      *)
LEMMA ReceiveStep ==
  ASSUME ClientInv, clReceive
  PROVE  ClientInv'
<1>1. /\ program = "run" /\ clReadq # <<>> /\ clReadq' = Tail(clReadq)
      /\ UNCHANGED <<clStop, clBusy, clFd, program, sendFd, file, made, owned, wpc, clSendq, sends,
                     arrived>>
  BY DEF clReceive, kernel
<1>2. /\ clReadq' \in Seq(Event) /\ Head(clReadq) = clReadq[1]
      /\ Len(clReadq) \in Nat \ {0} /\ Len(clReadq') = Len(clReadq) - 1
      /\ \A i \in 1 .. Len(clReadq') : clReadq'[i] = clReadq[i + 1] /\ i + 1 \in 1 .. Len(clReadq)
  BY <1>1, TailEntries DEF ClientInv, ClientTypes
<1>3. (Queued' <=> Queued) /\ (Held' <=> Held) /\ (Reported' => Reported)
  BY <1>1, <1>2 DEF Queued, Held, Reported
<1>4. \A i, j \in 1 .. Len(clReadq') : clReadq'[i].op = "close" /\ clReadq'[j].op = "close" => i = j
  <2>1. \A i, j \in 1 .. Len(clReadq) : clReadq[i].op = "close" /\ clReadq[j].op = "close" => i = j
    BY DEF ClientInv, InOnePlace
  <2>2. SUFFICES ASSUME NEW i \in 1 .. Len(clReadq'), NEW j \in 1 .. Len(clReadq'),
                        clReadq[i + 1].op = "close", clReadq[j + 1].op = "close"
                 PROVE  i = j
    BY <1>2
  <2>3. i + 1 = j + 1
    BY <1>2, <2>1, <2>2
  <2>4. QED
    BY <1>2, <2>3
<1>5. CASE clActive' = FALSE /\ retry' = "loop" /\ Head(clReadq).op = "close"
  <2>1. Reported /\ ~Reported'
    BY <1>2, <1>5 DEF Reported, ClientInv, InOnePlace
  <2>2. ~Queued /\ ~Held
    BY <2>1 DEF ClientInv, InOnePlace
  <2>3. ClientTypes'
    BY <1>1, <1>2, <1>5 DEF ClientInv, ClientTypes
  <2>4. InOnePlace'
    BY <1>1, <1>3, <1>4, <2>1, <2>2 DEF ClientInv, InOnePlace
  <2>5. OnlyCurrent' /\ Attempt' /\ SentOnIt' /\ NoCarryOver'
    BY <1>1, <1>3, <1>5, <2>2 DEF ClientInv, OnlyCurrent, Attempt, SentOnIt, NoCarryOver
  <2>6. QED
    BY <2>3, <2>4, <2>5 DEF ClientInv
<1>6. CASE UNCHANGED <<clActive, retry>>
  <2>1. ClientTypes'
    BY <1>1, <1>2, <1>6 DEF ClientInv, ClientTypes
  <2>2. InOnePlace'
    BY <1>1, <1>3, <1>4, <1>6 DEF ClientInv, InOnePlace, Attempting
  <2>3. OnlyCurrent' /\ Attempt' /\ SentOnIt' /\ NoCarryOver'
    BY <1>1, <1>3, <1>6 DEF ClientInv, OnlyCurrent, HasSocket, Attempt, SentOnIt, NoCarryOver
  <2>4. QED
    BY <2>1, <2>2, <2>3 DEF ClientInv
<1>7. QED
  BY <1>5, <1>6 DEF clReceive

(* The second half of sendMessage: what is queued while the current socket *)
(* is queued or held, is sent on it.                                       *)
LEMMA SendStep ==
  ASSUME ClientInv, clSendPush
  PROVE  ClientInv'
<1> DEFINE m == [op |-> "message", s |-> sendFd, current |-> Current]
<1>1. /\ program' = "run" /\ clSendq' = Append(clSendq, m) /\ wpc' \in WorkerStates
      /\ UNCHANGED <<clStop, clActive, clBusy, clFd, retry, sendFd, file, made, owned, clReadq,
                     arrived>>
  BY DEF clSendPush, pushMessage, Wake, WorkerStates, clientState, kernel, ClientInv, ClientTypes
<1>2. m \in Entry /\ m.op = "message" /\ m.current = Current
  BY DEF Entry, Current, ClientInv, ClientTypes
<1> HIDE DEF m
<1>3. /\ clSendq' \in Seq(Entry)
      /\ Len(clSendq) \in Nat /\ Len(clSendq') = Len(clSendq) + 1
      /\ clSendq'[Len(clSendq) + 1] = m
      /\ \A i \in 1 .. Len(clSendq) : clSendq'[i] = clSendq[i]
  BY <1>1, <1>2, AppendEntry DEF ClientInv, ClientTypes
<1>4. \A i \in 1 .. Len(clSendq') : clSendq'[i].op = "new" => i \in 1 .. Len(clSendq)
  BY <1>2, <1>3
<1>5. (Queued' <=> Queued) /\ (Held' <=> Held) /\ (Reported' <=> Reported)
  BY <1>1, <1>3, <1>4 DEF Queued, Held, Reported
<1>6. ClientTypes'
  BY <1>1, <1>3 DEF ClientInv, ClientTypes
<1>7. InOnePlace'
  <2>1. \A i, j \in 1 .. Len(clSendq') :
          clSendq'[i].op = "new" /\ clSendq'[j].op = "new" => i = j
    BY <1>3, <1>4 DEF ClientInv, InOnePlace
  <2>2. QED
    BY <1>1, <1>5, <2>1 DEF ClientInv, InOnePlace, Attempting
<1>8. OnlyCurrent' /\ Attempt' /\ NoCarryOver'
  <2>1. \A i \in 1 .. Len(clSendq') : clSendq'[i].op = "new" => clSendq'[i].s = clFd'
    BY <1>1, <1>3, <1>4 DEF ClientInv, OnlyCurrent
  <2>2. QED
    BY <1>1, <1>5, <2>1 DEF ClientInv, OnlyCurrent, HasSocket, Attempt, NoCarryOver
<1>9. SentOnIt'
  <2>1. Queued \/ Held => m.current = file[clFd]
    BY <1>2 DEF Current, ClientInv, OnlyCurrent, HasSocket
  <2>2. SUFFICES ASSUME NEW i \in 1 .. Len(clSendq'), clSendq'[i].op = "message"
                 PROVE  /\ Held => clSendq'[i].current = file[clFd]
                        /\ \A j \in 1 .. Len(clSendq') :
                             j < i /\ clSendq'[j].op = "new" => clSendq'[i].current = file[clFd]
    BY <1>1, <1>5 DEF SentOnIt
  <2>3. CASE i = Len(clSendq) + 1
    BY <1>3, <1>4, <2>1, <2>3 DEF Queued
  <2>4. CASE i \in 1 .. Len(clSendq)
    BY <1>3, <1>4, <2>2, <2>4 DEF ClientInv, SentOnIt
  <2>5. QED
    BY <1>3, <2>3, <2>4
<1>10. QED
  BY <1>6, <1>7, <1>8, <1>9 DEF ClientInv

(* stop() joins the retry thread and signals the worker.                   *)
LEMMA DeleteStep ==
  ASSUME ClientInv, clDeleteWorker
  PROVE  ClientInv'
<1>1. /\ retry \in {"none", "done"} /\ retry' = "none" /\ program' = "delete" /\ wpc' \in WorkerStates
      /\ UNCHANGED <<clStop, clActive, clBusy, clFd, sendFd, file, made, owned, clSendq, clReadq, arrived>>
  BY DEF clDeleteWorker, Wake, WorkerStates, clientState, kernel, ClientInv, ClientTypes
<1>2. (Queued' <=> Queued) /\ (Held' <=> Held) /\ (Reported' <=> Reported)
  BY <1>1 DEF Queued, Held, Reported
<1>3. ClientTypes'
  BY <1>1 DEF ClientInv, ClientTypes
<1>4. InOnePlace'
  BY <1>1, <1>2 DEF ClientInv, InOnePlace, Attempting
<1>5. OnlyCurrent' /\ Attempt' /\ SentOnIt' /\ NoCarryOver'
  BY <1>1, <1>2 DEF ClientInv, OnlyCurrent, HasSocket, Attempt, SentOnIt, NoCarryOver
<1>6. QED
  BY <1>3, <1>4, <1>5 DEF ClientInv

(* stop() closes what is left and leaves nothing.                          *)
LEMMA EndStep ==
  ASSUME ClientInv, clEndStop
  PROVE  ClientInv'
<1>1. /\ owned' = [s \in ClientFds |-> FALSE]
      /\ clSendq' = <<>> /\ clReadq' = <<>> /\ clFd' = NoFd
      /\ retry' = "none" /\ program' = "end"
      /\ UNCHANGED <<clStop, clActive, clBusy, sendFd, made, wpc, arrived>>
  BY DEF clEndStop, ClientInv, Attempt
<1>2. file' \in [ClientFds -> Nat] /\ \A s \in ClientFds : file'[s] = 0
  BY DEF clEndStop, SafeClose, ClientInv, ClientTypes, OnlyCurrent
<1>3. ~Queued' /\ ~Held' /\ ~Reported'
  BY <1>1 DEF Queued, Held, Reported
<1>4. ClientTypes'
  BY <1>1, <1>2 DEF ClientInv, ClientTypes
<1>5. InOnePlace' /\ OnlyCurrent' /\ Attempt' /\ SentOnIt' /\ NoCarryOver'
  BY <1>1, <1>2, <1>3 DEF ClientInv, InOnePlace, OnlyCurrent, Attempt, SentOnIt, NoCarryOver
<1>6. QED
  BY <1>4, <1>5 DEF ClientInv

(* The head of the retry loop.                                             *)
LEMMA RetryLoopStep ==
  ASSUME ClientInv, retryLoop
  PROVE  ClientInv'
<1>1. /\ retry = "loop" /\ UNCHANGED <<clStop, clActive, clBusy, program, sendFd, made, owned,
                                       clReadq, arrived>>
      /\ ~Queued /\ ~Held /\ ~Reported
  BY DEF retryLoop, ClientInv, InOnePlace, Attempting
<1>2. CASE ~clStop /\ ~clActive
  <2>1. /\ file' = SafeClose(file, clFd) /\ clFd' = NoFd /\ retry' = "sleep" /\ clSendq' = clSendq
        /\ wpc' = wpc
    BY <1>2 DEF retryLoop
  <2>2. file' \in [ClientFds -> Nat] /\ \A s \in ClientFds : file'[s] = 0
    BY <2>1 DEF SafeClose, ClientInv, ClientTypes, OnlyCurrent
  <2>3. ~Queued' /\ ~Held' /\ ~Reported'
    BY <1>1, <2>1 DEF Queued, Held, Reported
  <2>4. ClientTypes'
    BY <1>1, <2>1, <2>2 DEF ClientInv, ClientTypes
  <2>5. InOnePlace' /\ Attempt' /\ NoCarryOver'
    BY <1>1, <1>2, <2>1, <2>3 DEF ClientInv, InOnePlace, Attempt, NoCarryOver
  <2>6. OnlyCurrent' /\ SentOnIt'
    BY <2>2, <2>3 DEF OnlyCurrent, SentOnIt, Queued, Held
  <2>7. QED
    BY <2>4, <2>5, <2>6 DEF ClientInv
<1>3. CASE clActive
  <2>1. addSocket(clFd') /\ retry' = "done" /\ UNCHANGED <<file, clFd>> /\ HasSocket
    BY <1>1, <1>3 DEF retryLoop, ClientInv, Attempt
  <2>2. /\ clSendq' \in Seq(Entry) /\ wpc' \in WorkerStates
        /\ Queued' /\ ~Held' /\ ~Reported'
        /\ \A i, j \in 1 .. Len(clSendq') :
             clSendq'[i].op = "new" /\ clSendq'[j].op = "new" => i = j
        /\ \A i \in 1 .. Len(clSendq') : clSendq'[i].op = "new" => clSendq'[i].s = clFd'
        /\ SentOnIt'
    BY <1>1, <2>1, SocketQueued DEF HasSocket
  <2>3. ClientTypes'
    BY <1>1, <2>1, <2>2 DEF ClientInv, ClientTypes
  <2>4. InOnePlace'
    BY <1>1, <1>3, <2>1, <2>2 DEF ClientInv, InOnePlace, Attempting
  <2>5. OnlyCurrent' /\ Attempt' /\ NoCarryOver'
    BY <1>1, <2>1, <2>2 DEF ClientInv, OnlyCurrent, HasSocket, Held, Attempt, NoCarryOver
  <2>6. QED
    BY <2>2, <2>3, <2>4, <2>5 DEF ClientInv
<1>4. CASE clStop /\ ~clActive
  <2>1. retry' = "done" /\ UNCHANGED <<file, clFd, clSendq, wpc>>
    BY <1>4 DEF retryLoop
  <2>2. ~Queued' /\ ~Held' /\ ~Reported'
    BY <1>1, <2>1 DEF Queued, Held, Reported
  <2>3. ClientTypes'
    BY <1>1, <2>1 DEF ClientInv, ClientTypes
  <2>4. InOnePlace' /\ OnlyCurrent' /\ Attempt' /\ SentOnIt' /\ NoCarryOver'
    BY <1>1, <2>1, <2>2
       DEF ClientInv, InOnePlace, OnlyCurrent, Attempt, SentOnIt, NoCarryOver, Queued
  <2>5. QED
    BY <2>3, <2>4 DEF ClientInv
<1>5. QED
  BY <1>2, <1>3, <1>4 DEF ClientInv, ClientTypes

(* One attempt of the retry thread to connect.                             *)
LEMMA AttemptStep ==
  ASSUME ClientInv,
         connectServer \/ NoAttempt \/ \E ok \in BOOLEAN : Connecting(ok)
  PROVE  ClientInv'
<1>1. /\ UNCHANGED <<clStop, program, sendFd, owned, wpc, clSendq, clReadq, arrived>>
      /\ clBusy' \in BOOLEAN /\ clActive' \in BOOLEAN
      /\ ~Queued /\ ~Held /\ ~Reported
  BY DEF connectServer, NoAttempt, Connecting, ClientInv, ClientTypes, InOnePlace, Attempting
<1>2. ~Queued' /\ ~Held' /\ ~Reported'
  BY <1>1 DEF Queued, Held, Reported
<1>3. /\ file' \in [ClientFds -> Nat] /\ made' \in Nat
      /\ clFd' \in ClientFds \cup {NoFd}
      /\ \A s \in ClientFds : file'[s] # 0 => s = clFd'
      /\ \/ retry' = "connecting" /\ HasSocket' /\ ~clActive'
         \/ retry' = "loop" /\ ~clActive'
         \/ retry' = "loop" /\ HasSocket'
  <2>1. CASE connectServer
    <3>1. \A s \in ClientFds : file[s] = 0
      BY <2>1, SocketClientAssumption DEF connectServer, ClientInv, Attempt, OnlyCurrent, NoFd
    <3>2. CreateSocket /\ retry' = "connecting" /\ ~clActive'
      BY <2>1 DEF connectServer, ClientInv, Attempt
    <3>3. QED
      BY <3>1, <3>2, SocketCreated DEF HasSocket
  <2>2. CASE NoAttempt
    <3>1. /\ UNCHANGED <<file, made>> /\ retry' = "loop" /\ ~clActive'
          /\ clFd = NoFd /\ clFd' = NoFd
      BY <2>2 DEF NoAttempt, kernel, ClientInv, Attempt
    <3>2. QED
      BY <3>1 DEF ClientInv, ClientTypes, OnlyCurrent
  <2>3. CASE \E ok \in BOOLEAN : Connecting(ok)
    BY <2>3 DEF Connecting, kernel, ClientInv, ClientTypes, OnlyCurrent, Attempt, HasSocket
  <2>4. QED
    BY <2>1, <2>2, <2>3
<1>4. program \notin {"new", "delete", "end"}
  BY DEF connectServer, NoAttempt, Connecting, ClientInv, Attempt
<1>5. ClientTypes'
  BY <1>1, <1>3 DEF ClientInv, ClientTypes
<1>6. InOnePlace'
  BY <1>1, <1>2 DEF ClientInv, InOnePlace
<1>7. OnlyCurrent' /\ SentOnIt'
  BY <1>2, <1>3 DEF OnlyCurrent, SentOnIt, Queued, Held
<1>8. Attempt' /\ NoCarryOver'
  BY <1>1, <1>3, <1>4 DEF ClientInv, Attempt, NoCarryOver
<1>9. QED
  BY <1>5, <1>6, <1>7, <1>8 DEF ClientInv

(* The worker takes an entry: it registers the socket, or writes a message *)
(* to the one it holds.                                                    *)
LEMMA WorkerStep ==
  ASSUME ClientInv, clWorker
  PROVE  ClientInv'
<1> DEFINE m == Head(clSendq)
<1>1. /\ program # "end" /\ clSendq # <<>> /\ clSendq' = Tail(clSendq)
      /\ UNCHANGED <<clStop, clActive, clBusy, clFd, retry, program, sendFd, file, made, wpc>>
  BY DEF clWorker, Taken, clientState, kernel, ClientInv, Attempt
<1>2. /\ clSendq' \in Seq(Entry) /\ m \in Entry /\ m = clSendq[1]
      /\ Len(clSendq) \in Nat \ {0} /\ Len(clSendq') = Len(clSendq) - 1
      /\ \A i \in 1 .. Len(clSendq') : clSendq'[i] = clSendq[i + 1] /\ i + 1 \in 1 .. Len(clSendq)
  BY <1>1, TailEntries DEF ClientInv, ClientTypes
<1>3. \A i, j \in 1 .. Len(clSendq') : clSendq'[i].op = "new" /\ clSendq'[j].op = "new" => i = j
  <2>1. \A i, j \in 1 .. Len(clSendq) : clSendq[i].op = "new" /\ clSendq[j].op = "new" => i = j
    BY DEF ClientInv, InOnePlace
  <2>2. SUFFICES ASSUME NEW i \in 1 .. Len(clSendq'), NEW j \in 1 .. Len(clSendq'),
                        clSendq[i + 1].op = "new", clSendq[j + 1].op = "new"
                 PROVE  i = j
    BY <1>2
  <2>3. i + 1 = j + 1
    BY <1>2, <2>1, <2>2
  <2>4. QED
    BY <1>2, <2>3
<1>4. \A i \in 1 .. Len(clSendq') : clSendq'[i].op = "new" => clSendq'[i].s = clFd'
  BY <1>1, <1>2 DEF ClientInv, OnlyCurrent
<1>5. CASE /\ m.op = "new"
           /\ owned' = [owned EXCEPT ![m.s] = TRUE]
           /\ clReadq' = Append(clReadq, [op |-> "establish", s |-> m.s])
           /\ UNCHANGED arrived
  <2>1. Queued /\ m.s = clFd /\ HasSocket /\ ~Held /\ ~Reported /\ clActive /\ ~Attempting
    BY <1>2, <1>5 DEF Queued, ClientInv, InOnePlace, OnlyCurrent
  <2>2. /\ owned' \in [ClientFds -> BOOLEAN] /\ Held'
        /\ \A s \in ClientFds : owned'[s] => s = clFd
    BY <1>5, <2>1 DEF Held, HasSocket, ClientInv, ClientTypes
  <2>3. clReadq' \in Seq(Event) /\ ~Reported'
    <3> DEFINE e == [op |-> "establish", s |-> m.s]
    <3>1. e \in Event /\ e.op = "establish"
      BY <2>1 DEF Event, HasSocket
    <3> HIDE DEF e
    <3>2. clReadq \in Seq(Event) /\ clReadq' = Append(clReadq, e)
      BY <1>5 DEF ClientInv, ClientTypes, e
    <3>3. QED
      BY <2>1, <3>1, <3>2, AppendEntry DEF Reported
  <2>4. ~Queued'
    <3>1. \A i \in 1 .. Len(clSendq) : clSendq[i].op = "new" => i = 1
      BY <1>2, <1>5 DEF ClientInv, InOnePlace
    <3>2. QED
      BY <1>2, <3>1 DEF Queued
  <2>5. SentOnIt'
    <3>1. \A i \in 1 .. Len(clSendq) :
            clSendq[i].op = "message" /\ 1 < i => clSendq[i].current = file[clFd]
      BY <1>2, <1>5 DEF ClientInv, SentOnIt
    <3>2. \A i \in 1 .. Len(clSendq') :
            clSendq'[i].op = "message" => clSendq'[i].current = file[clFd]
      BY <1>2, <3>1
    <3>3. QED
      BY <1>1, <3>2 DEF SentOnIt
  <2>6. ClientTypes'
    BY <1>1, <1>2, <2>2, <2>3 DEF ClientInv, ClientTypes
  <2>7. InOnePlace'
    <3>1. \A i, j \in 1 .. Len(clReadq') :
            clReadq'[i].op = "close" /\ clReadq'[j].op = "close" => i = j
      BY <2>3 DEF Reported
    <3>2. QED
      BY <1>1, <1>3, <2>1, <2>2, <2>3, <2>4, <3>1 DEF InOnePlace, Attempting
  <2>8. OnlyCurrent'
    BY <1>1, <1>4, <2>1, <2>2 DEF ClientInv, OnlyCurrent, HasSocket
  <2>9. Attempt' /\ NoCarryOver'
    BY <1>1, <1>5 DEF ClientInv, Attempt, NoCarryOver, HasSocket
  <2>10. QED
    BY <2>5, <2>6, <2>7, <2>8, <2>9 DEF ClientInv
<1>6. CASE /\ m.op = "message"
           /\ arrived' = arrived \cup {<<m.current, file[s]>> :
                            s \in {t \in ClientFds : owned[t] /\ (m.s = t \/ m.s = NoFd)}}
           /\ UNCHANGED <<owned, clReadq>>
  <2>1. (Queued' => Queued) /\ (Held' <=> Held) /\ (Reported' <=> Reported)
    BY <1>2, <1>6 DEF Queued, Held, Reported
  <2>2. \A s \in ClientFds : owned[s] => m.current = file[s]
    BY <1>2, <1>6 DEF Held, ClientInv, OnlyCurrent, SentOnIt
  <2>3. NoCarryOver'
    BY <1>6, <2>2 DEF ClientInv, NoCarryOver
  <2>4. SentOnIt'
    <3>1. SUFFICES ASSUME NEW i \in 1 .. Len(clSendq'), clSendq[i + 1].op = "message"
                   PROVE  /\ Held => clSendq[i + 1].current = file[clFd]
                          /\ \A j \in 1 .. Len(clSendq') :
                               j < i /\ clSendq[j + 1].op = "new"
                                 => clSendq[i + 1].current = file[clFd]
      BY <1>1, <1>2, <2>1 DEF SentOnIt
    <3>2. \A j \in 1 .. Len(clSendq') : j < i => j + 1 < i + 1 /\ j + 1 \in 1 .. Len(clSendq)
      BY <1>2
    <3>3. QED
      BY <1>2, <3>1, <3>2 DEF ClientInv, SentOnIt
  <2>5. ClientTypes'
    BY <1>1, <1>2, <1>6 DEF ClientInv, ClientTypes
  <2>6. InOnePlace'
    BY <1>1, <1>3, <1>6, <2>1 DEF ClientInv, InOnePlace, Attempting
  <2>7. OnlyCurrent' /\ Attempt'
    BY <1>1, <1>4, <1>6, <2>1 DEF ClientInv, OnlyCurrent, Attempt, HasSocket
  <2>8. QED
    BY <2>3, <2>4, <2>5, <2>6, <2>7 DEF ClientInv
<1>7. QED
  BY <1>5, <1>6 DEF clWorker, Taken

(* The connection ends: the worker closes the socket and reports it.       *)
LEMMA RemoveStep ==
  ASSUME ClientInv, NEW s \in ClientFds, removeOwned(s)
  PROVE  ClientInv'
<1>1. /\ owned[s] /\ program # "end" /\ wpc' \in WorkerStates
      /\ owned' = [owned EXCEPT ![s] = FALSE] /\ file' = [file EXCEPT ![s] = 0]
      /\ clReadq' = Append(clReadq, [op |-> "close", s |-> s])
      /\ UNCHANGED <<clStop, clActive, clBusy, clFd, retry, program, sendFd, made, clSendq, arrived>>
  BY DEF removeOwned, clientState, Wake, WorkerStates, Held, ClientInv, ClientTypes, Attempt
<1>2. s = clFd /\ Held /\ ~Queued /\ ~Reported /\ clActive /\ ~Attempting
  BY <1>1 DEF Held, ClientInv, InOnePlace, OnlyCurrent
<1>3. /\ owned' \in [ClientFds -> BOOLEAN] /\ file' \in [ClientFds -> Nat]
      /\ ~Held' /\ ~Queued' /\ \A t \in ClientFds : file'[t] = 0
  BY <1>1, <1>2 DEF ClientInv, ClientTypes, OnlyCurrent, Held, Queued
<1>4. /\ clReadq' \in Seq(Event)
      /\ \A i, j \in 1 .. Len(clReadq') :
           clReadq'[i].op = "close" /\ clReadq'[j].op = "close" => i = j
  <2> DEFINE e == [op |-> "close", s |-> s]
  <2>1. e \in Event
    BY DEF Event
  <2> HIDE DEF e
  <2>2. clReadq \in Seq(Event) /\ clReadq' = Append(clReadq, e)
    BY <1>1 DEF ClientInv, ClientTypes, e
  <2>3. QED
    BY <1>2, <2>1, <2>2, AppendEntry DEF Reported
<1>5. ClientTypes'
  BY <1>1, <1>3, <1>4 DEF ClientInv, ClientTypes
<1>6. InOnePlace'
  BY <1>1, <1>2, <1>3, <1>4 DEF ClientInv, InOnePlace, Attempting
<1>7. OnlyCurrent' /\ SentOnIt'
  BY <1>3 DEF OnlyCurrent, SentOnIt, Queued, Held
<1>8. Attempt' /\ NoCarryOver'
  BY <1>1, <1>2 DEF ClientInv, Attempt, NoCarryOver, Attempting
<1>9. QED
  BY <1>5, <1>6, <1>7, <1>8 DEF ClientInv

(* The steps of the worker's loop in between.                              *)
LEMMA LoopStep ==
  ASSUME ClientInv, workerLoop \/ workerPoll \/ workerEvent
  PROVE  ClientInv'
<1>1. /\ wpc' \in WorkerStates
      /\ UNCHANGED <<clStop, clActive, clBusy, clFd, retry, program, sendFd, file, made, owned,
                     clSendq, clReadq, arrived>>
  BY DEF workerLoop, workerPoll, workerEvent, WorkerElse, WorkerStates, clientState, kernel
<1>2. ClientTypes'
  BY <1>1 DEF ClientInv, ClientTypes
<1>3. InOnePlace' /\ OnlyCurrent' /\ Attempt' /\ SentOnIt' /\ NoCarryOver'
  BY <1>1 DEF ClientInv, InOnePlace, OnlyCurrent, Attempt, SentOnIt, NoCarryOver,
              Queued, Held, Reported, Attempting, HasSocket
<1>4. QED
  BY <1>2, <1>3 DEF ClientInv
-----------------------------------------------------------------------------
(* The theorems.                                                           *)

(* ClientInv is an invariant.                                              *)
THEOREM ClientInvariant == SocketClientSpec => []ClientInv
<1>1. SocketClientInit => ClientInv
  BY ClientInitInv
<1>2. ASSUME ClientInv, [SocketClientNext]_clVars
      PROVE  ClientInv'
  <2>1. CASE \E ok \in BOOLEAN : clConnect(ok)
    BY <1>2, <2>1, ConnectStep
  <2>2. CASE clConnectAsync \/ clSendRead \/ clBeginStop
    BY <1>2, <2>2, ProgramStep
  <2>3. CASE clReceive
    BY <1>2, <2>3, ReceiveStep
  <2>4. CASE clSendPush
    BY <1>2, <2>4, SendStep
  <2>5. CASE clDeleteWorker \/ clEndStop
    BY <1>2, <2>5, DeleteStep, EndStep
  <2>6. CASE clRetry
    BY <1>2, <2>6, RetryLoopStep, AttemptStep DEF clRetry
  <2>7. CASE clWorker \/ workerLoop \/ workerPoll \/ workerEvent
    BY <1>2, <2>7, WorkerStep, LoopStep
  <2>8. CASE \E s \in ClientFds : removeOwned(s)
    BY <1>2, <2>8, RemoveStep
  <2>9. CASE UNCHANGED clVars
    <3>1. UNCHANGED <<clStop, clActive, clBusy, clFd, retry, program, sendFd, file, made, owned,
                      wpc, clSendq, clReadq, arrived>>
      BY <2>9 DEF clVars, clientState, kernel
    <3>2. ClientTypes'
      BY <1>2, <3>1 DEF ClientInv, ClientTypes
    <3>3. InOnePlace' /\ OnlyCurrent' /\ Attempt' /\ SentOnIt' /\ NoCarryOver'
      BY <1>2, <3>1 DEF ClientInv, InOnePlace, OnlyCurrent, Attempt, SentOnIt, NoCarryOver,
                        Queued, Held, Reported, Attempting, HasSocket
    <3>4. QED
      BY <3>2, <3>3 DEF ClientInv
  <2>10. QED
    BY <1>2, <2>1, <2>2, <2>3, <2>4, <2>5, <2>6, <2>7, <2>8, <2>9 DEF SocketClientNext
<1>3. QED
  BY <1>1, <1>2, PTL DEF SocketClientSpec

(* A client has at most one socket open, its worker has no other, and a    *)
(* stopped client has none: no descriptor leaks, however often the         *)
(* connection is lost and made again and whichever call stop() interrupts. *)
THEOREM ClientOneSocket == SocketClientSpec => []OneSocket
<1>1. ClientInv => OneSocket
  <2>1. SUFFICES ASSUME ClientInv PROVE OneSocket
    OBVIOUS
  <2>2. \A s \in ClientFds : owned[s] => file[s] # 0
    BY <2>1 DEF ClientInv, OnlyCurrent, Held, HasSocket
  <2>3. program = "end" => \A s \in ClientFds : file[s] = 0
    <3>1. \A s \in ClientFds : file[s] # 0 => s = clFd
      BY <2>1 DEF ClientInv, OnlyCurrent
    <3>2. program = "end" => clFd = NoFd
      BY <2>1 DEF ClientInv, Attempt
    <3>3. NoFd \notin ClientFds
      BY SocketClientAssumption DEF NoFd
    <3>4. QED
      BY <3>1, <3>2, <3>3
  <2>4. QED
    BY <2>1, <2>2, <2>3 DEF ClientInv, OnlyCurrent, OneSocket
<1>2. QED
  BY <1>1, ClientInvariant, PTL

(* A message never reaches another connection than the one that was        *)
(* current when sendMessage queued it, for any number of reconnections,    *)
(* although descriptor numbers are reused and -1 means every connection.   *)
THEOREM ClientNoCarryOver == SocketClientSpec => []NoCarryOver
<1>1. ClientInv => NoCarryOver
  BY DEF ClientInv
<1>2. QED
  BY <1>1, ClientInvariant, PTL
=============================================================================
