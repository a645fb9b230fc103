---------------------------- MODULE MCConnections ----------------------------
(***************************************************************************)
(* What is built on a connection: its sending half, the client that keeps  *)
(* one alive, the FastCGI server, and the record server with its clients.  *)
(* These models share no state; a behaviour picks one of them and is a     *)
(* fair behaviour of it, the others stay as they begin.                    *)
(***************************************************************************)
EXTENDS SocketStream, SocketClient, CgiServer, RecordSystem

CONSTANTS c1, c2
VARIABLE part

OwnIds == [s \in CgiFds |-> s]
SharedId == [s \in CgiFds |-> 1]

(* What the clients ask: one client of several slots, two clients, and the *)
(* kinds of request that change no record.                                 *)
Of(c, n, k, sh, o, l) == [client |-> c, number |-> n, kind |-> k, shard |-> sh, objectid |-> o, legal |-> l]
ProgramsDef == {
  {Of(c1, 1, "serialize", 10, 2, TRUE), Of(c1, 2, "serialize", 10, 4, TRUE), Of(c1, 3, "serialize", 10, 1, TRUE)},
  {Of(c1, 1, "serialize", 10, 2, TRUE), Of(c2, 1, "delete", 10, 2, TRUE), Of(c2, 2, "serialize", 11, 1, TRUE)},
  {Of(c1, 1, "alter", 10, 2, TRUE), Of(c1, 2, "unserialize", 10, 2, TRUE), Of(c1, 3, "select", 10, 2, TRUE)},
  {}}

connectionVars == <<part, vars, clVars, cgiVars, recordVars>>

ConnectionsInit ==
  /\ part \in {"stream", "client", "cgi", "record"}
  /\ Init /\ SocketClientInit /\ CgiInit /\ RecordSystemInit
  /\ part # "record" => calls = {}

ConnectionsNext ==
  /\ UNCHANGED part
  /\ \/ part = "stream" /\ Next /\ UNCHANGED <<clVars, cgiVars, recordVars>>
     \/ part = "client" /\ SocketClientNext /\ UNCHANGED <<vars, cgiVars, recordVars>>
     \/ part = "cgi" /\ CgiNext /\ UNCHANGED <<vars, clVars, recordVars>>
     \/ part = "record" /\ RecordSystemNext /\ UNCHANGED <<vars, clVars, cgiVars>>

(* The worker's loop runs, and the peer keeps reading.                     *)
StreamFairness ==
  /\ WF_vars(part = "stream" /\ Flush) /\ WF_vars(part = "stream" /\ Writable)
  /\ WF_vars(part = "stream" /\ PeerReads)

(* Threads run; the program keeps receiving and finishes what it began.    *)
ClientFairness ==
  /\ WF_clVars(part = "client" /\ clRetry)
  /\ WF_clVars(part = "client" /\ (workerLoop \/ clWorker \/ workerPoll))
  /\ WF_clVars(part = "client" /\ clReceive) /\ WF_clVars(part = "client" /\ clSendPush)
  /\ WF_clVars(part = "client" /\ (clDeleteWorker \/ clEndStop))

(* The thread that serves requests keeps calling.                          *)
CgiFairness ==
  /\ WF_cgiVars(part = "cgi" /\ getRequest) /\ WF_cgiVars(part = "cgi" /\ getCompleteRequest)
  /\ WF_cgiVars(part = "cgi" /\ \E r \in held : CgiSend(r))
  /\ WF_cgiVars(part = "cgi" /\ \E r \in held : releaseRequest(r))

(* The main loop and the slots' threads run for ever and the client's      *)
(* program keeps calling update; nothing forces a call, a drop or a halt,  *)
(* and nothing is assumed of the workers, whose signal may be lost.        *)
RecordFairness ==
  /\ WF_recordVars(part = "record" /\ \E c \in Clients : update(c))
  /\ WF_recordVars(part = "record" /\ ServiceUpdate)
  /\ WF_recordVars(part = "record" /\ ServiceStop) /\ WF_recordVars(part = "record" /\ ManagerStop)
  /\ \A k \in Slots : /\ WF_recordVars(part = "record" /\ ManagerUpdate(k))
                       /\ WF_recordVars(part = "record" /\ Execute(k))
                       /\ WF_recordVars(part = "record" /\ SlotStops(k))

ConnectionsSpec ==
  /\ ConnectionsInit /\ [][ConnectionsNext]_connectionVars
  /\ StreamFairness /\ ClientFairness /\ CgiFairness /\ RecordFairness
=============================================================================
