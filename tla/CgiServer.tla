------------------------------ MODULE CgiServer ------------------------------
(***************************************************************************)
(* The FastCGI server (src/src/socket/CgiServer.cpp).  One thread of the   *)
(* application calls getRequest, answers with send and ends with           *)
(* releaseRequest; web servers open connections and send the records of a  *)
(* request, one request at a time.  The SocketServer underneath is the     *)
(* queue `events` of what receiveMessage returns, in order, the table      *)
(* `webLink` of the connection that holds a descriptor, and, for each      *)
(* descriptor, what the queue of its worker (s % workers) has for it:      *)
(* sendMessage and close only put something there, and a worker that has   *)
(* missed the signal comes to it late or never (lost_wakeup).              *)
(*                                                                         *)
(* A request collects, in `from`, the (connection, serial) pairs whose     *)
(* records it was made of: what the code does not keep.                    *)
(***************************************************************************)
EXTENDS Integers, Sequences, FiniteSets

CONSTANTS
  CgiFds,        \* descriptors
  IdOf,          \* IdOf[s]: the request id a web server uses on s
  MaxCgiConns,   \* bound: connections opened
  MaxSerial,     \* bound: requests on a connection
  MaxEvents      \* bound: records the SocketServer has not handed over

ASSUME CgiAssumption == IdOf \in [CgiFds -> Nat \ {0}] /\ {MaxCgiConns, MaxSerial, MaxEvents} \subseteq Nat

VARIABLES
  webLink,   \* per descriptor: [conn, serial, sent], conn 0 when it is free
  conns,     \* connections opened so far
  broken,    \* descriptors a connection has left in the middle of a request
  events,    \* what the SocketServer has for receiveMessage
  outq,      \* per descriptor: answers and closes its worker has not handled
  requests,  \* _requests
  held,      \* the requests the application has, unanswered or answered
  replies,   \* answers: the request's tag, its descriptor, the connection that got it
  aborted    \* an assertion has failed

cgiVars == <<webLink, conns, broken, events, outq, requests, held, replies, aborted>>

NoLink == [conn |-> 0, serial |-> 0, sent |-> 0]
Ids == {IdOf[s] : s \in CgiFds}
NoRequest == [id |-> 0, fd |-> -1, paramsDone |-> FALSE, stdinDone |-> FALSE, from |-> {}, answered |-> FALSE]

(* The records of a request, in the order a web server sends them; those   *)
(* with content (PARAMS, STDIN) only add headers to the request.           *)
Script == <<"BEGIN_REQUEST", "PARAMS_END", "STDIN_END">>

CgiInit ==
  /\ webLink = [s \in CgiFds |-> NoLink] /\ conns = 0 /\ broken = {}
  /\ events = <<>> /\ outq = [s \in CgiFds |-> <<>>]
  /\ requests = [i \in Ids |-> NoRequest]
  /\ held = {} /\ replies = {} /\ aborted = FALSE

-----------------------------------------------------------------------------
(* The web servers.                                                        *)
CgiConnect(s) ==
  /\ conns < MaxCgiConns /\ webLink[s] = NoLink
  /\ conns' = conns + 1
  /\ webLink' = [webLink EXCEPT ![s] = [conn |-> conns + 1, serial |-> 1, sent |-> 0]]
  /\ events' = Append(events, [fd |-> s, type |-> "ESTABLISH", tag |-> <<conns + 1, 1>>])
  /\ UNCHANGED <<broken, outq, requests, held, replies, aborted>>

(* Record after record; an abort, which the server has no case for; or a   *)
(* role other than RESPONDER in the first one.                             *)
CgiRecord(s) ==
  /\ webLink[s] # NoLink /\ webLink[s].sent < Len(Script) /\ Len(events) < MaxEvents
  /\ webLink' = [webLink EXCEPT ![s].sent = @ + 1]
  /\ \E type \in {Script[webLink[s].sent + 1]} \cup (IF webLink[s].sent = 0 THEN {"FILTER"} ELSE {"ABORT_REQUEST"}) :
       events' = Append(events, [fd |-> s, type |-> type, tag |-> <<webLink[s].conn, webLink[s].serial>>])
  /\ UNCHANGED <<conns, broken, outq, requests, held, replies, aborted>>

Answered(c, n, s) == [tag |-> <<c, n>>, fd |-> s, to |-> c] \in replies

(* The next request on the connection, once this one is answered.          *)
CgiNextRequest(s) ==
  /\ webLink[s].sent = Len(Script) /\ webLink[s].serial < MaxSerial
  /\ Answered(webLink[s].conn, webLink[s].serial, s)
  /\ webLink' = [webLink EXCEPT ![s].serial = @ + 1, ![s].sent = 0]
  /\ UNCHANGED <<conns, broken, events, outq, requests, held, replies, aborted>>

Unfinished(s) == webLink[s].sent > 0 /\ ~Answered(webLink[s].conn, webLink[s].serial, s)

(* The connection of a descriptor ends; the events before that are q.      *)
Disconnect(s, q) ==
  IF webLink[s] = NoLink THEN events' = q /\ UNCHANGED <<webLink, broken>>
  ELSE /\ webLink' = [webLink EXCEPT ![s] = NoLink]
       /\ broken' = IF Unfinished(s) THEN broken \cup {s} ELSE broken
       /\ events' = Append(q, [fd |-> s, type |-> "CLOSE", tag |-> <<webLink[s].conn, webLink[s].serial>>])

CgiBreak(s) ==
  /\ webLink[s] # NoLink
  /\ Disconnect(s, events)
  /\ UNCHANGED <<conns, outq, requests, held, replies, aborted>>

-----------------------------------------------------------------------------
(* The worker of a descriptor.                                             *)

(* What sendMessage and close leave for it; `conn' is the connection at    *)
(* that moment, which the code does not keep.                              *)
Entry(kind, tags, s) == [kind |-> kind, tags |-> tags, conn |-> webLink[s].conn]
Push(s, e) == outq' = [outq EXCEPT ![s] = Append(@, e)]

(* It takes what was queued for s first: an answer goes to whoever has the *)
(* descriptor, a close ends that connection.                               *)
CgiWorker(s) ==
  /\ ~aborted /\ outq[s] # <<>>
  /\ outq' = [outq EXCEPT ![s] = Tail(@)]
  /\ LET e == Head(outq[s])
     IN IF e.kind = "close" THEN Disconnect(s, events) /\ UNCHANGED replies
        ELSE /\ replies' = IF webLink[s] = NoLink THEN replies
                           ELSE replies \cup {[tag |-> t, fd |-> s, to |-> webLink[s].conn] : t \in e.tags}
             /\ UNCHANGED <<webLink, broken, events>>
  /\ UNCHANGED <<conns, requests, held, aborted>>

-----------------------------------------------------------------------------
requestid(s) == IdOf[s]

(* beginRequest, readParams, readStdin, readData: the request a record     *)
(* leaves, and the records that are refused.                               *)
Refused(type) == type \in {"FILTER", "ABORT_REQUEST"}

(* Fault: the empty record that ends STDIN is read as data.                *)
ReadStdinAsData(r, e) == [r EXCEPT !.paramsDone = @ \/ e.type = "PARAMS_END", !.from = @ \cup {e.tag}]

Read(r, e) == [r EXCEPT !.paramsDone = @ \/ e.type = "PARAMS_END",
                        !.stdinDone = @ \/ e.type = "STDIN_END",
                        !.from = @ \cup {e.tag}]

(* FindOrNull, or a new request on this descriptor.                        *)
FindOrNew(id, s) == IF requests[id] = NoRequest THEN [NoRequest EXCEPT !.id = id, !.fd = s] ELSE requests[id]

(* assert(request->fd() == s); a refused record releases the request,      *)
(* whose destructor closes the descriptor.                                 *)
parsePackage(e) ==
  LET r == FindOrNew(requestid(e.fd), e.fd)
  IN IF r.fd # e.fd
     THEN aborted' = TRUE /\ UNCHANGED <<outq, requests>>
     ELSE /\ requests' = [requests EXCEPT ![r.id] = IF Refused(e.type) THEN NoRequest ELSE Read(r, e)]
          /\ IF Refused(e.type) THEN Push(e.fd, Entry("close", {}, e.fd)) ELSE UNCHANGED outq
          /\ UNCHANGED aborted

(* One turn of the loop of getRequest.                                     *)
getRequest ==
  /\ ~aborted /\ events # <<>>
  /\ events' = Tail(events)
  /\ IF Head(events).type \in {"ESTABLISH", "CLOSE"} THEN UNCHANGED <<outq, requests, aborted>>
     ELSE parsePackage(Head(events))
  /\ UNCHANGED <<webLink, conns, broken, held, replies>>

Complete(r) == r.paramsDone /\ r.stdinDone

(* Fault: the request stays in the table.                                  *)
getCompleteRequestKeeps ==
  /\ ~aborted /\ events = <<>>
  /\ \E id \in Ids : Complete(requests[id]) /\ held' = held \cup {requests[id]}
  /\ UNCHANGED <<webLink, conns, broken, events, outq, requests, replies, aborted>>

getCompleteRequest ==
  /\ ~aborted /\ events = <<>>
  /\ \E id \in Ids :
       /\ Complete(requests[id])
       /\ held' = held \cup {requests[id]}
       /\ requests' = [requests EXCEPT ![id] = NoRequest]
  /\ UNCHANGED <<webLink, conns, broken, events, outq, replies, aborted>>

(* send: STDOUT records and END_REQUEST, one after the other into the      *)
(* queue of the worker.  They are one entry: a connection that leaves      *)
(* between two of them has left without its answer, as before the first.   *)
CgiSend(r) ==
  /\ ~aborted /\ ~r.answered
  /\ held' = (held \ {r}) \cup {[r EXCEPT !.answered = TRUE]}
  /\ Push(r.fd, Entry("message", r.from, r.fd))
  /\ UNCHANGED <<webLink, conns, broken, events, requests, replies, aborted>>

(* releaseRequest: the entry of the request's id goes, whose ever it is.   *)
releaseRequest(r) ==
  /\ ~aborted /\ r.answered
  /\ held' = held \ {r}
  /\ requests' = [requests EXCEPT ![r.id] = NoRequest]
  /\ Push(r.fd, Entry("close", {}, r.fd))
  /\ UNCHANGED <<webLink, conns, broken, events, replies, aborted>>

CgiNext ==
  \/ \E s \in CgiFds : CgiConnect(s) \/ CgiRecord(s) \/ CgiNextRequest(s) \/ CgiBreak(s) \/ CgiWorker(s)
  \/ getRequest \/ getCompleteRequest
  \/ \E r \in held : CgiSend(r) \/ releaseRequest(r)

CgiSpec == CgiInit /\ [][CgiNext]_cgiVars

-----------------------------------------------------------------------------
(* assert(request->fd() == s) of parsePackage: the records of a request    *)
(* come from one descriptor.  It holds while every connection has ids of   *)
(* its own, and fails when two connections use one id.                     *)
SameDescriptor == ~aborted

(* A request the application gets is the records of one request of one     *)
(* connection, and its answer, whenever the worker comes to it, reaches    *)
(* that connection, unless a connection on its descriptor was left in the  *)
(* middle of a request: requests of a lost connection stay in the table,   *)
(* and descriptors come back.                                              *)
MixedOnlyIfBroken ==
  /\ \A r \in held : Cardinality(r.from) = 1 \/ r.fd \in broken
  /\ \A a \in replies : a.to = a.tag[1] \/ a.fd \in broken

(* The worker of s has the answer to the request its connection waits for, *)
(* or is to close that connection.                                         *)
AtTheWorker(s) ==
  \E i \in DOMAIN outq[s] :
    LET e == outq[s][i]
    IN \/ <<webLink[s].conn, webLink[s].serial>> \in e.tags
       \/ e.kind = "close" /\ e.conn = webLink[s].conn

(* No request that has been sent completely is forgotten in the table: it  *)
(* is given to the application and its answer to the worker of its         *)
(* descriptor, or the connection ends or its close is with the worker.     *)
(* What the worker does with them is left open: lost_wakeup shows that it  *)
(* may sleep on them.  (A connection carries one request at a time, so it  *)
(* is enough that again and again none is left.)                           *)
CompleteIsAnswered ==
  \A s \in CgiFds :
    []<>(webLink[s].sent = Len(Script) =>
           Answered(webLink[s].conn, webLink[s].serial, s) \/ AtTheWorker(s))
=============================================================================
