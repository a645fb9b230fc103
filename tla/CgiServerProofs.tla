--------------------------- MODULE CgiServerProofs ---------------------------
(***************************************************************************)
(* MixedOnlyIfBroken of CgiServer for any number of descriptors and        *)
(* connections and any request ids, shared ones included, and              *)
(* SameDescriptor when every descriptor has an id of its own.              *)
(*                                                                         *)
(* As long as no connection on a descriptor was left in the middle of a    *)
(* request, everything the server has of that descriptor, in the queue, in *)
(* the table, unanswered in the application's hands or as an answer in the *)
(* queue of the worker, belongs to the one request its connection waits    *)
(* for: the connection sends nothing else until it has its answer, and it  *)
(* has its answer only when nothing of the request is left.                *)
(***************************************************************************)
EXTENDS CgiServer, FiniteSetTheorems, TLAPS

Tag == Nat \X Nat
EventTypes == {"ESTABLISH", "CLOSE", "BEGIN_REQUEST", "PARAMS_END", "STDIN_END", "FILTER", "ABORT_REQUEST"}
Event == [fd : CgiFds, type : EventTypes, tag : Tag]
Request == [id : Ids, fd : CgiFds, paramsDone : BOOLEAN, stdinDone : BOOLEAN, from : SUBSET Tag,
            answered : BOOLEAN]
QueueEntry == [kind : {"message", "close"}, tags : SUBSET Tag, conn : Nat]

CgiTypes ==
  /\ webLink \in [CgiFds -> [conn : Nat, serial : Nat, sent : Nat]]
  /\ conns \in Nat /\ events \in Seq(Event)
  /\ outq \in [CgiFds -> Seq(QueueEntry)]
  /\ requests \in [Ids -> Request \cup {NoRequest}]
  /\ held \subseteq Request
  /\ replies \subseteq [tag : Tag, fd : CgiFds, to : Nat]

(* A request in the table is under its own id and not answered.            *)
TableIds ==
  \A id \in Ids :
    requests[id] # NoRequest =>
      requests[id].id = id /\ IdOf[requests[id].fd] = id /\ ~requests[id].answered

(* Connections are numbered as they come.                                  *)
ConnsKnown ==
  /\ \A s \in CgiFds : webLink[s].conn <= conns
  /\ \A a \in replies : a.to <= conns

LinkTag(s) == <<webLink[s].conn, webLink[s].serial>>

(* The records of descriptor s in a queue.                                 *)
RecordOf(e, s) == e.fd = s /\ e.type \notin {"ESTABLISH", "CLOSE"}
NoneOf(q, s) == \A i \in DOMAIN q : ~RecordOf(q[i], s)

(* They belong to the request the connection waits for, and the end of     *)
(* STDIN is the last of them.                                              *)
Queued(q, s) ==
  \A i \in DOMAIN q :
    RecordOf(q[i], s) =>
      /\ Unfinished(s) /\ q[i].tag = LinkTag(s)
      /\ q[i].type = "STDIN_END" =>
           webLink[s].sent = 3 /\ \A j \in DOMAIN q : i < j => ~RecordOf(q[j], s)

(* So does what the table has of s ...                                     *)
Collected(s) ==
  \A id \in Ids :
    requests[id] # NoRequest /\ requests[id].fd = s =>
      /\ Unfinished(s) /\ requests[id].from = {LinkTag(s)}
      /\ requests[id].stdinDone => webLink[s].sent = 3 /\ NoneOf(events, s)

(* ... and the request the application has not answered, after which       *)
(* nothing of s is left.                                                   *)
Handed(s) ==
  \A r \in held :
    r.fd = s =>
      /\ \E t \in Tag : r.from = {t}
      /\ ~r.answered =>
           /\ Unfinished(s) /\ r.from = {LinkTag(s)} /\ webLink[s].sent = 3 /\ NoneOf(events, s)
           /\ \A id \in Ids : requests[id] # NoRequest => requests[id].fd # s
           /\ \A q \in held : q.fd = s /\ ~q.answered => q = r

(* The worker has no answer for s, ...                                     *)
NoAnswer(q) == \A i \in DOMAIN q : q[i].kind # "message"

(* ... or the one to that request, and nothing else of s is left.          *)
Answering(s) ==
  \A i \in DOMAIN outq[s] :
    outq[s][i].kind = "message" =>
      /\ Unfinished(s) /\ outq[s][i].tags = {LinkTag(s)} /\ webLink[s].sent = 3 /\ NoneOf(events, s)
      /\ \A id \in Ids : requests[id] # NoRequest => requests[id].fd # s
      /\ \A q \in held : q.fd = s => q.answered
      /\ \A j \in DOMAIN outq[s] : outq[s][j].kind = "message" => j = i

(* Answers go to the connection that asked, and only to requests it has    *)
(* sent completely.                                                        *)
Replied(s) ==
  \A a \in replies :
    a.fd = s =>
      /\ a.to = a.tag[1]
      /\ webLink[s] # NoLink /\ a.to = webLink[s].conn =>
           a.tag[2] < webLink[s].serial \/ (a.tag[2] = webLink[s].serial /\ webLink[s].sent = 3)

OneRequest(s) == s \notin broken => Queued(events, s) /\ Collected(s) /\ Handed(s) /\ Answering(s) /\ Replied(s)

CgiInv == CgiTypes /\ TableIds /\ ConnsKnown /\ \A s \in CgiFds : OneRequest(s)
-----------------------------------------------------------------------------
(* Queues.                                                                 *)

(* The records of s in q2 are records of q, in the same order.             *)
Fewer(q, q2, s) ==
  \A i, j \in DOMAIN q2 :
    RecordOf(q2[i], s) /\ RecordOf(q2[j], s) =>
      \E a, b \in DOMAIN q : q[a] = q2[i] /\ q[b] = q2[j] /\ (i < j => a < b)

LEMMA FewerTail ==
  ASSUME NEW q \in Seq(Event), q # <<>>, NEW s
  PROVE  Tail(q) \in Seq(Event) /\ Fewer(q, Tail(q), s)
<1>1. /\ Tail(q) \in Seq(Event) /\ Len(q) \in Nat
      /\ DOMAIN q = 1 .. Len(q) /\ DOMAIN Tail(q) = 1 .. Len(q) - 1
      /\ \A i \in 1 .. Len(q) - 1 : Tail(q)[i] = q[i + 1]
  OBVIOUS
<1>2. \A i \in DOMAIN Tail(q) : i + 1 \in DOMAIN q /\ q[i + 1] = Tail(q)[i]
  BY <1>1
<1>3. \A i, j \in DOMAIN Tail(q) : i < j => i + 1 < j + 1
  BY <1>1
<1>4. QED
  BY <1>1, <1>2, <1>3 DEF Fewer

LEMMA FewerAppend ==
  ASSUME NEW q \in Seq(Event), NEW e \in Event
  PROVE  /\ Append(q, e) \in Seq(Event)
         /\ Len(q) \in Nat /\ DOMAIN q = 1 .. Len(q) /\ DOMAIN Append(q, e) = 1 .. Len(q) + 1
         /\ Append(q, e)[Len(q) + 1] = e /\ \A i \in 1 .. Len(q) : Append(q, e)[i] = q[i]
         /\ \A s : ~RecordOf(e, s) => Fewer(q, Append(q, e), s)
<1>1. /\ Append(q, e) \in Seq(Event)
      /\ Len(q) \in Nat /\ DOMAIN q = 1 .. Len(q) /\ DOMAIN Append(q, e) = 1 .. Len(q) + 1
      /\ Append(q, e)[Len(q) + 1] = e /\ \A i \in 1 .. Len(q) : Append(q, e)[i] = q[i]
  OBVIOUS
<1>2. \A i \in DOMAIN Append(q, e) : (i \in DOMAIN q /\ q[i] = Append(q, e)[i]) \/ Append(q, e)[i] = e
  BY <1>1
<1>3. QED
  BY <1>1, <1>2 DEF Fewer

LEMMA FewerSame ==
  ASSUME NEW q, NEW s
  PROVE  Fewer(q, q, s)
BY DEF Fewer

LEMMA FewerTwice ==
  ASSUME NEW q, NEW q2, NEW q3, NEW s, Fewer(q, q2, s), Fewer(q2, q3, s)
  PROVE  Fewer(q, q3, s)
<1> SUFFICES ASSUME NEW i \in DOMAIN q3, NEW j \in DOMAIN q3, RecordOf(q3[i], s), RecordOf(q3[j], s)
             PROVE  \E a, b \in DOMAIN q : q[a] = q3[i] /\ q[b] = q3[j] /\ (i < j => a < b)
  BY DEF Fewer
<1>1. PICK c, d \in DOMAIN q2 : q2[c] = q3[i] /\ q2[d] = q3[j] /\ (i < j => c < d)
  BY DEF Fewer
<1>2. PICK a, b \in DOMAIN q : q[a] = q2[c] /\ q[b] = q2[d] /\ (c < d => a < b)
  BY <1>1 DEF Fewer
<1>3. QED
  BY <1>1, <1>2

LEMMA FewerQueued ==
  ASSUME NEW q, NEW q2, NEW s, Fewer(q, q2, s)
  PROVE  (Queued(q, s) => Queued(q2, s)) /\ (NoneOf(q, s) => NoneOf(q2, s))
<1>1. NoneOf(q, s) => NoneOf(q2, s)
  BY DEF NoneOf, Fewer
<1>2. ASSUME Queued(q, s), NEW i \in DOMAIN q2, RecordOf(q2[i], s)
      PROVE  /\ Unfinished(s) /\ q2[i].tag = LinkTag(s)
             /\ q2[i].type = "STDIN_END" =>
                  webLink[s].sent = 3 /\ \A j \in DOMAIN q2 : i < j => ~RecordOf(q2[j], s)
  <2>1. PICK a \in DOMAIN q : q[a] = q2[i]
    BY <1>2 DEF Fewer
  <2>2. Unfinished(s) /\ q2[i].tag = LinkTag(s) /\ (q2[i].type = "STDIN_END" => webLink[s].sent = 3)
    BY <1>2, <2>1 DEF Queued
  <2>3. ASSUME q2[i].type = "STDIN_END", NEW j \in DOMAIN q2, i < j, RecordOf(q2[j], s)
        PROVE  FALSE
    <3>1. PICK c, d \in DOMAIN q : q[c] = q2[i] /\ q[d] = q2[j] /\ c < d
      BY <1>2, <2>3 DEF Fewer
    <3>2. QED
      BY <1>2, <2>3, <3>1 DEF Queued
  <2>4. QED
    BY <2>2, <2>3
<1>3. QED
  BY <1>1, <1>2 DEF Queued
-----------------------------------------------------------------------------
(* What a step does to the descriptors it is not about.                    *)

(* The answers in a worker's queue q2 are answers of q.                    *)
NoMore(q, q2) ==
  \A i, j \in DOMAIN q2 :
    q2[i].kind = "message" /\ q2[j].kind = "message" =>
      \E a, b \in DOMAIN q : q[a] = q2[i] /\ q[b] = q2[j] /\ (a = b => i = j)

LEMMA NoMoreSame ==
  ASSUME NEW q
  PROVE  NoMore(q, q)
BY DEF NoMore

LEMMA NoMoreTail ==
  ASSUME NEW q \in Seq(QueueEntry), q # <<>>
  PROVE  Tail(q) \in Seq(QueueEntry) /\ NoMore(q, Tail(q))
<1>1. /\ Tail(q) \in Seq(QueueEntry) /\ Len(q) \in Nat
      /\ DOMAIN q = 1 .. Len(q) /\ DOMAIN Tail(q) = 1 .. Len(q) - 1
      /\ \A i \in 1 .. Len(q) - 1 : Tail(q)[i] = q[i + 1]
  OBVIOUS
<1>2. \A i \in DOMAIN Tail(q) : i + 1 \in DOMAIN q /\ q[i + 1] = Tail(q)[i]
  BY <1>1
<1>3. \A i, j \in DOMAIN Tail(q) : i + 1 = j + 1 => i = j
  BY <1>1
<1>4. QED
  BY <1>1, <1>2, <1>3 DEF NoMore

LEMMA NoMoreClose ==
  ASSUME NEW q \in Seq(QueueEntry), NEW e \in QueueEntry
  PROVE  /\ Append(q, e) \in Seq(QueueEntry) /\ (e.kind = "close" => NoMore(q, Append(q, e)))
         /\ DOMAIN Append(q, e) = 1 .. Len(q) + 1 /\ DOMAIN q = 1 .. Len(q) /\ Len(q) \in Nat
         /\ \A i \in DOMAIN Append(q, e) : (i \in DOMAIN q /\ q[i] = Append(q, e)[i]) \/ (i = Len(q) + 1 /\ Append(q, e)[i] = e)
<1>1. /\ Append(q, e) \in Seq(QueueEntry)
      /\ Len(q) \in Nat /\ DOMAIN q = 1 .. Len(q) /\ DOMAIN Append(q, e) = 1 .. Len(q) + 1
      /\ Append(q, e)[Len(q) + 1] = e /\ \A i \in 1 .. Len(q) : Append(q, e)[i] = q[i]
  OBVIOUS
<1>2. \A i \in DOMAIN Append(q, e) : (i \in DOMAIN q /\ q[i] = Append(q, e)[i]) \/ (i = Len(q) + 1 /\ Append(q, e)[i] = e)
  BY <1>1
<1>3. e.kind = "close" => NoMore(q, Append(q, e))
  BY <1>1, <1>2 DEF NoMore
<1>4. QED
  BY <1>1, <1>2, <1>3

(* Nothing new of s in the table, in the application's hands or in the     *)
(* queue of its worker.                                                    *)
NothingNew(s) ==
  /\ Fewer(events, events', s)
  /\ \A id \in Ids : requests'[id] # NoRequest /\ requests'[id].fd = s => requests'[id] = requests[id]
  /\ \A r \in held' : r.fd = s => r \in held
  /\ NoMore(outq[s], outq'[s])

LEMMA Untouched ==
  ASSUME NEW s \in CgiFds, OneRequest(s), broken \subseteq broken', webLink'[s] = webLink[s], NothingNew(s),
         \A a : a.fd = s => (a \in replies <=> a \in replies')
  PROVE  OneRequest(s)'
<1> SUFFICES ASSUME s \notin broken' PROVE (Queued(events, s) /\ Collected(s) /\ Handed(s) /\ Answering(s) /\ Replied(s))'
  BY DEF OneRequest
<1>1. Queued(events, s) /\ Collected(s) /\ Handed(s) /\ Answering(s) /\ Replied(s)
  BY DEF OneRequest
<1>2. \A c, n : Answered(c, n, s)' <=> Answered(c, n, s)
  BY DEF Answered
<1>3. (Unfinished(s)' <=> Unfinished(s)) /\ LinkTag(s)' = LinkTag(s)
  BY <1>2 DEF Unfinished, LinkTag
<1>4. Queued(events', s) /\ (NoneOf(events, s) => NoneOf(events', s))
  BY <1>1, FewerQueued DEF NothingNew
<1>5. Queued(events, s)'
  BY <1>3, <1>4 DEF Queued
<1>6. Collected(s)'
  BY <1>1, <1>3, <1>4 DEF Collected, NothingNew
<1>7. Handed(s)'
  BY <1>1, <1>3, <1>4 DEF Handed, NothingNew
<1>8. Replied(s)'
  BY <1>1 DEF Replied
<1>9. Answering(s)'
  BY <1>1, <1>3, <1>4 DEF Answering, NothingNew, NoMore
<1>10. QED
  BY <1>5, <1>6, <1>7, <1>8, <1>9

(* A connection that waits for nothing: the server has nothing of it.      *)
LEMMA NothingLeft ==
  ASSUME NEW s \in CgiFds, OneRequest(s), s \notin broken, ~Unfinished(s), NothingNew(s), Replied(s)'
  PROVE  OneRequest(s)'
<1>1. Queued(events, s) /\ Collected(s) /\ Handed(s) /\ Answering(s)
  BY DEF OneRequest
<1>2. NoneOf(events, s)
  BY <1>1 DEF Queued, NoneOf
<1>3. NoneOf(events', s)
  BY <1>2, FewerQueued DEF NothingNew
<1>4. Queued(events, s)'
  BY <1>3 DEF Queued, NoneOf
<1>5. Collected(s)'
  BY <1>1 DEF Collected, NothingNew
<1>6. Handed(s)'
  BY <1>1 DEF Handed, NothingNew
<1>7. Answering(s)'
  BY <1>1 DEF Answering, NothingNew, NoMore
<1>8. QED
  BY <1>4, <1>5, <1>6, <1>7 DEF OneRequest

(* Disconnect.                                                             *)
LEMMA Disconnected ==
  ASSUME CgiTypes, ConnsKnown, NEW s \in CgiFds, NEW q \in Seq(Event), Disconnect(s, q)
  PROVE  /\ webLink' \in [CgiFds -> [conn : Nat, serial : Nat, sent : Nat]]
         /\ events' \in Seq(Event) /\ \A u : Fewer(q, events', u)
         /\ broken \subseteq broken' /\ (s \notin broken' => ~Unfinished(s))
         /\ webLink'[s] = NoLink /\ \A u \in CgiFds : u # s => webLink'[u] = webLink[u]
         /\ \A u \in CgiFds : webLink'[u].conn <= conns
<1>1. webLink \in [CgiFds -> [conn : Nat, serial : Nat, sent : Nat]] /\ conns \in Nat
  BY DEF CgiTypes
<1>2. NoLink \in [conn : Nat, serial : Nat, sent : Nat] /\ NoLink.conn = 0 /\ NoLink.sent = 0
  BY DEF NoLink
<1>3. CASE webLink[s] = NoLink
  <2>1. events' = q /\ webLink' = webLink /\ broken' = broken
    BY <1>3 DEF Disconnect
  <2>2. ~Unfinished(s)
    BY <1>2, <1>3 DEF Unfinished
  <2>3. QED
    BY <1>1, <1>3, <2>1, <2>2, FewerSame DEF ConnsKnown
<1>4. CASE webLink[s] # NoLink
  <2> DEFINE e == [fd |-> s, type |-> "CLOSE", tag |-> <<webLink[s].conn, webLink[s].serial>>]
  <2>1. /\ webLink' = [webLink EXCEPT ![s] = NoLink]
        /\ broken' = IF Unfinished(s) THEN broken \cup {s} ELSE broken
        /\ events' = Append(q, e)
    BY <1>4 DEF Disconnect
  <2>2. e \in Event /\ \A u : ~RecordOf(e, u)
    BY <1>1 DEF Event, EventTypes, Tag, RecordOf
  <2> HIDE DEF e
  <2>3. events' \in Seq(Event) /\ \A u : Fewer(q, events', u)
    BY <2>1, <2>2, FewerAppend
  <2>4. /\ webLink' \in [CgiFds -> [conn : Nat, serial : Nat, sent : Nat]]
        /\ webLink'[s] = NoLink /\ \A u \in CgiFds : u # s => webLink'[u] = webLink[u]
    BY <1>1, <1>2, <2>1
  <2>5. \A u \in CgiFds : webLink'[u].conn <= conns
    BY <1>1, <1>2, <2>4 DEF ConnsKnown
  <2>6. QED
    BY <2>1, <2>3, <2>4, <2>5
<1>5. QED
  BY <1>3, <1>4
-----------------------------------------------------------------------------
(* The steps.                                                              *)

LEMMA CgiInvInit == CgiInit => CgiInv
<1> SUFFICES ASSUME CgiInit PROVE CgiInv
  OBVIOUS
<1>1. CgiTypes
  BY DEF CgiInit, CgiTypes, NoLink
<1>2. TableIds /\ ConnsKnown
  BY DEF CgiInit, TableIds, ConnsKnown, NoLink
<1>3. ASSUME NEW s \in CgiFds PROVE OneRequest(s)
  BY DEF CgiInit, OneRequest, Queued, Collected, Handed, Answering, Replied
<1>4. QED
  BY <1>1, <1>2, <1>3 DEF CgiInv

LEMMA Connected ==
  ASSUME CgiInv, NEW s \in CgiFds, CgiConnect(s)
  PROVE  CgiInv'
<1> USE DEF CgiInv
<1> DEFINE e == [fd |-> s, type |-> "ESTABLISH", tag |-> <<conns + 1, 1>>]
<1>1. /\ webLink[s] = NoLink /\ conns' = conns + 1 /\ events' = Append(events, e)
      /\ webLink' = [webLink EXCEPT ![s] = [conn |-> conns + 1, serial |-> 1, sent |-> 0]]
      /\ UNCHANGED <<broken, outq, requests, held, replies, aborted>>
  BY DEF CgiConnect
<1>2. conns \in Nat /\ events \in Seq(Event) /\ webLink \in [CgiFds -> [conn : Nat, serial : Nat, sent : Nat]]
  BY DEF CgiTypes
<1>3. e \in Event /\ \A u : ~RecordOf(e, u)
  BY <1>2 DEF Event, EventTypes, Tag, RecordOf
<1> HIDE DEF e
<1>4. events' \in Seq(Event) /\ \A u : Fewer(events, events', u)
  BY <1>1, <1>2, <1>3, FewerAppend
<1>5. /\ webLink' \in [CgiFds -> [conn : Nat, serial : Nat, sent : Nat]]
      /\ webLink'[s].conn = conns + 1 /\ \A u \in CgiFds : u # s => webLink'[u] = webLink[u]
  BY <1>1, <1>2
<1>6. CgiTypes'
  BY <1>1, <1>2, <1>4, <1>5 DEF CgiTypes
<1>7. \A u \in CgiFds : NothingNew(u)
  BY <1>1, <1>4, NoMoreSame DEF NothingNew
<1>8. ConnsKnown'
  <2>1. \A u \in CgiFds : webLink[u].conn \in Nat
    BY <1>2
  <2>2. \A a \in replies : a.to \in Nat
    BY DEF CgiTypes
  <2>3. QED
    BY <1>1, <1>2, <1>5, <2>1, <2>2 DEF ConnsKnown
<1>9. ASSUME NEW u \in CgiFds PROVE OneRequest(u)'
  <2>1. CASE u # s
    BY <1>1, <1>5, <1>7, <2>1, Untouched
  <2>2. CASE u = s /\ s \notin broken
    <3>1. ~Unfinished(s)
      BY <1>1 DEF Unfinished, NoLink
    <3>2. Replied(s)'
      <4>1. \A a \in replies : a.to \in Nat /\ a.to # conns + 1
        BY <1>2 DEF CgiTypes, ConnsKnown
      <4>2. QED
        BY <1>1, <1>5, <2>2, <4>1 DEF Replied, OneRequest
    <3>3. QED
      BY <1>7, <2>2, <3>1, <3>2, NothingLeft
  <2>3. CASE u = s /\ s \in broken
    BY <1>1, <2>3 DEF OneRequest
  <2>4. QED
    BY <2>1, <2>2, <2>3
<1>10. TableIds'
  BY <1>1 DEF TableIds
<1>11. QED
  BY <1>6, <1>8, <1>9, <1>10

(* A record of the request the connection waits for.                       *)
LEMMA Recorded ==
  ASSUME CgiInv, NEW s \in CgiFds, CgiRecord(s)
  PROVE  CgiInv'
<1> USE DEF CgiInv
<1>1. PICK type \in {Script[webLink[s].sent + 1]} \cup (IF webLink[s].sent = 0 THEN {"FILTER"} ELSE {"ABORT_REQUEST"}) :
        events' = Append(events, [fd |-> s, type |-> type, tag |-> LinkTag(s)])
  BY DEF CgiRecord, LinkTag
<1> DEFINE e == [fd |-> s, type |-> type, tag |-> LinkTag(s)]
<1>2. /\ webLink[s] # NoLink /\ webLink[s].sent < 3
      /\ webLink' = [webLink EXCEPT ![s].sent = @ + 1]
      /\ UNCHANGED <<conns, broken, outq, requests, held, replies, aborted>>
  BY DEF CgiRecord, Script
<1>3. conns \in Nat /\ events \in Seq(Event) /\ webLink \in [CgiFds -> [conn : Nat, serial : Nat, sent : Nat]]
  BY DEF CgiTypes
<1>4. webLink[s].sent \in Nat /\ webLink[s].conn \in Nat /\ webLink[s].serial \in Nat
  BY <1>3
<1>5. /\ webLink' \in [CgiFds -> [conn : Nat, serial : Nat, sent : Nat]]
      /\ \A u \in CgiFds : u # s => webLink'[u] = webLink[u]
      /\ webLink'[s].conn = webLink[s].conn /\ webLink'[s].serial = webLink[s].serial
      /\ webLink'[s].sent = webLink[s].sent + 1
  BY <1>2, <1>3, <1>4
<1>6. /\ type \in EventTypes
      /\ type = "STDIN_END" => webLink[s].sent = 2
  <2>1. webLink[s].sent \in {0, 1, 2}
    BY <1>2, <1>4
  <2>2. Script[1] = "BEGIN_REQUEST" /\ Script[2] = "PARAMS_END" /\ Script[3] = "STDIN_END"
    BY DEF Script
  <2>3. CASE webLink[s].sent = 0
    BY <1>1, <2>2, <2>3 DEF EventTypes
  <2>4. CASE webLink[s].sent = 1
    BY <1>1, <2>2, <2>4 DEF EventTypes
  <2>5. CASE webLink[s].sent = 2
    BY <1>1, <2>2, <2>5 DEF EventTypes
  <2>6. QED
    BY <2>1, <2>3, <2>4, <2>5
<1>7. e \in Event /\ e.fd = s /\ e.tag = LinkTag(s) /\ e.type = type
  BY <1>4, <1>6 DEF Event, Tag, LinkTag
<1>8. events' = Append(events, e)
  BY <1>1
<1> HIDE DEF e
<1>9. CgiTypes' /\ TableIds' /\ ConnsKnown'
  <2>1. events' \in Seq(Event)
    BY <1>3, <1>7, <1>8, FewerAppend
  <2>2. CgiTypes'
    BY <1>2, <1>3, <1>5, <2>1 DEF CgiTypes
  <2>3. TableIds' /\ ConnsKnown'
    BY <1>2, <1>5 DEF TableIds, ConnsKnown
  <2>4. QED
    BY <2>2, <2>3
<1>10. ASSUME NEW u \in CgiFds PROVE OneRequest(u)'
  <2>1. CASE u # s
    <3>1. ~RecordOf(e, u)
      BY <1>7, <2>1 DEF RecordOf
    <3>2. Fewer(events, events', u)
      BY <1>3, <1>7, <1>8, <3>1, FewerAppend
    <3>3. NothingNew(u)
      BY <1>2, <3>2, NoMoreSame DEF NothingNew
    <3>4. QED
      BY <1>2, <1>5, <2>1, <3>3, Untouched
  <2>2. CASE u = s /\ s \notin broken
    <3>1. Queued(events, s) /\ Collected(s) /\ Handed(s) /\ Answering(s) /\ Replied(s)
      BY <2>2 DEF OneRequest
    <3>2. Unfinished(s)'
      <4>1. ~Answered(webLink[s].conn, webLink[s].serial, s)
        BY <1>2, <1>4, <3>1 DEF Answered, Replied
      <4>2. QED
        BY <1>2, <1>4, <1>5, <4>1 DEF Unfinished, Answered
    <3>3. LinkTag(s)' = LinkTag(s)
      BY <1>5 DEF LinkTag
    <3>4. Queued(events, s)'
      <4>1. /\ Len(events) \in Nat /\ DOMAIN events = 1 .. Len(events) /\ DOMAIN events' = 1 .. Len(events) + 1
            /\ events'[Len(events) + 1] = e /\ \A i \in 1 .. Len(events) : events'[i] = events[i]
        BY <1>3, <1>7, <1>8, FewerAppend
      <4>2. SUFFICES ASSUME NEW i \in DOMAIN events', RecordOf(events'[i], s)
                     PROVE  /\ events'[i].tag = LinkTag(s)
                            /\ events'[i].type = "STDIN_END" =>
                                 webLink[s].sent = 2 /\ \A j \in DOMAIN events' : i < j => ~RecordOf(events'[j], s)
        BY <1>4, <1>5, <3>2, <3>3 DEF Queued
      <4>3. CASE i \in DOMAIN events
        BY <1>2, <1>4, <3>1, <4>1, <4>2, <4>3 DEF Queued
      <4>4. CASE i = Len(events) + 1
        BY <1>6, <1>7, <4>1, <4>4
      <4>5. QED
        BY <4>1, <4>3, <4>4
    <3>5. Collected(s)'
      BY <1>2, <1>4, <3>1, <3>2, <3>3 DEF Collected
    <3>6. Handed(s)'
      BY <1>2, <1>4, <3>1 DEF Handed
    <3>7. Replied(s)'
      BY <1>2, <1>4, <1>5, <3>1 DEF Replied
    <3>8. Answering(s)'
      BY <1>2, <1>4, <3>1 DEF Answering
    <3>9. QED
      BY <2>2, <3>4, <3>5, <3>6, <3>7, <3>8 DEF OneRequest
  <2>3. CASE u = s /\ s \in broken
    BY <1>2, <2>3 DEF OneRequest
  <2>4. QED
    BY <2>1, <2>2, <2>3
<1>11. QED
  BY <1>9, <1>10

LEMMA NextRequested ==
  ASSUME CgiInv, NEW s \in CgiFds, CgiNextRequest(s)
  PROVE  CgiInv'
<1> USE DEF CgiInv
<1>1. /\ webLink[s].sent = 3 /\ Answered(webLink[s].conn, webLink[s].serial, s)
      /\ webLink' = [webLink EXCEPT ![s].serial = @ + 1, ![s].sent = 0]
      /\ UNCHANGED <<conns, broken, events, outq, requests, held, replies, aborted>>
  BY DEF CgiNextRequest, Script
<1>2. webLink \in [CgiFds -> [conn : Nat, serial : Nat, sent : Nat]]
  BY DEF CgiTypes
<1>3. /\ webLink' \in [CgiFds -> [conn : Nat, serial : Nat, sent : Nat]]
      /\ \A u \in CgiFds : u # s => webLink'[u] = webLink[u]
      /\ webLink'[s].conn = webLink[s].conn /\ webLink'[s].serial = webLink[s].serial + 1
      /\ webLink[s].serial \in Nat
  BY <1>1, <1>2
<1>4. CgiTypes' /\ TableIds' /\ ConnsKnown'
  BY <1>1, <1>3 DEF CgiTypes, TableIds, ConnsKnown
<1>5. \A u \in CgiFds : NothingNew(u)
  BY <1>1, FewerSame, NoMoreSame DEF NothingNew
<1>6. ASSUME NEW u \in CgiFds PROVE OneRequest(u)'
  <2>1. CASE u # s
    BY <1>1, <1>3, <1>5, <2>1, Untouched
  <2>2. CASE u = s /\ s \notin broken
    <3>1. ~Unfinished(s)
      BY <1>1 DEF Unfinished
    <3>2. Replied(s)'
      <4>1. webLink[s] # NoLink
        BY <1>1 DEF NoLink
      <4>2. \A a \in replies : a.tag \in Tag /\ a.tag[2] \in Nat
        BY DEF CgiTypes, Tag
      <4>3. QED
        BY <1>1, <1>3, <2>2, <4>1, <4>2 DEF Replied, OneRequest
    <3>3. QED
      BY <1>5, <2>2, <3>1, <3>2, NothingLeft
  <2>3. CASE u = s /\ s \in broken
    BY <1>1, <2>3 DEF OneRequest
  <2>4. QED
    BY <2>1, <2>2, <2>3
<1>7. QED
  BY <1>4, <1>6

(* The connection ends.                                                    *)
LEMMA Closes ==
  ASSUME CgiInv, NEW s \in CgiFds, Disconnect(s, events), UNCHANGED <<conns, requests, held, replies>>,
         outq' \in [CgiFds -> Seq(QueueEntry)], \A u \in CgiFds : NoMore(outq[u], outq'[u])
  PROVE  CgiInv'
<1> USE DEF CgiInv
<1>1. /\ webLink' \in [CgiFds -> [conn : Nat, serial : Nat, sent : Nat]]
      /\ events' \in Seq(Event) /\ \A u : Fewer(events, events', u)
      /\ broken \subseteq broken' /\ (s \notin broken' => ~Unfinished(s))
      /\ webLink'[s] = NoLink /\ \A u \in CgiFds : u # s => webLink'[u] = webLink[u]
      /\ \A u \in CgiFds : webLink'[u].conn <= conns
  <2>1. events \in Seq(Event)
    BY DEF CgiTypes
  <2>2. QED
    BY <2>1, Disconnected
<1>3. \A u \in CgiFds : NothingNew(u)
  BY <1>1 DEF NothingNew
<1>4. CgiTypes'
  BY <1>1 DEF CgiTypes
<1>5. TableIds' /\ ConnsKnown'
  BY <1>1 DEF TableIds, ConnsKnown
<1>6. ASSUME NEW u \in CgiFds PROVE OneRequest(u)'
  <2>1. CASE u # s
    BY <1>1, <1>3, <2>1, Untouched
  <2>2. CASE u = s /\ s \notin broken'
    <3>1. ~Unfinished(s) /\ s \notin broken
      BY <1>1, <2>2
    <3>2. Replied(s)'
      BY <1>1, <3>1 DEF Replied, OneRequest
    <3>3. QED
      BY <1>3, <2>2, <3>1, <3>2, NothingLeft
  <2>3. CASE u = s /\ s \in broken'
    BY <2>3 DEF OneRequest
  <2>4. QED
    BY <2>1, <2>2, <2>3
<1>7. QED
  BY <1>4, <1>5, <1>6

LEMMA CgiBroken ==
  ASSUME CgiInv, NEW s \in CgiFds, CgiBreak(s)
  PROVE  CgiInv'
<1>1. Disconnect(s, events) /\ UNCHANGED <<conns, outq, requests, held, replies, aborted>>
  BY DEF CgiBreak
<1>2. outq \in [CgiFds -> Seq(QueueEntry)]
  BY DEF CgiInv, CgiTypes
<1>3. QED
  BY <1>1, <1>2, Closes, NoMoreSame

(* Requests leave the table and the application's hands, an event leaves   *)
(* the queue, and a close may go to a worker.                              *)
LEMMA Leaves ==
  ASSUME CgiInv, NEW s \in CgiFds,
         outq' = outq \/ Push(s, Entry("close", {}, s)),
         events' \in Seq(Event), \A u : Fewer(events, events', u),
         \A id \in Ids : requests'[id] = requests[id] \/ requests'[id] = NoRequest, DOMAIN requests' = Ids,
         requests' = [id \in Ids |-> requests'[id]],
         held' \subseteq held, UNCHANGED <<webLink, conns, broken, replies>>
  PROVE  CgiInv'
<1> USE DEF CgiInv
<1>1. outq' \in [CgiFds -> Seq(QueueEntry)] /\ \A u \in CgiFds : NoMore(outq[u], outq'[u])
  <2>1. outq \in [CgiFds -> Seq(QueueEntry)]
    BY DEF CgiTypes
  <2>2. CASE outq' = outq
    BY <2>1, <2>2, NoMoreSame
  <2>3. CASE Push(s, Entry("close", {}, s))
    <3> DEFINE e == Entry("close", {}, s)
    <3>1. e \in QueueEntry /\ e.kind = "close"
      BY DEF Entry, QueueEntry, CgiTypes
    <3>2. outq' = [outq EXCEPT ![s] = Append(@, e)]
      BY <2>3 DEF Push
    <3> HIDE DEF e
    <3>3. outq[s] \in Seq(QueueEntry)
      BY <2>1
    <3>4. Append(outq[s], e) \in Seq(QueueEntry) /\ NoMore(outq[s], Append(outq[s], e))
      BY <3>1, <3>3, NoMoreClose
    <3>5. QED
      BY <2>1, <3>2, <3>4, NoMoreSame
  <2>4. QED
    BY <2>2, <2>3
<1>2. \A u \in CgiFds : NothingNew(u)
  BY <1>1 DEF NothingNew
<1>3. CgiTypes'
  <2>1. requests' \in [Ids -> Request \cup {NoRequest}]
    BY DEF CgiTypes
  <2>2. QED
    BY <1>1, <2>1 DEF CgiTypes
<1>4. TableIds' /\ ConnsKnown'
  BY DEF TableIds, ConnsKnown
<1>5. \A u \in CgiFds : OneRequest(u)'
  BY <1>2, Untouched
<1>6. QED
  BY <1>3, <1>4, <1>5

LEMMA Released ==
  ASSUME CgiInv, NEW r \in held, releaseRequest(r)
  PROVE  CgiInv'
<1>1. /\ held' = held \ {r} /\ requests' = [requests EXCEPT ![r.id] = NoRequest]
      /\ Push(r.fd, Entry("close", {}, r.fd)) /\ UNCHANGED <<webLink, conns, broken, events, replies, aborted>>
  BY DEF releaseRequest
<1>2. r.fd \in CgiFds /\ events \in Seq(Event) /\ \A u : Fewer(events, events, u)
  BY FewerSame DEF CgiInv, CgiTypes, Request
<1>3. requests' = [id \in Ids |-> requests'[id]] /\ DOMAIN requests' = Ids
  BY <1>1 DEF CgiInv, CgiTypes
<1>4. \A id \in Ids : requests'[id] = requests[id] \/ requests'[id] = NoRequest
  BY <1>1 DEF CgiInv, CgiTypes
<1>5. QED
  BY <1>1, <1>2, <1>3, <1>4, Leaves

(* An event without a record, and a record of a foreign request.           *)
LEMMA Skipped ==
  ASSUME CgiInv, events # <<>>, events' = Tail(events),
         UNCHANGED <<webLink, conns, broken, outq, requests, held, replies>>
  PROVE  CgiInv'
<1> USE DEF CgiInv
<1>1. events' \in Seq(Event) /\ \A u : Fewer(events, events', u)
  BY FewerTail DEF CgiTypes
<1>2. CgiTypes' /\ TableIds' /\ ConnsKnown'
  BY <1>1 DEF CgiTypes, TableIds, ConnsKnown
<1>3. \A s \in CgiFds : NothingNew(s)
  BY <1>1, NoMoreSame DEF NothingNew
<1>4. \A s \in CgiFds : OneRequest(s)'
  BY <1>3, Untouched
<1>5. QED
  BY <1>2, <1>4

(* The request a record belongs to.                                        *)
LEMMA Found ==
  ASSUME CgiInv, NEW s \in CgiFds
  PROVE  LET r == FindOrNew(IdOf[s], s) IN
         /\ r \in Request /\ r.id = IdOf[s] /\ ~r.answered /\ IdOf[r.fd] = IdOf[s]
         /\ r = requests[IdOf[s]] \/ (r.from = {} /\ ~r.stdinDone /\ r.fd = s)
<1> DEFINE id == IdOf[s]
           r == FindOrNew(IdOf[s], s)
<1>1. id \in Ids
  BY DEF Ids
<1>2. CASE requests[id] = NoRequest
  <2>1. r = [id |-> id, fd |-> s, paramsDone |-> FALSE, stdinDone |-> FALSE, from |-> {}, answered |-> FALSE]
    BY <1>2 DEF FindOrNew, NoRequest
  <2>2. r \in Request
    BY <1>1, <2>1 DEF Request
  <2>3. QED
    BY <2>1, <2>2
<1>3. CASE requests[id] # NoRequest
  <2>1. r = requests[id]
    BY <1>3 DEF FindOrNew
  <2>2. r \in Request
    BY <1>1, <1>3, <2>1 DEF CgiInv, CgiTypes
  <2>3. r.id = id /\ IdOf[r.fd] = id /\ ~r.answered
    BY <1>1, <1>3, <2>1 DEF CgiInv, TableIds
  <2>4. QED
    BY <2>1, <2>2, <2>3
<1>4. QED
  BY <1>2, <1>3

(* A record is read into its request.                                      *)
LEMMA RecordRead ==
  ASSUME CgiInv, events # <<>>, NEW e, e = Head(events), RecordOf(e, e.fd),
         NEW r, r = FindOrNew(IdOf[e.fd], e.fd), r.fd = e.fd,
         requests' = [requests EXCEPT ![r.id] = Read(r, e)],
         events' = Tail(events), UNCHANGED <<webLink, conns, broken, outq, held, replies>>
  PROVE  CgiInv'
<1> USE DEF CgiInv
<1> DEFINE s == e.fd
           id == IdOf[s]
           n == Read(r, e)
<1>1. events \in Seq(Event) /\ requests \in [Ids -> Request \cup {NoRequest}]
  BY DEF CgiTypes
<1>2. /\ e \in Event /\ 1 \in DOMAIN events /\ events[1] = e
      /\ \A i \in DOMAIN Tail(events) : i + 1 \in DOMAIN events /\ Tail(events)[i] = events[i + 1] /\ 1 < i + 1
  BY <1>1
<1>3. s \in CgiFds /\ e.tag \in Tag /\ id \in Ids
  BY <1>2 DEF Event, Ids
<1>4. /\ r \in Request /\ r.id = id /\ ~r.answered
      /\ r = requests[id] \/ (r.from = {} /\ ~r.stdinDone /\ r.fd = s)
  BY <1>3, Found
<1>5. /\ n \in Request /\ n.id = id /\ n.fd = s /\ ~n.answered
      /\ n.from = r.from \cup {e.tag}
      /\ n.stdinDone => r.stdinDone \/ e.type = "STDIN_END"
  <2> DEFINE p == r.paramsDone \/ e.type = "PARAMS_END"
             d == r.stdinDone \/ e.type = "STDIN_END"
             f == r.from \cup {e.tag}
  <2>1. n = [r EXCEPT !.paramsDone = p, !.stdinDone = d, !.from = f]
    BY DEF Read
  <2>2. r.from \subseteq Tag
    BY <1>4 DEF Request
  <2>3. p \in BOOLEAN /\ d \in BOOLEAN /\ f \subseteq Tag
    BY <1>3, <2>2
  <2> HIDE DEF p, d, f, n
  <2>4. n \in Request /\ n.id = r.id /\ n.fd = r.fd /\ n.answered = r.answered /\ n.from = f /\ n.stdinDone = d
    BY <1>4, <2>1, <2>3 DEF Request
  <2>5. QED
    BY <1>4, <2>4 DEF f, d
<1>6. requests' = [requests EXCEPT ![id] = n] /\ requests'[id] = n
  BY <1>1, <1>3, <1>4
<1> HIDE DEF n
<1>7. \A u : Fewer(events, events', u)
  BY <1>1, FewerTail
<1>8. CgiTypes'
  <2>1. events' \in Seq(Event)
    BY <1>1, FewerTail
  <2>2. requests' \in [Ids -> Request \cup {NoRequest}]
    BY <1>1, <1>5, <1>6
  <2>3. QED
    BY <2>1, <2>2 DEF CgiTypes
<1>9. TableIds'
  BY <1>1, <1>3, <1>5, <1>6 DEF TableIds
<1>10. ConnsKnown'
  BY DEF ConnsKnown
<1>11. ASSUME NEW u \in CgiFds PROVE OneRequest(u)'
  <2>1. CASE u # s
    <3>1. NothingNew(u)
      BY <1>1, <1>3, <1>5, <1>6, <1>7, <2>1, NoMoreSame DEF NothingNew
    <3>2. QED
      BY <3>1, Untouched
  <2>2. CASE u = s /\ s \in broken
    BY <2>2 DEF OneRequest
  <2>3. CASE u = s /\ s \notin broken
    <3>1. Queued(events, s) /\ Collected(s) /\ Handed(s) /\ Answering(s) /\ Replied(s)
      BY <1>3, <2>3 DEF OneRequest
    <3>2. /\ Unfinished(s) /\ e.tag = LinkTag(s)
          /\ e.type = "STDIN_END" => webLink[s].sent = 3 /\ NoneOf(events', s)
      <4>1. /\ Unfinished(s) /\ e.tag = LinkTag(s)
            /\ e.type = "STDIN_END" =>
                 webLink[s].sent = 3 /\ \A j \in DOMAIN events : 1 < j => ~RecordOf(events[j], s)
        BY <1>2, <3>1 DEF Queued
      <4>2. QED
        BY <1>2, <4>1 DEF NoneOf
    <3>3. ~NoneOf(events, s)
      BY <1>2 DEF NoneOf
    <3>4. Unfinished(s)' = Unfinished(s) /\ LinkTag(s)' = LinkTag(s)
      BY DEF Unfinished, Answered, LinkTag
    <3>5. Queued(events, s)'
      <4>1. Queued(events', s)
        BY <1>7, <3>1, FewerQueued
      <4>2. QED
        BY <3>4, <4>1 DEF Queued
    <3>6. n.from = {LinkTag(s)} /\ (n.stdinDone => webLink[s].sent = 3 /\ NoneOf(events', s))
      <4>1. CASE r.from = {} /\ ~r.stdinDone
        BY <1>5, <3>2, <4>1
      <4>2. CASE r = requests[id]
        <5>1. r # NoRequest
          BY <1>4, CgiAssumption DEF Request, NoRequest, Ids
        <5>2. r.from = {LinkTag(s)} /\ ~r.stdinDone
          BY <1>3, <3>1, <3>3, <4>2, <5>1 DEF Collected
        <5>3. QED
          BY <1>5, <3>2, <5>2
      <4>3. QED
        BY <1>4, <4>1, <4>2
    <3>7. Collected(s)'
      <4>1. \A i \in Ids : requests'[i] # NoRequest /\ requests'[i].fd = s => i = id
        BY <1>9 DEF TableIds
      <4>2. QED
        BY <1>6, <3>2, <3>4, <3>6, <4>1 DEF Collected
    <3>8. Handed(s)'
      BY <3>1, <3>3 DEF Handed
    <3>9. Replied(s)'
      BY <3>1 DEF Replied
    <3>10. Answering(s)'
      BY <3>1, <3>3 DEF Answering
    <3>11. QED
      BY <2>3, <3>5, <3>7, <3>8, <3>9, <3>10 DEF OneRequest
  <2>4. QED
    BY <2>1, <2>2, <2>3
<1>12. QED
  BY <1>8, <1>9, <1>10, <1>11

LEMMA Requested ==
  ASSUME CgiInv, getRequest
  PROVE  CgiInv'
<1> DEFINE e == Head(events)
           r == FindOrNew(IdOf[e.fd], e.fd)
<1>1. events # <<>> /\ events' = Tail(events) /\ UNCHANGED <<webLink, conns, broken, held, replies>>
  BY DEF getRequest
<1>2. CASE e.type \in {"ESTABLISH", "CLOSE"}
  <2>1. UNCHANGED <<outq, requests, aborted>>
    BY <1>2 DEF getRequest
  <2>2. QED
    BY <1>1, <2>1, Skipped
<1>3. CASE e.type \notin {"ESTABLISH", "CLOSE"}
  <2>1. parsePackage(e)
    BY <1>3 DEF getRequest
  <2>2. events \in Seq(Event) /\ e.fd \in CgiFds
    <3>1. events \in Seq(Event)
      BY DEF CgiInv, CgiTypes
    <3>2. e \in Event
      BY <1>1, <3>1
    <3>3. QED
      BY <3>1, <3>2 DEF Event
  <2>3. CASE r.fd # e.fd
    <3>1. UNCHANGED <<outq, requests>>
      BY <2>1, <2>3 DEF parsePackage, requestid
    <3>2. QED
      BY <1>1, <3>1, Skipped
  <2>4. CASE r.fd = e.fd /\ Refused(e.type)
    <3>1. requests' = [requests EXCEPT ![r.id] = NoRequest] /\ Push(e.fd, Entry("close", {}, e.fd))
      BY <2>1, <2>4 DEF parsePackage, requestid
    <3>2. Tail(events) \in Seq(Event) /\ \A u : Fewer(events, Tail(events), u)
      BY <1>1, <2>2, FewerTail
    <3>3. /\ requests' = [id \in Ids |-> requests'[id]] /\ DOMAIN requests' = Ids
          /\ \A id \in Ids : requests'[id] = requests[id] \/ requests'[id] = NoRequest
      BY <3>1 DEF CgiInv, CgiTypes
    <3>4. QED
      BY <1>1, <2>2, <3>1, <3>2, <3>3, Leaves
  <2>5. CASE r.fd = e.fd /\ ~Refused(e.type)
    <3>1. requests' = [requests EXCEPT ![r.id] = Read(r, e)] /\ UNCHANGED outq
      BY <2>1, <2>5 DEF parsePackage, requestid
    <3>2. RecordOf(e, e.fd)
      BY <1>3 DEF RecordOf
    <3>3. QED
      BY <1>1, <2>5, <3>1, <3>2, RecordRead
  <2>6. QED
    BY <2>3, <2>4, <2>5
<1>4. QED
  BY <1>2, <1>3

(* A complete request goes to the application.                             *)
LEMMA Completed ==
  ASSUME CgiInv, getCompleteRequest
  PROVE  CgiInv'
<1> USE DEF CgiInv
<1>1. PICK id \in Ids : /\ Complete(requests[id]) /\ held' = held \cup {requests[id]}
                        /\ requests' = [requests EXCEPT ![id] = NoRequest]
  BY DEF getCompleteRequest
<1>2. UNCHANGED <<webLink, conns, broken, events, outq, replies, aborted>>
  BY DEF getCompleteRequest
<1>3. requests \in [Ids -> Request \cup {NoRequest}]
  BY DEF CgiTypes
<1>4. PICK r \in Request : r = requests[id] /\ r # NoRequest /\ r.stdinDone
  BY <1>1, <1>3 DEF Complete, NoRequest
<1> DEFINE s == r.fd
<1>5. s \in CgiFds /\ IdOf[s] = id /\ ~r.answered
  BY <1>4 DEF TableIds, Request
<1>6. CgiTypes' /\ TableIds' /\ ConnsKnown'
  <2>1. requests' \in [Ids -> Request \cup {NoRequest}]
    BY <1>1, <1>3
  <2>2. CgiTypes'
    BY <1>1, <1>2, <1>4, <2>1 DEF CgiTypes
  <2>3. TableIds' /\ ConnsKnown'
    BY <1>1, <1>2, <1>3 DEF TableIds, ConnsKnown
  <2>4. QED
    BY <2>2, <2>3
<1>7. ASSUME NEW u \in CgiFds PROVE OneRequest(u)'
  <2>1. CASE u # s
    <3>1. NothingNew(u)
      BY <1>1, <1>2, <1>3, <1>4, <2>1, FewerSame, NoMoreSame DEF NothingNew
    <3>2. QED
      BY <1>2, <3>1, Untouched
  <2>2. CASE u = s /\ s \in broken
    BY <1>2, <2>2 DEF OneRequest
  <2>3. CASE u = s /\ s \notin broken
    <3>1. Queued(events, s) /\ Collected(s) /\ Handed(s) /\ Answering(s) /\ Replied(s)
      BY <1>5, <2>3 DEF OneRequest
    <3>2. Unfinished(s)' = Unfinished(s) /\ LinkTag(s)' = LinkTag(s)
      BY <1>2 DEF Unfinished, Answered, LinkTag
    <3>3. Unfinished(s) /\ r.from = {LinkTag(s)} /\ webLink[s].sent = 3 /\ NoneOf(events, s)
      BY <1>4, <3>1 DEF Collected
    <3>4. \A i \in Ids : requests'[i] # NoRequest => requests'[i].fd # s
      BY <1>1, <1>3, <1>5 DEF TableIds
    <3>5. \A q \in held : q.fd = s => q.answered
      BY <1>4, <3>1 DEF Handed
    <3>6. LinkTag(s) \in Tag
      BY <1>5 DEF CgiTypes, LinkTag, Tag
    <3>7. Queued(events, s)'
      BY <1>2, <3>1, <3>2 DEF Queued
    <3>8. Collected(s)'
      BY <3>4 DEF Collected
    <3>9. Handed(s)'
      <4>1. SUFFICES ASSUME NEW q \in held', q.fd = s
                     PROVE  /\ \E t \in Tag : q.from = {t}
                            /\ ~q.answered => q = r
        BY <1>1, <1>2, <3>2, <3>3, <3>4 DEF Handed
      <4>2. CASE q \in held
        BY <3>1, <3>5, <4>1, <4>2 DEF Handed
      <4>3. CASE q = r
        BY <3>3, <3>6, <4>3
      <4>4. QED
        BY <1>1, <1>4, <4>2, <4>3
    <3>10. Replied(s)'
      BY <1>2, <3>1 DEF Replied
    <3>11. Answering(s)'
      BY <1>2, <1>4, <3>1 DEF Answering
    <3>12. QED
      BY <2>3, <3>7, <3>8, <3>9, <3>10, <3>11 DEF OneRequest
  <2>4. QED
    BY <2>1, <2>2, <2>3
<1>8. QED
  BY <1>6, <1>7

(* The answer goes to the worker.                                          *)
LEMMA Sent ==
  ASSUME CgiInv, NEW r \in held, CgiSend(r)
  PROVE  CgiInv'
<1> USE DEF CgiInv
<1> DEFINE s == r.fd
           n == [r EXCEPT !.answered = TRUE]
           e == Entry("message", r.from, s)
<1>1. /\ ~r.answered /\ held' = (held \ {r}) \cup {n}
      /\ outq' = [outq EXCEPT ![s] = Append(@, e)]
      /\ UNCHANGED <<webLink, conns, broken, events, requests, replies, aborted>>
  BY DEF CgiSend, Push
<1>2. r \in Request /\ s \in CgiFds /\ r.from \subseteq Tag
  BY DEF CgiTypes, Request
<1>3. n \in Request /\ n.fd = s /\ n.from = r.from /\ n.answered
  BY <1>2 DEF Request
<1>4. e \in QueueEntry /\ e.tags = r.from /\ e.kind = "message"
  BY <1>2 DEF Entry, QueueEntry, CgiTypes
<1>5. LinkTag(s) \in Tag
  BY <1>2 DEF CgiTypes, LinkTag, Tag
<1> HIDE DEF n, e
<1>6. /\ outq \in [CgiFds -> Seq(QueueEntry)] /\ outq[s] \in Seq(QueueEntry)
      /\ Append(outq[s], e) \in Seq(QueueEntry) /\ outq'[s] = Append(outq[s], e)
      /\ outq' \in [CgiFds -> Seq(QueueEntry)] /\ \A u \in CgiFds : u # s => outq'[u] = outq[u]
  <2>1. outq \in [CgiFds -> Seq(QueueEntry)] /\ outq[s] \in Seq(QueueEntry)
    BY <1>2 DEF CgiTypes
  <2>2. Append(outq[s], e) \in Seq(QueueEntry)
    BY <1>4, <2>1, NoMoreClose
  <2>3. QED
    BY <1>1, <1>2, <2>1, <2>2
<1>7. CgiTypes' /\ TableIds' /\ ConnsKnown'
  <2>1. CgiTypes'
    BY <1>1, <1>3, <1>6 DEF CgiTypes
  <2>2. TableIds' /\ ConnsKnown'
    BY <1>1 DEF TableIds, ConnsKnown
  <2>3. QED
    BY <2>1, <2>2
<1>8. ASSUME NEW u \in CgiFds PROVE OneRequest(u)'
  <2>1. CASE u # s
    <3>1. NothingNew(u)
      BY <1>1, <1>3, <1>6, <2>1, FewerSame, NoMoreSame DEF NothingNew
    <3>2. QED
      BY <1>1, <3>1, Untouched
  <2>2. CASE u = s /\ s \in broken
    BY <1>1, <2>2 DEF OneRequest
  <2>3. CASE u = s /\ s \notin broken
    <3>1. Queued(events, s) /\ Collected(s) /\ Handed(s) /\ Answering(s) /\ Replied(s)
      BY <1>2, <2>3 DEF OneRequest
    <3>2. /\ Unfinished(s) /\ r.from = {LinkTag(s)} /\ webLink[s].sent = 3 /\ NoneOf(events, s)
          /\ \A id \in Ids : requests[id] # NoRequest => requests[id].fd # s
          /\ \A q \in held : q.fd = s /\ ~q.answered => q = r
      BY <1>1, <3>1 DEF Handed
    <3>3. Unfinished(s)' = Unfinished(s) /\ LinkTag(s)' = LinkTag(s)
      BY <1>1 DEF Unfinished, Answered, LinkTag
    <3>4. Queued(events, s)'
      BY <1>1, <3>2 DEF Queued, NoneOf
    <3>5. Collected(s)'
      BY <1>1, <3>2 DEF Collected
    <3>6. \A q \in held' : q.fd = s => q.answered /\ \E t \in Tag : q.from = {t}
      BY <1>1, <1>3, <1>5, <3>1, <3>2 DEF Handed
    <3>7. Handed(s)'
      BY <3>6 DEF Handed
    <3>8. NoAnswer(outq[s])
      BY <1>1, <3>1 DEF Answering, NoAnswer
    <3>9. \A i \in DOMAIN outq'[s] : outq'[s][i].kind = "message" => i = Len(outq[s]) + 1 /\ outq'[s][i] = e
      BY <1>4, <1>6, <3>8, NoMoreClose DEF NoAnswer
    <3>10. Answering(s)'
      <4>1. NoneOf(events, s)' /\ webLink'[s].sent = 3 /\ Unfinished(s)' /\ LinkTag(s)' = LinkTag(s)
        BY <1>1, <3>2, <3>3 DEF NoneOf
      <4>2. \A id \in Ids : requests'[id] # NoRequest => requests'[id].fd # s
        BY <1>1, <3>2
      <4>3. e.tags = {LinkTag(s)}
        BY <1>4, <3>2
      <4>4. QED
        BY <3>6, <3>9, <4>1, <4>2, <4>3 DEF Answering
    <3>11. Replied(s)'
      BY <1>1, <3>1 DEF Replied
    <3>12. QED
      BY <2>3, <3>4, <3>5, <3>7, <3>10, <3>11 DEF OneRequest
  <2>4. QED
    BY <2>1, <2>2, <2>3
<1>9. QED
  BY <1>7, <1>8

(* The worker sends it.                                                    *)
LEMMA Delivered ==
  ASSUME CgiInv, NEW s \in CgiFds, outq[s] # <<>>, NEW e, e = Head(outq[s]), e.kind = "message",
         outq' = [outq EXCEPT ![s] = Tail(@)],
         replies' = IF webLink[s] = NoLink THEN replies
                    ELSE replies \cup {[tag |-> t, fd |-> s, to |-> webLink[s].conn] : t \in e.tags},
         UNCHANGED <<webLink, conns, broken, events, requests, held>>
  PROVE  CgiInv'
<1> USE DEF CgiInv
<1>1. /\ outq \in [CgiFds -> Seq(QueueEntry)] /\ outq[s] \in Seq(QueueEntry)
      /\ 1 \in DOMAIN outq[s] /\ outq[s][1] = e /\ e \in QueueEntry
      /\ \A i \in DOMAIN Tail(outq[s]) : /\ i + 1 \in DOMAIN outq[s] /\ i + 1 # 1
                                        /\ Tail(outq[s])[i] = outq[s][i + 1]
  <2>1. outq \in [CgiFds -> Seq(QueueEntry)] /\ outq[s] \in Seq(QueueEntry)
    BY DEF CgiTypes
  <2>2. QED
    BY <2>1
<1>2. /\ outq' \in [CgiFds -> Seq(QueueEntry)] /\ outq'[s] = Tail(outq[s])
      /\ \A u \in CgiFds : NoMore(outq[u], outq'[u])
  <2>1. Tail(outq[s]) \in Seq(QueueEntry) /\ NoMore(outq[s], Tail(outq[s]))
    BY <1>1, NoMoreTail
  <2>2. QED
    BY <1>1, <2>1, NoMoreSame
<1>3. e.tags \subseteq Tag /\ webLink[s].conn \in Nat
  BY <1>1 DEF QueueEntry, CgiTypes
<1>4. \A a \in replies' : a \in replies \/ \E t \in e.tags : a = [tag |-> t, fd |-> s, to |-> webLink[s].conn]
  OBVIOUS
<1>5. CgiTypes' /\ TableIds' /\ ConnsKnown'
  <2>1. replies' \subseteq [tag : Tag, fd : CgiFds, to : Nat]
    BY <1>3, <1>4 DEF CgiTypes
  <2>2. CgiTypes'
    BY <1>2, <2>1 DEF CgiTypes
  <2>3. TableIds'
    BY DEF TableIds
  <2>4. ConnsKnown'
    BY <1>4 DEF ConnsKnown
  <2>5. QED
    BY <2>2, <2>3, <2>4
<1>6. ASSUME NEW u \in CgiFds PROVE OneRequest(u)'
  <2>1. CASE u # s
    <3>1. NothingNew(u)
      BY <1>2, FewerSame DEF NothingNew
    <3>2. \A a : a.fd = u => (a \in replies <=> a \in replies')
      BY <2>1
    <3>3. QED
      BY <3>1, <3>2, Untouched
  <2>2. CASE u = s /\ s \in broken
    BY <2>2 DEF OneRequest
  <2>3. CASE u = s /\ s \notin broken
    <3>1. Queued(events, s) /\ Collected(s) /\ Handed(s) /\ Answering(s) /\ Replied(s)
      BY <2>3 DEF OneRequest
    <3>2. /\ Unfinished(s) /\ e.tags = {LinkTag(s)} /\ webLink[s].sent = 3 /\ NoneOf(events, s)
          /\ \A id \in Ids : requests[id] # NoRequest => requests[id].fd # s
          /\ \A q \in held : q.fd = s => q.answered
          /\ \A j \in DOMAIN outq[s] : outq[s][j].kind = "message" => j = 1
      BY <1>1, <3>1 DEF Answering
    <3>3. Queued(events, s)'
      BY <3>2 DEF Queued, NoneOf
    <3>4. Collected(s)'
      BY <3>2 DEF Collected
    <3>5. Handed(s)'
      BY <3>1, <3>2 DEF Handed
    <3>6. Answering(s)'
      BY <1>1, <1>2, <3>2 DEF Answering
    <3>7. Replied(s)'
      <4>1. \A a \in replies' : a \in replies \/ a = [tag |-> LinkTag(s), fd |-> s, to |-> webLink[s].conn]
        BY <1>4, <3>2
      <4>2. LinkTag(s)[1] = webLink[s].conn /\ LinkTag(s)[2] = webLink[s].serial
        BY DEF LinkTag
      <4>3. QED
        BY <3>1, <3>2, <4>1, <4>2 DEF Replied
    <3>8. QED
      BY <2>3, <3>3, <3>4, <3>5, <3>6, <3>7 DEF OneRequest
  <2>4. QED
    BY <2>1, <2>2, <2>3
<1>7. QED
  BY <1>5, <1>6

(* Or it closes the descriptor.                                            *)
LEMMA Worked ==
  ASSUME CgiInv, NEW s \in CgiFds, CgiWorker(s)
  PROVE  CgiInv'
<1> DEFINE e == Head(outq[s])
<1>1. outq[s] # <<>> /\ outq' = [outq EXCEPT ![s] = Tail(@)] /\ UNCHANGED <<conns, requests, held, aborted>>
  BY DEF CgiWorker
<1>2. outq \in [CgiFds -> Seq(QueueEntry)] /\ outq[s] \in Seq(QueueEntry) /\ e \in QueueEntry
  <2>1. outq \in [CgiFds -> Seq(QueueEntry)] /\ outq[s] \in Seq(QueueEntry)
    BY DEF CgiInv, CgiTypes
  <2>2. QED
    BY <1>1, <2>1
<1>3. CASE e.kind = "close"
  <2>1. Disconnect(s, events) /\ UNCHANGED replies
    BY <1>3 DEF CgiWorker
  <2>2. Tail(outq[s]) \in Seq(QueueEntry) /\ NoMore(outq[s], Tail(outq[s]))
    BY <1>1, <1>2, NoMoreTail
  <2>3. outq' \in [CgiFds -> Seq(QueueEntry)] /\ \A u \in CgiFds : NoMore(outq[u], outq'[u])
    BY <1>1, <1>2, <2>2, NoMoreSame
  <2>4. QED
    BY <1>1, <2>1, <2>3, Closes
<1>4. CASE e.kind # "close"
  <2>1. e.kind = "message"
    BY <1>2, <1>4 DEF QueueEntry
  <2>2. /\ replies' = IF webLink[s] = NoLink THEN replies
                      ELSE replies \cup {[tag |-> t, fd |-> s, to |-> webLink[s].conn] : t \in e.tags}
        /\ UNCHANGED <<webLink, broken, events>>
    BY <1>4 DEF CgiWorker
  <2>3. QED
    BY <1>1, <2>1, <2>2, Delivered
<1>5. QED
  BY <1>3, <1>4

LEMMA CgiStep == CgiInv /\ [CgiNext]_cgiVars => CgiInv'
<1> SUFFICES ASSUME CgiInv, [CgiNext]_cgiVars PROVE CgiInv'
  OBVIOUS
<1>1. CASE \E s \in CgiFds : CgiConnect(s) \/ CgiRecord(s) \/ CgiNextRequest(s) \/ CgiBreak(s) \/ CgiWorker(s)
  BY <1>1, Connected, Recorded, NextRequested, CgiBroken, Worked
<1>2. CASE getRequest
  BY <1>2, Requested
<1>3. CASE getCompleteRequest
  BY <1>3, Completed
<1>4. CASE \E r \in held : CgiSend(r) \/ releaseRequest(r)
  BY <1>4, Sent, Released
<1>5. CASE UNCHANGED cgiVars
  <2>1. UNCHANGED <<webLink, conns, broken, events, outq, requests, held, replies>>
    BY <1>5 DEF cgiVars
  <2>2. CgiTypes' /\ TableIds' /\ ConnsKnown'
    BY <2>1 DEF CgiInv, CgiTypes, TableIds, ConnsKnown
  <2>3. \A s \in CgiFds : NothingNew(s)
    BY <2>1, FewerSame, NoMoreSame DEF NothingNew
  <2>4. QED
    BY <2>1, <2>2, <2>3, Untouched DEF CgiInv
<1>6. QED
  BY <1>1, <1>2, <1>3, <1>4, <1>5 DEF CgiNext

(* The invariant the two theorems rest on.                                 *)
THEOREM CgiInvariant == CgiSpec => []CgiInv
BY CgiInvInit, CgiStep, PTL DEF CgiSpec

(* A request that getRequest returns is made of the records of one request *)
(* of one connection, and send reaches that connection, whatever ids the   *)
(* web servers choose, unless a connection on its descriptor was left in   *)
(* the middle of a request.                                                *)
THEOREM CgiMixedOnlyIfBroken == CgiSpec => []MixedOnlyIfBroken
<1>1. CgiInv => MixedOnlyIfBroken
  <2> SUFFICES ASSUME CgiInv PROVE MixedOnlyIfBroken
    OBVIOUS
  <2>1. ASSUME NEW r \in held, r.fd \notin broken PROVE Cardinality(r.from) = 1
    <3>1. r.fd \in CgiFds
      BY DEF CgiInv, CgiTypes, Request
    <3>2. PICK t : r.from = {t}
      BY <2>1, <3>1 DEF CgiInv, OneRequest, Handed
    <3>3. QED
      BY <3>2, FS_Singleton
  <2>2. ASSUME NEW a \in replies, a.fd \notin broken PROVE a.to = a.tag[1]
    <3>1. a.fd \in CgiFds
      BY DEF CgiInv, CgiTypes
    <3>2. QED
      BY <2>2, <3>1 DEF CgiInv, OneRequest, Replied
  <2>3. QED
    BY <2>1, <2>2 DEF MixedOnlyIfBroken
<1>2. QED
  BY <1>1, CgiInvariant, PTL

(* The assertion of parsePackage that a record comes from the descriptor   *)
(* of its request cannot fail when no two descriptors use the same id.     *)
THEOREM CgiSameDescriptor ==
  ASSUME \A s, u \in CgiFds : IdOf[s] = IdOf[u] => s = u
  PROVE  CgiSpec => []SameDescriptor
<1>1. CgiInit => SameDescriptor
  BY DEF CgiInit, SameDescriptor
<1>2. CgiInv /\ SameDescriptor /\ [CgiNext]_cgiVars => SameDescriptor'
  <2> SUFFICES ASSUME CgiInv, ~aborted, [CgiNext]_cgiVars PROVE ~aborted'
    BY DEF SameDescriptor
  <2>1. CASE getRequest
    <3> DEFINE e == Head(events)
    <3>1. CASE e.type \in {"ESTABLISH", "CLOSE"}
      BY <2>1, <3>1 DEF getRequest
    <3>2. CASE e.type \notin {"ESTABLISH", "CLOSE"}
      <4>1. parsePackage(e) /\ events # <<>>
        BY <2>1, <3>2 DEF getRequest
      <4>2. e.fd \in CgiFds
        <5>1. events \in Seq(Event)
          BY DEF CgiInv, CgiTypes
        <5>2. e \in Event
          BY <4>1, <5>1
        <5>3. QED
          BY <5>2 DEF Event
      <4>3. FindOrNew(IdOf[e.fd], e.fd).fd = e.fd
        BY <4>2, Found DEF Request
      <4>4. QED
        BY <4>1, <4>3 DEF parsePackage, requestid
    <3>3. QED
      BY <3>1, <3>2
  <2>2. CASE ~getRequest
    BY <2>2 DEF CgiNext, CgiConnect, CgiRecord, CgiNextRequest, CgiBreak, CgiWorker, getCompleteRequest, CgiSend,
                releaseRequest, cgiVars
  <2>3. QED
    BY <2>1, <2>2
<1>3. QED
  BY <1>1, <1>2, CgiInvariant, PTL DEF CgiSpec
=============================================================================
