---------------------------- MODULE SocketStream ----------------------------
(***************************************************************************)
(* The sending half of Socket (src/src/socket/Socket.cpp): messages are    *)
(* queued in _sendlist and written with non-blocking send(); what send()   *)
(* does not take of a message goes to _wbuffer, and the rest is sent when  *)
(* epoll reports the socket writable again.  _wbuffer is a byte queue      *)
(* (ByteBuffer implements one).                                            *)
(*                                                                         *)
(* Messages are numbered in the order in which they are submitted; byte k  *)
(* of message m is the pair <<m, k>>.                                      *)
(***************************************************************************)
EXTENDS Integers, Sequences

CONSTANTS
  MaxMessages,  \* bound: messages submitted
  MaxSize,      \* bound: bytes of one message
  Room          \* bytes the kernel's send buffer holds

ASSUME StreamAssumption ==
  /\ MaxMessages \in Nat
  /\ MaxSize \in Nat \ {0}
  /\ Room \in Nat \ {0}

VARIABLES
  length,    \* length[m]: payload_len of submitted message m
  sendlist,  \* _sendlist
  wbuffer,   \* _wbuffer
  wire,      \* all bytes send() has taken so far
  acked,     \* how many of them the peer has taken from the kernel
  nospace,   \* send() has failed for want of room since the last edge
  writable,  \* epoll has an EPOLLOUT edge to report
  pc         \* "idle", "flush" (in sendMessage()) or "lost" (connection gone)

vars == <<length, sendlist, wbuffer, wire, acked, nospace, writable, pc>>

Byte == (1 .. MaxMessages) \X (1 .. MaxSize)

TypeOK ==
  /\ length \in Seq(1 .. MaxSize)
  /\ sendlist \in Seq(1 .. MaxMessages)
  /\ wbuffer \in Seq(Byte)
  /\ wire \in Seq(Byte)
  /\ acked \in Nat
  /\ nospace \in BOOLEAN
  /\ writable \in BOOLEAN
  /\ pc \in {"idle", "flush", "lost"}

Init ==
  /\ length = <<>>
  /\ sendlist = <<>>
  /\ wbuffer = <<>>
  /\ wire = <<>>
  /\ acked = 0
  /\ nospace = FALSE
  /\ writable = FALSE
  /\ pc = "idle"
-----------------------------------------------------------------------------
(* Fault: a message may be empty.                                           *)
SubmitEmpty(n) ==
  /\ pc = "idle"
  /\ Len(length) < MaxMessages
  /\ length' = Append(length, n - 1)
  /\ sendlist' = Append(sendlist, Len(length) + 1)
  /\ pc' = "flush"
  /\ UNCHANGED <<wbuffer, wire, acked, nospace, writable>>

(* sendMessage(msg) queues the message and goes on to sendMessage().       *)
Submit(n) ==
  /\ pc = "idle"
  /\ Len(length) < MaxMessages
  /\ length' = Append(length, n)
  /\ sendlist' = Append(sendlist, Len(length) + 1)
  /\ pc' = "flush"
  /\ UNCHANGED <<wbuffer, wire, acked, nospace, writable>>

(* epoll reports the socket writable: writeSocket calls sendMessage().     *)
Writable ==
  /\ pc = "idle"
  /\ writable
  /\ writable' = FALSE
  /\ pc' = "flush"
  /\ UNCHANGED <<length, sendlist, wbuffer, wire, acked, nospace>>

(* The bytes of a message.                                                 *)
Payload(m) == [k \in 1 .. length[m] |-> <<m, k>>]

Free == Room - (Len(wire) - acked)

(* Fault: the loop ends after sending a rest.                               *)
SendRestAndStop ==
  /\ pc = "flush"
  /\ wbuffer # <<>>
  /\ \E n \in 1 .. Len(wbuffer) :
       /\ n <= Free
       /\ wire' = wire \o SubSeq(wbuffer, 1, n)
       /\ wbuffer' = SubSeq(wbuffer, n + 1, Len(wbuffer))
  /\ pc' = "idle"
  /\ UNCHANGED <<length, sendlist, acked, nospace, writable>>

(* Fault: what send() did not take is not kept.                             *)
SendNextForgetsRest ==
  /\ pc = "flush"
  /\ wbuffer = <<>>
  /\ sendlist # <<>>
  /\ sendlist' = Tail(sendlist)
  /\ \E n \in 1 .. length[Head(sendlist)] :
       /\ n <= Free
       /\ wire' = wire \o SubSeq(Payload(Head(sendlist)), 1, n)
  /\ UNCHANGED <<length, wbuffer, acked, nospace, writable, pc>>

(* One round of the loop in sendMessage(): the rest of a message first.    *)
SendRest ==
  /\ pc = "flush"
  /\ wbuffer # <<>>
  /\ \E n \in 1 .. Len(wbuffer) :
       /\ n <= Free
       /\ wire' = wire \o SubSeq(wbuffer, 1, n)
       /\ wbuffer' = SubSeq(wbuffer, n + 1, Len(wbuffer))
  /\ UNCHANGED <<length, sendlist, acked, nospace, writable, pc>>

(* Otherwise the next message, whose rest is kept.                         *)
SendNext ==
  /\ pc = "flush"
  /\ wbuffer = <<>>
  /\ sendlist # <<>>
  /\ sendlist' = Tail(sendlist)
  /\ \E n \in 1 .. length[Head(sendlist)] :
       LET bytes == Payload(Head(sendlist)) IN
       /\ n <= Free
       /\ wire' = wire \o SubSeq(bytes, 1, n)
       /\ wbuffer' = SubSeq(bytes, n + 1, Len(bytes))
  /\ UNCHANGED <<length, acked, nospace, writable, pc>>

(* send() would block: the loop ends.  A message that was just taken off   *)
(* the list is not put back.  The kernel will report when there is room.   *)
SendBlocked ==
  /\ pc = "flush"
  /\ Free = 0
  /\ wbuffer # <<>> \/ sendlist # <<>>
  /\ sendlist' = IF wbuffer = <<>> THEN Tail(sendlist) ELSE sendlist
  /\ nospace' = TRUE
  /\ pc' = "idle"
  /\ UNCHANGED <<length, wbuffer, wire, acked, writable>>

SendDone ==
  /\ pc = "flush"
  /\ wbuffer = <<>>
  /\ sendlist = <<>>
  /\ pc' = "idle"
  /\ UNCHANGED <<length, sendlist, wbuffer, wire, acked, nospace, writable>>

(* send() fails: the worker removes the socket.                            *)
SendError ==
  /\ pc = "flush"
  /\ wbuffer # <<>> \/ sendlist # <<>>
  /\ pc' = "lost"
  /\ UNCHANGED <<length, sendlist, wbuffer, wire, acked, nospace, writable>>

(* The peer takes bytes.  The kernel raises an edge if a send() has failed. *)
PeerReads ==
  /\ acked < Len(wire)
  /\ acked' = acked + 1
  /\ writable' = (writable \/ nospace)
  /\ nospace' = FALSE
  /\ UNCHANGED <<length, sendlist, wbuffer, wire, pc>>

Flush == SendRest \/ SendNext \/ SendBlocked \/ SendDone

Next ==
  \/ \E n \in 1 .. MaxSize : Submit(n)
  \/ Writable
  \/ Flush
  \/ SendError
  \/ PeerReads

Spec == Init /\ [][Next]_vars
-----------------------------------------------------------------------------
(* Properties.                                                             *)

(* What the peer has been or will be sent, before the messages still in    *)
(* the list.                                                               *)
Stream == wire \o wbuffer

(* Byte b may follow byte a: it continues a's message, or a ends a message *)
(* and b begins a later one.                                               *)
Follows(a, b) ==
  \/ b[1] = a[1] /\ b[2] = a[2] + 1
  \/ b[1] > a[1] /\ b[2] = 1 /\ a[2] = length[a[1]]

(* The stream is made of whole messages, in the order of submission and    *)
(* none twice: however send() splits the writes, the peer can cut it into  *)
(* messages again.                                                         *)
StreamFramed ==
  Stream # <<>> =>
    /\ Stream[1][2] = 1
    /\ Stream[Len(Stream)][2] = length[Stream[Len(Stream)][1]]
    /\ \A i \in 1 .. Len(Stream) - 1 : Follows(Stream[i], Stream[i + 1])

(* Every submitted message is sent or still waiting.                       *)
NothingDropped ==
  pc # "lost" =>
    \A m \in 1 .. Len(length) :
      \/ \E i \in 1 .. Len(sendlist) : sendlist[i] = m
      \/ \E i \in 1 .. Len(Stream) : Stream[i][1] = m

(* What is kept for later does not stay: the edge-triggered EPOLLOUT that  *)
(* follows a full send buffer always arrives after the buffer was found    *)
(* full, so a socket with pending bytes or messages is flushed.            *)
Drained == wbuffer # <<>> \/ sendlist # <<>> ~> (wbuffer = <<>> /\ sendlist = <<>>) \/ pc = "lost"
=============================================================================
