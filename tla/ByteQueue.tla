----------------------------- MODULE ByteQueue -----------------------------
(***************************************************************************)
(* What the users of ByteBuffer rely on: a first-in first-out queue of     *)
(* bytes.                                                                  *)
(***************************************************************************)
EXTENDS Naturals, Sequences

CONSTANT Bytes

VARIABLES
  queue,  \* the bytes written and not yet read
  out     \* what the last read returned

QueueInit == queue = <<>> /\ out = <<>>

(* Bytes are added behind those in the queue.                              *)
Put ==
  /\ Len(queue') >= Len(queue)
  /\ \A i \in 1 .. Len(queue) : queue'[i] = queue[i]
  /\ \A i \in Len(queue) + 1 .. Len(queue') : queue'[i] \in Bytes
  /\ UNCHANGED out

(* Bytes are taken from the front.                                         *)
Get ==
  \E n \in 0 .. Len(queue) :
    /\ out' = SubSeq(queue, 1, n)
    /\ queue' = SubSeq(queue, n + 1, Len(queue))

Empty == queue' = <<>> /\ UNCHANGED out

QueueNext == Put \/ Get \/ Empty

QueueSpec == QueueInit /\ [][QueueNext]_<<queue, out>>
=============================================================================
