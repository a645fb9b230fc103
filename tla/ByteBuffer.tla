----------------------------- MODULE ByteBuffer -----------------------------
(***************************************************************************)
(* The growing byte buffer under every socket (src/src/tools/ByteBuffer.cpp): *)
(* one block of memory, a read index and a write index.  Space is reserved *)
(* behind the write index, the block only grows, and the indices go back   *)
(* to 0 when the last byte is read.                                        *)
(***************************************************************************)
EXTENDS Integers, Sequences

CONSTANTS
  Bytes,        \* the byte values
  Junk,         \* the content of memory nobody has written
  ChunkSize,    \* BUFFER_CHUNK_SIZE
  InitialSize,  \* the argument of the constructor
  MaxLen,       \* bound: the longest single write
  MaxCapacity   \* bound: the largest block

ASSUME BufferAssumption ==
  /\ ChunkSize \in Nat \ {0}
  /\ InitialSize \in Nat
  /\ MaxLen \in Nat
  /\ MaxCapacity \in Nat
  /\ Junk \notin Bytes

VARIABLES
  buf,       \* _buf, a block of _capacity bytes
  capacity,  \* _capacity
  rindex,    \* _rindex
  windex,    \* _windex
  out        \* the bytes the last read() returned

vars == <<buf, capacity, rindex, windex, out>>

TypeOK ==
  /\ capacity \in Nat
  /\ rindex \in Nat
  /\ windex \in Nat
  /\ buf \in [0 .. capacity - 1 -> Bytes \cup {Junk}]
  /\ out \in Seq(Bytes \cup {Junk})

size == windex - rindex
blank(cap, wi) == IF wi >= cap THEN 0 ELSE cap - wi

(* Fault: reserve grows to, not by, the size asked for.                     *)
reserveNotAdded(cap, wi, n) ==
  IF blank(cap, wi) > n THEN cap
  ELSE IF n < ChunkSize THEN ChunkSize ELSE n

(* reserve: the capacity after asking for n more bytes behind wi.          *)
reserve(cap, wi, n) ==
  IF blank(cap, wi) > n THEN cap
  ELSE (IF n < ChunkSize THEN ChunkSize ELSE n) + cap

Init ==
  /\ capacity = reserve(0, 0, InitialSize)
  /\ buf = [i \in 0 .. capacity - 1 |-> Junk]
  /\ rindex = 0
  /\ windex = 0
  /\ out = <<>>
-----------------------------------------------------------------------------
(* wbuffer(n), up to n bytes d copied to where it points, wlength(Len(d)): *)
(* append (with n = Len(d)), CopyFrom, and recv into the buffer.           *)
write(n, d) ==
  LET cap == reserve(capacity, windex, n) IN
  /\ Len(d) <= n
  /\ cap <= MaxCapacity
  /\ capacity' = cap
  /\ buf' = [i \in 0 .. cap - 1 |->
               IF windex <= i /\ i < windex + Len(d) THEN d[i - windex + 1]
               ELSE IF i < capacity THEN buf[i] ELSE Junk]
  /\ windex' = windex + Len(d)
  /\ UNCHANGED <<rindex, out>>

(* Fault: shrink rewinds the read index alone.                              *)
rlengthKeepsWindex(n) ==
  /\ rindex' = IF rindex + n = windex THEN 0 ELSE rindex + n
  /\ UNCHANGED windex

(* rlength(n) with its shrink, for the values of the indices after it.     *)
rlength(n) ==
  IF rindex + n = windex
  THEN rindex' = 0 /\ windex' = 0
  ELSE rindex' = rindex + n /\ windex' = windex

(* read(out, n); the callers ask for no more than there is.                *)
read(n) ==
  /\ n <= size
  /\ out' = [i \in 1 .. n |-> buf[rindex + i - 1]]
  /\ rlength(n)
  /\ UNCHANGED <<buf, capacity>>

reset ==
  /\ rindex' = 0
  /\ windex' = 0
  /\ UNCHANGED <<buf, capacity, out>>

(* Fault: clear frees the block and keeps its size.                         *)
clearKeepsCapacity ==
  /\ buf' = [i \in 0 .. -1 |-> Junk]
  /\ rindex' = 0
  /\ windex' = 0
  /\ UNCHANGED <<capacity, out>>

clear ==
  /\ capacity' = 0
  /\ buf' = [i \in 0 .. -1 |-> Junk]
  /\ rindex' = 0
  /\ windex' = 0
  /\ UNCHANGED out

Next ==
  \/ \E n \in 0 .. MaxLen : \E k \in 0 .. n : \E d \in [1 .. k -> Bytes] : write(n, d)
  \/ \E n \in 0 .. MaxLen : read(n)
  \/ reset
  \/ clear

Spec == Init /\ [][Next]_vars
-----------------------------------------------------------------------------
(* Properties.                                                             *)

(* The assertions of size() and wlength(): the indices stay ordered and    *)
(* inside the block, so no copy runs over its end.                         *)
InBounds == rindex <= windex /\ windex <= capacity

(* The bytes between the indices.                                          *)
Content == [i \in 1 .. size |-> buf[rindex + i - 1]]

Abstract == INSTANCE ByteQueue WITH queue <- Content

(* Growing, reserving more than is used and rewinding the indices never    *)
(* lose, repeat, reorder or invent a byte: the buffer is a FIFO queue.     *)
IsByteQueue == Abstract!QueueSpec
=============================================================================
