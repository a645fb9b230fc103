---------------------------- MODULE LibraryProofs ----------------------------
(***************************************************************************)
(* Two parts of the library that run MCLibrary checks.  The byte buffer    *)
(* stays inside its block and is a FIFO queue, for every chunk size,       *)
(* initial size, byte set and length of the writes.  The WebSocket server  *)
(* keeps its place in the stream, for every set of payload lengths, size   *)
(* of the handshake and number of frames.                                  *)
(***************************************************************************)
EXTENDS ByteBuffer, WebSocket, SequenceTheorems, FiniteSetTheorems, TLAPS

(* What reserve() guarantees its callers: a block that is no smaller, with *)
(* room for n bytes behind the write index.                                *)
LEMMA ReserveFits ==
  ASSUME NEW cap \in Nat, NEW wi \in Nat, NEW n \in Nat, wi <= cap
  PROVE  /\ reserve(cap, wi, n) \in Nat
         /\ reserve(cap, wi, n) >= cap
         /\ wi + n <= reserve(cap, wi, n)
BY BufferAssumption DEF reserve, blank

Inv == TypeOK /\ InBounds

LEMMA InvInit == Init => Inv
<1> SUFFICES ASSUME Init PROVE Inv
  OBVIOUS
<1>1. capacity \in Nat
  BY ReserveFits, BufferAssumption DEF Init
<1>2. QED
  BY <1>1 DEF Init, Inv, TypeOK, InBounds

(* A write copies inside the block: wlength's assertion holds.             *)
LEMMA WriteKeepsInv ==
  ASSUME Inv, NEW n \in 0 .. MaxLen, NEW k \in 0 .. n, NEW d \in [1 .. k -> Bytes], write(n, d)
  PROVE  Inv'
<1> DEFINE cap == reserve(capacity, windex, n)
<1>1. n \in Nat /\ k \in Nat /\ Len(d) = k /\ k <= n
  BY BufferAssumption
<1>2. cap \in Nat /\ cap >= capacity /\ windex + n <= cap
  BY <1>1, ReserveFits DEF Inv, TypeOK, InBounds
<1>3. capacity' = cap /\ windex' = windex + k /\ rindex' = rindex /\ out' = out
  BY <1>1 DEF write
<1>4. buf' \in [0 .. cap - 1 -> Bytes \cup {Junk}]
  <2>1. buf' = [i \in 0 .. cap - 1 |->
                 IF windex <= i /\ i < windex + k THEN d[i - windex + 1]
                 ELSE IF i < capacity THEN buf[i] ELSE Junk]
    BY <1>1 DEF write
  <2>2. ASSUME NEW i \in 0 .. cap - 1
        PROVE  (IF windex <= i /\ i < windex + k THEN d[i - windex + 1]
                ELSE IF i < capacity THEN buf[i] ELSE Junk) \in Bytes \cup {Junk}
    <3>1. CASE windex <= i /\ i < windex + k
      <4>1. i - windex + 1 \in 1 .. k
        BY <1>1, <1>2, <3>1 DEF Inv, TypeOK
      <4>2. QED
        BY <3>1, <4>1
    <3>2. CASE ~(windex <= i /\ i < windex + k) /\ i < capacity
      <4>1. i \in 0 .. capacity - 1
        BY <1>2, <3>2 DEF Inv, TypeOK
      <4>2. QED
        BY <3>2, <4>1 DEF Inv, TypeOK
    <3>3. CASE ~(windex <= i /\ i < windex + k) /\ ~(i < capacity)
      BY <3>3
    <3>4. QED
      BY <3>1, <3>2, <3>3
  <2>3. QED
    BY <2>1, <2>2
<1>5. QED
  BY <1>1, <1>2, <1>3, <1>4 DEF Inv, TypeOK, InBounds

LEMMA ReadKeepsInv ==
  ASSUME Inv, NEW n \in 0 .. MaxLen, read(n)
  PROVE  Inv'
<1>1. n \in Nat /\ n <= windex - rindex
  BY BufferAssumption DEF read, size
<1>2. out' \in Seq(Bytes \cup {Junk})
  <2>1. ASSUME NEW i \in 1 .. n PROVE buf[rindex + i - 1] \in Bytes \cup {Junk}
    <3>1. rindex + i - 1 \in 0 .. capacity - 1
      BY <1>1 DEF Inv, TypeOK, InBounds
    <3>2. QED
      BY <3>1 DEF Inv, TypeOK
  <2>2. out' \in [1 .. n -> Bytes \cup {Junk}]
    BY <2>1 DEF read
  <2>3. QED
    BY <1>1, <2>2, SeqDef
<1>3. /\ rindex' \in Nat /\ windex' \in Nat
      /\ rindex' <= windex' /\ windex' <= capacity
  BY <1>1 DEF read, rlength, Inv, TypeOK, InBounds
<1>4. QED
  BY <1>2, <1>3 DEF read, Inv, TypeOK, InBounds

LEMMA InvStep == Inv /\ [Next]_vars => Inv'
<1> SUFFICES ASSUME Inv, [Next]_vars PROVE Inv'
  OBVIOUS
<1>1. ASSUME NEW n \in 0 .. MaxLen, NEW k \in 0 .. n, NEW d \in [1 .. k -> Bytes], write(n, d)
      PROVE  Inv'
  BY <1>1, WriteKeepsInv
<1>2. ASSUME NEW n \in 0 .. MaxLen, read(n) PROVE Inv'
  BY <1>2, ReadKeepsInv
<1>3. CASE reset
  BY <1>3 DEF reset, Inv, TypeOK, InBounds
<1>4. CASE clear
  BY <1>4 DEF clear, Inv, TypeOK, InBounds
<1>5. CASE UNCHANGED vars
  BY <1>5 DEF vars, Inv, TypeOK, InBounds
<1>6. QED
  BY <1>1, <1>2, <1>3, <1>4, <1>5 DEF Next

(* For every chunk size and every sequence of writes, reads, resets and    *)
(* clears, the assertions of size(), rlength() and wlength() hold: no copy *)
(* leaves the block.                                                       *)
THEOREM BufferInBounds == Spec => []InBounds
<1>1. Inv => InBounds
  BY DEF Inv
<1>2. QED
  BY <1>1, InvInit, InvStep, PTL DEF Spec

(* The variables keep their types.                                         *)
THEOREM BufferTypeOK == Spec => []TypeOK
<1>1. Inv => TypeOK
  BY DEF Inv
<1>2. QED
  BY <1>1, InvInit, InvStep, PTL DEF Spec
-----------------------------------------------------------------------------
(* The refinement.                                                         *)

LEMMA ContentLen == Inv => Len(Content) = windex - rindex /\ windex - rindex \in Nat
BY DEF Inv, TypeOK, InBounds, Content, size

(* A write adds its bytes behind the unread ones, which stay.              *)
LEMMA WriteIsPut ==
  ASSUME Inv, NEW n \in 0 .. MaxLen, NEW k \in 0 .. n, NEW d \in [1 .. k -> Bytes], write(n, d)
  PROVE  Abstract!Put
<1> DEFINE cap == reserve(capacity, windex, n)
<1>1. n \in Nat /\ k \in Nat /\ Len(d) = k /\ k <= n
  BY BufferAssumption
<1>2. cap \in Nat /\ cap >= capacity /\ windex + n <= cap
  BY <1>1, ReserveFits DEF Inv, TypeOK, InBounds
<1>3. windex' = windex + k /\ rindex' = rindex /\ out' = out
  BY <1>1 DEF write
<1>4. buf' = [i \in 0 .. cap - 1 |->
                 IF windex <= i /\ i < windex + k THEN d[i - windex + 1]
                 ELSE IF i < capacity THEN buf[i] ELSE Junk]
  BY <1>1 DEF write
<1>5. Inv'
  BY WriteKeepsInv
<1>6. Len(Content) = windex - rindex /\ Len(Content') = windex + k - rindex
  BY <1>3, <1>5, ContentLen DEF Inv, TypeOK, InBounds, Content, size
<1>7. ASSUME NEW i \in 1 .. Len(Content) PROVE Content'[i] = Content[i]
  <2>1. i \in 1 .. windex - rindex /\ i \in 1 .. windex' - rindex'
    BY <1>1, <1>3, <1>6, <1>7 DEF Inv, TypeOK, InBounds
  <2>2. /\ rindex + i - 1 \in 0 .. cap - 1
        /\ rindex + i - 1 < windex
        /\ rindex + i - 1 < capacity
    BY <1>1, <1>2, <2>1 DEF Inv, TypeOK, InBounds
  <2>3. buf'[rindex + i - 1] = buf[rindex + i - 1]
    BY <1>4, <2>2 DEF Inv, TypeOK
  <2>4. QED
    BY <1>3, <2>1, <2>3 DEF Content, size
<1>8. ASSUME NEW i \in Len(Content) + 1 .. Len(Content') PROVE Content'[i] \in Bytes
  <2>1. i \in 1 .. windex' - rindex' /\ i >= windex - rindex + 1 /\ i <= windex + k - rindex
    BY <1>1, <1>3, <1>6, <1>8 DEF Inv, TypeOK, InBounds
  <2>2. /\ rindex + i - 1 \in 0 .. cap - 1
        /\ windex <= rindex + i - 1
        /\ rindex + i - 1 < windex + k
        /\ rindex + i - 1 - windex + 1 \in 1 .. k
    BY <1>1, <1>2, <2>1 DEF Inv, TypeOK, InBounds
  <2>3. buf'[rindex + i - 1] = d[rindex + i - 1 - windex + 1]
    BY <1>4, <2>2 DEF Inv, TypeOK
  <2>4. Content'[i] = buf'[rindex + i - 1]
    BY <1>3, <2>1 DEF Content, size
  <2>5. QED
    BY <2>2, <2>3, <2>4
<1>9. Len(Content') >= Len(Content)
  BY <1>1, <1>6 DEF Inv, TypeOK, InBounds
<1>10. QED
  BY <1>3, <1>7, <1>8, <1>9 DEF Abstract!Put

(* A read takes its bytes from the front, also when it rewinds the         *)
(* indices.                                                                *)
LEMMA ReadIsGet ==
  ASSUME Inv, NEW n \in 0 .. MaxLen, read(n)
  PROVE  Abstract!Get
<1>1. n \in Nat /\ n <= windex - rindex
  BY BufferAssumption DEF read, size
<1>2. Len(Content) = windex - rindex /\ n \in 0 .. Len(Content)
  BY <1>1, ContentLen DEF Inv, TypeOK, InBounds
<1>3. out' = SubSeq(Content, 1, n)
  <2>1. out' = [i \in 1 .. n |-> buf[rindex + i - 1]]
    BY DEF read
  <2>2. SubSeq(Content, 1, n) = [i \in 1 .. n |-> Content[i]]
    BY <1>1
  <2>3. ASSUME NEW i \in 1 .. n PROVE Content[i] = buf[rindex + i - 1]
    BY <1>1 DEF Content, size, Inv, TypeOK
  <2>4. QED
    BY <2>1, <2>2, <2>3
<1>4. Content' = SubSeq(Content, n + 1, Len(Content))
  <2> DEFINE m == windex - rindex - n
  <2>1. m \in Nat /\ windex' - rindex' = m
    BY <1>1 DEF read, rlength, Inv, TypeOK, InBounds
  <2>2. Content' = [i \in 1 .. m |-> buf'[rindex' + i - 1]]
    BY <2>1 DEF Content, size
  <2>3. SubSeq(Content, n + 1, Len(Content)) = [i \in 1 .. m |-> Content[n + i]]
    BY <1>1, <1>2, <2>1 DEF Inv, TypeOK
  <2>4. ASSUME NEW i \in 1 .. m PROVE buf'[rindex' + i - 1] = Content[n + i]
    <3>1. n + i \in 1 .. windex - rindex /\ m # 0
      BY <1>1, <2>1 DEF Inv, TypeOK, InBounds
    <3>2. Content[n + i] = buf[rindex + (n + i) - 1]
      BY <3>1 DEF Content, size
    <3>3. rindex' = rindex + n /\ buf' = buf
      BY <1>1, <3>1 DEF read, rlength, Inv, TypeOK, InBounds
    <3>4. rindex' + i - 1 = rindex + (n + i) - 1
      BY <1>1, <3>3 DEF Inv, TypeOK
    <3>5. QED
      BY <3>2, <3>3, <3>4
  <2>5. QED
    BY <2>2, <2>3, <2>4
<1>5. QED
  BY <1>2, <1>3, <1>4 DEF Abstract!Get

LEMMA EmptiedContent == windex' = 0 /\ rindex' = 0 => Content' = <<>>
BY DEF Content, size

(* The buffer implements the FIFO byte queue ByteQueue: for every chunk    *)
(* size, growing the block in reserve() and rewinding the indices in       *)
(* shrink() never lose, repeat, reorder or invent a byte.                  *)
THEOREM BufferRefinesQueue == Spec => IsByteQueue
<1>1. Init => Abstract!QueueInit
  BY DEF Init, Abstract!QueueInit, Content, size
<1>2. Inv /\ [Next]_vars => [Abstract!QueueNext]_<<Content, out>>
  <2> SUFFICES ASSUME Inv, [Next]_vars PROVE [Abstract!QueueNext]_<<Content, out>>
    OBVIOUS
  <2>1. ASSUME NEW n \in 0 .. MaxLen, NEW k \in 0 .. n, NEW d \in [1 .. k -> Bytes], write(n, d)
        PROVE  Abstract!QueueNext
    BY <2>1, WriteIsPut DEF Abstract!QueueNext
  <2>2. ASSUME NEW n \in 0 .. MaxLen, read(n) PROVE Abstract!QueueNext
    BY <2>2, ReadIsGet DEF Abstract!QueueNext
  <2>3. CASE reset
    BY <2>3, EmptiedContent DEF reset, Abstract!QueueNext, Abstract!Empty
  <2>4. CASE clear
    BY <2>4, EmptiedContent DEF clear, Abstract!QueueNext, Abstract!Empty
  <2>5. CASE UNCHANGED vars
    BY <2>5 DEF vars, Content, size
  <2>6. QED
    BY <2>1, <2>2, <2>3, <2>4, <2>5 DEF Next
<1>3. QED
  BY <1>1, <1>2, InvInit, InvStep, PTL DEF Spec, IsByteQueue, Abstract!QueueSpec
-----------------------------------------------------------------------------
(* The WebSocket server.  The invariant adds to KeepsItsPlace that what is *)
(* in the stream, cut and handed over are frames.  Nothing is needed about *)
(* `arrived`: the cut is judged by the frame's size alone.                 *)
Sent == Frames \cup {GET}
FramesTyped == stream \in Seq(Sent) /\ taken \in Seq(Sent) /\ wsGot \in Seq(Sent) /\ pongs \in Nat

WsInv == FramesTyped /\ KeepsItsPlace

(* The frames with given opcodes after one more frame is cut.              *)
LEMMA PlacesGrow ==
  ASSUME taken \in Seq(Sent), NEW f \in Sent, taken' = Append(taken, f), NEW ops
  PROVE  /\ IsFiniteSet(Places(ops)) /\ Places(ops) \in SUBSET (1 .. Len(taken))
         /\ Places(ops)' = Places(ops) \cup (IF f.op \in ops THEN {Len(taken) + 1} ELSE {})
         /\ Cardinality(Places(ops)') = Cardinality(Places(ops)) + (IF f.op \in ops THEN 1 ELSE 0)
         /\ Cardinality(Places(ops)) \in Nat
<1> DEFINE n == Len(taken)
<1>1. n \in Nat /\ DOMAIN taken = 1 .. n /\ DOMAIN taken' = 1 .. n + 1
  OBVIOUS
<1>2. taken'[n + 1] = f /\ \A i \in 1 .. n : taken'[i] = taken[i]
  OBVIOUS
<1>3. Places(ops) \in SUBSET (1 .. n)
  BY <1>1 DEF Places
<1>4a. IsFiniteSet(1 .. n)
  BY <1>1, FS_Interval
<1>4. IsFiniteSet(Places(ops))
  BY <1>3, <1>4a, FS_Subset
<1>5. Places(ops)' = Places(ops) \cup (IF f.op \in ops THEN {n + 1} ELSE {})
  <2>1. ASSUME NEW i
        PROVE  i \in Places(ops)' <=> i \in Places(ops) \/ (f.op \in ops /\ i = n + 1)
    <3>1. i \in 1 .. n + 1 <=> i \in 1 .. n \/ i = n + 1
      BY <1>1
    <3>2. n + 1 \notin 1 .. n
      BY <1>1
    <3>3. QED
      BY <1>1, <1>2, <3>1, <3>2 DEF Places
  <2>2. QED
    BY <2>1
<1>6. n + 1 \notin Places(ops)
  BY <1>1, <1>3
<1>7. Cardinality(Places(ops)) \in Nat
  BY <1>4, FS_CardinalityType
<1>8. Cardinality(Places(ops)') = Cardinality(Places(ops)) + (IF f.op \in ops THEN 1 ELSE 0)
  <2>1. CASE f.op \in ops
    BY <1>4, <1>5, <1>6, <2>1, FS_AddElement
  <2>2. CASE f.op \notin ops
    BY <1>5, <1>7, <2>2
  <2>3. QED
    BY <2>1, <2>2
<1>9. QED
  BY <1>3, <1>4, <1>5, <1>7, <1>8

LEMMA NothingCut ==
  ASSUME ForwardsInOrder, AnswersPings, UNCHANGED <<taken, wsGot, pongs>>
  PROVE  ForwardsInOrder' /\ AnswersPings'
<1>1. \A ops : Places(ops)' = Places(ops)
  BY DEF Places
<1>2. ForwardsInOrder'
  BY <1>1 DEF ForwardsInOrder
<1>3. AnswersPings'
  BY <1>1 DEF AnswersPings
<1>4. QED
  BY <1>2, <1>3

(* The splitter cuts a legal frame of less than 64 KB, and a handshake     *)
(* that is whole in the buffer, at its end and nowhere else.               *)
LEMMA CutsAtTheEnd ==
  ASSUME NEW f \in Sent, NEW len, Splitter(f, len) # 0, Splitter(f, len) # SizeOfFrame(f)
  PROVE  f.n >= 65536 \/ ~f.legal \/ (f.op = "GET" /\ len # HandshakeBytes)
<1>1. CASE f = GET
  <2>1. SUFFICES ASSUME len = HandshakeBytes PROVE FALSE
    BY <1>1 DEF GET
  <2>2. len \in Nat /\ len >= 4 /\ RequiredBytes <= len /\ RequiredBytes \in Int
    BY <2>1, WebSocketAssumption
  <2>3. Splitter(f, len) = len
    BY <1>1, <2>2 DEF Splitter, parse_handshake_request, GET
  <2>4. QED
    BY <1>1, <2>1, <2>3 DEF SizeOfFrame, GET
<1>2. CASE f \in Frames
  <2>1. f.op # "GET" /\ f.n \in Nat
    BY <1>2, WebSocketAssumption DEF Frames, Opcodes, Data
  <2>2. SUFFICES ASSUME f.n < 65536, f.legal PROVE FALSE
    BY <2>1
  <2>3. LengthRead(f.n) = f.n
    BY <2>2 DEF LengthRead
  <2>4. Splitter(f, len) \in {0, 2 + Extended(f.n) + (IF f.mask THEN 4 ELSE 0) + f.n}
    BY <2>1, <2>2, <2>3 DEF Splitter, parsePackage
  <2>5. QED
    BY <2>1, <2>4 DEF SizeOfFrame
<1>3. QED
  BY <1>1, <1>2 DEF Sent

(* A frame is cut at its end: it is handed over behind the ones before it. *)
LEMMA CutForwards ==
  ASSUME WsInv, NEW f \in Sent, taken' = Append(taken, f),
         wsGot' = IF Forwarded(f) THEN Append(wsGot, f) ELSE wsGot
  PROVE  ForwardsInOrder'
<1> DEFINE ops == Data \cup {"GET"}
           sent == Places(ops)
           n == Len(taken)
<1>1. /\ IsFiniteSet(sent) /\ sent \in SUBSET (1 .. n)
      /\ sent' = sent \cup (IF f.op \in ops THEN {n + 1} ELSE {})
      /\ Cardinality(sent') = Cardinality(sent) + (IF f.op \in ops THEN 1 ELSE 0)
      /\ Cardinality(sent) \in Nat
  BY PlacesGrow DEF WsInv, FramesTyped
<1>2. taken \in Seq(Sent) /\ wsGot \in Seq(Sent) /\ Len(wsGot) = Cardinality(sent)
      /\ \A i \in sent : wsGot[Cardinality({j \in sent : j <= i})] = taken[i]
  BY DEF WsInv, FramesTyped, KeepsItsPlace, ForwardsInOrder
<1>3. n \in Nat /\ taken'[n + 1] = f /\ \A i \in 1 .. n : taken'[i] = taken[i]
  BY <1>2
<1>4. Forwarded(f) <=> f.op \in ops
  BY DEF Forwarded
<1>5. Len(wsGot') = Cardinality(sent')
  BY <1>1, <1>2, <1>4
<1>6. ASSUME NEW i \in sent'
      PROVE  wsGot'[Cardinality({j \in sent' : j <= i})] = taken'[i]
  <2>1. CASE i \in sent
    <3>0. i \in 1 .. n
      BY <1>1, <2>1
    <3>1. i \in 1 .. n /\ ~(n + 1 <= i)
      BY <1>3, <3>0
    <3>2. {j \in sent' : j <= i} = {j \in sent : j <= i}
      BY <1>1, <3>1
    <3> DEFINE low == {j \in sent : j <= i}
    <3>3. low \in SUBSET sent /\ i \in low
      BY <2>1, <3>1
    <3>4. IsFiniteSet(low) /\ Cardinality(low) <= Cardinality(sent)
      BY <1>1, <3>3, FS_Subset
    <3>5. Cardinality(low) \in Nat /\ Cardinality(low) # 0
      BY <3>3, <3>4, FS_CardinalityType, FS_EmptySet
    <3>6. Cardinality(low) \in 1 .. Len(wsGot)
      <4> HIDE DEF low, sent
      <4>1. QED
        BY <1>1, <1>2, <3>4, <3>5
    <3>7. wsGot'[Cardinality(low)] = wsGot[Cardinality(low)]
      <4> HIDE DEF low
      <4>1. QED
        BY <1>2, <3>6
    <3>8. QED
      BY <1>2, <1>3, <2>1, <3>1, <3>2, <3>7
  <2>2. CASE i \notin sent
    <3>1. i = n + 1 /\ f.op \in ops
      BY <1>1, <2>2
    <3>2. {j \in sent' : j <= i} = sent'
      <4>1. ASSUME NEW j \in sent' PROVE j <= i
        <5>1. j \in 1 .. n \/ j = n + 1
          <6> HIDE DEF sent
          <6>1. QED
            BY <1>1
        <5>2. QED
          BY <1>3, <3>1, <5>1
      <4>2. QED
        BY <4>1
    <3>3. Cardinality(sent') = Len(wsGot) + 1
      BY <1>1, <1>2, <3>1
    <3>4. wsGot' = Append(wsGot, f)
      BY <1>4, <3>1
    <3>5. wsGot'[Len(wsGot) + 1] = f
      BY <1>2, <3>4
    <3>6. QED
      BY <1>3, <3>1, <3>2, <3>3, <3>5
  <2>3. QED
    BY <2>1, <2>2
<1>7. QED
  BY <1>5, <1>6 DEF ForwardsInOrder

LEMMA LastAppended ==
  ASSUME NEW S, NEW q \in Seq(S), NEW x \in S
  PROVE  Append(q, x) # <<>> /\ Append(q, x)[Len(Append(q, x))] = x
<1>1. Len(Append(q, x)) = Len(q) + 1 /\ Len(q) \in Nat
  OBVIOUS
<1>2. Append(q, x)[Len(q) + 1] = x
  OBVIOUS
<1>3. Append(q, x) # <<>>
  BY <1>1, Len(<<>>) = 0
<1>4. QED
  BY <1>1, <1>2, <1>3

LEMMA ReceiveKeepsPlace == WsInv /\ WsReceive => WsInv'
<1> SUFFICES ASSUME WsInv, WsReceive PROVE WsInv'
  OBVIOUS
<1> DEFINE f == Head(stream)
           cut == Splitter(f, arrived)
<1>1. f \in Sent /\ Tail(stream) \in Seq(Sent) /\ wsOpen /\ ~lost /\ cut # 0
  BY DEF WsInv, FramesTyped, WsReceive
<1> HIDE DEF f
<1>2. CASE cut = SizeOfFrame(f)
  <2>1. /\ stream' = Tail(stream) /\ taken' = Append(taken, f)
        /\ wsGot' = IF Forwarded(f) THEN Append(wsGot, f) ELSE wsGot
        /\ pongs' = pongs + (IF f.op = "PING" THEN 1 ELSE 0)
        /\ wsOpen' = (f.op \notin {"CLOSE", "RESERVED"})
        /\ lost' = lost
    BY <1>2 DEF WsReceive, f
  <2>2. FramesTyped'
    BY <1>1, <2>1 DEF WsInv, FramesTyped
  <2>3. CutsFrames'
    <3>0. taken \in Seq(Sent)
      BY DEF WsInv, FramesTyped
    <3>1. taken' # <<>> /\ taken'[Len(taken')] = f
      BY <1>1, <2>1, <3>0, LastAppended
    <3>2. ~lost'
      BY <1>1, <2>1
    <3>3. ~wsOpen' => taken'[Len(taken')].op \in {"CLOSE", "RESERVED"}
      BY <2>1, <3>1
    <3>4. QED
      BY <3>1, <3>2, <3>3 DEF CutsFrames
  <2>4. ForwardsInOrder'
    BY <1>1, <2>1, CutForwards
  <2>5. AnswersPings'
    <3>1. Cardinality(Places({"PING"})') = Cardinality(Places({"PING"})) + (IF f.op \in {"PING"} THEN 1 ELSE 0)
      BY <1>1, <2>1, PlacesGrow DEF WsInv, FramesTyped
    <3>2. QED
      BY <2>1, <3>1 DEF WsInv, KeepsItsPlace, AnswersPings
  <2>6. QED
    BY <2>2, <2>3, <2>4, <2>5 DEF WsInv, KeepsItsPlace
<1>3. CASE cut # SizeOfFrame(f)
  <2>1. UNCHANGED <<stream, arrived, taken, wsGot, pongs>>
    BY <1>3 DEF WsReceive, f
  <2>2. f.n >= 65536 \/ ~f.legal \/ (f.op = "GET" /\ arrived # HandshakeBytes)
    BY <1>1, <1>3, CutsAtTheEnd
  <2>3. CutsFrames'
    BY <2>1, <2>2 DEF CutsFrames, f
  <2>4. QED
    BY <2>1, <2>3, NothingCut DEF WsInv, FramesTyped, KeepsItsPlace
<1>4. QED
  BY <1>2, <1>3

LEMMA WsInvStep == WsInv /\ [WsNext]_wsVars => WsInv'
<1> SUFFICES ASSUME WsInv, [WsNext]_wsVars PROVE WsInv'
  OBVIOUS
<1>1. ASSUME NEW f \in Sent, ClientFrame(f) PROVE WsInv'
  <2>1. stream' \in Seq(Sent)
    BY <1>1 DEF ClientFrame, WsInv, FramesTyped
  <2>2. QED
    BY <1>1, <2>1, NothingCut DEF ClientFrame, WsInv, FramesTyped, KeepsItsPlace, CutsFrames
<1>2. CASE Deliver
  BY <1>2, NothingCut DEF Deliver, WsInv, FramesTyped, KeepsItsPlace, CutsFrames
<1>3. CASE WsReceive
  BY <1>3, ReceiveKeepsPlace
<1>4. CASE UNCHANGED wsVars
  BY <1>4, NothingCut DEF wsVars, WsInv, FramesTyped, KeepsItsPlace, CutsFrames
<1>5. QED
  BY <1>1, <1>2, <1>3, <1>4 DEF WsNext, Sent

(* The WebSocket server never loses its place but for the two causes in    *)
(* the code (an eight-byte length, a handshake not in the buffer exactly   *)
(* whole): for every set of payload lengths and every way the network cuts *)
(* the bytes, packages are frames, data is handed over in the order it was *)
(* sent and every ping has had its pong.                                   *)
THEOREM WebSocketKeepsItsPlace == WsInit /\ [][WsNext]_wsVars => []KeepsItsPlace
<1>1. WsInit => WsInv
  <2> SUFFICES ASSUME WsInit PROVE WsInv
    OBVIOUS
  <2>1. \A ops : Places(ops) = {}
    BY DEF WsInit, Places
  <2>2. FramesTyped /\ CutsFrames
    BY DEF WsInit, FramesTyped, CutsFrames
  <2>3. ForwardsInOrder
    BY <2>1, FS_EmptySet DEF WsInit, ForwardsInOrder
  <2>4. AnswersPings
    BY <2>1, FS_EmptySet DEF WsInit, AnswersPings
  <2>5. QED
    BY <2>2, <2>3, <2>4 DEF WsInv, KeepsItsPlace
<1>2. WsInv => KeepsItsPlace
  BY DEF WsInv
<1>3. QED
  BY <1>1, <1>2, WsInvStep, PTL
=============================================================================
