------------------------- MODULE SocketStreamProofs -------------------------
(***************************************************************************)
(* Two halves of Socket (src/src/socket/Socket.cpp).                       *)
(*                                                                         *)
(* The peer of a socket receives whole messages in the order in which they *)
(* were submitted, for any number of messages of any size and any size of  *)
(* the kernel's send buffer.                                               *)
(*                                                                         *)
(* The limits on a connection (ConnectionLimits): the ring of counters     *)
(* never counts too little, and a connection is removed for silence only   *)
(* if it was silent, for any limits and any size of the ring.              *)
(***************************************************************************)
EXTENDS SocketStream, ConnectionLimits, SequenceTheorems, FiniteSetTheorems, TLAPS

(* The messages in the list are later than those in the stream, in         *)
(* ascending order, and all of them have been submitted.                   *)
Later ==
  /\ \A i \in 1 .. Len(sendlist) : sendlist[i] <= Len(length)
  /\ \A i, j \in 1 .. Len(sendlist) : i < j => sendlist[i] < sendlist[j]
  /\ \A j \in 1 .. Len(Stream) : Stream[j][1] <= Len(length)
  /\ \A i \in 1 .. Len(sendlist) : \A j \in 1 .. Len(Stream) : Stream[j][1] < sendlist[i]

Inv == TypeOK /\ Later /\ StreamFramed

LEMMA SplitJoins ==
  ASSUME NEW S, NEW s \in Seq(S), NEW n \in 1 .. Len(s)
  PROVE  /\ SubSeq(s, 1, n) \in Seq(S)
         /\ SubSeq(s, n + 1, Len(s)) \in Seq(S)
         /\ SubSeq(s, 1, n) \o SubSeq(s, n + 1, Len(s)) = s
<1>1. SubSeq(s, 1, n) \in Seq(S) /\ SubSeq(s, n + 1, Len(s)) \in Seq(S)
  OBVIOUS
<1>2. SubSeq(s, 1, n) \o SubSeq(s, n + 1, Len(s)) = SubSeq(s, 1, Len(s))
  BY ConcatAdjacentSubSeq
<1>3. QED
  BY <1>1, <1>2, SubSeqFull

LEMMA Regroup ==
  ASSUME NEW S, NEW u \in Seq(S), NEW s \in Seq(S), NEW n \in 1 .. Len(s)
  PROVE  /\ u \o SubSeq(s, 1, n) \in Seq(S)
         /\ (u \o SubSeq(s, 1, n)) \o SubSeq(s, n + 1, Len(s)) = u \o s
<1> DEFINE a == SubSeq(s, 1, n)
           b == SubSeq(s, n + 1, Len(s))
<1>1. a \in Seq(S) /\ b \in Seq(S)
  BY SplitJoins
<1>2. a \o b = s
  BY SplitJoins
<1> SUFFICES u \o a \in Seq(S) /\ (u \o a) \o b = u \o s
  OBVIOUS
<1> HIDE DEF a, b
<1>3. u \o a \in Seq(S)
  BY <1>1
<1>4. (u \o a) \o b = u \o (a \o b)
  BY <1>1, SMTT(30)
<1>5. QED
  BY <1>2, <1>3, <1>4

LEMMA InvInit == Init => Inv
<1> SUFFICES ASSUME Init PROVE Inv
  OBVIOUS
<1>1. TypeOK
  BY EmptySeq DEF Init, TypeOK
<1>2. Stream = <<>>
  BY ConcatEmptySeq DEF Init, Stream
<1>3. QED
  BY <1>1, <1>2 DEF Init, Inv, Later, StreamFramed

LEMMA SubmitKeepsInv ==
  ASSUME Inv, NEW n \in 1 .. MaxSize, Submit(n)
  PROVE  Inv'
<1>1. /\ length' \in Seq(1 .. MaxSize)
      /\ Len(length') = Len(length) + 1
      /\ \A m \in 1 .. Len(length) : length'[m] = length[m]
  BY DEF Inv, TypeOK, Submit
<1>2. Stream' = Stream /\ Stream \in Seq(Byte)
  BY DEF Inv, TypeOK, Submit, Stream
<1>3. /\ sendlist' \in Seq(1 .. MaxMessages)
      /\ Len(sendlist') = Len(sendlist) + 1
      /\ \A i \in 1 .. Len(sendlist) : sendlist'[i] = sendlist[i]
      /\ sendlist'[Len(sendlist) + 1] = Len(length) + 1
  BY StreamAssumption DEF Inv, TypeOK, Submit
<1>4. TypeOK'
  BY <1>1, <1>3 DEF Inv, TypeOK, Submit
<1>5. Later'
  <2>1. \A i \in 1 .. Len(sendlist) : sendlist[i] \in Nat /\ sendlist[i] <= Len(length)
    BY StreamAssumption DEF Inv, TypeOK, Later
  <2>2. \A j \in 1 .. Len(Stream) : Stream[j][1] \in Nat /\ Stream[j][1] <= Len(length)
    BY <1>2, StreamAssumption DEF Inv, Later, Byte
  <2>3. Len(length) \in Nat /\ Len(sendlist) \in Nat
    BY DEF Inv, TypeOK
  <2>4. \A i \in 1 .. Len(sendlist') :
          \/ i \in 1 .. Len(sendlist) /\ sendlist'[i] = sendlist[i]
          \/ i = Len(sendlist) + 1 /\ sendlist'[i] = Len(length) + 1
    BY <1>3, <2>3
  <2>5. \A i \in 1 .. Len(sendlist') : sendlist'[i] <= Len(length')
    BY <1>1, <2>1, <2>3, <2>4
  <2>6. \A i, j \in 1 .. Len(sendlist') : i < j => sendlist'[i] < sendlist'[j]
    BY <2>1, <2>3, <2>4 DEF Inv, Later
  <2>7. \A j \in 1 .. Len(Stream) : Stream[j][1] <= Len(length')
    BY <1>1, <2>2, <2>3
  <2>8. \A i \in 1 .. Len(sendlist') : \A j \in 1 .. Len(Stream) : Stream[j][1] < sendlist'[i]
    BY <2>2, <2>3, <2>4 DEF Inv, Later
  <2>9. QED
    BY <1>2, <2>5, <2>6, <2>7, <2>8 DEF Later
<1>6. StreamFramed'
  <2>1. \A j \in 1 .. Len(Stream) : Stream[j][1] \in 1 .. Len(length) /\ length'[Stream[j][1]] = length[Stream[j][1]]
    BY <1>1, <1>2 DEF Inv, Later, Byte
  <2>2. SUFFICES ASSUME Stream # <<>> PROVE StreamFramed'
    BY <1>2 DEF StreamFramed
  <2>3. Len(Stream) \in 1 .. Len(Stream)
    BY <1>2, <2>2
  <2>4. \A i \in 1 .. Len(Stream) - 1 : i \in 1 .. Len(Stream) /\ i + 1 \in 1 .. Len(Stream)
    BY <1>2
  <2>5. QED
    BY <1>2, <2>1, <2>2, <2>3, <2>4 DEF Inv, StreamFramed, Follows
<1>7. QED
  BY <1>4, <1>5, <1>6 DEF Inv

(* What send() takes of the rest moves from one part of the stream to the  *)
(* other.                                                                  *)
LEMMA SendRestKeepsInv ==
  ASSUME Inv, SendRest
  PROVE  Inv'
<1>1. PICK n \in 1 .. Len(wbuffer) :
        /\ wire' = wire \o SubSeq(wbuffer, 1, n)
        /\ wbuffer' = SubSeq(wbuffer, n + 1, Len(wbuffer))
  BY DEF SendRest
<1>2. wire \in Seq(Byte) /\ wbuffer \in Seq(Byte)
  BY DEF Inv, TypeOK
<1>3. wire' \in Seq(Byte) /\ wbuffer' \in Seq(Byte)
  BY <1>1, <1>2, SplitJoins, Regroup
<1>4. Stream' = Stream
  BY <1>1, <1>2, Regroup DEF Stream
<1>5. QED
  BY <1>3, <1>4 DEF Inv, TypeOK, Later, StreamFramed, Follows, SendRest

(* A message goes into the stream whole.                                   *)
LEMMA SendNextKeepsInv ==
  ASSUME Inv, SendNext
  PROVE  Inv'
<1> DEFINE m == Head(sendlist)
           p == Payload(m)
<1>1. PICK n \in 1 .. length[m] :
        /\ wire' = wire \o SubSeq(p, 1, n)
        /\ wbuffer' = SubSeq(p, n + 1, Len(p))
  BY DEF SendNext
<1>2. /\ sendlist # <<>> /\ sendlist \in Seq(1 .. MaxMessages)
      /\ m = sendlist[1] /\ 1 \in 1 .. Len(sendlist)
      /\ m \in 1 .. MaxMessages /\ m \in 1 .. Len(length)
  <2>1. sendlist # <<>> /\ sendlist \in Seq(1 .. MaxMessages) /\ length \in Seq(1 .. MaxSize)
    BY DEF Inv, TypeOK, SendNext
  <2>2. m = sendlist[1] /\ 1 \in 1 .. Len(sendlist)
    BY <2>1
  <2>3. m \in 1 .. MaxMessages
    BY <2>1, <2>2, ElementOfSeq
  <2>4. m <= Len(length) /\ Len(length) \in Nat
    BY <2>1, <2>2 DEF Inv, Later
  <2>5. QED
    BY <2>1, <2>2, <2>3, <2>4, StreamAssumption
<1>3. length[m] \in 1 .. MaxSize
  BY <1>2, ElementOfSeq DEF Inv, TypeOK
<1>4. p \in Seq(Byte) /\ Len(p) = length[m] /\ \A k \in 1 .. length[m] : p[k] = <<m, k>>
  <2>1. \A k \in 1 .. length[m] : <<m, k>> \in Byte
    BY <1>2, <1>3, StreamAssumption DEF Byte
  <2>2. QED
    BY <1>3, <2>1 DEF Payload
<1> HIDE DEF p
<1> HIDE DEF m
<1>5. n \in 1 .. Len(p)
  BY <1>4
<1>6. wire \in Seq(Byte) /\ wbuffer = <<>>
  BY DEF Inv, TypeOK, SendNext
<1>7. Stream = wire
  BY <1>6, ConcatEmptySeq DEF Stream
<1>9. Stream' = wire \o p
  BY <1>1, <1>4, <1>5, <1>6, Regroup DEF Stream
<1>10. wire' \in Seq(Byte) /\ wbuffer' \in Seq(Byte)
  BY <1>1, <1>4, <1>5, <1>6, SplitJoins, Regroup
<1>11. /\ sendlist' \in Seq(1 .. MaxMessages)
       /\ Len(sendlist') = Len(sendlist) - 1
       /\ \A i \in 1 .. Len(sendlist) - 1 : sendlist'[i] = sendlist[i + 1]
  BY <1>2 DEF SendNext
<1>12. length' = length
  BY DEF SendNext
<1>13. TypeOK'
  BY <1>10, <1>11 DEF Inv, TypeOK, SendNext
<1>14. /\ Len(wire \o p) = Len(wire) + length[m]
       /\ \A j \in 1 .. Len(wire) : (wire \o p)[j] = wire[j]
       /\ \A k \in 1 .. length[m] : (wire \o p)[Len(wire) + k] = <<m, k>>
  BY <1>3, <1>4, <1>6, StreamAssumption, ConcatProperties
<1>15. ASSUME NEW j \in 1 .. Len(wire \o p)
       PROVE  \/ j \in 1 .. Len(wire) /\ (wire \o p)[j] = wire[j]
              \/ j - Len(wire) \in 1 .. length[m] /\ (wire \o p)[j] = <<m, j - Len(wire)>>
  <2>1. CASE j <= Len(wire)
    BY <1>6, <1>14, <2>1
  <2>2. CASE j > Len(wire)
    <3>1. j - Len(wire) \in 1 .. length[m] /\ Len(wire) + (j - Len(wire)) = j
      BY <1>3, <1>6, <1>14, <2>2
    <3>2. QED
      BY <1>14, <3>1
  <2>3. QED
    BY <1>6, <2>1, <2>2
<1>16. Later'
  <2>1. \A i \in 1 .. Len(sendlist') :
          /\ i + 1 \in 1 .. Len(sendlist)
          /\ sendlist'[i] = sendlist[i + 1]
          /\ sendlist[i + 1] <= Len(length)
          /\ m < sendlist[i + 1]
    BY <1>2, <1>11 DEF Inv, Later
  <2>2. \A j \in 1 .. Len(wire) : wire[j][1] < m /\ wire[j][1] \in Nat
    BY <1>2, <1>6, <1>7 DEF Inv, Later, Byte
  <2>3. ASSUME NEW j \in 1 .. Len(wire \o p)
        PROVE  (wire \o p)[j][1] <= m /\ (wire \o p)[j][1] \in Nat
    <3>1. m \in Nat
      BY <1>2, StreamAssumption
    <3>2. CASE j \in 1 .. Len(wire) /\ (wire \o p)[j] = wire[j]
      BY <2>2, <3>1, <3>2
    <3>3. CASE (wire \o p)[j] = <<m, j - Len(wire)>>
      BY <3>1, <3>3
    <3>4. QED
      BY <1>15, <3>2, <3>3
  <2>4. \A i \in 1 .. Len(sendlist') : sendlist'[i] \in Nat
    BY <1>11, StreamAssumption
  <2>5. \A i, j \in 1 .. Len(sendlist') : i < j => sendlist'[i] < sendlist'[j]
    <3>1. Len(sendlist) \in Nat
      BY <1>2
    <3>2. SUFFICES ASSUME NEW i \in 1 .. Len(sendlist'), NEW j \in 1 .. Len(sendlist'), i < j
                   PROVE  sendlist'[i] < sendlist'[j]
      OBVIOUS
    <3>3. i + 1 \in 1 .. Len(sendlist) /\ j + 1 \in 1 .. Len(sendlist) /\ i + 1 < j + 1
      BY <1>11, <3>1, <3>2
    <3>4. QED
      BY <2>1, <3>3 DEF Inv, Later
  <2>6. \A j \in 1 .. Len(wire \o p) : (wire \o p)[j][1] <= Len(length)
    BY <1>2, <2>3 DEF Inv, TypeOK
  <2>7. \A i \in 1 .. Len(sendlist') : \A j \in 1 .. Len(wire \o p) : (wire \o p)[j][1] < sendlist'[i]
    <3>1. m \in Nat
      BY <1>2, StreamAssumption
    <3>2. SUFFICES ASSUME NEW i \in 1 .. Len(sendlist'), NEW j \in 1 .. Len(wire \o p)
                   PROVE  (wire \o p)[j][1] < sendlist'[i]
      OBVIOUS
    <3>3. m < sendlist'[i] /\ sendlist'[i] \in Nat
      BY <2>1, <2>4
    <3>4. (wire \o p)[j][1] <= m /\ (wire \o p)[j][1] \in Nat
      BY <2>3
    <3>5. QED
      BY <3>1, <3>3, <3>4
  <2>8. QED
    BY <1>9, <1>12, <2>1, <2>5, <2>6, <2>7 DEF Later
<1>17. StreamFramed'
  <2>1. (wire \o p)[1][2] = 1
    <3>1. CASE wire = <<>>
      BY <1>3, <1>14, <3>1
    <3>2. CASE wire # <<>>
      BY <1>6, <1>7, <1>14, <3>2 DEF Inv, StreamFramed
    <3>3. QED
      BY <3>1, <3>2
  <2>2. (wire \o p)[Len(wire \o p)] = <<m, length[m]>>
    BY <1>3, <1>14
  <2>3. ASSUME NEW i \in 1 .. Len(wire \o p) - 1
        PROVE  Follows((wire \o p)[i], (wire \o p)[i + 1])
    <3>1. CASE i < Len(wire)
      <4>1. i \in 1 .. Len(wire) - 1 /\ i \in 1 .. Len(wire) /\ i + 1 \in 1 .. Len(wire) /\ wire # <<>>
        BY <1>6, <1>14, <3>1
      <4>2. (wire \o p)[i] = wire[i] /\ (wire \o p)[i + 1] = wire[i + 1]
        BY <1>14, <4>1
      <4>3. QED
        BY <1>7, <4>1, <4>2 DEF Inv, StreamFramed
    <3>2. CASE i = Len(wire)
      <4>1. /\ wire # <<>> /\ Len(wire) \in 1 .. Len(wire)
            /\ (wire \o p)[i] = wire[Len(wire)]
            /\ (wire \o p)[i + 1] = <<m, 1>>
        BY <1>3, <1>6, <1>14, <3>2
      <4>2. wire[Len(wire)][2] = length[wire[Len(wire)][1]]
        BY <1>7, <4>1 DEF Inv, StreamFramed
      <4>3. wire[Len(wire)][1] < m
        BY <1>2, <1>7, <4>1 DEF Inv, Later
      <4>4. QED
        BY <1>2, <4>1, <4>2, <4>3 DEF Follows
    <3>3. CASE i > Len(wire)
      <4>1. /\ i - Len(wire) \in 1 .. length[m] /\ i + 1 - Len(wire) \in 1 .. length[m]
            /\ Len(wire) + (i - Len(wire)) = i /\ Len(wire) + (i + 1 - Len(wire)) = i + 1
            /\ i + 1 - Len(wire) = (i - Len(wire)) + 1
        BY <1>3, <1>6, <1>14, <3>3
      <4>2. (wire \o p)[i] = <<m, i - Len(wire)>> /\ (wire \o p)[i + 1] = <<m, i + 1 - Len(wire)>>
        BY <1>14, <4>1
      <4>3. QED
        BY <4>1, <4>2 DEF Follows
    <3>4. QED
      BY <1>6, <1>14, <3>1, <3>2, <3>3
  <2>4. \A i \in 1 .. Len(wire \o p) - 1 :
          \/ (wire \o p)[i + 1][1] = (wire \o p)[i][1] /\ (wire \o p)[i + 1][2] = (wire \o p)[i][2] + 1
          \/ /\ (wire \o p)[i + 1][1] > (wire \o p)[i][1]
             /\ (wire \o p)[i + 1][2] = 1
             /\ (wire \o p)[i][2] = length[(wire \o p)[i][1]]
    BY <2>3 DEF Follows
  <2>5. QED
    BY <1>9, <1>12, <2>1, <2>2, <2>4 DEF StreamFramed, Follows
<1>18. QED
  BY <1>13, <1>16, <1>17 DEF Inv

(* A message that is dropped leaves the stream as it is.                   *)
LEMMA SendBlockedKeepsInv ==
  ASSUME Inv, SendBlocked
  PROVE  Inv'
<1>1. Stream' = Stream /\ length' = length
  BY DEF SendBlocked, Stream
<1>2. CASE wbuffer = <<>>
  <2>1. /\ sendlist' \in Seq(1 .. MaxMessages)
        /\ Len(sendlist') = Len(sendlist) - 1
        /\ \A i \in 1 .. Len(sendlist) - 1 : sendlist'[i] = sendlist[i + 1]
    BY <1>2 DEF SendBlocked, Inv, TypeOK
  <2>2. \A i \in 1 .. Len(sendlist') : i + 1 \in 1 .. Len(sendlist) /\ sendlist'[i] = sendlist[i + 1]
    BY <2>1 DEF Inv, TypeOK
  <2>3. \A i, j \in 1 .. Len(sendlist') : i < j => sendlist'[i] < sendlist'[j]
    <3>1. SUFFICES ASSUME NEW i \in 1 .. Len(sendlist'), NEW j \in 1 .. Len(sendlist'), i < j
                   PROVE  sendlist'[i] < sendlist'[j]
      OBVIOUS
    <3>2. i + 1 \in 1 .. Len(sendlist) /\ j + 1 \in 1 .. Len(sendlist) /\ i + 1 < j + 1
      BY <2>1, <2>2, <3>1 DEF Inv, TypeOK
    <3>3. QED
      BY <2>2, <3>2 DEF Inv, Later
  <2>4. Later'
    BY <1>1, <2>2, <2>3 DEF Inv, Later
  <2>5. QED
    BY <1>1, <2>1, <2>4 DEF SendBlocked, Inv, TypeOK, StreamFramed, Follows
<1>3. CASE wbuffer # <<>>
  BY <1>1, <1>3 DEF SendBlocked, Inv, TypeOK, Later, StreamFramed, Follows
<1>4. QED
  BY <1>2, <1>3

LEMMA InvStep == Inv /\ [Next]_vars => Inv'
<1> SUFFICES ASSUME Inv, [Next]_vars PROVE Inv'
  OBVIOUS
<1>1. ASSUME NEW n \in 1 .. MaxSize, Submit(n) PROVE Inv'
  BY <1>1, SubmitKeepsInv
<1>2. CASE Writable
  BY <1>2 DEF Writable, Inv, TypeOK, Later, StreamFramed, Follows, Stream
<1>3. CASE SendRest
  BY <1>3, SendRestKeepsInv
<1>4. CASE SendNext
  BY <1>4, SendNextKeepsInv
<1>5. CASE SendBlocked
  BY <1>5, SendBlockedKeepsInv
<1>6. CASE SendDone
  BY <1>6 DEF SendDone, Inv, TypeOK, Later, StreamFramed, Follows, Stream
<1>7. CASE SendError
  BY <1>7 DEF SendError, Inv, TypeOK, Later, StreamFramed, Follows, Stream
<1>8. CASE PeerReads
  <2>1. writable' \in BOOLEAN /\ nospace' \in BOOLEAN
    BY <1>8, Zenon DEF PeerReads, Inv, TypeOK
  <2>2. acked' \in Nat
    BY <1>8 DEF PeerReads, Inv, TypeOK
  <2>3. Later' /\ StreamFramed'
    BY <1>8 DEF PeerReads, Inv, Later, StreamFramed, Follows, Stream
  <2>4. QED
    BY <1>8, <2>1, <2>2, <2>3, Zenon DEF PeerReads, Inv, TypeOK, Byte
<1>9. CASE UNCHANGED vars
  BY <1>9 DEF vars, Inv, TypeOK, Later, StreamFramed, Follows, Stream
<1>10. QED
  BY <1>1, <1>2, <1>3, <1>4, <1>5, <1>6, <1>7, <1>8, <1>9 DEF Next, Flush

(* The variables keep their types: a rest kept in _wbuffer consists of     *)
(* bytes of submitted messages.                                            *)
THEOREM StreamTypeOK == Spec => []TypeOK
<1>1. Inv => TypeOK
  BY DEF Inv
<1>2. QED
  BY <1>1, InvInit, InvStep, PTL DEF Spec

(* However send() splits the writes and however often it would block, the  *)
(* peer can cut what it receives into the messages that were submitted,    *)
(* whole, in order and none twice.                                         *)
THEOREM StreamIsFramed == Spec => []StreamFramed
<1>1. Inv => StreamFramed
  BY DEF Inv
<1>2. QED
  BY <1>1, InvInit, InvStep, PTL DEF Spec
-----------------------------------------------------------------------------
(* The limits on a connection.                                             *)

(* Every slot of the ring holds at least what was received in each of the  *)
(* seconds that use it: it is never cleared.                               *)
RingCovers == \A t \in 0 .. second : received[t] <= count[t % Span]

(* Nothing was received after the last time stamp.                         *)
Stamped == \A t \in 0 .. MaxSeconds : t > lastSecond => received[t] = 0

LimitsInv == LimitsTypeOK /\ RingCovers /\ Stamped

(* The slot of a second is a slot.                                         *)
LEMMA SlotOfSecond == \A t \in Int : t % Span \in 0 .. Span - 1
BY LimitsAssumption

(* The units of a function with natural values are pairs.                  *)
LEMMA UnitOf ==
  ASSUME NEW f
  PROVE  \A u : u \in Units(f) <=> \E x \in DOMAIN f : \E k \in 1 .. f[x] : u = <<x, k>>
BY DEF Units

(* A finite function has finitely many.                                    *)
LEMMA UnitsFinite ==
  ASSUME NEW S, IsFiniteSet(S), NEW f \in [S -> Nat]
  PROVE  IsFiniteSet(Units(f))
<1> DEFINE part == [x \in S |-> {x} \X (1 .. f[x])]
           parts == {{x} \X (1 .. f[x]) : x \in S}
<1>1. part \in Surjection(S, parts)
  BY DEF Surjection
<1>2. IsFiniteSet(parts)
  BY <1>1, FS_Surjection
<1>3. ASSUME NEW T \in parts PROVE IsFiniteSet(T)
  <2>1. PICK x \in S : T = {x} \X (1 .. f[x])
    BY <1>3
  <2>2. IsFiniteSet({x}) /\ IsFiniteSet(1 .. f[x])
    <3>1. IsFiniteSet({x})
      BY FS_Singleton
    <3>2. 1 \in Int /\ f[x] \in Int
      OBVIOUS
    <3>3. IsFiniteSet(1 .. f[x])
      BY <3>2, FS_Interval
    <3>4. QED
      BY <3>1, <3>3
  <2>3. QED
    BY <2>1, <2>2, FS_Product
<1>4. Units(f) = UNION parts
  BY DEF Units
<1>5. QED
  BY <1>2, <1>3, <1>4, FS_UNION

(* A sum is at most another one whose terms, taken one for one, are at     *)
(* least as large.                                                         *)
LEMMA TotalAtMost ==
  ASSUME NEW S, NEW f \in [S -> Nat], NEW T, IsFiniteSet(T), NEW g \in [T -> Nat],
         NEW h \in [S -> T], \A x, y \in S : h[x] = h[y] => x = y,
         \A x \in S : f[x] <= g[h[x]]
  PROVE  Total(f) <= Total(g)
<1> DEFINE j == [u \in Units(f) |-> <<h[u[1]], u[2]>>]
<1>1. \A u \in Units(f) : u[1] \in S /\ u[2] \in 1 .. f[u[1]] /\ u = <<u[1], u[2]>>
  BY UnitOf
<1>2. \A u \in Units(f) : j[u] \in Units(g)
  <2>1. SUFFICES ASSUME NEW u \in Units(f) PROVE <<h[u[1]], u[2]>> \in Units(g)
    OBVIOUS
  <2>2. h[u[1]] \in T /\ u[2] \in 1 .. g[h[u[1]]]
    BY <1>1
  <2>3. QED
    BY <2>2, UnitOf
<1>3. \A u, v \in Units(f) : j[u] = j[v] => u = v
  BY <1>1
<1>4. j \in Injection(Units(f), Units(g))
  BY <1>2, <1>3 DEF Injection, IsInjective
<1>5. IsFiniteSet(Units(g))
  BY UnitsFinite
<1>6. Cardinality(Units(f)) <= Cardinality(Units(g))
  BY <1>4, <1>5, FS_Injection
<1>7. QED
  BY <1>6 DEF Total

(* A sum of zeros.                                                         *)
LEMMA TotalOfZeros ==
  ASSUME NEW S, NEW f \in [S -> Nat], \A x \in S : f[x] = 0
  PROVE  Total(f) = 0
<1>1. Units(f) = {}
  BY UnitOf
<1>2. QED
  BY <1>1, FS_EmptySet DEF Total

LEMMA LimitsInvInit == LimitsInit => LimitsInv
<1> SUFFICES ASSUME LimitsInit PROVE LimitsInv
  OBVIOUS
<1>1. LimitsTypeOK
  <2>1. MaxSeconds \in Nat
    BY LimitsAssumption
  <2>2. second \in 0 .. MaxSeconds /\ lastSecond \in 0 .. second
    BY <2>1 DEF LimitsInit
  <2>3. QED
    BY <2>2 DEF LimitsInit, LimitsTypeOK
<1>2. RingCovers
  BY LimitsAssumption, SlotOfSecond DEF LimitsInit, RingCovers
<1>3. Stamped
  BY DEF LimitsInit, Stamped
<1>4. QED
  BY <1>1, <1>2, <1>3 DEF LimitsInv

LEMMA LimitsInvStep == LimitsInv /\ [LimitsNext]_limVars => LimitsInv'
<1> SUFFICES ASSUME LimitsInv, [LimitsNext]_limVars PROVE LimitsInv'
  OBVIOUS
<1>0. /\ second \in 0 .. MaxSeconds /\ lastSecond \in 0 .. second /\ MaxSeconds \in Nat
      /\ count \in [0 .. Span - 1 -> Nat] /\ received \in [0 .. MaxSeconds -> Nat]
  BY LimitsAssumption DEF LimitsInv, LimitsTypeOK
<1>1. CASE SecondPasses
  <2>1. LimitsTypeOK' /\ Stamped'
    BY <1>0, <1>1 DEF SecondPasses, LimitsInv, LimitsTypeOK, Stamped
  <2>2. received[second + 1] = 0
    BY <1>0, <1>1 DEF SecondPasses, LimitsInv, Stamped
  <2>3. count[(second + 1) % Span] \in Nat
    <3>1. second + 1 \in Int
      BY <1>0
    <3>2. (second + 1) % Span \in 0 .. Span - 1
      BY <3>1, SlotOfSecond, Zenon
    <3>3. QED
      BY <1>0, <3>2
  <2>4. RingCovers'
    BY <1>0, <1>1, <2>2, <2>3 DEF SecondPasses, LimitsInv, RingCovers
  <2>5. QED
    BY <2>1, <2>4 DEF LimitsInv
<1>2. CASE receivedMessage
  <2>1. second % Span \in 0 .. Span - 1
    <3>1. second \in Int
      BY <1>0
    <3>2. QED
      BY <3>1, SlotOfSecond, Zenon
  <2>2. LimitsTypeOK'
    BY <1>0, <1>2, <2>1 DEF receivedMessage, LimitsInv, LimitsTypeOK
  <2>3. Stamped'
    BY <1>0, <1>2 DEF receivedMessage, LimitsInv, Stamped
  <2>4. RingCovers'
    <3>1. SUFFICES ASSUME NEW t \in 0 .. second PROVE received'[t] <= count'[t % Span]
      BY <1>2 DEF receivedMessage, RingCovers
    <3>2. t % Span \in 0 .. Span - 1 /\ received[t] <= count[t % Span]
      <4>1. t \in Int
        BY <1>0
      <4>2. t % Span \in 0 .. Span - 1
        BY <4>1, SlotOfSecond, Zenon
      <4>3. QED
        BY <4>2 DEF LimitsInv, RingCovers
    <3>3. count'[t % Span] = count[t % Span] + (IF t % Span = second % Span THEN 1 ELSE 0)
      BY <1>0, <1>2, <2>1, <3>2 DEF receivedMessage
    <3>4. received'[t] = received[t] + (IF t = second THEN 1 ELSE 0)
      BY <1>0, <1>2 DEF receivedMessage
    <3>5. QED
      BY <1>0, <3>2, <3>3, <3>4
  <2>5. QED
    BY <2>2, <2>3, <2>4 DEF LimitsInv
<1>3. CASE OtherEvent
  BY <1>3 DEF OtherEvent, LimitsInv, LimitsTypeOK, RingCovers, Stamped
<1>4. CASE checkSocket
  <2>1. /\ UNCHANGED <<second, count, lastSecond, received>> /\ awake' = FALSE
        /\ removed' \in {removed, "silence", "overflow", "no"}
    BY <1>4 DEF checkSocket
  <2>2. QED
    BY <2>1 DEF LimitsInv, LimitsTypeOK, RingCovers, Stamped
<1>5. CASE UNCHANGED limVars
  BY <1>5 DEF limVars, LimitsInv, LimitsTypeOK, RingCovers, Stamped
<1>6. QED
  BY <1>1, <1>2, <1>3, <1>4, <1>5 DEF LimitsNext

(* LimitsInv is an invariant.                                              *)
THEOREM LimitsInvariant == LimitsSpec => []LimitsInv
BY LimitsInvInit, LimitsInvStep, PTL DEF LimitsSpec

(* recentMessage is never less than what was received in the window, for   *)
(* any ring at least as long as the window, wherever the window lies in it *)
(* and however long the connection has been there: a connection over the   *)
(* threshold is noticed.                                                   *)
THEOREM RingNeverUndercounts == LimitsSpec => []NeverUndercounts
<1>1. LimitsInv => NeverUndercounts
  <2> SUFFICES ASSUME LimitsInv, Interval <= Span PROVE recentMessage >= Recent(Interval)
    BY DEF NeverUndercounts
  <2> DEFINE S == {u \in 0 .. second : second - u < Interval}
             f == [t \in S |-> received[t]]
             g == [n \in 0 .. Interval - 1 |-> count[(second - n) % Span]]
             h == [t \in S |-> second - t]
  <2>1. /\ second \in Nat /\ Interval \in Nat /\ MaxSeconds \in Nat /\ second <= MaxSeconds
        /\ count \in [0 .. Span - 1 -> Nat] /\ received \in [0 .. MaxSeconds -> Nat]
    BY LimitsAssumption DEF LimitsInv, LimitsTypeOK
  <2>2. f \in [S -> Nat]
    BY <2>1
  <2>3. g \in [0 .. Interval - 1 -> Nat]
    <3>1. \A n \in 0 .. Interval - 1 : (second - n) % Span \in 0 .. Span - 1
      <4>1. \A n \in 0 .. Interval - 1 : second - n \in Int
        BY <2>1
      <4>2. QED
        BY <4>1, SlotOfSecond, Zenon
    <3>2. QED
      BY <2>1, <3>1
  <2>4. h \in [S -> 0 .. Interval - 1]
    BY <2>1
  <2>5. \A x, y \in S : h[x] = h[y] => x = y
    BY <2>1
  <2>6. ASSUME NEW x \in S PROVE f[x] <= g[h[x]]
    <3>1. second - (second - x) = x /\ second - x \in 0 .. Interval - 1 /\ x \in 0 .. second
      BY <2>1
    <3>2. g[h[x]] = count[x % Span]
      BY <3>1
    <3>3. received[x] <= count[x % Span]
      BY <3>1 DEF LimitsInv, RingCovers
    <3>4. QED
      BY <3>2, <3>3
  <2>7. IsFiniteSet(0 .. Interval - 1)
    BY <2>1, FS_Interval
  <2> HIDE DEF S, f, g, h
  <2>8. Total(f) <= Total(g)
    BY <2>2, <2>3, <2>4, <2>5, <2>6, <2>7, TotalAtMost
  <2>9. Recent(Interval) = Total(f) /\ recentMessage = Total(g)
    BY DEF Recent, recentMessage, S, f, g
  <2>10. Total(f) \in Nat /\ Total(g) \in Nat
    <3>1. IsFiniteSet(S)
      <4>1. S \in SUBSET (0 .. second) /\ IsFiniteSet(0 .. second)
        <5>1. 0 \in Int /\ second \in Int
          BY <2>1
        <5>2. QED
          BY <5>1, FS_Interval DEF S
      <4>2. QED
        BY <4>1, FS_Subset
    <3>2. QED
      BY <2>2, <2>3, <2>7, <3>1, UnitsFinite, FS_CardinalityType DEF Total
  <2>11. QED
    BY <2>8, <2>9, <2>10
<1>2. QED
  BY <1>1, LimitsInvariant, PTL

(* checkSocket removes a connection for silence only if no message was     *)
(* received in the last Silence seconds, for any limit.                    *)
THEOREM LimitsSilenceIsReal == LimitsSpec => SilenceIsReal
<1>1. LimitsInv /\ [LimitsNext]_limVars =>
        [removed' = "silence" /\ removed = "no" => Recent(Silence) = 0]_limVars
  <2>1. SUFFICES ASSUME LimitsInv, LimitsNext, removed' = "silence", removed = "no"
                 PROVE  Recent(Silence) = 0
    OBVIOUS
  <2>2. checkSocket
    BY <2>1 DEF LimitsNext, SecondPasses, receivedMessage, OtherEvent
  <2>3. second - lastSecond >= Silence
    BY <2>1, <2>2 DEF checkSocket
  <2> DEFINE S == {u \in 0 .. second : second - u < Silence}
             f == [t \in S |-> received[t]]
  <2>4. /\ second \in Nat /\ lastSecond \in Nat /\ Silence \in Nat
        /\ second <= MaxSeconds /\ MaxSeconds \in Nat
        /\ received \in [0 .. MaxSeconds -> Nat]
    BY <2>1, LimitsAssumption DEF LimitsInv, LimitsTypeOK
  <2>5. \A t \in S : t \in 0 .. MaxSeconds /\ t > lastSecond
    BY <2>3, <2>4
  <2>6. f \in [S -> Nat] /\ \A t \in S : f[t] = 0
    BY <2>1, <2>4, <2>5 DEF LimitsInv, Stamped
  <2> HIDE DEF f, S
  <2>7. Total(f) = 0
    BY <2>6, TotalOfZeros
  <2>8. QED
    BY <2>7 DEF Recent, f, S
<1>2. QED
  BY <1>1, LimitsInvariant, PTL DEF LimitsSpec, SilenceIsReal
=============================================================================
