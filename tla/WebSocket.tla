------------------------------ MODULE WebSocket ------------------------------
(***************************************************************************)
(* The WebSocket server (src/src/socket/WebSocketServer.cpp), on one       *)
(* connection: the splitter given to the SocketServer cuts the bytes that  *)
(* have arrived into packages, and receiveMessage interprets them.         *)
(*                                                                         *)
(* The bytes are the client's frames; `arrived` of them are in the read    *)
(* buffer.  A frame is its opcode, whether its flags are legal (RSV = 0,   *)
(* FIN = 1), whether it is masked, and the length of its payload.  The     *)
(* handshake has opcode GET, and its required headers are complete after   *)
(* RequiredBytes of its HandshakeBytes.                                    *)
(***************************************************************************)
EXTENDS Integers, Sequences, FiniteSets, SequencesExt

CONSTANTS
  Lengths,                        \* payload lengths
  RequiredBytes, HandshakeBytes,
  MaxFrames                       \* bound: frames the client sends

ASSUME WebSocketAssumption ==
  /\ Lengths \subseteq Nat /\ MaxFrames \in Nat
  /\ RequiredBytes \in 4..HandshakeBytes /\ HandshakeBytes \in Nat

VARIABLES
  stream,    \* frames sent and not yet taken off the buffer
  arrived,   \* bytes of them in the buffer
  taken,     \* frames cut off the buffer, in order
  wsGot,     \* what receiveMessage gave the application
  pongs,     \* PONG frames sent
  wsOpen,    \* the connection is not being closed
  lost       \* a package was cut that is not a frame

wsVars == <<stream, arrived, taken, wsGot, pongs, wsOpen, lost>>

Data == {"TEXT", "BINARY", "CONTINUE"}
Opcodes == Data \cup {"CLOSE", "PING", "PONG", "RESERVED"}
Frames ==
  {f \in [op : Opcodes, n : Lengths, mask : BOOLEAN, legal : BOOLEAN] :
     f.op # "TEXT" => f.n < 126 /\ f.mask /\ f.legal}
GET == [op |-> "GET", n |-> 0, mask |-> FALSE, legal |-> TRUE]

(* The extended length a client uses, and the bytes of a frame.            *)
Extended(n) == IF n < 126 THEN 0 ELSE IF n < 65536 THEN 2 ELSE 8
SizeOfFrame(f) ==
  IF f.op = "GET" THEN HandshakeBytes ELSE 2 + Extended(f.n) + (IF f.mask THEN 4 ELSE 0) + f.n
Waiting == FoldLeft(LAMBDA sum, f : sum + SizeOfFrame(f), 0, stream)

WsInit ==
  /\ stream = <<>> /\ arrived = 0 /\ taken = <<>>
  /\ wsGot = <<>> /\ pongs = 0 /\ wsOpen = TRUE /\ lost = FALSE

(* The client: the handshake first, then frames, not all of them legal.    *)
ClientFrame(f) ==
  /\ wsOpen /\ ~lost
  /\ Len(taken) + Len(stream) < MaxFrames
  /\ (f = GET) <=> (taken = <<>> /\ stream = <<>>)
  /\ stream' = Append(stream, f)
  /\ UNCHANGED <<arrived, taken, wsGot, pongs, wsOpen, lost>>

(* The network delivers some bytes: up to a boundary of the first frame,   *)
(* one byte less or more, or all of them.                                  *)
Boundaries ==
  LET f == Head(stream)
  IN {1, 2, 3, 4, 6, 8, 10, 14, RequiredBytes, SizeOfFrame(f) - 1, SizeOfFrame(f), SizeOfFrame(f) + 1, Waiting}

Deliver ==
  /\ wsOpen /\ ~lost /\ stream # <<>>
  /\ arrived' \in {b \in Boundaries : arrived < b /\ b <= Waiting}
  /\ UNCHANGED <<stream, taken, wsGot, pongs, wsOpen, lost>>

-----------------------------------------------------------------------------
(* The splitter: -1 refuses, 0 waits, a length cuts.                       *)

(* What the reader makes of the length: ntohs of the two bytes; of the     *)
(* eight, ntohl keeps the upper half.                                      *)
LengthRead(n) == IF n < 65536 THEN n ELSE (n \div 65536) \div 65536

(* Fault: the mask's bytes are not counted.                                *)
parsePackageUnmasked(f, len) ==
  LET offset == 2 + Extended(f.n)
  IN CASE len < 2 -> 0 [] ~f.legal -> -1 [] len < offset + LengthRead(f.n) -> 0
       [] OTHER -> offset + LengthRead(f.n)

parsePackage(f, len) ==
  LET offset == 2 + Extended(f.n) + (IF f.mask THEN 4 ELSE 0)
  IN CASE len < 2 -> 0 [] ~f.legal -> -1 [] len < offset + LengthRead(f.n) -> 0
       [] OTHER -> offset + LengthRead(f.n)

(* The required headers are enough, and then all that is there is taken.   *)
parse_handshake_request(len) == IF len < RequiredBytes THEN 0 ELSE len

(* `GET' needs three bytes; the first two are a frame with RSV1 set.       *)
Splitter(f, len) ==
  IF f.op # "GET" THEN parsePackage(f, len)
  ELSE IF len >= 3 THEN parse_handshake_request(len)
  ELSE parsePackage([GET EXCEPT !.legal = FALSE], len)

-----------------------------------------------------------------------------
Forwarded(f) == f.op \in Data \cup {"GET"}

(* The worker cuts a package and receiveMessage handles it: the handshake  *)
(* and data are handed over, a ping is answered, and a close or an unknown *)
(* opcode closes the connection.                                           *)
WsReceive ==
  LET f == Head(stream)
      cut == Splitter(f, arrived)
  IN /\ wsOpen /\ ~lost /\ stream # <<>> /\ cut # 0
     /\ IF cut = SizeOfFrame(f)
        THEN /\ stream' = Tail(stream) /\ arrived' = arrived - cut
             /\ taken' = Append(taken, f)
             /\ wsGot' = IF Forwarded(f) THEN Append(wsGot, f) ELSE wsGot
             /\ pongs' = pongs + (IF f.op = "PING" THEN 1 ELSE 0)
             /\ wsOpen' = (f.op \notin {"CLOSE", "RESERVED"})
             /\ UNCHANGED lost
        ELSE /\ wsOpen' = (cut # -1) /\ lost' = (cut # -1)
             /\ UNCHANGED <<stream, arrived, taken, wsGot, pongs>>

WsNext == ClientFrame(GET) \/ (\E f \in Frames : ClientFrame(f)) \/ Deliver \/ WsReceive

-----------------------------------------------------------------------------
(* Where the frames with these opcodes are among the ones cut.             *)
Places(ops) == {i \in DOMAIN taken : taken[i].op \in ops}

(* A wrong cut or a refusal: only at a payload of 64 KB or more, a frame   *)
(* that is not legal, or a handshake that was not alone and whole.         *)
CutsFrames ==
  LET f == Head(stream)
  IN lost \/ (~wsOpen /\ (taken = <<>> \/ taken[Len(taken)].op \notin {"CLOSE", "RESERVED"})) =>
       f.n >= 65536 \/ ~f.legal \/ (f.op = "GET" /\ arrived # HandshakeBytes)

(* Each frame for the application is at its rank among them.               *)
ForwardsInOrder ==
  LET sent == Places(Data \cup {"GET"})
  IN /\ Len(wsGot) = Cardinality(sent)
     /\ \A i \in sent : wsGot[Cardinality({j \in sent : j <= i})] = taken[i]

AnswersPings == pongs = Cardinality(Places({"PING"}))

(* The server loses its place in the stream, or refuses a legal client,    *)
(* only on a payload of 64 KB or more or on a handshake that was not in    *)
(* the buffer exactly whole: however else the bytes are cut, packages are  *)
(* frames, the application gets the handshake and the data frames in the   *)
(* order they were sent, and every ping has had its pong.                  *)
KeepsItsPlace == CutsFrames /\ ForwardsInOrder /\ AnswersPings
=============================================================================
