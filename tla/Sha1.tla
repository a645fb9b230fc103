-------------------------------- MODULE Sha1 --------------------------------
(***************************************************************************)
(* The SHA1 class (src/src/sha/sha1.cpp): bytes are gathered in blocks, a  *)
(* full block is compressed into H, and Result pads the message.           *)
(*                                                                         *)
(* The compression function is not interpreted: H is the sequence of the   *)
(* blocks compressed into it.  The i-th byte of a message is the number i. *)
(* The code has BlockSize = 64 and two words of four bytes each for the    *)
(* length; here a word takes one place, and the words wrap at LowWords and *)
(* HighWords so that a small message reaches their limits.                 *)
(***************************************************************************)
EXTENDS Integers, Sequences, SequencesExt

CONSTANTS BlockSize, LowWords, HighWords, MaxChunk

ASSUME Sha1Assumption ==
  /\ {BlockSize, LowWords, HighWords, MaxChunk} \subseteq Nat \ {0}
  /\ BlockSize > 2

OneBit == -128   \* the octet 0x80 that ends a message; the bytes are positive
LengthPlaces == 2

VARIABLES
  Length_Low, Length_High,
  Message_Block,           \* the places of the block filled so far
  H,
  Computed, Corrupted,
  fed                      \* bytes given since Reset

shaVars == <<Length_Low, Length_High, Message_Block, H, Computed, Corrupted, fed>>

Sha1Init ==
  /\ Length_Low = 0 /\ Length_High = 0 /\ Message_Block = <<>> /\ H = <<>>
  /\ Computed = FALSE /\ Corrupted = FALSE /\ fed = 0

Reset ==
  /\ Length_Low' = 0 /\ Length_High' = 0 /\ Message_Block' = <<>> /\ H' = <<>>
  /\ Computed' = FALSE /\ Corrupted' = FALSE /\ fed' = 0

State == [low |-> Length_Low, high |-> Length_High, block |-> Message_Block, h |-> H, bad |-> Corrupted]

ProcessMessageBlock(s) == [s EXCEPT !.h = Append(@, s.block), !.block = <<>>]

(* One turn of the loop of Input, unless the message has become too long.  *)
InputByte(s, b) ==
  IF s.bad THEN s
  ELSE LET low == (s.low + 1) % LowWords
           high == IF low = 0 THEN (s.high + 1) % HighWords ELSE s.high
           t == [s EXCEPT !.low = low, !.high = high, !.block = Append(@, b), !.bad = (low = 0 /\ high = 0)]
       IN IF Len(t.block) = BlockSize THEN ProcessMessageBlock(t) ELSE t

Input(n) ==
  /\ n > 0
  /\ IF Computed \/ Corrupted
     THEN Corrupted' = TRUE /\ UNCHANGED <<Length_Low, Length_High, Message_Block, H>>
     ELSE LET s == FoldLeft(InputByte, State, [i \in 1..n |-> fed + i])
          IN /\ Length_Low' = s.low /\ Length_High' = s.high
             /\ Message_Block' = s.block /\ H' = s.h /\ Corrupted' = s.bad
  /\ fed' = IF Computed \/ Corrupted THEN fed ELSE fed + n
  /\ UNCHANGED Computed

Zeros(n) == [i \in 1..n |-> 0]
Fill(block, upto) == block \o Zeros(upto - Len(block))

(* Fault: the block is taken to be large enough one byte too long.         *)
PadMessageLate ==
  LET first == Append(Message_Block, OneBit)
      room == BlockSize - LengthPlaces
      s == IF Len(Message_Block) > room
           THEN ProcessMessageBlock([State EXCEPT !.block = Fill(first, BlockSize)]).h ELSE H
      last == IF Len(Message_Block) > room THEN <<>> ELSE first
  IN H' = Append(s, Fill(last, room) \o <<Length_High, Length_Low>>)

(* No room for the padding and the length: one more block.                 *)
PadMessage ==
  LET first == Append(Message_Block, OneBit)
      room == BlockSize - LengthPlaces
      full == Len(Message_Block) > room - 1
      blocks == IF full THEN ProcessMessageBlock([State EXCEPT !.block = Fill(first, BlockSize)]).h ELSE H
  IN H' = Append(blocks, Fill(IF full THEN <<>> ELSE first, room) \o <<Length_High, Length_Low>>)

Result ==
  /\ ~Corrupted
  /\ IF Computed THEN UNCHANGED <<H, Message_Block>> ELSE PadMessage /\ Message_Block' = <<>>
  /\ Computed' = TRUE
  /\ UNCHANGED <<Length_Low, Length_High, Corrupted, fed>>

Sha1Next == Reset \/ (\E n \in 1..MaxChunk : Input(n)) \/ Result

-----------------------------------------------------------------------------
(* The standard: the message, a one bit, the fewest zeros, the length.     *)
Padded(n) ==
  LET zeros == CHOOSE k \in 0..BlockSize - 1 : (n + 1 + k + LengthPlaces) % BlockSize = 0
  IN [i \in 1..n |-> i] \o <<OneBit>> \o Zeros(zeros) \o <<n \div LowWords, n % LowWords>>

(* However a message is cut into calls of Input, the blocks that reach the *)
(* compression function are those of the standard, and a message whose     *)
(* length does not fit has no digest.                                      *)
PaddedAsStandard ==
  Computed /\ ~Corrupted => FlattenSeq(H) = Padded(fed) /\ fed < LowWords * HighWords

=============================================================================
