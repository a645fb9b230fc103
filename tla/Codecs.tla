------------------------------- MODULE Codecs -------------------------------
(***************************************************************************)
(* Pure functions of the library, each against what it should compute:     *)
(* base64 (src/src/base64/base64.cpp); isUTF8String and the DES functions  *)
(* of src/src/tools/Tools.cpp; and the HTTP request parser                 *)
(* (src/src/tools/HttpParser.cpp).                                         *)
(*                                                                         *)
(* `text` is the input of the function `codec` names, and grows by pieces  *)
(* of that function's alphabet: every text of MaxPieces[codec] is tried.   *)
(***************************************************************************)
EXTENDS Integers, Sequences, SequencesExt

CONSTANTS
  MaxPieces,  \* bound: pieces of a text, for each function
  DesBlock    \* bytes in a block of the cipher (8)

VARIABLES codec, text, pieces

codecVars == <<codec, text, pieces>>

(* Bytes that matter to each function.  For UTF-8: the first bytes on both *)
(* sides of every test, and the ends of the two halves of the continuation *)
(* bytes, which tell a shortest form from an overlong one after E0 and F0, *)
(* a character from a surrogate after ED, and Unicode from what is above   *)
(* it after F4.                                                            *)
RequestLine == <<"GET", " ", "/", " ", "1", "\r", "\n">>
LengthHeader == RequestLine \o <<"Content-Length", ":">>
Alphabet == [base64 |-> {<<0>>, <<63>>, <<129>>, <<255>>},
             utf8   |-> {<<b>> : b \in {65, 128, 160, 192, 195, 224, 237, 240, 244, 247, 255}},
             des    |-> {<<1>>, <<2>>},
             http   |-> {<<" ">>, <<":">>, <<"Content-Length">>, <<"2">>, <<"-">>, <<"\r">>, <<"\r", "\n">>}]

ASSUME CodecsAssumption == MaxPieces \in [DOMAIN Alphabet -> Nat] /\ DesBlock \in Nat \ {0}

CodecsInit ==
  /\ codec \in DOMAIN Alphabet
  /\ text \in (IF codec = "http" THEN {<<>>, RequestLine, LengthHeader, LengthHeader \o <<"-">>,
                                           LengthHeader \o <<"2", "\r", "\n">>}
               ELSE {<<>>})
  /\ pieces = 0

CodecsNext ==
  /\ pieces < MaxPieces[codec]
  /\ pieces' = pieces + 1
  /\ \E p \in Alphabet[codec] : text' = text \o p
  /\ UNCHANGED codec

At(s, i, default) == IF i \in DOMAIN s THEN s[i] ELSE default
Ceiling(n, d) == (n + d - 1) \div d
Groups(s, size, of(_)) == FlattenSeq([g \in 1..Ceiling(Len(s), size) |-> of((g - 1) * size)])

-----------------------------------------------------------------------------
(* base64; a digit is its value, `=' is 64.                                *)

(* The four digits of the three bytes after the first i.                   *)
Digits(s, i) ==
  LET a == At(s, i + 1, 0)
      b == At(s, i + 2, 0)
      c == At(s, i + 3, 0)
  IN <<a \div 4, ((a % 4) * 16) + (b \div 16), ((b % 16) * 4) + (c \div 64), c % 64>>

(* Fault: one digit too few for the bytes that are left.                   *)
DigitsLeftShort(n) == IF n >= 3 THEN 4 ELSE n

DigitsLeft(n) == IF n >= 3 THEN 4 ELSE n + 1

base64_encode(s) ==
  Groups(s, 3, LAMBDA i :
    LET n == DigitsLeft(Len(s) - i)
    IN SubSeq(Digits(s, i), 1, n) \o [k \in 1..4 - n |-> 64])

(* The three bytes of four digits, of which one less than there are count. *)
base64_decode(e) ==
  LET s == SelectSeq(e, LAMBDA d : d # 64)
  IN Groups(s, 4, LAMBDA i :
       LET a == s[i + 1]
           b == At(s, i + 2, 0)
           c == At(s, i + 3, 0)
           d == At(s, i + 4, 0)
           left == IF Len(s) - i >= 4 THEN 4 ELSE Len(s) - i
       IN SubSeq(<<((a * 4) % 256) + (b \div 16), ((b % 16) * 16) + (c \div 4), ((c % 4) * 64) + d>>, 1, left - 1))

-----------------------------------------------------------------------------
(* isUTF8String.                                                           *)
Bit(c, b) == (c \div b) % 2 = 1

(* Bytes that must follow a first byte; -1 when it is refused.             *)
Following(s, i) ==
  LET c == s[i]
  IN CASE c <= 127 -> 0
       [] c \in 192..223 -> 1
       [] c = 237 /\ i < Len(s) /\ Bit(s[i + 1], 128) /\ Bit(s[i + 1], 32) -> -1
       [] c \in 224..239 -> 2
       [] c \in 240..247 -> 3
       [] OTHER -> -1

(* Fault: a character may be cut off at the end.                           *)
ContinuedOrCut(s, i) == i > Len(s) \/ s[i] \in 128..191

Continued(s, i) == i <= Len(s) /\ s[i] \in 128..191

isUTF8String(s) ==
  LET legal[i \in 1..Len(s) + 4] ==
        IF i > Len(s) THEN TRUE
        ELSE LET n == Following(s, i)
             IN n >= 0 /\ (\A j \in 1..n : Continued(s, i + j)) /\ legal[i + n + 1]
  IN legal[1]

(* The characters of the standard over the bytes of the alphabet, in their *)
(* shortest form; the forms that are longer than they need be; and what is *)
(* above U+10FFFF.                                                         *)
Tails == {128, 160}
Characters ==
  {<<65>>} \cup {<<195, x>> : x \in Tails}
    \cup {<<224, 160, x>> : x \in Tails} \cup {<<237, 128, x>> : x \in Tails}
    \cup {<<240, 160, x, y>> : x, y \in Tails} \cup {<<244, 128, x, y>> : x, y \in Tails}
Overlong ==
  {<<192, x>> : x \in Tails} \cup {<<224, 128, x>> : x \in Tails} \cup {<<240, 128, x, y>> : x, y \in Tails}
AboveUnicode ==
  {<<244, 160, x, y>> : x, y \in Tails} \cup {<<247, x, y, z>> : x, y, z \in Tails}

(* s is a row of members of chars.                                         *)
MadeOf(s, chars) ==
  LET ends[i \in 0..Len(s)] ==
        i = 0 \/ \E c \in chars : Len(c) <= i /\ SubSeq(s, i - Len(c) + 1, i) = c /\ ends[i - Len(c)]
  IN ends[Len(s)]

(* What isUTF8String accepts: all UTF-8, and besides it only overlong      *)
(* forms and values above U+10FFFF.  No lone, missing or cut continuation  *)
(* byte and no surrogate passes.                                           *)
Utf8UpToRange == codec = "utf8" => (isUTF8String(text) <=> MadeOf(text, Characters \cup Overlong \cup AboveUnicode))

-----------------------------------------------------------------------------
(* The DES functions: a block is enciphered as a whole, the last one       *)
(* filled with zeros.  The cipher is a pair of inverse functions of a      *)
(* block: here a shift of the bytes.                                       *)
Encipher(b) == [i \in DOMAIN b |-> (b[i] + 100) % 256]
Decipher(b) == [i \in DOMAIN b |-> (b[i] + 156) % 256]

BlockCount(n) == n \div DesBlock + (IF n % DesBlock = 0 THEN 0 ELSE 1)

Blocks(s, cipher(_)) ==
  FlattenSeq([g \in 1..BlockCount(Len(s)) |-> cipher([k \in 1..DesBlock |-> At(s, (g - 1) * DesBlock + k, 0)])])

openssl_des_encrypt(s) == Blocks(s, Encipher)
openssl_des_decrypt(s) == Blocks(s, Decipher)

(* What is encoded is decoded again: base64 to the byte, with four digits  *)
(* for every three bytes begun; DES followed by the zeros that filled the   *)
(* last block, which stay.                                                 *)
RoundTrip ==
  LET digits == base64_encode(text)
      back == openssl_des_decrypt(openssl_des_encrypt(text))
  IN /\ codec = "base64" => /\ base64_decode(digits) = text
                           /\ Len(digits) = 4 * Ceiling(Len(text), 3)
     /\ codec = "des" => IsPrefix(text, back) /\ Len(back) = DesBlock * Ceiling(Len(text), DesBlock)

-----------------------------------------------------------------------------
(* HttpParser::parse: the request line, the headers up to an empty line,   *)
(* and the length of the body; 0 asks for more data, -1 refuses.           *)
ParserStart == [ps |-> "method", prev |-> "", name |-> <<>>, value |-> <<>>, headers |-> <<>>, nread |-> 0]

Newline(p, c) == c = "\n" /\ p.prev = "\r"

(* One turn of the loops.  A line without a colon ends the headers.        *)
ParseChar(p, c) ==
  LET q == [p EXCEPT !.prev = c, !.nread = @ + 1]
  IN CASE p.ps = "method" -> [q EXCEPT !.ps = IF c = " " THEN "url" ELSE @]
       [] p.ps = "url" -> [q EXCEPT !.ps = IF c = " " THEN "version" ELSE @]
       [] p.ps = "version" -> [q EXCEPT !.ps = IF Newline(p, c) THEN "name" ELSE @]
       [] p.ps = "name" -> IF Newline(p, c) THEN [q EXCEPT !.ps = "done"]
                           ELSE IF c = ":" THEN [q EXCEPT !.ps = "value", !.value = <<>>]
                           ELSE [q EXCEPT !.name = Append(@, c)]
       [] p.ps = "value" -> IF Newline(p, c)
                            THEN [q EXCEPT !.ps = IF \E h \in Range(p.headers) : h.name = p.name
                                                  THEN "duplicate" ELSE "name",
                                           !.headers = Append(@, [name |-> p.name, value |-> Front(p.value)]),
                                           !.name = <<>>]
                            ELSE [q EXCEPT !.value = Append(@, c)]
       [] OTHER -> p

(* std::stol of the header's value: white space, a sign, digits (the       *)
(* alphabet has one, and no finished header more than two of it); the      *)
(* empty set when it throws.                                               *)
Stol(v) ==
  LET seen == {i \in DOMAIN v : v[i] \notin {" ", "\r"}}
      word == IF seen = {} THEN <<>> ELSE SubSeq(v, Min(seen), Len(v))
      minus == word # <<>> /\ Head(word) = "-"
      digits == IF minus THEN Tail(word) ELSE word
      value == IF Len(digits) > 1 /\ digits[2] = "2" THEN 22 ELSE 2
  IN IF digits = <<>> \/ Head(digits) # "2" THEN {} ELSE {IF minus THEN -value ELSE value}

(* Fault: the body is not waited for.                                      *)
BodyAtOnce(nread, length, len) == nread + length

(* The signed length is added to a size_t: a sum below zero wraps to one   *)
(* that no data reaches.                                                   *)
Body(nread, length, len) == IF nread + length < 0 \/ len < nread + length THEN 0 ELSE nread + length

(* The parser after s, and the lengths its Content-Length header gives.    *)
Parsed(s) ==
  LET after[i \in 0..Len(s)] == IF i = 0 THEN ParserStart ELSE ParseChar(after[i - 1], s[i])
  IN after[Len(s)]
LengthHeaders(p) == {h \in Range(p.headers) : h.name = <<"Content-Length">>}
ContentLength(p) == UNION {Stol(h.value) : h \in LengthHeaders(p)}

HttpParse(s) ==
  LET p == Parsed(s)
  IN CASE p.ps = "duplicate" -> -1
       [] p.ps # "done" -> 0
       [] LengthHeaders(p) = {} -> p.nread
       [] ContentLength(p) = {} -> -1
       [] OTHER -> Body(p.nread, CHOOSE n \in ContentLength(p) : TRUE, Len(s))

(* Where a request ends does not depend on how its bytes are cut, unless   *)
(* its Content-Length is negative: every shorter beginning asks for more,  *)
(* and what follows it is left alone.  A negative length puts the end back *)
(* into the headers, or before the first byte, where it is never reached.  *)
RequestEndsOnce ==
  codec = "http" =>
    LET n == HttpParse(text)
        p == Parsed(text)
    IN IF p.ps = "done" /\ (\E l \in ContentLength(p) : l < 0)
       THEN n < p.nread
       ELSE n > 0 => /\ n <= Len(text) /\ HttpParse(SubSeq(text, 1, n)) = n
                     /\ \A k \in 0..n - 1 : HttpParse(SubSeq(text, 1, k)) = 0
=============================================================================
