------------------------------- MODULE Codecs -------------------------------
(***************************************************************************)
(* How bytes are put into text and into WebSocket frames: base64Encode and *)
(* the frames of WebSocketsServer.cpp, base64::encode of base64.h and the  *)
(* decoder of mbedtls/base64.h. Text is a sequence of bytes.               *)
(***************************************************************************)
EXTENDS Integers, Sequences, SequencesExt

CONSTANT MaxWsPayload (* MAX_WS_PAYLOAD                                    *)

ASSUME CodecsAssumption == MaxWsPayload \in Nat

Octet == 0 .. 255
Sextet == 0 .. 63
Pad == 61 (* =                                                             *)

(* The byte at i, zero behind the end.                                     *)
OctetAt(s, i) == IF i <= Len(s) THEN s[i] ELSE 0

-----------------------------------------------------------------------------
(* Base 64.                                                                *)

(* A .. Z a .. z 0 .. 9 + /                                                *)
Alphabet(v) ==
  IF v < 26 THEN v + 65
  ELSE IF v < 52 THEN v + 71
  ELSE IF v < 62 THEN v - 4
  ELSE IF v = 62 THEN 43 ELSE 47

(* The j-th symbol of the g-th group of three bytes.                       *)
Symbol(data, g, j) ==
  LET b(k) == OctetAt(data, 3 * (g - 1) + k)
  IN  IF j = 1 THEN Alphabet(b(1) \div 4)
      ELSE IF j = 2 THEN Alphabet(16 * (b(1) % 4) + (b(2) \div 16))
      ELSE IF 3 * (g - 1) + j > Len(data) + 1 THEN Pad
      ELSE IF j = 3 THEN Alphabet(4 * (b(2) % 16) + (b(3) \div 64))
      ELSE Alphabet(b(3) % 64)

Groups(n) == (n + 2) \div 3

Base64Encode(data) ==
  [i \in 1 .. 4 * Groups(Len(data)) |->
     Symbol(data, ((i - 1) \div 4) + 1, ((i - 1) % 4) + 1)]

(* The decoder's table: -2 for =, -1 for what base 64 does not use.        *)
Dec(c) ==
  IF c \in 65 .. 90 THEN c - 65
  ELSE IF c \in 97 .. 122 THEN c - 71
  ELSE IF c \in 48 .. 57 THEN c + 4
  ELSE IF c = 43 THEN 62
  ELSE IF c = 47 THEN 63
  ELSE IF c = Pad THEN -2 ELSE -1

SymbolAt(src, g, j) == src[4 * (g - 1) + j]

(* A group the decoder refuses: = may stand third and fourth only.         *)
InvalidGroup(src, g) ==
  \/ \E j \in {1, 2} : Dec(SymbolAt(src, g, j)) < 0
  \/ \E j \in {3, 4} : Dec(SymbolAt(src, g, j)) = -1

(* The bytes of one group. Four symbols with = third only are two bytes,   *)
(* the second of them made of what the table has for =.                    *)
GroupBytes(src, g) ==
  LET c(j) == Dec(SymbolAt(src, g, j))
      first == <<4 * c(1) + (c(2) \div 16)>>
      second == <<16 * (c(2) % 16) + (c(3) \div 4)>>
      third == <<64 * (c(3) % 4) + c(4)>>
  IN  first \o (IF SymbolAt(src, g, 3) = Pad THEN <<>> ELSE second)
            \o (IF SymbolAt(src, g, 4) = Pad THEN <<>> ELSE third)

(* Every = at the end counts, also where it is not part of a whole group.  *)
Padding(src) ==
  Len(src) - Max({0} \cup {i \in DOMAIN src : src[i] # Pad})
OutLen(src) == 3 * (Len(src) \div 4) - Padding(src)

TooSmall == -42
InvalidCharacter == -44
NoBuffer == -1

(* mbedtls_base64_decode: dlen is NoBuffer when dst is null; a length      *)
(* below zero is, as a size_t, more than any buffer has. What is behind    *)
(* the last whole group is left out.                                       *)
Base64Decode(src, dlen) ==
  LET groups == 1 .. Len(src) \div 4
      bytes == FlattenSeq([g \in groups |-> GroupBytes(src, g)])
  IN  IF dlen = NoBuffer \/ OutLen(src) < 0 \/ dlen < OutLen(src)
      THEN [code |-> TooSmall, olen |-> OutLen(src), dst |-> <<>>]
      ELSE IF \E g \in groups : InvalidGroup(src, g)
      THEN [code |-> InvalidCharacter, olen |-> 0, dst |-> <<>>]
      ELSE [code |-> 0, olen |-> Len(bytes), dst |-> bytes]

-----------------------------------------------------------------------------
(* Frames.                                                                 *)

(* size bytes of a number below 2^31, the highest first.                   *)
BigEndian(n, size) ==
  [i \in 1 .. size |->
     IF size - i > 3 THEN 0 ELSE (n \div 256^(size - i)) % 256]

(* sendWsTextFrame: a whole message, unmasked. TextHeader is what precedes *)
(* a message of n bytes.                                                   *)
TextHeader(n) ==
  IF n < 126 THEN <<129, n>>
  ELSE IF n <= 65535 THEN <<129, 126>> \o BigEndian(n, 2)
  ELSE <<129, 127>> \o BigEndian(n, 8)
TextFrame(message) == TextHeader(Len(message)) \o message

(* sendWsPongFrame: nothing at all for a long payload.                     *)
PongFrame(payload) ==
  IF Len(payload) < 126 THEN <<138, Len(payload)>> \o payload ELSE <<>>

(* Exclusive or of two bytes.                                              *)
Bit(n, k) == (n \div 2^k) % 2
Xor(a, b) ==
  FoldLeft(LAMBDA n, k : 2 * n + ((Bit(a, k) + Bit(b, k)) % 2), 0,
           <<7, 6, 5, 4, 3, 2, 1, 0>>)

(* The payload length behind the two header bytes: how many bytes it takes *)
(* and its value, MaxWsPayload + 1 when it is too large.                   *)
LengthBytes(h) == CASE h % 128 = 126 -> 2 [] h % 128 = 127 -> 8 [] OTHER -> 0
PayloadLength(h, bytes) ==
  IF LengthBytes(h) = 0 THEN h % 128
  ELSE FoldLeft(LAMBDA n, b : IF n > MaxWsPayload \div 256
                              THEN MaxWsPayload + 1 ELSE 256 * n + b,
                0, bytes)

(* readWsFrame on what a peer sends until it hangs up or falls silent. The *)
(* bit that tells the last frame of a message is dropped.                  *)
NoFrame == [opcode |-> -1, payload |-> <<>>, rest |-> <<>>]
ReadWsFrame(stream) ==
  LET has(n) == Len(stream) >= n
      h == stream[2]
      ext == LengthBytes(h)
      len == PayloadLength(h, SubSeq(stream, 3, 2 + ext))
      mask == IF h >= 128 THEN 4 ELSE 0
      data == 2 + ext + mask
      payload == SubSeq(stream, data + 1, data + len)
      masked(i) == Xor(payload[i], stream[data - 3 + ((i - 1) % 4)])
  IN  IF ~has(2) \/ ~has(2 + ext) \/ len > MaxWsPayload \/ ~has(data + len)
      THEN NoFrame
      ELSE [opcode |-> stream[1] % 16,
            payload |-> IF mask = 0 THEN payload
                        ELSE [i \in DOMAIN payload |-> masked(i)],
            rest |-> SubSeq(stream, data + len + 1, Len(stream))]

(* The connection thread: the events that a stream leads to, and what is   *)
(* sent back. Opcode 1 is text, 2 is binary, 8 the end, 9 a ping; the      *)
(* frames that continue a message, and pongs, are read and forgotten.      *)
Conversation(stream) ==
  LET from[n \in 0 .. Len(stream)] ==
        LET frame == ReadWsFrame(SubSeq(stream, Len(stream) - n + 1,
                                        Len(stream)))
            more == from[Len(frame.rest)]
        IN  IF frame.opcode \in {-1, 8} THEN [events |-> <<>>, sent |-> <<>>]
            ELSE [events |->
                    (IF frame.opcode \in {1, 2}
                     THEN <<[type |-> frame.opcode,
                             payload |-> frame.payload]>>
                     ELSE <<>>) \o more.events,
                  sent |->
                    (IF frame.opcode = 9 THEN PongFrame(frame.payload)
                     ELSE <<>>) \o more.sent]
  IN  from[Len(stream)]
=============================================================================
