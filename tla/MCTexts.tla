------------------------------ MODULE MCTexts -------------------------------
(***************************************************************************)
(* What the codecs, digests and strings promise, over texts that reach     *)
(* their edges. TLC evaluates the assumptions of this module before it     *)
(* starts a run of a module that extends it.                               *)
(***************************************************************************)
EXTENDS Digests, Strings

Texts(bytes, n) == UNION {[1 .. k -> bytes] : k \in 0 .. n}
Of(n) == [i \in 1 .. n |-> (7 * i) % 256]

-----------------------------------------------------------------------------
(* Base 64.                                                                *)

(* What was encoded is decoded into a buffer of its size; a smaller one is *)
(* refused and told the size.                                              *)
ASSUME Base64Inverts ==
  \A s \in Texts({0, 1, 63, 128, 255}, 4) :
    LET text == Base64Encode(s)
    IN  /\ Base64Decode(text, Len(s))
             = [code |-> 0, olen |-> Len(s), dst |-> s]
        /\ \A dlen \in NoBuffer .. Len(s) - 1 :
             Base64Decode(text, dlen)
               = [code |-> TooSmall, olen |-> Len(s), dst |-> <<>>]

(* A group is decoded into no more bytes than it was measured for.         *)
ASSUME GroupsFit ==
  \A s \in [1 .. 4 -> {65, 98, 47, Pad, 42}] :
    Len(Base64Decode(s, 3).dst) <= 3 /\
    (OutLen(s) >= 0 => Len(Base64Decode(s, OutLen(s)).dst) <= OutLen(s))

-----------------------------------------------------------------------------
(* Frames.                                                                 *)

(* The frames the server sends are read back, one after the other, for     *)
(* lengths on both sides of each form of the length.                       *)
ASSUME FramesRead ==
  \A n \in {0, 1, 125, 126, 255, 256, 65535, 65536} :
    LET frame == ReadWsFrame(TextFrame(Of(n)) \o TextFrame(<<5>>))
    IN  /\ frame.opcode = 1 /\ frame.payload = Of(n)
        /\ frame.rest = TextFrame(<<5>>)

(* Reference: what a client sends. first holds the last-frame bit, 128,    *)
(* and the opcode.                                                         *)
ClientFrame(first, payload, key) ==
  <<first, 128 + Len(payload)>> \o key
    \o [i \in DOMAIN payload |-> Xor(payload[i], key[((i - 1) % 4) + 1])]

(* A client's mask is undone; a frame that is cut short is no frame.       *)
ASSUME MasksUndone ==
  \A payload \in {Of(n) : n \in 0 .. 6}, key \in {<<0, 255, 7, 129>>} :
    LET sent == ClientFrame(129, payload, key)
    IN  /\ ReadWsFrame(sent)
             = [opcode |-> 1, payload |-> payload, rest |-> <<>>]
        /\ \A n \in 0 .. Len(sent) - 1 :
             ReadWsFrame(SubSeq(sent, 1, n)) = NoFrame

(* A length that no message may have is refused, however it is written.    *)
ASSUME LongFramesRefused ==
  \A high \in {0, 1, 255} :
    ReadWsFrame(<<130, 127, high, 0, 0, 0, 255, 0, 0, 0>> \o Of(5)) = NoFrame

(* A ping between two messages is answered with its payload and disturbs   *)
(* neither; of a message in two frames the first alone arrives.            *)
ASSUME ConversationGoesOn ==
  LET key == <<1, 2, 3, 4>>
      stream == ClientFrame(129, <<10>>, key) \o ClientFrame(137, <<9>>, key)
                  \o ClientFrame(2, <<20>>, key)
                  \o ClientFrame(128, <<21>>, key)
                  \o ClientFrame(136, <<>>, key)
                  \o ClientFrame(129, <<30>>, key)
  IN  Conversation(stream) =
        [events |-> <<[type |-> 1, payload |-> <<10>>],
                      [type |-> 2, payload |-> <<20>>]>>,
         sent |-> PongFrame(<<9>>)]

-----------------------------------------------------------------------------
(* Digests.                                                                *)

Abc == <<97, 98, 99>>

(* The key dGhlIHNhbXBsZSBub25jZQ== of RFC 6455 is answered with           *)
(* s3pPLMBiTxaQ9kYGzzhZRbK+xOo=.                                           *)
ASSUME HandshakeAnswered ==
  WebsocketAcceptValue(<<100, 71, 104, 108, 73, 72, 78, 104, 98, 88, 66, 115,
                         90, 83, 66, 117, 98, 50, 53, 106, 90, 81, 61, 61>>)
    = <<115, 51, 112, 80, 76, 77, 66, 105, 84, 120, 97, 81, 57, 107, 89, 71,
        122, 122, 104, 90, 82, 98, 75, 43, 120, 79, 111, 61>>

(* The digest of abc in FIPS 180-4.                                        *)
ASSUME Sha256Known ==
  Sha256Finish(Sha256Update(Sha256Starts, Abc))
    = <<186, 120, 22, 191, 143, 1, 207, 234, 65, 65, 64, 222, 93, 174, 34, 35,
        176, 3, 97, 163, 150, 23, 122, 156, 180, 16, 255, 97, 242, 0, 21, 173>>

(* However a message is cut into pieces, the same blocks are compressed,   *)
(* and they are those of the padded message.                               *)
ASSUME PiecesJoin ==
  \A n \in {0, 1, 55, 56, 63, 64, 119, 120, 128} :
    \A k \in {0, 1, 55, 63, 64, 65} \cap 0 .. n :
      LET first == Sha256Update(Sha256Starts, SubSeq(Of(n), 1, k))
          both == Sha256Update(first, SubSeq(Of(n), k + 1, n))
      IN  /\ both = Sha256Update(Sha256Starts, Of(n))
          /\ Len(both.block) < 64
          /\ Sha256Pad(both).blocks = Blocks(Padded(Of(n)))

(* Reference: one bit at a time.                                           *)
CrcOfBits(data) ==
  LET bit(crc, k) == IF 0 \in crc
                     THEN Differ(Shr(crc, 1), Word(60856, 33568))
                     ELSE Shr(crc, 1)
      byte(crc, b) == FoldLeft(bit, Differ(crc, Word(0, b)), Counting(1, 8))
  IN  Not(FoldLeft(byte, Not({}), data))

(* The checksums of known texts, and of a text in two pieces.              *)
ASSUME ChecksumsKnown ==
  /\ Crc32(<<49, 50, 51, 52, 53, 54, 55, 56, 57>>, {}) = Word(52212, 14630)
  /\ Adler32(<<87, 105, 107, 105, 112, 101, 100, 105, 97>>, <<0, 1>>)
       = <<4582, 920>>
  /\ \A s \in Texts({0, 129, 255}, 2), t \in Texts({1, 254}, 1) :
       /\ Crc32(s \o t, {}) = CrcOfBits(s \o t)
       /\ Crc32(t, Crc32(s, {})) = Crc32(s \o t, {})
       /\ Adler32(t, Adler32(s, <<0, 1>>)) = Adler32(s \o t, <<0, 1>>)

-----------------------------------------------------------------------------
(* Strings.                                                                *)

SomeTexts == Texts({32, 97, 98}, 4)
SomeWords == Texts({97, 98}, 2) \ {<<>>}

(* Parts of a text put together are the text.                              *)
ASSUME PartsJoin ==
  \A s \in SomeTexts : \A i, j \in 0 .. Len(s) :
    /\ i < j => Substring(s, i, j) \o Substring(s, j, Missing)
                  = Substring(s, i, Missing)
    /\ RemoveFrom(s, i) \o Substring(s, i, Missing) = s
    /\ StartsWith(s, RemoveFrom(s, i))
    /\ EndsWith(s, Substring(s, i, Missing))

(* What is found stands there, and nowhere before.                         *)
ASSUME FoundIsFirst ==
  \A s \in SomeTexts, t \in SomeWords :
    LET i == IndexOf(s, t, 0)
    IN  /\ (i = Missing) <=> \A p \in SomeTexts : ~StartsWith(s, p \o t)
        /\ i # Missing => /\ Substring(s, i, i + Len(t)) = t
                          /\ IndexOf(RemoveFrom(s, i + Len(t) - 1), t, 0)
                               = Missing

(* Trimming leaves no blank at an end and loses nothing else.              *)
ASSUME TrimmedClean ==
  \A s \in SomeTexts :
    LET t == TrimBlanks(s)
    IN  /\ t # <<>> => ~IsBlank(t[1]) /\ ~IsBlank(Last(t))
        /\ SelectSeq(t, LAMBDA c : ~IsBlank(c))
             = SelectSeq(s, LAMBDA c : ~IsBlank(c))
        /\ TrimBlanks(t) = t

(* A match is replaced once, also when what replaces it holds a match.     *)
ASSUME ReplacedOnce ==
  \A s \in SomeTexts, t \in SomeWords :
    /\ ReplaceText(s, t, t) = s
    /\ LET marked == <<99>> \o t
       IN  ReplaceText(ReplaceText(s, t, marked), marked, <<>>)
             = ReplaceText(s, t, <<>>)
    /\ IndexOf(ReplaceText(s, t, <<99>>), t, 0) = Missing

(* Reading to the end gives back a text of seven-bit bytes; a byte 255     *)
(* reads like the end.                                                     *)
Reading(s) ==
  LET read[str \in [s : {s}, readPos : 0 .. Len(s)]] ==
        LET r == ReadString(str)
        IN  IF r.value = Missing THEN <<>> ELSE <<r.value>> \o read[r.str]
  IN  read[NewString(s)]
ASSUME ReadToTheEnd ==
  \A s \in Texts({0, 97, 127, 255}, 3) :
    Reading(s) = IF IndexOf(s, <<255>>, 0) = Missing THEN s
                 ELSE RemoveFrom(s, IndexOf(s, <<255>>, 0))

(* Writing and reading a stream take turns without losing a byte.          *)
ASSUME StreamInOrder ==
  \A s, t \in Texts({97, 98}, 2) \ {<<>>} :
    LET one == ReadStreamString(WriteStream(ClearStream, s))
        rest == WriteStream(one.stream, t)
    IN  /\ one.value = s[1]
        /\ Available(rest) = Len(s) + Len(t) - 1
        /\ PeekStream(rest) = (s \o t)[2]

(* A number is read up to the first byte that does not belong to it.       *)
ASSUME NumbersRead ==
  /\ ToInt(<<32, 45, 49, 50, 97>>) = -12
  /\ ToInt(<<43, 55>>) = 7
  /\ ToInt(<<45>>) = Throws /\ ToInt(<<>>) = Throws
=============================================================================
