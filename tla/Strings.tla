------------------------------ MODULE Strings -------------------------------
(***************************************************************************)
(* String (WString.h) and StreamString (StreamString.h): Arduino's classes *)
(* on top of std::string. Text is a sequence of bytes, positions count     *)
(* from 0 as in the code. A String also keeps how far it was read.         *)
(***************************************************************************)
EXTENDS Integers, Sequences, SequencesExt

Missing == -1 (* npos as an int; also: no end, nothing to read             *)

(* A String that was read so far.                                          *)
NewString(s) == [s |-> s, readPos |-> 0]

(* operator=: the reading goes on where it was.                            *)
Assign(str, text) == [str EXCEPT !.s = text]

(* operator+=, concat and write of a String, or of bytes and their number  *)
Appended(s, t) == s \o t

(* What const char * sees of a text; concatenation with + goes through it. *)
CStr(s) ==
  LET zeros == {i \in DOMAIN s : s[i] = 0}
  IN  IF zeros = {} THEN s ELSE SubSeq(s, 1, Min(zeros) - 1)
Joined(s, t) == s \o CStr(t)

(* std::string::find                                                       *)
MatchesAt(s, t, pos) == SubSeq(s, pos + 1, pos + Len(t)) = t
IndexOf(s, t, pos) ==
  LET found == {i \in pos .. Len(s) - Len(t) : MatchesAt(s, t, i)}
  IN  IF found = {} THEN Missing ELSE Min(found)
LastIndexOf(s, c) ==
  Max({Missing} \cup {i \in 0 .. Len(s) - 1 : s[i + 1] = c})
StartsWith(s, t) == IndexOf(s, t, 0) = 0
EndsWith(s, t) == Len(s) >= Len(t) /\ MatchesAt(s, t, Len(s) - Len(t))

(* to - from is unsigned: an end before the start is no end at all.        *)
Substring(s, from, to) ==
  IF from >= Len(s) THEN <<>>
  ELSE IF to = Missing \/ to < from THEN SubSeq(s, from + 1, Len(s))
  ELSE SubSeq(s, from + 1, Min({to, Len(s)}))

CharAt(s, i) == IF i < Len(s) THEN s[i + 1] ELSE 0

IsBlank(c) == c \in {32, 9, 10, 13}
TrimBlanks(s) ==
  LET kept == {i \in DOMAIN s : ~IsBlank(s[i])}
  IN  IF kept = {} THEN <<>> ELSE SubSeq(s, Min(kept), Max(kept))

ReplaceChar(s, c, d) == [i \in DOMAIN s |-> IF s[i] = c THEN d ELSE s[i]]

(* What replaced a match is not looked at again.                           *)
ReplaceText(s, find, with) ==
  LET f == CStr(find)
      from[pos \in 0 .. Len(s)] ==
        LET i == IndexOf(s, f, pos)
        IN  IF i = Missing THEN SubSeq(s, pos + 1, Len(s))
            ELSE SubSeq(s, pos + 1, i) \o CStr(with) \o from[i + Len(f)]
  IN  IF f = <<>> THEN s ELSE from[0]

RemoveFrom(s, offset) == SubSeq(s, 1, Min({offset, Len(s)}))

(* std::stoi: blanks, a sign, digits; without digits it throws, and nobody *)
(* catches.                                                                *)
Throws == "throws"
IsNumeral(c) == c \in 48 .. 57
ToInt(s) ==
  LET start == Min({Len(s) + 1} \cup
                   {i \in DOMAIN s : s[i] # 32 /\ s[i] \notin 9 .. 13})
      signed == start <= Len(s) /\ s[start] \in {43, 45}
      first == IF signed THEN start + 1 ELSE start
      after == Min({Len(s) + 1} \cup
                   {i \in first .. Len(s) : ~IsNumeral(s[i])})
      value == FoldLeft(LAMBDA n, c : 10 * n + c - 48, 0,
                        SubSeq(s, first, after - 1))
  IN  IF after <= first THEN Throws
      ELSE IF signed /\ s[start] = 45 THEN -value ELSE value

(* A char as an int: the upper half of the bytes is negative.              *)
SignedChar(c) == IF c > 127 THEN c - 256 ELSE c

(* String::read                                                            *)
ReadString(str) ==
  IF str.readPos < Len(str.s)
  THEN [value |-> SignedChar(str.s[str.readPos + 1]),
        str |-> [str EXCEPT !.readPos = @ + 1]]
  ELSE [value |-> Missing, str |-> str]

-----------------------------------------------------------------------------
(* StreamString: written at the end, read from a position of its own.      *)

NewStream(s) == [buffer |-> s, position |-> 0]
WriteStream(stream, bytes) == [stream EXCEPT !.buffer = @ \o bytes]
Available(stream) == Len(stream.buffer) - stream.position
PeekStream(stream) ==
  IF stream.position < Len(stream.buffer)
  THEN SignedChar(CharAt(stream.buffer, stream.position)) ELSE Missing
ReadStreamString(stream) ==
  [value |-> PeekStream(stream),
   stream |-> IF stream.position < Len(stream.buffer)
              THEN [stream EXCEPT !.position = @ + 1] ELSE stream]
ClearStream == NewStream(<<>>)
=============================================================================
